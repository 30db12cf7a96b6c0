----------------------------- MODULE TrendRadar -----------------------------
(***************************************************************************)
(* The weekly radar: a fetch (the Monday job or the manual route) asks the *)
(* agent for its hot picks and writes a snapshot, even if the agent fails; *)
(* the trends page reads the newest two and shows what is new, what was    *)
(* dropped and what stayed.  A pick may be malformed.                      *)
(***************************************************************************)
EXTENDS Integers, Sequences

CONSTANTS
  Fetches,    \* the job and manual requests
  Picks,      \* picks by symbol and horizon
  Malformed,  \* those that do not validate
  MaxPicks,   \* bound: length of a list
  MaxRows     \* bound: snapshots

ASSUME RadarAssumption == Malformed \subseteq Picks /\ MaxPicks \in Nat /\ MaxRows \in Nat

VARIABLES
  snapshots,  \* the raw lists in gordon_snapshots, oldest first
  fetch,      \* what each fetch holds
  page        \* the trends page as last shown

radarVars == <<snapshots, fetch, page>>

Lists == UNION {[1..n -> Picks] : n \in 0..MaxPicks}

Waiting == [pc |-> "waiting"]
NoPage  == [pc |-> "none"]
Failed  == [pc |-> "failed"]

Diffs == [pc : {"diff"}, now : Lists, before : Lists, new : Lists, dropped : Lists, unchanged : Lists]

Keys(picks) == {picks[i] : i \in 1..Len(picks)}

\* The three lists of a page say how last week's picks became this week's: each is
\* new or unchanged, never both, and last week's are those dropped and those kept.
Partitions(diff) ==
  /\ Keys(diff.new) = Keys(diff.now) \ Keys(diff.before)
  /\ Keys(diff.unchanged) = Keys(diff.now) \cap Keys(diff.before)
  /\ Keys(diff.dropped) = Keys(diff.before) \ Keys(diff.now)
  /\ Len(diff.new) + Len(diff.unchanged) = Len(diff.now)

RadarTypeOK ==
  /\ snapshots \in Seq(Lists)
  /\ fetch \in [Fetches -> {Waiting} \cup [pc : {"got"}, picks : Lists]]
  /\ page \in {NoPage, Failed} \cup Diffs
  /\ page.pc = "diff" => Partitions(page)

RadarInit ==
  /\ snapshots = << >>
  /\ fetch = [f \in Fetches |-> Waiting]
  /\ page = NoPage

------------------------------------------------------------------------------

\* The agent's list; an empty one if it is absent, fails or answers with an error.
FetchRadar(f) ==
  /\ fetch[f] = Waiting
  /\ \E picks \in Lists : fetch' = [fetch EXCEPT ![f] = [pc |-> "got", picks |-> picks]]
  /\ UNCHANGED <<snapshots, page>>

\* Each pick is validated on its own, and the raw list is what is written.
StoredPicks(picks) == picks

PersistSnapshot(f) ==
  /\ fetch[f].pc = "got"
  /\ Len(snapshots) < MaxRows
  /\ snapshots' = Append(snapshots, StoredPicks(fetch[f].picks))
  /\ fetch' = [fetch EXCEPT ![f] = Waiting]
  /\ UNCHANGED page

PersistFails(f) ==
  /\ fetch[f].pc = "got"
  /\ fetch' = [fetch EXCEPT ![f] = Waiting]
  /\ UNCHANGED <<snapshots, page>>

\* A row is read back whole or not at all.
Readable(row) == Keys(row) \cap Malformed = {}

\* The picks of a list that are among some keys, in their order.
Among(picks, keys) ==
  LET first[n \in 0..Len(picks)] ==
        IF n = 0 THEN << >>
        ELSE IF picks[n] \in keys THEN Append(first[n - 1], picks[n]) ELSE first[n - 1]
  IN first[Len(picks)]

\* By symbol and horizon; without picks last week every pick is new.
Diff(now, before) ==
  IF before = << >>
  THEN [new |-> now, dropped |-> << >>, unchanged |-> << >>]
  ELSE [new       |-> Among(now, Picks \ Keys(before)),
        dropped   |-> Among(before, Picks \ Keys(now)),
        unchanged |-> Among(now, Keys(before))]

\* The newest snapshot against the one before it.
ShowTrends ==
  /\ snapshots # << >>
  /\ LET n      == Len(snapshots)
         newest == {snapshots[i] : i \in {j \in 1..n : j >= n - 1}}
         now    == snapshots[n]
         before == IF n = 1 THEN << >> ELSE snapshots[n - 1]
         d      == Diff(now, before)
     IN page' = IF \E row \in newest : ~Readable(row) THEN Failed
                ELSE [pc |-> "diff", now |-> now, before |-> before,
                      new |-> d.new, dropped |-> d.dropped, unchanged |-> d.unchanged]
  /\ UNCHANGED <<snapshots, fetch>>

RadarRestart ==
  /\ fetch' = [f \in Fetches |-> Waiting]
  /\ page' = NoPage
  /\ UNCHANGED snapshots

RadarNext ==
  \/ \E f \in Fetches : FetchRadar(f) \/ PersistSnapshot(f) \/ PersistFails(f)
  \/ ShowTrends
  \/ RadarRestart

RadarSpec == RadarInit /\ [][RadarNext]_radarVars

------------------------------------------------------------------------------
(* Properties.                                                              *)

\* What a malformed pick may cost is itself: the page is shown.
PageIsShown == page # Failed
==============================================================================
