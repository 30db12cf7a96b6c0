-------------------------- MODULE StrategyLifecycle --------------------------
(***************************************************************************)
(* Strategy status and the kill switch.                                    *)
(*                                                                         *)
(* Two kinds of process write strategies.status:                           *)
(*   - HTTP requests on the status badge (routers/strategies.post_status), *)
(*     which read the status, decide in Python and then compare-and-swap;  *)
(*   - regime runs (the daily scheduler job and POST /api/regime/snapshot),*)
(*     which fetch the Fear & Greed index, commit a snapshot row and then, *)
(*     in a transaction of its own, evaluate the kill switch.              *)
(* A third writer, Chef's override of a kill-switch pause, is one          *)
(* transaction.  Each await between two statements is a point where any    *)
(* other process may run, so each statement (or transaction) is a step.    *)
(***************************************************************************)
EXTENDS StrategyModel, Naturals

CONSTANTS
  ShortHorizon,   \* strategies with horizon 'intraday' or 'swing_short'
  Handlers,       \* concurrent status requests (one pool connection each)
  Runs            \* concurrent regime runs (cron job, manual refresh)

ASSUME ShortHorizonAssumption == ShortHorizon \subseteq Strategies

\* The Fear & Greed index as far as the code tells values apart: below
\* KILL_SWITCH_THRESHOLD, at or above it, or None (data source down).
Regimes == {"crash", "calm", "no_data"}

VARIABLES
  status,      \* strategies.status, Absent before the INSERT
  pausedBy,    \* strategies.paused_by: "null" or "kill_switch"
  ksTrail,     \* action of the last kill-switch audit row of a strategy
  request,     \* request[h] : local state of status request h
  run,         \* run[r] : local state of regime run r
  latest,      \* Fear & Greed regime of the newest regime_snapshots row
  releases,    \* releases[s] : recover and override rows since the last pause row of s (history)
  lastPauser   \* who moved the strategy into 'paused' last (history)

rowVars  == <<status, pausedBy, ksTrail, releases, lastPauser>>
vars     == <<rowVars, request, run, latest>>

NoRequest == [pc |-> "idle"]
NoRun     == [pc |-> "idle"]

Requests ==
       {NoRequest}
  \cup [pc : {"update"}, s : Strategies, target : Statuses]
  \cup [pc : {"cas"}, s : Strategies, target : Statuses, seen : Statuses]

RunStates == {NoRun} \cup [pc : {"fetched", "inserted"}, index : Regimes]

TypeOK ==
  /\ status     \in [Strategies -> Statuses \cup {Absent}]
  /\ pausedBy   \in [Strategies -> {"null", "kill_switch"}]
  /\ ksTrail    \in [Strategies -> {"none", "pause", "recover", "manual_override"}]
  /\ releases   \in [Strategies -> Nat]
  /\ lastPauser \in [Strategies -> {"none", "chef", "kill_switch"}]
  /\ request    \in [Handlers -> Requests]
  /\ run        \in [Runs -> RunStates]
  /\ latest     \in Regimes \cup {"none"}

Init ==
  /\ status     = [s \in Strategies |-> Absent]
  /\ pausedBy   = [s \in Strategies |-> "null"]
  /\ ksTrail    = [s \in Strategies |-> "none"]
  /\ releases   = [s \in Strategies |-> 0]
  /\ lastPauser = [s \in Strategies |-> "none"]
  /\ request    = [h \in Handlers |-> NoRequest]
  /\ run        = [r \in Runs |-> NoRun]
  /\ latest     = "none"

------------------------------------------------------------------------------
(* Strategy rows and status requests.                                       *)

\* POST /strategies: the form may name any status, and paused_by stays NULL.
CreateStrategy(s) ==
  /\ status[s] = Absent
  /\ \E initial \in Statuses :
       /\ status' = [status EXCEPT ![s] = initial]
       /\ lastPauser' = [lastPauser EXCEPT
                           ![s] = IF initial = "paused" THEN "chef" ELSE @]
  /\ UNCHANGED <<pausedBy, ksTrail, releases, request, run, latest>>

\* update_status up to its UPDATE: the read and the checks on what was read.
\* A missing row, a no-op and a forbidden transition all end the request.
ReadAndCheck(h, s, target) ==
  request' = [request EXCEPT ![h] =
                IF CanTransition(status[s], target)
                THEN [pc |-> "cas", s |-> s, target |-> target, seen |-> status[s]]
                ELSE NoRequest]

\* POST /strategies/{id}/status with an explicit target.
PostStatus(h, s, target) ==
  /\ request[h] = NoRequest
  /\ ReadAndCheck(h, s, target)
  /\ UNCHANGED <<rowVars, run, latest>>

\* The same endpoint without a target: toggle_status reads the row to pick the
\* target and leaves the second read to update_status.
PostToggle(h, s) ==
  /\ request[h] = NoRequest
  /\ status[s] \in {"active", "paused"}
  /\ request' = [request EXCEPT
       ![h] = [pc |-> "update", s |-> s, target |-> NextToggleStatus(status[s])]]
  /\ UNCHANGED <<rowVars, run, latest>>

ToggleRereads(h) ==
  /\ request[h].pc = "update"
  /\ ReadAndCheck(h, request[h].s, request[h].target)
  /\ UNCHANGED <<rowVars, run, latest>>

\* Mutant: an UPDATE by id alone.
SwapsAnyway(h) == TRUE

\* WHERE id = $2 AND status = $3.
Swaps(h) == status[request[h].s] = request[h].seen

\* The compare-and-swap UPDATE.  It writes status only, never paused_by.
CasWins(h) ==
  /\ request[h].pc = "cas"
  /\ Swaps(h)
  /\ status' = [status EXCEPT ![request[h].s] = request[h].target]
  /\ lastPauser' = [lastPauser EXCEPT
       ![request[h].s] = IF request[h].target = "paused" THEN "chef" ELSE @]
  /\ request' = [request EXCEPT ![h] = NoRequest]
  /\ UNCHANGED <<pausedBy, ksTrail, releases, run, latest>>

CasLoses(h) ==
  /\ request[h].pc = "cas"
  /\ ~Swaps(h)
  /\ request' = [request EXCEPT ![h] = NoRequest]
  /\ UNCHANGED <<rowVars, run, latest>>

------------------------------------------------------------------------------
(* The kill switch.                                                         *)

\* Mutants: WHERE clauses without the horizon or the status.
ActiveRows       == {s \in Strategies : status[s] = "active"}
ShortHorizonRows == {s \in ShortHorizon : status[s] # Absent}

\* Rows matched by _PAUSE_SQL, and by _RECOVER_SQL and _OVERRIDE_SQL.
Pausable == {s \in ShortHorizon : status[s] = "active"}
PausedByKillSwitch ==
  {s \in Strategies : status[s] = "paused" /\ pausedBy[s] = "kill_switch"}

\* The UPDATE and its audit rows, one transaction.
PauseRows(S) ==
  /\ status'     = [s \in Strategies |-> IF s \in S THEN "paused" ELSE status[s]]
  /\ pausedBy'   = [s \in Strategies |-> IF s \in S THEN "kill_switch" ELSE pausedBy[s]]
  /\ ksTrail'    = [s \in Strategies |-> IF s \in S THEN "pause" ELSE ksTrail[s]]
  /\ releases'   = [s \in Strategies |-> IF s \in S THEN 0 ELSE releases[s]]
  /\ lastPauser' = [s \in Strategies |-> IF s \in S THEN "kill_switch" ELSE lastPauser[s]]

\* What every release writes: the status, and one audit row for each of S.
Reactivate(S, action) ==
  /\ status'   = [s \in Strategies |-> IF s \in S THEN "active" ELSE status[s]]
  /\ ksTrail'  = [s \in Strategies |-> IF s \in S THEN action ELSE ksTrail[s]]
  /\ releases' = [s \in Strategies |-> IF s \in S THEN releases[s] + 1 ELSE releases[s]]
  /\ UNCHANGED lastPauser

\* Mutant: an UPDATE that forgets paused_by = NULL.
ReleaseKeepsTag(S, action) ==
  /\ Reactivate(S, action)
  /\ UNCHANGED pausedBy

ReleaseRows(S, action) ==
  /\ Reactivate(S, action)
  /\ pausedBy' = [s \in Strategies |-> IF s \in S THEN "null" ELSE pausedBy[s]]

\* A regime run begins; the index is whatever the data source answers.
FetchIndex(r) ==
  /\ run[r] = NoRun
  /\ \E index \in Regimes : run' = [run EXCEPT ![r] = [pc |-> "fetched", index |-> index]]
  /\ UNCHANGED <<rowVars, request, latest>>

\* The snapshot transaction commits before the kill switch looks at anything.
InsertSnapshot(r) ==
  /\ run[r].pc = "fetched"
  /\ run' = [run EXCEPT ![r].pc = "inserted"]
  /\ latest' = run[r].index
  /\ UNCHANGED <<rowVars, request>>

\* evaluate_kill_switch acts on the index this run fetched.
EvaluateKillSwitch(r) ==
  /\ run[r].pc = "inserted"
  /\ run' = [run EXCEPT ![r] = NoRun]
  /\ \/ run[r].index = "crash"   /\ PauseRows(Pausable)
     \/ run[r].index = "calm"    /\ ReleaseRows(PausedByKillSwitch, "recover")
     \/ run[r].index = "no_data" /\ UNCHANGED rowVars
  /\ UNCHANGED <<request, latest>>

\* The evaluation raises and its transaction rolls back; the snapshot stays.
EvaluationFails(r) ==
  /\ run[r].pc = "inserted"
  /\ run' = [run EXCEPT ![r] = NoRun]
  /\ UNCHANGED <<rowVars, request, latest>>

\* POST /strategies/{id}/override-kill-switch; otherwise a 400 without effect.
ManualOverride(s) ==
  /\ s \in PausedByKillSwitch
  /\ ReleaseRows({s}, "manual_override")
  /\ UNCHANGED <<request, run, latest>>

\* The process dies and restarts: rows survive, requests and runs do not.
Crash ==
  /\ request' = [h \in Handlers |-> NoRequest]
  /\ run'     = [r \in Runs |-> NoRun]
  /\ UNCHANGED <<rowVars, latest>>

StatusRequest ==
  \/ \E h \in Handlers, s \in Strategies :
       \/ \E target \in Statuses : PostStatus(h, s, target)
       \/ PostToggle(h, s)
  \/ \E h \in Handlers : ToggleRereads(h) \/ CasWins(h) \/ CasLoses(h)

RegimeRun ==
  \E r \in Runs : FetchIndex(r) \/ InsertSnapshot(r) \/ EvaluateKillSwitch(r)

Undisturbed ==
  \/ \E s \in Strategies : CreateStrategy(s) \/ ManualOverride(s)
  \/ StatusRequest
  \/ RegimeRun

Next == Undisturbed \/ (\E r \in Runs : EvaluationFails(r)) \/ Crash

Spec == Init /\ [][Next]_vars

\* Neither the process nor an evaluation fails.
UndisturbedSpec == Init /\ [][Undisturbed]_vars

------------------------------------------------------------------------------
(* Properties.                                                              *)

\* The regime page tells who is paused from two sources that are written in
\* different places: the paused_by column and the audit trail.  They agree on
\* every strategy: it carries the kill switch's tag exactly when its last
\* kill-switch audit row is a pause, and only short horizons ever carry it.
TrailMatchesTag ==
  \A s \in Strategies :
    /\ pausedBy[s] = "kill_switch" <=> ksTrail[s] = "pause"
    /\ pausedBy[s] = "kill_switch" => s \in ShortHorizon

\* A retired strategy never comes back, whatever requests and kill-switch
\* sweeps were in flight when it was retired (_UPDATE_STATUS_CAS_SQL's guard).
RetiredIsTerminal ==
  [][\A s \in Strategies : status[s] = "retired" => status'[s] = "retired"]_vars

\* Every recover and every override row of a strategy answers a pause row of
\* its own: the kill-switch row before it is a pause.  No strategy is released
\* that the kill switch has not paused, and none twice for one pause, although
\* Chef may pause it again by the badge after a recovery.
ReleaseFollowsPause ==
  [][\A s \in Strategies :
       releases'[s] > releases[s] => ksTrail[s] = "pause"]_vars

\* A regime run never re-activates a strategy whose last pause was Chef's own
\* (invariant 2 of services/kill_switch.py).
ManualPauseSurvivesRecovery ==
  [][\A r \in Runs : EvaluateKillSwitch(r) =>
       \A s \in Strategies :
         status[s] = "paused" /\ lastPauser[s] = "chef" => status'[s] = "paused"]_vars

\* Every step a handler or a run takes on strategies.status is a step the rest
\* of the program is told to expect.
Contract == INSTANCE StrategyContract
ContractSpec == Contract!Spec
==============================================================================
