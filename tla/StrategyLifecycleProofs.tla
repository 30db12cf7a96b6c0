----------------------- MODULE StrategyLifecycleProofs -----------------------
(***************************************************************************)
(* Proofs about StrategyLifecycle, for any set of strategies, any number   *)
(* of concurrent status requests and any number of regime runs.            *)
(*                                                                         *)
(* The argument: a request that has reached its compare-and-swap carries a *)
(* pair (seen, target) the FSM allows (CheckedRequests).  The swap fires   *)
(* only if the row still holds "seen", so the row makes an allowed move;   *)
(* the kill switch's UPDATEs are allowed moves by their WHERE clauses.     *)
(***************************************************************************)
EXTENDS StrategyLifecycle, TLAPS

\* The FSM check of update_status outlives the awaits that follow it.
CheckedRequests ==
  \A h \in Handlers :
    request[h].pc = "cas" => CanTransition(request[h].seen, request[h].target)

IInv == TypeOK /\ CheckedRequests /\ TrailMatchesTag

\* Retired rows are outside the domain of the transition relation.
LEMMA RetiredHasNoWayOut ==
  ASSUME NEW current, NEW target, CanTransition(current, target)
  PROVE  /\ current \in {"active", "paused"}
         /\ target \in Statuses
         /\ current # target
BY DEF CanTransition, AllowedTransitions, Statuses

\* Type correctness of every variable.
LEMMA TypeInit == Init => TypeOK
BY DEF Init, TypeOK, Statuses, Absent, Requests, NoRequest, RunStates, NoRun, Regimes

LEMMA TypeNext == TypeOK /\ [Next]_vars => TypeOK'
<1> SUFFICES ASSUME TypeOK, [Next]_vars PROVE TypeOK'
  OBVIOUS
<1> USE DEF TypeOK, rowVars
<1>1. ASSUME NEW s \in Strategies, CreateStrategy(s) PROVE TypeOK'
  BY <1>1 DEF CreateStrategy
<1>2. ASSUME NEW h \in Handlers, NEW s \in Strategies, NEW target \in Statuses,
             PostStatus(h, s, target)
      PROVE  TypeOK'
  <2>1. request' \in [Handlers -> Requests]
    BY <1>2, RetiredHasNoWayOut
       DEF PostStatus, ReadAndCheck, Requests, NoRequest, Statuses
  <2>2. QED
    BY <1>2, <2>1 DEF PostStatus
<1>3. ASSUME NEW h \in Handlers, NEW s \in Strategies, PostToggle(h, s)
      PROVE  TypeOK'
  <2>1. request' \in [Handlers -> Requests]
    BY <1>3 DEF PostToggle, Requests, Statuses, NextToggleStatus
  <2>2. QED
    BY <1>3, <2>1 DEF PostToggle
<1>4. ASSUME NEW h \in Handlers, ToggleRereads(h) PROVE TypeOK'
  <2>1. request[h] \in [pc : {"update"}, s : Strategies, target : Statuses]
    BY <1>4 DEF ToggleRereads, Requests, NoRequest
  <2>2. request' \in [Handlers -> Requests]
    BY <1>4, <2>1, RetiredHasNoWayOut
       DEF ToggleRereads, ReadAndCheck, Requests, NoRequest, Statuses
  <2>3. QED
    BY <1>4, <2>2 DEF ToggleRereads
<1>5. ASSUME NEW h \in Handlers, CasWins(h) PROVE TypeOK'
  <2>1. request[h] \in [pc : {"cas"}, s : Strategies, target : Statuses, seen : Statuses]
    BY <1>5 DEF CasWins, Swaps, Requests, NoRequest
  <2>2. request' \in [Handlers -> Requests]
    BY <1>5 DEF CasWins, Swaps, Requests
  <2>3. QED
    BY <1>5, <2>1, <2>2 DEF CasWins, Swaps
<1>6. ASSUME NEW h \in Handlers, CasLoses(h) PROVE TypeOK'
  BY <1>6 DEF CasLoses, Swaps, Requests
<1>7. ASSUME NEW r \in Runs, FetchIndex(r) PROVE TypeOK'
  BY <1>7 DEF FetchIndex, RunStates
<1>8. ASSUME NEW r \in Runs, InsertSnapshot(r) PROVE TypeOK'
  <2>1. run[r] \in [pc : {"fetched", "inserted"}, index : Regimes]
    BY <1>8 DEF InsertSnapshot, RunStates, NoRun
  <2>2. run' \in [Runs -> RunStates]
    BY <1>8, <2>1 DEF InsertSnapshot, RunStates
  <2>3. QED
    BY <1>8, <2>1, <2>2 DEF InsertSnapshot
<1>9. ASSUME NEW r \in Runs, EvaluateKillSwitch(r) PROVE TypeOK'
  <2>1. run' \in [Runs -> RunStates] /\ UNCHANGED <<request, latest>>
    BY <1>9 DEF EvaluateKillSwitch, RunStates
  <2>2. CASE PauseRows(Pausable)
    BY <2>1, <2>2 DEF PauseRows, Statuses, Regimes
  <2>3. CASE ReleaseRows(PausedByKillSwitch, "recover")
    BY <2>1, <2>3 DEF ReleaseRows, Reactivate, Statuses, Regimes
  <2>4. CASE UNCHANGED rowVars
    BY <2>1, <2>4
  <2>5. QED
    BY <1>9, <2>2, <2>3, <2>4 DEF EvaluateKillSwitch
<1>10. ASSUME NEW r \in Runs, EvaluationFails(r) PROVE TypeOK'
  BY <1>10 DEF EvaluationFails, RunStates
<1>11. ASSUME NEW s \in Strategies, ManualOverride(s) PROVE TypeOK'
  BY <1>11 DEF ManualOverride, ReleaseRows, Reactivate, Statuses
<1>12. CASE Crash
  BY <1>12 DEF Crash, Requests, RunStates
<1>13. CASE UNCHANGED vars
  BY <1>13 DEF vars
<1>14. QED
  BY <1>1, <1>2, <1>3, <1>4, <1>5, <1>6, <1>7, <1>8, <1>9, <1>10, <1>11, <1>12, <1>13
     DEF Next, Undisturbed, StatusRequest, RegimeRun

\* Every variable keeps its type in every reachable state.
THEOREM TypeCorrect == Spec => []TypeOK
BY TypeInit, TypeNext, PTL DEF Spec

------------------------------------------------------------------------------
\* What update_status checked about the pair (seen, target) still holds when
\* its UPDATE runs: only the checks write a "cas" request.
LEMMA CheckedNext ==
  TypeOK /\ CheckedRequests /\ [Next]_vars => CheckedRequests'
<1> SUFFICES ASSUME TypeOK, CheckedRequests, [Next]_vars,
                    NEW g \in Handlers, request'[g].pc = "cas"
             PROVE  CanTransition(request'[g].seen, request'[g].target)
  BY DEF CheckedRequests, CanTransition
<1> USE DEF CheckedRequests
<1>1. CASE request'[g] = request[g]
  BY <1>1
<1>2. ASSUME NEW h \in Handlers, NEW s \in Strategies, NEW target \in Statuses,
             PostStatus(h, s, target)
      PROVE  CanTransition(request'[g].seen, request'[g].target)
  BY <1>1, <1>2 DEF PostStatus, ReadAndCheck, NoRequest, TypeOK
<1>3. ASSUME NEW h \in Handlers, NEW s \in Strategies, PostToggle(h, s)
      PROVE  CanTransition(request'[g].seen, request'[g].target)
  BY <1>1, <1>3 DEF PostToggle, TypeOK
<1>4. ASSUME NEW h \in Handlers, ToggleRereads(h)
      PROVE  CanTransition(request'[g].seen, request'[g].target)
  BY <1>1, <1>4 DEF ToggleRereads, ReadAndCheck, NoRequest, TypeOK
<1>5. ASSUME NEW h \in Handlers, CasWins(h) \/ CasLoses(h)
      PROVE  CanTransition(request'[g].seen, request'[g].target)
  BY <1>1, <1>5 DEF CasWins, CasLoses, Swaps, NoRequest, TypeOK
<1>6. CASE Crash
  BY <1>6 DEF Crash, NoRequest
<1>7. CASE UNCHANGED request
  BY <1>1, <1>7
<1>8. QED
  BY <1>2, <1>3, <1>4, <1>5, <1>6, <1>7
     DEF Next, Undisturbed, StatusRequest, RegimeRun, CreateStrategy, FetchIndex,
         InsertSnapshot, EvaluateKillSwitch, EvaluationFails, ManualOverride, vars

\* A pause tags and records the same rows, all short-horizon; a release clears
\* and records the same rows, all tagged.
LEMMA PauseKeepsTrail ==
  ASSUME TypeOK, TrailMatchesTag, PauseRows(Pausable) PROVE TrailMatchesTag'
BY ShortHorizonAssumption DEF TypeOK, TrailMatchesTag, PauseRows, Pausable

LEMMA ReleaseKeepsTrail ==
  ASSUME TypeOK, TrailMatchesTag, NEW S, NEW action,
         action \in {"recover", "manual_override"}, ReleaseRows(S, action)
  PROVE  TrailMatchesTag'
BY DEF TypeOK, TrailMatchesTag, ReleaseRows, Reactivate

LEMMA TrailNext == TypeOK /\ TrailMatchesTag /\ [Next]_vars => TrailMatchesTag'
<1> SUFFICES ASSUME TypeOK, TrailMatchesTag, [Next]_vars PROVE TrailMatchesTag'
  OBVIOUS
<1>1. CASE UNCHANGED <<pausedBy, ksTrail>>
  BY <1>1 DEF TrailMatchesTag
<1>2. ASSUME NEW r \in Runs, EvaluateKillSwitch(r) PROVE TrailMatchesTag'
  BY <1>1, <1>2, PauseKeepsTrail, ReleaseKeepsTrail DEF EvaluateKillSwitch, rowVars
<1>3. ASSUME NEW s \in Strategies, ManualOverride(s) PROVE TrailMatchesTag'
  BY <1>3, ReleaseKeepsTrail DEF ManualOverride
<1>4. QED
  BY <1>1, <1>2, <1>3
     DEF Next, Undisturbed, StatusRequest, RegimeRun, CreateStrategy, PostStatus,
         PostToggle, ToggleRereads, CasWins, CasLoses, FetchIndex, InsertSnapshot,
         EvaluationFails, Crash, rowVars, vars

LEMMA IInvInvariant == Spec => []IInv
<1>1. Init => IInv
  BY TypeInit DEF Init, IInv, CheckedRequests, TrailMatchesTag, NoRequest
<1>2. IInv /\ [Next]_vars => IInv'
  BY TypeNext, CheckedNext, TrailNext DEF IInv
<1>3. QED
  BY <1>1, <1>2, PTL DEF Spec

\* The paused_by column and the audit trail tell the same story.
THEOREM TrailAlwaysMatchesTag == Spec => []TrailMatchesTag
BY IInvInvariant, PTL DEF IInv

------------------------------------------------------------------------------
\* Every recover and override row answers a pause row of its own: a release
\* writes rows only for tagged strategies, and by TrailMatchesTag the last row
\* of these is a pause.
LEMMA ReleasesAreOfTagged ==
  ASSUME IInv, NEW S \in SUBSET PausedByKillSwitch, NEW action, ReleaseRows(S, action),
         NEW s \in Strategies, releases'[s] > releases[s]
  PROVE  ksTrail[s] = "pause"
<1>1. releases'[s] # releases[s]
  BY DEF IInv, TypeOK
<1>2. s \in S
  BY <1>1 DEF ReleaseRows, Reactivate
<1>3. QED
  BY <1>2 DEF IInv, TrailMatchesTag, PausedByKillSwitch

THEOREM ReleasesAnswerPauses == Spec => ReleaseFollowsPause
<1>1. IInv /\ [Next]_vars =>
        [\A s \in Strategies : releases'[s] > releases[s] => ksTrail[s] = "pause"]_vars
  <2> SUFFICES ASSUME IInv, [Next]_vars, NEW s \in Strategies, releases'[s] > releases[s]
               PROVE  ksTrail[s] = "pause"
    OBVIOUS
  <2>1. CASE UNCHANGED releases
    <3>1. releases[s] \in Nat
      BY DEF IInv, TypeOK
    <3>2. QED
      BY <2>1, <3>1
  <2>2. ASSUME NEW r \in Runs, EvaluateKillSwitch(r) PROVE ksTrail[s] = "pause"
    <3>1. CASE PauseRows(Pausable)
      <4>1. releases[s] \in Nat /\ releases'[s] \in {0, releases[s]}
        BY <3>1 DEF PauseRows, IInv, TypeOK
      <4>2. QED
        BY <4>1
    <3>2. CASE ReleaseRows(PausedByKillSwitch, "recover")
      BY <3>2, ReleasesAreOfTagged
    <3>3. QED
      BY <2>1, <2>2, <3>1, <3>2 DEF EvaluateKillSwitch, rowVars
  <2>3. ASSUME NEW t \in Strategies, ManualOverride(t) PROVE ksTrail[s] = "pause"
    <3>1. {t} \in SUBSET PausedByKillSwitch
      BY <2>3 DEF ManualOverride
    <3>2. QED
      BY <2>3, <3>1, ReleasesAreOfTagged DEF ManualOverride
  <2>4. QED
    BY <2>1, <2>2, <2>3
       DEF Next, Undisturbed, StatusRequest, RegimeRun, CreateStrategy, PostStatus,
           PostToggle, ToggleRereads, CasWins, CasLoses, FetchIndex, InsertSnapshot,
           EvaluationFails, Crash, rowVars, vars
<1>2. QED
  BY IInvInvariant, <1>1, PTL DEF Spec, ReleaseFollowsPause

------------------------------------------------------------------------------
(* Refinement of the contract.                                              *)

\* The contract's copy of the constant operators of StrategyModel.
LEMMA SameModel ==
  /\ Contract!Statuses = Statuses
  /\ Contract!Absent = Absent
  /\ \A a, b : Contract!CanTransition(a, b) <=> CanTransition(a, b)
BY DEF Contract!Statuses, Statuses, Contract!Absent, Absent, Contract!CanTransition,
       CanTransition, Contract!AllowedTransitions, AllowedTransitions

\* A step of a status request or of the kill switch, seen from outside.
LEMMA StepMovesRows ==
  ASSUME NEW S \in SUBSET Strategies, NEW next \in [S -> Statuses], TypeOK,
         \A s \in S : CanTransition(status[s], next[s]),
         status' = [s \in Strategies |-> IF s \in S THEN next[s] ELSE status[s]]
  PROVE  Contract!Next
<1>1. Contract!MoveRows(S)
  BY SameModel DEF Contract!MoveRows
<1>2. QED
  BY <1>1 DEF Contract!Next

LEMMA CasMovesOneRow ==
  ASSUME IInv, NEW h \in Handlers, CasWins(h) PROVE Contract!Next
<1> DEFINE s == request[h].s
           next == [t \in {s} |-> request[h].target]
<1>1. s \in Strategies /\ request[h].target \in Statuses
  BY DEF IInv, TypeOK, CasWins, Swaps, Requests, NoRequest
<1>2. CanTransition(status[s], request[h].target)
  BY DEF IInv, CheckedRequests, CasWins, Swaps
<1>3. status' = [t \in Strategies |-> IF t \in {s} THEN next[t] ELSE status[t]]
  BY <1>1 DEF IInv, TypeOK, CasWins, Swaps
<1>4. {s} \in SUBSET Strategies /\ next \in [{s} -> Statuses]
  BY <1>1
<1>5. \A t \in {s} : CanTransition(status[t], next[t])
  BY <1>2
<1>6. TypeOK
  BY DEF IInv
<1> HIDE DEF s, next
<1>7. QED
  BY <1>3, <1>4, <1>5, <1>6, StepMovesRows

LEMMA PauseMovesRows ==
  ASSUME IInv, PauseRows(Pausable) PROVE Contract!Next
<1> DEFINE next == [t \in Pausable |-> "paused"]
<1>1. Pausable \in SUBSET Strategies
  BY ShortHorizonAssumption DEF Pausable
<1>2. next \in [Pausable -> Statuses]
  BY DEF Statuses
<1>3. \A t \in Pausable : CanTransition(status[t], next[t])
  BY DEF Pausable, CanTransition, AllowedTransitions
<1>4. status' = [t \in Strategies |-> IF t \in Pausable THEN next[t] ELSE status[t]]
  BY DEF PauseRows
<1>5. TypeOK
  BY DEF IInv
<1> HIDE DEF next
<1>6. QED
  BY <1>1, <1>2, <1>3, <1>4, <1>5, StepMovesRows

LEMMA ReleaseMovesRows ==
  ASSUME IInv, NEW S \in SUBSET PausedByKillSwitch, NEW action, ReleaseRows(S, action)
  PROVE  Contract!Next
<1> DEFINE next == [t \in S |-> "active"]
<1>1. S \in SUBSET Strategies
  BY DEF PausedByKillSwitch
<1>2. next \in [S -> Statuses]
  BY DEF Statuses
<1>3. \A t \in S : CanTransition(status[t], next[t])
  BY DEF PausedByKillSwitch, CanTransition, AllowedTransitions
<1>4. status' = [t \in Strategies |-> IF t \in S THEN next[t] ELSE status[t]]
  BY DEF ReleaseRows, Reactivate
<1>5. TypeOK
  BY DEF IInv
<1> HIDE DEF next
<1>6. QED
  BY <1>1, <1>2, <1>3, <1>4, <1>5, StepMovesRows

LEMMA StepRefines == IInv /\ [Next]_vars => [Contract!Next]_status
<1> SUFFICES ASSUME IInv, [Next]_vars, status' # status PROVE Contract!Next
  OBVIOUS
<1>1. ASSUME NEW s \in Strategies, CreateStrategy(s) PROVE Contract!Next
  BY <1>1, SameModel DEF CreateStrategy, Contract!Next, Contract!InsertRow
<1>2. ASSUME NEW h \in Handlers, CasWins(h) PROVE Contract!Next
  BY <1>2, CasMovesOneRow
<1>3. ASSUME NEW r \in Runs, EvaluateKillSwitch(r) PROVE Contract!Next
  BY <1>3, PauseMovesRows, ReleaseMovesRows DEF EvaluateKillSwitch, rowVars
<1>4. ASSUME NEW s \in Strategies, ManualOverride(s) PROVE Contract!Next
  <2>1. {s} \in SUBSET PausedByKillSwitch
    BY <1>4 DEF ManualOverride
  <2>2. QED
    BY <1>4, <2>1, ReleaseMovesRows DEF ManualOverride
<1>5. QED
  BY <1>1, <1>2, <1>3, <1>4
     DEF Next, Undisturbed, StatusRequest, RegimeRun, PostStatus, PostToggle,
         ToggleRereads, CasLoses, FetchIndex, InsertSnapshot, EvaluationFails, Crash,
         rowVars, vars

\* Whoever writes strategies.status, the rest of the program sees rows that
\* are inserted once and then move along the lifecycle FSM.
THEOREM LifecycleImplementsContract == Spec => ContractSpec
<1>1. Init => Contract!Init
  BY SameModel DEF Init, Contract!Init
<1>2. QED
  BY <1>1, StepRefines, IInvInvariant, PTL DEF Spec, ContractSpec, Contract!Spec

\* No interleaving of badge clicks and kill-switch sweeps revives a retired
\* strategy.
THEOREM RetiredStaysRetired == Spec => RetiredIsTerminal
<1>1. IInv /\ [Contract!Next]_status =>
        \A s \in Strategies : status[s] = "retired" => status'[s] = "retired"
  <2> SUFFICES ASSUME IInv, Contract!Next, NEW s \in Strategies, status[s] = "retired"
               PROVE  status'[s] = "retired"
    OBVIOUS
  <2>1. ASSUME NEW t \in Strategies, Contract!InsertRow(t) PROVE status'[s] = "retired"
    BY <2>1, SameModel DEF Contract!InsertRow, IInv, TypeOK, Absent
  <2>2. ASSUME NEW S \in SUBSET Strategies, Contract!MoveRows(S)
        PROVE  status'[s] = "retired"
    BY <2>2, SameModel, RetiredHasNoWayOut DEF Contract!MoveRows
  <2>3. QED
    BY <2>1, <2>2 DEF Contract!Next
<1>2. IInv /\ [Next]_vars =>
        [\A s \in Strategies : status[s] = "retired" => status'[s] = "retired"]_vars
  BY <1>1, StepRefines
<1>3. QED
  BY <1>2, IInvInvariant, PTL DEF Spec, RetiredIsTerminal
==============================================================================
