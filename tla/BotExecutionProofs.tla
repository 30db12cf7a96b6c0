-------------------------- MODULE BotExecutionProofs --------------------------
(***************************************************************************)
(* Proofs about BotExecution, for any number of executions of a proposal,  *)
(* any number of submissions per execution, and any loss, delay or         *)
(* repetition the broker side allows.                                      *)
(*                                                                         *)
(* The argument: proposals.client_order_id is written once (the claim is   *)
(* conditional) and an execution submits only the key it finds there, so   *)
(* the column names the one key the network and the broker can ever have   *)
(* seen for the proposal (KeysAreClaimed).  A fill is the last thing an    *)
(* order reports (FillsComeLast), so a filled row has nothing to fear from *)
(* what is still queued (FilledIsReported).                                *)
(***************************************************************************)
EXTENDS BotExecution, SequenceTheorems, TLAPS

\* An execution that has its key holds the one in the database.
TaskKeys ==
  \A t \in Orders : task[t].pc \in {"probe", "place", "await", "save"} =>
    task[t].id \in Orders /\ task[t].id = clientId[t[1]]

\* A claimed key is the proposal's own.
OwnKeys == \A p \in Proposals : clientId[p] # NoId => clientId[p][1] = p

\* What left the process was claimed before.
KeysAreClaimed ==
  \A o \in Orders : o \in wire \/ broker[o] # "unknown" => clientId[o[1]] = o

\* An execution submits only while it has submissions left.
SubmissionsLeft ==
  \A t \in Orders :
    /\ task[t].pc \in {"idle", "check", "read", "claim", "probe"} => task[t].tries = 0
    /\ task[t].pc = "place" => task[t].tries < MaxAttempts

TypeInv == TypeOK /\ SubmissionsLeft

KeyInv == TypeInv /\ TaskKeys /\ OwnKeys /\ KeysAreClaimed

------------------------------------------------------------------------------
LEMMA TypeInit == Init => TypeInv
BY ExecutionAssumption
   DEF Init, TypeInv, TypeOK, SubmissionsLeft, ExecutionStatuses, BrokerStates, Tasks, NoTask

PcStates == {"idle", "lost"} \cup Running \cup Ended

\* A step that writes the program counter, or also the key, of one execution.
LEMMA PcKeepsTypes ==
  ASSUME TypeInv, NEW t \in Orders, NEW pc \in PcStates,
         pc \in {"idle", "check", "read", "claim", "probe"} => task[t].tries = 0,
         pc = "place" => task[t].tries < MaxAttempts,
         task' = [task EXCEPT ![t].pc = pc]
  PROVE  task' \in [Orders -> Tasks] /\ SubmissionsLeft'
<1>1. task \in [Orders -> Tasks]
  BY DEF TypeInv, TypeOK
<1>2. [task[t] EXCEPT !.pc = pc] \in Tasks
  BY <1>1 DEF Tasks, PcStates
<1>3. task' = [task EXCEPT ![t] = [task[t] EXCEPT !.pc = pc]]
  OBVIOUS
<1>4. task' \in [Orders -> Tasks]
  BY <1>1, <1>2, <1>3
<1>5. task'[t].pc = pc /\ task'[t].tries = task[t].tries
  BY <1>1, <1>2, <1>3 DEF Tasks
<1>6. QED
  BY <1>1, <1>3, <1>4, <1>5 DEF SubmissionsLeft, TypeInv

LEMMA KeyKeepsTypes ==
  ASSUME TypeInv, NEW t \in Orders, NEW pc \in PcStates, NEW id \in Orders \cup {NoId},
         pc \in {"idle", "check", "read", "claim", "probe"} => task[t].tries = 0,
         pc = "place" => task[t].tries < MaxAttempts,
         task' = [task EXCEPT ![t].pc = pc, ![t].id = id]
  PROVE  task' \in [Orders -> Tasks] /\ SubmissionsLeft'
<1>1. task \in [Orders -> Tasks]
  BY DEF TypeInv, TypeOK
<1>2. [task[t] EXCEPT !.pc = pc, !.id = id] \in Tasks
  BY <1>1 DEF Tasks, PcStates
<1>3. task' = [task EXCEPT ![t] = [task[t] EXCEPT !.pc = pc, !.id = id]]
  OBVIOUS
<1>4. task' \in [Orders -> Tasks]
  BY <1>1, <1>2, <1>3
<1>5. task'[t].pc = pc /\ task'[t].tries = task[t].tries
  BY <1>1, <1>2, <1>3 DEF Tasks
<1>6. QED
  BY <1>1, <1>3, <1>4, <1>5 DEF SubmissionsLeft, TypeInv

LEMMA SubmissionKeepsTypes ==
  ASSUME task \in [Orders -> Tasks], NEW t \in Orders, task[t].tries < MaxAttempts,
         task' = [task EXCEPT ![t].pc = "await", ![t].tries = @ + 1]
  PROVE  /\ task' \in [Orders -> Tasks]
         /\ \A u \in Orders \ {t} : task'[u] = task[u]
         /\ task'[t].pc = "await" /\ task'[t].id = task[t].id
<1>1. task[t].tries + 1 \in 0..MaxAttempts
  BY ExecutionAssumption DEF Tasks
<1>2. [task[t] EXCEPT !.pc = "await", !.tries = @ + 1] \in Tasks
  BY <1>1 DEF Tasks, Running
<1>3. task' = [task EXCEPT ![t] = [task[t] EXCEPT !.pc = "await", !.tries = @ + 1]]
  OBVIOUS
<1>4. QED
  BY <1>2, <1>3 DEF Tasks

\* An approval writes the executions it spawns, and no other.
LEMMA SpawnKeepsTypes ==
  ASSUME task \in [Orders -> Tasks], EnvironmentMoves
  PROVE  /\ task' \in [Orders -> Tasks]
         /\ \A t \in Orders : task'[t] = task[t] \/ (task'[t].pc = "check" /\ task'[t].tries = 0)
         /\ UNCHANGED <<clientId, execution, failureRows, trades, wire, broker, events, handler>>
<1> DEFINE new == [NoTask EXCEPT !.pc = "check"]
<1>1. new = [pc |-> "check", id |-> NoId, tries |-> 0] /\ 0 \in 0..MaxAttempts
  BY ExecutionAssumption DEF NoTask
<1>2. new \in Tasks
  BY <1>1 DEF Tasks, Running
<1> HIDE DEF new
<1>3. task' = [t \in Orders |-> IF Spawned(t) THEN new ELSE task[t]]
  BY DEF EnvironmentMoves, new
<1>4. \A t \in Orders : task'[t] = new \/ task'[t] = task[t]
  BY <1>3 DEF Spawned
<1>5. task' \in [Orders -> Tasks]
  BY <1>2, <1>3, <1>4
<1>6. UNCHANGED <<rowVars, brokerVars, handler>>
  BY DEF EnvironmentMoves
<1>7. QED
  BY <1>1, <1>4, <1>5, <1>6 DEF rowVars, brokerVars

LEMMA CrashKeepsTypes ==
  ASSUME task \in [Orders -> Tasks], Crash
  PROVE  /\ task' \in [Orders -> Tasks]
         /\ \A t \in Orders : task'[t] = task[t] \/ task'[t].pc = "lost"
<1>1. \A t \in Orders : [task[t] EXCEPT !.pc = "lost"] \in Tasks
  BY DEF Tasks
<1>2. QED
  BY <1>1 DEF Crash, Tasks

LEMMA FailKeepsTypes ==
  ASSUME TypeInv, NEW t \in Orders, Fail(t) PROVE TypeInv'
<1>1. "failed" \in PcStates
  BY DEF PcStates, Ended
<1>2. task' \in [Orders -> Tasks] /\ SubmissionsLeft'
  BY <1>1, PcKeepsTypes DEF Fail
<1>3. QED
  BY <1>2 DEF TypeInv, TypeOK, Fail, brokerVars

LEMMA ReportKeepsTypes ==
  ASSUME events \in [Orders -> Seq(ExecutionStatuses \ {"null"})], NEW o \in Orders,
         NEW label \in ExecutionStatuses \ {"null"}, Report(o, label)
  PROVE  events' \in [Orders -> Seq(ExecutionStatuses \ {"null"})]
BY DEF Report

LEMMA TailKeepsTypes ==
  ASSUME events \in [Orders -> Seq(ExecutionStatuses \ {"null"})], NEW o \in Orders,
         events[o] # <<>>
  PROVE  /\ Head(events[o]) \in ExecutionStatuses \ {"null"}
         /\ [events EXCEPT ![o] = Tail(@)] \in [Orders -> Seq(ExecutionStatuses \ {"null"})]
OBVIOUS

LEMMA OrderTypes == \A t \in Orders : t[1] \in Proposals
BY DEF Orders

LEMMA ExecutionKeepsTypes ==
  ASSUME TypeInv, TaskKeys, NEW t \in Orders, TaskStep(t) PROVE TypeInv'
<1> USE DEF rowVars, brokerVars
<1>1. CASE CheckProposal(t)
  <2>1. PICK pc \in {"read", "skipped"} : task' = [task EXCEPT ![t].pc = pc]
    BY <1>1 DEF CheckProposal
  <2>2. pc \in PcStates /\ task[t].tries = 0
    BY <1>1, <2>1 DEF PcStates, Running, Ended, CheckProposal, TypeInv, SubmissionsLeft
  <2>3. task' \in [Orders -> Tasks] /\ SubmissionsLeft'
    BY <2>1, <2>2, PcKeepsTypes
  <2>4. QED
    BY <1>1, <2>3 DEF CheckProposal, TypeInv, TypeOK
<1>2. CASE ReadClientId(t)
  <2>1. PICK pc \in {"claim", "probe"} :
          task' = [task EXCEPT ![t].pc = pc, ![t].id = clientId[t[1]]]
    BY <1>2 DEF ReadClientId
  <2>2. pc \in PcStates /\ task[t].tries = 0 /\ clientId[t[1]] \in Orders \cup {NoId}
    BY <1>2, <2>1, OrderTypes
       DEF PcStates, Running, ReadClientId, TypeInv, TypeOK, SubmissionsLeft
  <2>3. task' \in [Orders -> Tasks] /\ SubmissionsLeft'
    BY <2>1, <2>2, KeyKeepsTypes
  <2>4. QED
    BY <1>2, <2>3 DEF ReadClientId, TypeInv, TypeOK
<1>3. CASE ClaimClientId(t)
  <2>1. clientId' \in [Proposals -> Orders \cup {NoId}]
    BY <1>3, OrderTypes DEF ClaimClientId, TypeInv, TypeOK
  <2>2. PICK pc \in {"place", "probe"}, id \in Orders \cup {NoId} :
          task' = [task EXCEPT ![t].pc = pc, ![t].id = id]
    BY <1>3, OrderTypes DEF ClaimClientId, KeyOfLoser, TypeInv, TypeOK
  <2>3. pc \in PcStates /\ task[t].tries = 0 /\ 0 < MaxAttempts
    BY <1>3, <2>2, ExecutionAssumption
       DEF PcStates, Running, ClaimClientId, TypeInv, SubmissionsLeft
  <2>4. task' \in [Orders -> Tasks] /\ SubmissionsLeft'
    BY <2>2, <2>3, KeyKeepsTypes
  <2>5. QED
    BY <1>3, <2>1, <2>4 DEF ClaimClientId, TypeInv, TypeOK
<1>4. CASE ProbeAnswers(t)
  <2>1. PICK pc \in {"done", "place"} : task' = [task EXCEPT ![t].pc = pc]
    BY <1>4 DEF ProbeAnswers
  <2>2. pc \in PcStates /\ task[t].tries = 0 /\ 0 < MaxAttempts
    BY <1>4, <2>1, ExecutionAssumption
       DEF PcStates, Running, Ended, ProbeAnswers, TypeInv, SubmissionsLeft
  <2>3. task' \in [Orders -> Tasks] /\ SubmissionsLeft'
    BY <2>1, <2>2, PcKeepsTypes
  <2>4. QED
    BY <1>4, <2>3 DEF ProbeAnswers, TypeInv, TypeOK
<1>5. CASE ProbeFails(t) \/ RetriesExhausted(t) \/ TerminalError(t)
  BY <1>5, FailKeepsTypes DEF ProbeFails, RetriesExhausted, TerminalError
<1>6. CASE PlaceOrder(t)
  <2>1. task[t].id \in Orders
    BY <1>6 DEF PlaceOrder, TaskKeys
  <2>2. task' \in [Orders -> Tasks] /\ SubmissionsLeft'
    <3>1. task \in [Orders -> Tasks] /\ task[t].tries < MaxAttempts
      BY <1>6 DEF PlaceOrder, TypeInv, TypeOK, SubmissionsLeft
    <3>2. task' = [task EXCEPT ![t].pc = "await", ![t].tries = @ + 1]
      BY <1>6 DEF PlaceOrder
    <3>3. /\ task' \in [Orders -> Tasks] /\ task'[t].pc = "await"
          /\ \A u \in Orders \ {t} : task'[u] = task[u]
      BY <3>1, <3>2, SubmissionKeepsTypes
    <3>4. QED
      BY <3>3 DEF TypeInv, SubmissionsLeft
  <2>3. wire' \subseteq Orders
    BY <1>6, <2>1 DEF PlaceOrder, TypeInv, TypeOK
  <2>4. QED
    BY <1>6, <2>2, <2>3 DEF PlaceOrder, TypeInv, TypeOK
<1>7. CASE OrderAcknowledged(t)
  <2>1. "save" \in PcStates
    BY DEF PcStates, Running
  <2>2. task' \in [Orders -> Tasks] /\ SubmissionsLeft'
    BY <1>7, <2>1, PcKeepsTypes DEF OrderAcknowledged
  <2>3. QED
    BY <1>7, <2>2 DEF OrderAcknowledged, TypeInv, TypeOK
<1>8. CASE RetryPlaceOrder(t)
  <2>1. "place" \in PcStates
    BY DEF PcStates, Running
  <2>2. task[t].tries < MaxAttempts
    BY <1>8, ExecutionAssumption DEF RetryPlaceOrder, GivesUp, TypeInv, TypeOK, Tasks
  <2>3. task' \in [Orders -> Tasks] /\ SubmissionsLeft'
    BY <1>8, <2>1, <2>2, PcKeepsTypes DEF RetryPlaceOrder
  <2>4. QED
    BY <1>8, <2>3 DEF RetryPlaceOrder, TypeInv, TypeOK
<1>9. CASE SavePreliminary(t)
  <2>1. "done" \in PcStates
    BY DEF PcStates, Ended
  <2>2. task' \in [Orders -> Tasks] /\ SubmissionsLeft'
    BY <1>9, <2>1, PcKeepsTypes DEF SavePreliminary
  <2>3. execution' \in [Proposals -> ExecutionStatuses]
    BY <1>9 DEF SavePreliminary, TypeInv, TypeOK, ExecutionStatuses
  <2>4. QED
    BY <1>9, <2>2, <2>3 DEF SavePreliminary, TypeInv, TypeOK
<1>10. QED
  BY <1>1, <1>2, <1>3, <1>4, <1>5, <1>6, <1>7, <1>8, <1>9 DEF TaskStep
LEMMA BrokerKeepsTypes ==
  ASSUME TypeInv, NEW o \in Orders, BrokerStep(o) PROVE TypeInv'
<1> USE DEF TypeInv, TypeOK, rowVars
<1>1. CASE BrokerReceives(o)
  BY <1>1, ReportKeepsTypes
     DEF BrokerReceives, ExecutionStatuses, BrokerStates, SubmissionsLeft
<1>2. CASE SubmissionLost(o)
  BY <1>2 DEF SubmissionLost, SubmissionsLeft
<1>3. ASSUME NEW label \in {"partial", "filled", "rejected", "cancelled"},
             OrderMoves(o, label)
      PROVE  TypeInv'
  BY <1>3, ReportKeepsTypes
     DEF OrderMoves, ExecutionStatuses, BrokerStates, SubmissionsLeft
<1>4. QED
  BY <1>1, <1>2, <1>3 DEF BrokerStep

LEMMA HandlerKeepsTypes ==
  ASSUME TypeInv, NEW o \in Orders, HandlerStep(o) \/ HandlerFails(o) PROVE TypeInv'
<1> USE DEF TypeInv, TypeOK, rowVars, brokerVars, SubmissionsLeft
<1>1. CASE HandleEvent(o)
  BY <1>1, TailKeepsTypes DEF HandleEvent
<1>2. CASE InsertTrade(o)
  BY <1>2 DEF InsertTrade, RowsAfterInsert
<1>3. CASE HandlerFails(o)
  BY <1>3, TailKeepsTypes DEF HandlerFails
<1>4. QED
  BY <1>1, <1>2, <1>3 DEF HandlerStep

LEMMA TypeNext == TypeInv /\ TaskKeys /\ [Next]_vars => TypeInv'
<1> SUFFICES ASSUME TypeInv, TaskKeys, [Next]_vars PROVE TypeInv'
  OBVIOUS
<1>1. CASE EnvironmentMoves
  BY <1>1, SpawnKeepsTypes DEF TypeInv, TypeOK, SubmissionsLeft
<1>2. ASSUME NEW t \in Orders, StartReplay(t) PROVE TypeInv'
  <2>1. "check" \in PcStates /\ task[t].tries = 0
    BY <1>2 DEF PcStates, Running, StartReplay, NoTask
  <2>2. task' \in [Orders -> Tasks] /\ SubmissionsLeft'
    BY <1>2, <2>1, PcKeepsTypes DEF StartReplay
  <2>3. QED
    BY <1>2, <2>2 DEF StartReplay, TypeInv, TypeOK, rowVars, brokerVars
<1>3. CASE Crash
  <2>1. events' \in [Orders -> Seq(ExecutionStatuses \ {"null"})]
    <3>1. CASE events' = events
      BY <3>1 DEF TypeInv, TypeOK
    <3>2. CASE events' = [o \in Orders |-> <<>>]
      BY <3>2
    <3>3. QED
      BY <1>3, <3>1, <3>2 DEF Crash
  <2>2. QED
    BY <1>3, <2>1, CrashKeepsTypes DEF Crash, TypeInv, TypeOK, SubmissionsLeft, rowVars
<1>4. CASE UNCHANGED vars
  BY <1>4 DEF TypeInv, TypeOK, SubmissionsLeft, vars, rowVars, brokerVars
<1>5. QED
  BY <1>1, <1>2, <1>3, <1>4, ExecutionKeepsTypes, BrokerKeepsTypes, HandlerKeepsTypes
     DEF Next, NoFailure

------------------------------------------------------------------------------
(* Keys.                                                                    *)

\* An execution that moves on without touching its key.
LEMMA PcKeepsKeys ==
  ASSUME TypeInv, TaskKeys, OwnKeys, KeysAreClaimed, NEW t \in Orders, NEW pc,
         pc \in {"probe", "place", "await", "save"}
           => task[t].pc \in {"probe", "place", "await", "save"},
         task' = [task EXCEPT ![t].pc = pc], UNCHANGED <<clientId, wire, broker>>
  PROVE  TaskKeys' /\ OwnKeys' /\ KeysAreClaimed'
BY DEF TypeInv, TypeOK, Tasks, TaskKeys, OwnKeys, KeysAreClaimed

LEMMA KeysNext ==
  TypeInv /\ TaskKeys /\ OwnKeys /\ KeysAreClaimed /\ [Next]_vars
    => TaskKeys' /\ OwnKeys' /\ KeysAreClaimed'
<1> SUFFICES ASSUME TypeInv, TaskKeys, OwnKeys, KeysAreClaimed, [Next]_vars
             PROVE  TaskKeys' /\ OwnKeys' /\ KeysAreClaimed'
  OBVIOUS
<1> USE DEF rowVars, brokerVars
<1>1. CASE EnvironmentMoves
  <2>1. /\ UNCHANGED <<clientId, wire, broker>>
        /\ \A t \in Orders : task'[t] = task[t] \/ task'[t].pc = "check"
    BY <1>1 DEF EnvironmentMoves, NoTask
  <2>2. TaskKeys'
    BY <2>1 DEF TaskKeys
  <2>3. OwnKeys' /\ KeysAreClaimed'
    BY <2>1 DEF OwnKeys, KeysAreClaimed
  <2>4. QED
    BY <2>2, <2>3
<1>2. ASSUME NEW t \in Orders, StartReplay(t) PROVE TaskKeys' /\ OwnKeys' /\ KeysAreClaimed'
  BY <1>2 DEF StartReplay, TypeInv, TypeOK, Tasks, TaskKeys, OwnKeys, KeysAreClaimed
<1>3. ASSUME NEW t \in Orders, CheckProposal(t) PROVE TaskKeys' /\ OwnKeys' /\ KeysAreClaimed'
  BY <1>3 DEF CheckProposal, TypeInv, TypeOK, Tasks, TaskKeys, OwnKeys, KeysAreClaimed
<1>4. ASSUME NEW t \in Orders, ReadClientId(t) PROVE TaskKeys' /\ OwnKeys' /\ KeysAreClaimed'
  BY <1>4, OrderTypes
     DEF ReadClientId, TypeInv, TypeOK, Tasks, TaskKeys, OwnKeys, KeysAreClaimed
<1>5. ASSUME NEW t \in Orders, ClaimClientId(t) PROVE TaskKeys' /\ OwnKeys' /\ KeysAreClaimed'
  <2> USE OrderTypes DEF ClaimClientId, ClaimMatches, KeyOfLoser
  <2>1. CASE clientId[t[1]] = NoId
    <3>1. /\ clientId' = [clientId EXCEPT ![t[1]] = t]
          /\ task' = [task EXCEPT ![t].pc = "place", ![t].id = t]
          /\ UNCHANGED <<wire, broker>>
      BY <1>5, <2>1
    <3>2. \A o \in Orders : o # NoId
      BY DEF Orders, NoId
    <3>3. TaskKeys'
      BY <2>1, <3>1, <3>2 DEF TypeInv, TypeOK, Tasks, TaskKeys
    <3>4. OwnKeys' /\ KeysAreClaimed'
      BY <2>1, <3>1, <3>2 DEF TypeInv, TypeOK, OwnKeys, KeysAreClaimed
    <3>5. QED
      BY <3>3, <3>4
  <2>2. CASE clientId[t[1]] # NoId
    <3>1. /\ clientId' = clientId
          /\ task' = [task EXCEPT ![t].pc = "probe", ![t].id = clientId[t[1]]]
          /\ UNCHANGED <<wire, broker>>
      BY <1>5, <2>2
    <3>2. QED
      BY <2>2, <3>1 DEF TypeInv, TypeOK, Tasks, TaskKeys, OwnKeys, KeysAreClaimed
  <2>3. QED
    BY <2>1, <2>2
<1>6. ASSUME NEW t \in Orders, ProbeAnswers(t) PROVE TaskKeys' /\ OwnKeys' /\ KeysAreClaimed'
  BY <1>6 DEF ProbeAnswers, TypeInv, TypeOK, Tasks, TaskKeys, OwnKeys, KeysAreClaimed
<1>7. ASSUME NEW t \in Orders, ProbeFails(t) \/ RetriesExhausted(t) \/ TerminalError(t)
      PROVE  TaskKeys' /\ OwnKeys' /\ KeysAreClaimed'
  BY <1>7, PcKeepsKeys DEF ProbeFails, RetriesExhausted, TerminalError, Fail
<1>8. ASSUME NEW t \in Orders, PlaceOrder(t) PROVE TaskKeys' /\ OwnKeys' /\ KeysAreClaimed'
  <2>1. TaskKeys' /\ OwnKeys'
    BY <1>8 DEF PlaceOrder, TypeInv, TypeOK, Tasks, TaskKeys, OwnKeys
  <2>2. task[t].id = clientId[t[1]] /\ task[t].id \in Orders /\ task[t].id[1] = t[1]
    BY <1>8, OrderTypes DEF PlaceOrder, TaskKeys, OwnKeys, TypeInv, TypeOK, Orders, NoId
  <2>3. KeysAreClaimed'
    BY <1>8, <2>2 DEF PlaceOrder, KeysAreClaimed
  <2>4. QED
    BY <2>1, <2>3
<1>9. ASSUME NEW t \in Orders, OrderAcknowledged(t) \/ RetryPlaceOrder(t)
      PROVE  TaskKeys' /\ OwnKeys' /\ KeysAreClaimed'
  BY <1>9, PcKeepsKeys DEF OrderAcknowledged, RetryPlaceOrder
<1>10. ASSUME NEW t \in Orders, SavePreliminary(t)
      PROVE  TaskKeys' /\ OwnKeys' /\ KeysAreClaimed'
  BY <1>10, PcKeepsKeys DEF SavePreliminary
<1>11. ASSUME NEW o \in Orders, BrokerStep(o) PROVE TaskKeys' /\ OwnKeys' /\ KeysAreClaimed'
  BY <1>11 DEF BrokerStep, BrokerReceives, SubmissionLost, OrderMoves, TypeInv, TypeOK,
               TaskKeys, OwnKeys, KeysAreClaimed
<1>12. ASSUME NEW o \in Orders, HandlerStep(o) \/ HandlerFails(o)
       PROVE  TaskKeys' /\ OwnKeys' /\ KeysAreClaimed'
  BY <1>12 DEF HandlerStep, HandleEvent, InsertTrade, HandlerFails,
               TaskKeys, OwnKeys, KeysAreClaimed
<1>13. CASE Crash
  BY <1>13, CrashKeepsTypes DEF Crash, TypeInv, TypeOK, TaskKeys, OwnKeys, KeysAreClaimed
<1>14. CASE UNCHANGED vars
  BY <1>14 DEF vars, TaskKeys, OwnKeys, KeysAreClaimed
<1>15. QED
  BY <1>1, <1>2, <1>3, <1>4, <1>5, <1>6, <1>7, <1>8, <1>9, <1>10, <1>11, <1>12, <1>13, <1>14
     DEF Next, NoFailure, TaskStep

LEMMA KeyInvariant == Spec => []KeyInv
<1>1. Init => KeyInv
  BY TypeInit DEF Init, KeyInv, TaskKeys, OwnKeys, KeysAreClaimed, NoTask
<1>2. KeyInv /\ [Next]_vars => KeyInv'
  BY TypeNext, KeysNext DEF KeyInv
<1>3. QED
  BY <1>1, <1>2, PTL DEF Spec

\* Every variable keeps its type; in particular no execution submits more than
\* MaxAttempts times.
THEOREM TypeCorrect == Spec => []TypeOK
BY KeyInvariant, PTL DEF KeyInv, TypeInv

\* Whatever reaches the broker carries the key the database names.
THEOREM OrdersAreClaimed == Spec => []EveryOrderIsClaimed
<1>1. KeyInv => EveryOrderIsClaimed
  BY DEF KeyInv, KeysAreClaimed, EveryOrderIsClaimed, Exists
<1>2. QED
  BY <1>1, KeyInvariant, PTL

\* NFR-R3 for any number of racing executions, retries and crashes: the broker
\* never has two orders for one proposal.
THEOREM OrdersAreUnique == Spec => []AtMostOneOrderPerProposal
<1>1. KeyInv => AtMostOneOrderPerProposal
  BY DEF KeyInv, KeysAreClaimed, AtMostOneOrderPerProposal, Exists
<1>2. QED
  BY <1>1, KeyInvariant, PTL

------------------------------------------------------------------------------
(* Approval.                                                                *)

\* An approval is final, and so is the verdict it found.
ApprovedRows ==
  /\ pStatus = [p \in Proposals |-> pStatus[p]]
  /\ gate = [p \in Proposals |-> gate[p]]
  /\ \A p \in Proposals : pStatus[p] = "approved" => ~IsRed(gate[p])

\* Past the check, an execution and what it sent belong to an approved proposal.
ApprovedWork ==
  /\ \A t \in Orders : task[t].pc \in {"read", "claim", "probe", "place", "await", "save"}
                         => pStatus[t[1]] = "approved"
  /\ \A o \in Orders : o \in wire \/ broker[o] # "unknown" => pStatus[o[1]] = "approved"

LEMMA EnvironmentRespectsApprovals ==
  ASSUME ApprovedRows, Environment!Next
  PROVE  /\ ApprovedRows'
         /\ \A p \in Proposals : pStatus[p] = "approved" => pStatus'[p] = "approved"
<1>1. \A v : Environment!IsRed(v) <=> IsRed(v)
  BY DEF Environment!IsRed, IsRed
<1>2. ASSUME NEW p \in Proposals, NEW s, Environment!Create(p, s)
      PROVE  /\ ApprovedRows'
             /\ \A q \in Proposals : pStatus[q] = "approved" => pStatus'[q] = "approved"
  BY <1>2 DEF Environment!Create, ApprovedRows
<1>3. ASSUME NEW p \in Proposals, NEW verdict, Environment!SetVerdict(p, verdict)
      PROVE  /\ ApprovedRows'
             /\ \A q \in Proposals : pStatus[q] = "approved" => pStatus'[q] = "approved"
  BY <1>3 DEF Environment!SetVerdict, ApprovedRows
<1>4. ASSUME NEW p \in Proposals, NEW decision, NEW seen, Environment!Decide(p, decision, seen)
      PROVE  /\ ApprovedRows'
             /\ \A q \in Proposals : pStatus[q] = "approved" => pStatus'[q] = "approved"
  BY <1>1, <1>4 DEF Environment!Decide, ApprovedRows
<1>5. CASE UNCHANGED Environment!proposalVars
  BY <1>5 DEF Environment!proposalVars, ApprovedRows
<1>6. QED
  BY <1>2, <1>3, <1>4, <1>5 DEF Environment!Next, Environment!ProposalStep

LEMMA ApprovalNext ==
  KeyInv /\ ApprovedRows /\ ApprovedWork /\ [Next]_vars => ApprovedRows' /\ ApprovedWork'
<1> SUFFICES ASSUME KeyInv, ApprovedRows, ApprovedWork, [Next]_vars
             PROVE  ApprovedRows' /\ ApprovedWork'
  OBVIOUS
<1> USE DEF rowVars, brokerVars, envVars
<1>1. task \in [Orders -> Tasks]
  BY DEF KeyInv, TypeInv, TypeOK
<1>2. CASE EnvironmentMoves
  BY <1>1, <1>2, SpawnKeepsTypes, EnvironmentRespectsApprovals, OrderTypes
     DEF EnvironmentMoves, ApprovedWork
<1>3. ASSUME ~EnvironmentMoves PROVE UNCHANGED envVars
  BY <1>3 DEF Next, NoFailure, TaskStep, BrokerStep, HandlerStep, StartReplay, CheckProposal,
              ReadClientId, ClaimClientId, ProbeAnswers, ProbeFails, RetriesExhausted,
              TerminalError, Fail, PlaceOrder, OrderAcknowledged, RetryPlaceOrder,
              SavePreliminary, BrokerReceives, SubmissionLost, OrderMoves, HandleEvent,
              InsertTrade, HandlerFails, Crash, vars
<1>4. ASSUME UNCHANGED envVars PROVE ApprovedRows'
  BY <1>4 DEF ApprovedRows
<1>5. ASSUME NEW t \in Orders, TaskStep(t) PROVE ApprovedWork'
  <2>1. CASE CheckProposal(t)
    BY <1>1, <2>1 DEF CheckProposal, MayExecute, Tasks, ApprovedWork
  <2>2. CASE ReadClientId(t)
    BY <1>1, <2>2 DEF ReadClientId, Tasks, ApprovedWork
  <2>3. CASE ClaimClientId(t)
    BY <1>1, <2>3 DEF ClaimClientId, Tasks, ApprovedWork
  <2>4. CASE ProbeAnswers(t)
    BY <1>1, <2>4 DEF ProbeAnswers, Tasks, ApprovedWork
  <2>5. CASE ProbeFails(t) \/ RetriesExhausted(t) \/ TerminalError(t)
    <3>1. task' = [task EXCEPT ![t].pc = "failed"] /\ UNCHANGED <<pStatus, wire, broker>>
      BY <2>5 DEF ProbeFails, RetriesExhausted, TerminalError, Fail
    <3>2. QED
      BY <1>1, <3>1 DEF Tasks, ApprovedWork
  <2>6. CASE PlaceOrder(t)
    <3>1. task[t].id \in Orders /\ task[t].id[1] = t[1]
      BY <2>6, OrderTypes
         DEF PlaceOrder, KeyInv, TypeInv, TypeOK, TaskKeys, OwnKeys, Orders, NoId
    <3>2. pStatus[t[1]] = "approved"
      BY <2>6 DEF PlaceOrder, ApprovedWork
    <3>3. QED
      BY <1>1, <2>6, <3>1, <3>2 DEF PlaceOrder, Tasks, ApprovedWork
  <2>7. CASE OrderAcknowledged(t)
    BY <1>1, <2>7 DEF OrderAcknowledged, Tasks, ApprovedWork
  <2>8. CASE RetryPlaceOrder(t)
    BY <1>1, <2>8 DEF RetryPlaceOrder, Tasks, ApprovedWork
  <2>9. CASE SavePreliminary(t)
    BY <1>1, <2>9 DEF SavePreliminary, Tasks, ApprovedWork
  <2>10. QED
    BY <1>5, <2>1, <2>2, <2>3, <2>4, <2>5, <2>6, <2>7, <2>8, <2>9 DEF TaskStep
<1>6. ASSUME NEW t \in Orders, StartReplay(t) PROVE ApprovedWork'
  BY <1>1, <1>6 DEF StartReplay, Tasks, ApprovedWork
<1>7. ASSUME NEW o \in Orders, BrokerStep(o) PROVE ApprovedWork'
  BY <1>7 DEF BrokerStep, BrokerReceives, SubmissionLost, OrderMoves, ApprovedWork,
              KeyInv, TypeInv, TypeOK
<1>8. ASSUME NEW o \in Orders, HandlerStep(o) \/ HandlerFails(o) PROVE ApprovedWork'
  BY <1>8 DEF HandlerStep, HandleEvent, InsertTrade, HandlerFails, ApprovedWork
<1>9. ASSUME Crash PROVE ApprovedWork'
  BY <1>1, <1>9, CrashKeepsTypes DEF Crash, ApprovedWork
<1>10. ASSUME UNCHANGED vars PROVE ApprovedWork'
  BY <1>10 DEF vars, ApprovedWork
<1>11. QED
  BY <1>2, <1>3, <1>4, <1>5, <1>6, <1>7, <1>8, <1>9, <1>10 DEF Next, NoFailure

\* No order exists for a proposal that is not approved, or whose verdict blocks it.
THEOREM OrdersAreForApproved == Spec => []OrdersAreApproved
<1>1. Init => ApprovedRows /\ ApprovedWork
  BY DEF Init, Environment!Init, ApprovedRows, ApprovedWork, NoTask
<1>2. ApprovedRows /\ ApprovedWork => OrdersAreApproved
  BY OrderTypes DEF ApprovedRows, ApprovedWork, OrdersAreApproved, Exists
<1>3. QED
  BY <1>1, <1>2, ApprovalNext, KeyInvariant, PTL DEF Spec

------------------------------------------------------------------------------
(* Fills.                                                                   *)

\* Reports of a fill come from a filled order, and a filled order stays filled.
FillsAreReal ==
  \A o \in Orders :
    /\ \A i \in 1..Len(events[o]) : events[o][i] = "filled" => broker[o] = "filled"
    /\ handler[o] = "insert" => broker[o] = "filled"
    /\ trades[o] > 0 => trades[o] = 1 /\ broker[o] = "filled"

LEMMA ReportKeepsFills ==
  ASSUME TypeInv, FillsAreReal, NEW o \in Orders,
         NEW label \in ExecutionStatuses \ {"null"}, broker[o] # "filled",
         broker' = [broker EXCEPT ![o] = IF label = "submitted" THEN "accepted" ELSE label],
         Report(o, label), UNCHANGED <<handler, trades>>
  PROVE  FillsAreReal'
<1>1. PICK copies \in {<<label>>, <<label, label>>} :
        events' = [events EXCEPT ![o] = events[o] \o copies]
  BY DEF Report
<1>2. /\ events[o] \in Seq(ExecutionStatuses \ {"null"})
      /\ copies \in Seq(ExecutionStatuses \ {"null"})
      /\ \A i \in 1..Len(copies) : copies[i] = label
  <2>1. CASE copies = <<label>>
    BY <2>1 DEF TypeInv, TypeOK
  <2>2. CASE copies = <<label, label>>
    BY <2>2 DEF TypeInv, TypeOK
  <2>3. QED
    BY <1>1, <2>1, <2>2
<1>3. events'[o] = events[o] \o copies
  BY <1>1 DEF TypeInv, TypeOK
<1>4. \A i \in 1..Len(events'[o]) :
        events'[o][i] = label \/ (i \in 1..Len(events[o]) /\ events'[o][i] = events[o][i])
  BY <1>1, <1>2, <1>3
<1>5. \A i \in 1..Len(events'[o]) : events'[o][i] = "filled" => broker'[o] = "filled"
  BY <1>4 DEF FillsAreReal, TypeInv, TypeOK
<1>6. QED
  BY <1>1, <1>5 DEF FillsAreReal, TypeInv, TypeOK

LEMMA TailKeepsFills ==
  ASSUME TypeInv, FillsAreReal, NEW o \in Orders, events[o] # <<>>,
         events' = [events EXCEPT ![o] = Tail(@)]
  PROVE  /\ Head(events[o]) = "filled" => broker[o] = "filled"
         /\ \A q \in Orders : \A i \in 1..Len(events'[q]) :
              events'[q][i] = "filled" => broker[q] = "filled"
<1>1. events[o] \in Seq(ExecutionStatuses \ {"null"})
  BY DEF TypeInv, TypeOK
<1>2. Head(events[o]) = events[o][1] /\ 1 \in 1..Len(events[o])
  BY <1>1
<1>3. events'[o] = Tail(events[o])
  BY DEF TypeInv, TypeOK
<1>4. \A i \in 1..Len(events'[o]) : i + 1 \in 1..Len(events[o]) /\ events'[o][i] = events[o][i + 1]
  <2>1. /\ Len(Tail(events[o])) = Len(events[o]) - 1
        /\ \A i \in 1..Len(Tail(events[o])) : Tail(events[o])[i] = events[o][i + 1]
    BY <1>1, HeadTailProperties
  <2>2. Len(events[o]) \in Nat
    BY <1>1
  <2>3. Len(events'[o]) = Len(events[o]) - 1
    BY <1>3, <2>1
  <2>4. \A i \in 1..(Len(events[o]) - 1) : i + 1 \in 1..Len(events[o])
    BY <2>2
  <2>5. \A i \in 1..(Len(events[o]) - 1) : events'[o][i] = events[o][i + 1]
    BY <1>3, <2>1
  <2>6. QED
    BY <2>3, <2>4, <2>5
<1>5. QED
  BY <1>2, <1>3, <1>4 DEF FillsAreReal, TypeInv, TypeOK

LEMMA FillsNext == TypeInv /\ FillsAreReal /\ [Next]_vars => FillsAreReal'
<1> SUFFICES ASSUME TypeInv, FillsAreReal, [Next]_vars PROVE FillsAreReal'
  OBVIOUS
<1> USE DEF rowVars, brokerVars
<1>1. CASE UNCHANGED <<broker, events, handler, trades>>
  BY <1>1 DEF FillsAreReal
<1>2. ASSUME NEW o \in Orders, BrokerReceives(o) PROVE FillsAreReal'
  <2>1. CASE UNCHANGED events /\ broker[o] = "unknown" /\ broker' = [broker EXCEPT ![o] = "refused"]
    BY <1>2, <2>1 DEF BrokerReceives, FillsAreReal, TypeInv, TypeOK
  <2>2. CASE /\ broker[o] = "unknown" /\ Report(o, "submitted")
             /\ broker' = [broker EXCEPT ![o] = "accepted"]
    BY <1>2, <2>2, ReportKeepsFills DEF BrokerReceives, ExecutionStatuses
  <2>3. QED
    BY <1>1, <1>2, <2>1, <2>2 DEF BrokerReceives
<1>3. ASSUME NEW o \in Orders, NEW label \in {"partial", "filled", "rejected", "cancelled"},
             OrderMoves(o, label)
      PROVE  FillsAreReal'
  BY <1>3, ReportKeepsFills DEF OrderMoves, ExecutionStatuses
<1>4. ASSUME NEW o \in Orders, HandleEvent(o) PROVE FillsAreReal'
  BY <1>4, TailKeepsFills DEF HandleEvent, FillsAreReal, TypeInv, TypeOK
<1>5. ASSUME NEW o \in Orders, InsertTrade(o) PROVE FillsAreReal'
  BY <1>5 DEF InsertTrade, RowsAfterInsert, FillsAreReal, TypeInv, TypeOK
<1>6. ASSUME NEW o \in Orders, HandlerFails(o) PROVE FillsAreReal'
  BY <1>6, TailKeepsFills DEF HandlerFails, FillsAreReal, TypeInv, TypeOK
<1>7. CASE Crash
  <2>1. CASE events' = events
    BY <1>7, <2>1 DEF Crash, FillsAreReal, TypeInv, TypeOK
  <2>2. CASE events' = [o \in Orders |-> <<>>]
    BY <1>7, <2>2 DEF Crash, FillsAreReal, TypeInv, TypeOK
  <2>3. QED
    BY <1>7, <2>1, <2>2 DEF Crash
<1>8. QED
  BY <1>1, <1>2, <1>3, <1>4, <1>5, <1>6, <1>7
     DEF Next, NoFailure, TaskStep, BrokerStep, HandlerStep, EnvironmentMoves, StartReplay,
         CheckProposal, ReadClientId, ClaimClientId, ProbeAnswers, ProbeFails,
         RetriesExhausted, TerminalError, Fail, PlaceOrder, OrderAcknowledged,
         RetryPlaceOrder, SavePreliminary, SubmissionLost, vars

\* However often a fill is reported, it becomes at most one trade, and no other
\* report does.
THEOREM TradesAreBookedOnce == Spec => []TradesAreFills
<1>1. Init => FillsAreReal
  BY DEF Init, FillsAreReal
<1>2. FillsAreReal => TradesAreFills
  BY DEF FillsAreReal, TradesAreFills
<1>3. KeyInv => TypeInv
  BY DEF KeyInv
<1>4. QED
  BY <1>1, <1>2, <1>3, FillsNext, KeyInvariant, PTL DEF Spec

------------------------------------------------------------------------------
(* A fill is final.                                                         *)

\* Behind a report of a fill the queue holds nothing else.
FillsComeLast ==
  \A o \in Orders : \A i, j \in 1..Len(events[o]) :
    i < j /\ events[o][i] = "filled" => events[o][j] = "filled"

\* The order of a filled proposal is filled and has nothing else to report.
FilledIsReported ==
  \A p \in Proposals : execution[p] = "filled" =>
    \E o \in Orders :
      /\ clientId[p] = o /\ broker[o] = "filled"
      /\ \A i \in 1..Len(events[o]) : events[o][i] = "filled"

FinalInv == TypeInv /\ FillsAreReal /\ FillsComeLast /\ FilledIsReported

LEMMA ReportKeepsOrder ==
  ASSUME FinalInv, NEW o \in Orders, NEW label \in ExecutionStatuses \ {"null"},
         broker[o] # "filled", NEW state, broker' = [broker EXCEPT ![o] = state],
         Report(o, label), UNCHANGED <<execution, clientId>>
  PROVE  FillsComeLast' /\ FilledIsReported'
<1>1. PICK copies \in {<<label>>, <<label, label>>} :
        events' = [events EXCEPT ![o] = events[o] \o copies]
  BY DEF Report
<1>2. /\ events[o] \in Seq(ExecutionStatuses \ {"null"})
      /\ copies \in Seq(ExecutionStatuses \ {"null"})
      /\ \A i \in 1..Len(copies) : copies[i] = label
  <2>1. CASE copies = <<label>>
    BY <2>1 DEF FinalInv, TypeInv, TypeOK
  <2>2. CASE copies = <<label, label>>
    BY <2>2 DEF FinalInv, TypeInv, TypeOK
  <2>3. QED
    BY <1>1, <2>1, <2>2
<1>3. events'[o] = events[o] \o copies /\ \A q \in Orders : q # o => events'[q] = events[q]
  BY <1>1 DEF FinalInv, TypeInv, TypeOK
<1>4. \A i \in 1..Len(events'[o]) :
        \/ i \in 1..Len(events[o]) /\ events'[o][i] = events[o][i]
        \/ i > Len(events[o]) /\ events'[o][i] = label
  BY <1>2, <1>3
<1>5. \A i \in 1..Len(events[o]) : events[o][i] # "filled"
  BY DEF FinalInv, FillsAreReal
<1>6. \A i, j \in 1..Len(events'[o]) :
        i < j /\ events'[o][i] = "filled" => events'[o][j] = "filled"
  <2>1. TAKE i, j \in 1..Len(events'[o])
  <2>2. HAVE i < j /\ events'[o][i] = "filled"
  <2>3. i > Len(events[o]) /\ label = "filled"
    BY <1>4, <1>5, <2>2
  <2>4. Len(events[o]) \in Nat /\ i \in Int /\ j \in Int
    BY <1>2, <1>3
  <2>5. j \notin 1..Len(events[o])
    BY <2>2, <2>3, <2>4
  <2>6. QED
    BY <1>4, <2>3, <2>5
<1>7. \A q \in Orders : q # o => events'[q] = events[q] /\ broker'[q] = broker[q]
  BY <1>3 DEF FinalInv, TypeInv, TypeOK
<1>8. FillsComeLast'
  <2>1. ASSUME NEW q \in Orders, q # o
        PROVE  \A i, j \in 1..Len(events'[q]) :
                 i < j /\ events'[q][i] = "filled" => events'[q][j] = "filled"
    BY <1>7, <2>1 DEF FinalInv, FillsComeLast
  <2>2. QED
    BY <1>6, <2>1 DEF FillsComeLast
<1>9. FilledIsReported'
  BY <1>7 DEF FinalInv, FilledIsReported
<1>10. QED
  BY <1>8, <1>9

LEMMA TailKeepsOrder ==
  ASSUME FinalInv, NEW o \in Orders, events[o] # <<>>, events' = [events EXCEPT ![o] = Tail(@)]
  PROVE  /\ FillsComeLast'
         /\ Head(events[o]) = "filled" =>
              \A i \in 1..Len(events'[o]) : events'[o][i] = "filled"
         /\ \A q \in Orders :
              (\A i \in 1..Len(events[q]) : events[q][i] = "filled") =>
                \A i \in 1..Len(events'[q]) : events'[q][i] = "filled"
         /\ (\A i \in 1..Len(events[o]) : events[o][i] = "filled") => Head(events[o]) = "filled"
<1>1. events[o] \in Seq(ExecutionStatuses \ {"null"}) /\ Len(events[o]) \in Nat
  BY DEF FinalInv, TypeInv, TypeOK
<1>2. Head(events[o]) = events[o][1] /\ 1 \in 1..Len(events[o])
  BY <1>1
<1>3. events'[o] = Tail(events[o]) /\ \A q \in Orders : q # o => events'[q] = events[q]
  BY DEF FinalInv, TypeInv, TypeOK
<1>4. /\ Len(events'[o]) = Len(events[o]) - 1
      /\ \A i \in 1..Len(events'[o]) : events'[o][i] = events[o][i + 1]
  <2>1. /\ Len(Tail(events[o])) = Len(events[o]) - 1
        /\ \A i \in 1..Len(Tail(events[o])) : Tail(events[o])[i] = events[o][i + 1]
    BY <1>1, HeadTailProperties
  <2>2. QED
    BY <1>3, <2>1
<1>5. \A i \in 1..Len(events'[o]) : i + 1 \in 1..Len(events[o]) /\ 1 < i + 1
  BY <1>1, <1>4
<1>6. \A i, j \in 1..Len(events'[o]) :
        i < j /\ events'[o][i] = "filled" => events'[o][j] = "filled"
  <2>1. TAKE i, j \in 1..Len(events'[o])
  <2>2. HAVE i < j /\ events'[o][i] = "filled"
  <2>3. i + 1 < j + 1 /\ events[o][i + 1] = "filled"
    BY <1>1, <1>4, <2>2
  <2>4. events[o][j + 1] = "filled"
    BY <1>5, <2>3 DEF FinalInv, FillsComeLast
  <2>5. QED
    BY <1>4, <2>4
<1>7. FillsComeLast'
  BY <1>3, <1>6 DEF FinalInv, FillsComeLast
<1>8. Head(events[o]) = "filled" => \A i \in 1..Len(events'[o]) : events'[o][i] = "filled"
  BY <1>2, <1>4, <1>5 DEF FinalInv, FillsComeLast
<1>9. (\A i \in 1..Len(events[o]) : events[o][i] = "filled") =>
        \A i \in 1..Len(events'[o]) : events'[o][i] = "filled"
  BY <1>4, <1>5
<1>10. QED
  BY <1>2, <1>3, <1>7, <1>8, <1>9

LEMMA FinalNext ==
  FinalInv /\ [Next]_vars =>
    /\ FillsComeLast' /\ FilledIsReported'
    /\ \A p \in Proposals : execution[p] = "filled" => execution'[p] = "filled"
<1> DEFINE Stays == \A p \in Proposals : execution[p] = "filled" => execution'[p] = "filled"
<1> SUFFICES ASSUME FinalInv, [Next]_vars PROVE FillsComeLast' /\ FilledIsReported' /\ Stays
  OBVIOUS
<1> USE DEF rowVars, brokerVars
<1>1. CASE UNCHANGED <<broker, events, execution, clientId>>
  BY <1>1 DEF FinalInv, FillsComeLast, FilledIsReported
<1>2. ASSUME NEW t \in Orders, ClaimClientId(t)
      PROVE  FillsComeLast' /\ FilledIsReported' /\ Stays
  <2>1. NoId \notin Orders
    BY DEF NoId, Orders
  <2>2. UNCHANGED <<broker, events, execution>>
        /\ \A p \in Proposals : clientId[p] # NoId => clientId'[p] = clientId[p]
    BY <1>2, OrderTypes DEF ClaimClientId, ClaimMatches, FinalInv, TypeInv, TypeOK
  <2>3. QED
    BY <2>1, <2>2 DEF FinalInv, FillsComeLast, FilledIsReported
<1>3. ASSUME NEW t \in Orders, SavePreliminary(t)
      PROVE  FillsComeLast' /\ FilledIsReported' /\ Stays
  <2>1. UNCHANGED <<broker, events, clientId>>
        /\ \A p \in Proposals : execution'[p] = execution[p]
             \/ (execution[p] # "filled" /\ execution'[p] # "filled")
    BY <1>3, OrderTypes DEF SavePreliminary, PreliminaryMatches, FinalInv, TypeInv, TypeOK
  <2>2. QED
    BY <2>1 DEF FinalInv, FillsComeLast, FilledIsReported
<1>4. ASSUME NEW o \in Orders, BrokerReceives(o)
      PROVE  FillsComeLast' /\ FilledIsReported' /\ Stays
  <2>1. CASE UNCHANGED events /\ broker[o] = "unknown" /\ broker' = [broker EXCEPT ![o] = "refused"]
    BY <1>4, <2>1 DEF BrokerReceives, FinalInv, FillsComeLast, FilledIsReported, TypeInv, TypeOK
  <2>2. CASE /\ broker[o] = "unknown" /\ Report(o, "submitted")
             /\ broker' = [broker EXCEPT ![o] = "accepted"]
    BY <1>4, <2>2, ReportKeepsOrder DEF BrokerReceives, ExecutionStatuses
  <2>3. QED
    BY <1>1, <1>4, <2>1, <2>2 DEF BrokerReceives
<1>5. ASSUME NEW o \in Orders, NEW label \in {"partial", "filled", "rejected", "cancelled"},
             OrderMoves(o, label)
      PROVE  FillsComeLast' /\ FilledIsReported' /\ Stays
  BY <1>5, ReportKeepsOrder DEF OrderMoves, ExecutionStatuses
<1>6. ASSUME NEW o \in Orders, HandleEvent(o)
      PROVE  FillsComeLast' /\ FilledIsReported' /\ Stays
  <2>1. /\ events[o] # <<>> /\ events' = [events EXCEPT ![o] = Tail(@)]
        /\ UNCHANGED <<broker, clientId>>
    BY <1>6 DEF HandleEvent
  <2>2. FillsComeLast'
    BY <2>1, TailKeepsOrder
  <2>3. \/ UNCHANGED execution
        \/ /\ clientId[o[1]] = o
           /\ execution' = [execution EXCEPT ![o[1]] = Head(events[o])]
    BY <1>6 DEF HandleEvent
  <2>4. CASE UNCHANGED execution
    BY <2>1, <2>2, <2>4, TailKeepsOrder DEF FinalInv, FilledIsReported
  <2>5. CASE clientId[o[1]] = o /\ execution' = [execution EXCEPT ![o[1]] = Head(events[o])]
    <3>1. execution[o[1]] = "filled" => Head(events[o]) = "filled"
      BY <2>1, <2>5, OrderTypes, TailKeepsOrder DEF FinalInv, FilledIsReported
    <3>2. /\ execution'[o[1]] = Head(events[o])
          /\ \A p \in Proposals : p # o[1] => execution'[p] = execution[p]
      BY <2>5, OrderTypes DEF FinalInv, TypeInv, TypeOK
    <3>3. Head(events[o]) = "filled" => broker[o] = "filled"
      BY <2>1, TailKeepsFills DEF FinalInv
    <3>4. FilledIsReported'
      <4>1. ASSUME NEW p \in Proposals, p # o[1], execution'[p] = "filled"
            PROVE  \E q \in Orders :
                     /\ clientId'[p] = q /\ broker'[q] = "filled"
                     /\ \A i \in 1..Len(events'[q]) : events'[q][i] = "filled"
        BY <2>1, <3>2, <4>1, TailKeepsOrder DEF FinalInv, FilledIsReported
      <4>2. ASSUME execution'[o[1]] = "filled"
            PROVE  \E q \in Orders :
                     /\ clientId'[o[1]] = q /\ broker'[q] = "filled"
                     /\ \A i \in 1..Len(events'[q]) : events'[q][i] = "filled"
        BY <2>1, <2>5, <3>2, <3>3, <4>2, TailKeepsOrder
      <4>3. QED
        BY <4>1, <4>2 DEF FilledIsReported
    <3>5. QED
      BY <2>2, <3>1, <3>2, <3>4
  <2>6. QED
    BY <2>3, <2>4, <2>5
<1>7. ASSUME NEW o \in Orders, HandlerFails(o)
      PROVE  FillsComeLast' /\ FilledIsReported' /\ Stays
  <2>1. UNCHANGED <<broker, clientId, execution>>
    BY <1>7 DEF HandlerFails
  <2>2. CASE events[o] # <<>> /\ events' = [events EXCEPT ![o] = Tail(@)]
    BY <2>1, <2>2, TailKeepsOrder DEF FinalInv, FilledIsReported
  <2>3. QED
    BY <1>1, <1>7, <2>1, <2>2 DEF HandlerFails
<1>8. CASE Crash
  <2>1. CASE events' = events
    BY <1>1, <1>8, <2>1 DEF Crash
  <2>2. CASE events' = [o \in Orders |-> <<>>]
    BY <1>8, <2>2 DEF Crash, FinalInv, FillsComeLast, FilledIsReported
  <2>3. QED
    BY <1>8, <2>1, <2>2 DEF Crash
<1>9. QED
  BY <1>1, <1>2, <1>3, <1>4, <1>5, <1>6, <1>7, <1>8
     DEF Next, NoFailure, TaskStep, BrokerStep, HandlerStep, EnvironmentMoves, StartReplay,
         CheckProposal, ReadClientId, ProbeAnswers, ProbeFails,
         RetriesExhausted, TerminalError, Fail, PlaceOrder, OrderAcknowledged,
         RetryPlaceOrder, SubmissionLost, InsertTrade, vars

LEMMA FinalInvariant == Spec => []FinalInv
<1>1. Init => FillsAreReal /\ FillsComeLast /\ FilledIsReported
  BY DEF Init, FillsAreReal, FillsComeLast, FilledIsReported
<1>2. KeyInv => TypeInv
  BY DEF KeyInv
<1>3. FinalInv <=> TypeInv /\ FillsAreReal /\ FillsComeLast /\ FilledIsReported
  BY DEF FinalInv
<1>4. QED
  BY <1>1, <1>2, <1>3, FinalNext, FillsNext, KeyInvariant, PTL DEF Spec

\* Neither a late acknowledgement nor a repeated or delayed event ever moves a
\* filled proposal back, for any number of executions and crashes.
THEOREM FillsAreFinal == Spec => FilledStays
<1>1. FinalInv /\ [Next]_vars =>
        [\A p \in Proposals : execution[p] = "filled" => execution'[p] = "filled"]_vars
  BY FinalNext
<1>2. QED
  BY <1>1, FinalInvariant, PTL DEF Spec, FilledStays

------------------------------------------------------------------------------
(* The contract.                                                            *)

ContractInv == KeyInv /\ FillsAreReal

\* A claim records one key, that of a proposal without one.
LEMMA ClaimIsRecord ==
  ASSUME ContractInv, NEW t \in Orders, ClaimClientId(t)
  PROVE  [Contract!Next]_(Contract!vars)
<1> DEFINE recorded == {o \in Orders : clientId[o[1]] = o}
<1>1. UNCHANGED <<broker, trades>>
  BY DEF ClaimClientId, brokerVars
<1>2. CASE ~ClaimMatches(t[1])
  BY <1>1, <1>2 DEF ClaimClientId, Contract!vars, Exists
<1>3. CASE ClaimMatches(t[1])
  <2>1. clientId' = [clientId EXCEPT ![t[1]] = t] /\ clientId[t[1]] = NoId /\ t[1] \in Proposals
    BY <1>3, OrderTypes DEF ClaimClientId, ClaimMatches
  <2>2. \A o \in Orders : o # NoId
    BY DEF Orders, NoId
  <2>3. \A q \in recorded : q[1] # t[1]
    BY <2>1, <2>2
  <2>4. \A o \in Orders : clientId'[o[1]] = o <=> (clientId[o[1]] = o \/ o = t)
    BY <2>1, <2>2, OrderTypes DEF ContractInv, KeyInv, TypeInv, TypeOK
  <2>5. recorded' = recorded \cup {t}
    BY <2>4
  <2>6. Contract!Record(t)
    BY <1>1, <2>3, <2>5 DEF Contract!Record, Exists
  <2>7. QED
    BY <2>6 DEF Contract!Next
<1>4. QED
  BY <1>2, <1>3

\* The broker places what is recorded, and fills what is placed.
LEMMA BrokerKeepsContract ==
  ASSUME ContractInv, NEW o \in Orders, BrokerStep(o)
  PROVE  [Contract!Next]_(Contract!vars)
<1> DEFINE recorded == {q \in Orders : clientId[q[1]] = q}
           placed   == {q \in Orders : Exists(q)}
           filled   == {q \in Orders : broker[q] = "filled"}
<1>1. UNCHANGED <<clientId, trades>>
  BY DEF BrokerStep, BrokerReceives, SubmissionLost, OrderMoves, rowVars
<1>2. broker \in [Orders -> BrokerStates]
  BY DEF ContractInv, KeyInv, TypeInv, TypeOK
<1>3. CASE UNCHANGED broker
  BY <1>1, <1>3 DEF Contract!vars, Exists
<1>4. ASSUME broker[o] = "unknown", broker' = [broker EXCEPT ![o] = "refused"]
      PROVE  [Contract!Next]_(Contract!vars)
  <2>1. placed' = placed /\ filled' = filled
    BY <1>2, <1>4 DEF Exists
  <2>2. QED
    BY <1>1, <2>1 DEF Contract!vars
<1>5. ASSUME broker[o] = "unknown", broker' = [broker EXCEPT ![o] = "accepted"], o \in wire
      PROVE  [Contract!Next]_(Contract!vars)
  <2>1. placed' = placed \cup {o} /\ filled' = filled /\ o \notin placed
    BY <1>2, <1>5 DEF Exists
  <2>2. o \in recorded
    BY <1>5 DEF ContractInv, KeyInv, KeysAreClaimed
  <2>3. Contract!Place(o)
    BY <1>1, <2>1, <2>2 DEF Contract!Place
  <2>4. QED
    BY <2>3 DEF Contract!Next
<1>6. ASSUME NEW label \in {"partial", "filled", "rejected", "cancelled"}, OrderMoves(o, label)
      PROVE  [Contract!Next]_(Contract!vars)
  <2>1. o \in placed /\ o \notin filled /\ broker' = [broker EXCEPT ![o] = label]
    BY <1>6 DEF OrderMoves, Exists
  <2>2. placed' = placed
    BY <1>2, <2>1 DEF Exists
  <2>3. CASE label = "filled"
    <3>1. filled' = filled \cup {o}
      BY <1>2, <2>1, <2>3
    <3>2. Contract!Fill(o)
      BY <1>1, <2>1, <2>2, <3>1 DEF Contract!Fill
    <3>3. QED
      BY <3>2 DEF Contract!Next
  <2>4. CASE label # "filled"
    <3>1. filled' = filled
      BY <1>2, <2>1, <2>4
    <3>2. QED
      BY <1>1, <2>2, <3>1 DEF Contract!vars
  <2>5. QED
    BY <2>3, <2>4
<1>7. QED
  BY <1>3, <1>4, <1>5, <1>6 DEF BrokerStep, BrokerReceives, SubmissionLost, brokerVars

\* The handler's second statement books a fill, unless it is booked already.
LEMMA InsertIsBook ==
  ASSUME ContractInv, NEW o \in Orders, InsertTrade(o)
  PROVE  [Contract!Next]_(Contract!vars)
<1>1. UNCHANGED <<clientId, broker>> /\ broker[o] = "filled"
  BY DEF InsertTrade, brokerVars, ContractInv, FillsAreReal
<1>2. trades \in [Orders -> Nat]
  BY DEF ContractInv, KeyInv, TypeInv, TypeOK
<1>3. CASE trades[o] = 0
  <2>1. Contract!Book(o)
    BY <1>1, <1>3 DEF Contract!Book, InsertTrade, RowsAfterInsert, Exists
  <2>2. QED
    BY <2>1 DEF Contract!Next
<1>4. CASE trades[o] # 0
  <2>1. trades' = trades
    BY <1>2, <1>4 DEF InsertTrade, RowsAfterInsert
  <2>2. QED
    BY <1>1, <2>1 DEF Contract!vars, Exists
<1>5. QED
  BY <1>3, <1>4

\* Every other statement, and a crash, leaves keys, orders and trades alone.
LEMMA StepRefines == ContractInv /\ [Next]_vars => [Contract!Next]_(Contract!vars)
<1> SUFFICES ASSUME ContractInv, [Next]_vars
             PROVE  [Contract!Next]_(Contract!vars)
  OBVIOUS
<1> USE DEF rowVars, brokerVars
<1>1. CASE UNCHANGED <<clientId, broker, trades>>
  BY <1>1 DEF Contract!vars, Exists
<1>2. QED
  BY <1>1, ClaimIsRecord, BrokerKeepsContract, InsertIsBook
     DEF Next, NoFailure, TaskStep, HandlerStep, EnvironmentMoves, StartReplay,
         CheckProposal, ReadClientId, ProbeAnswers, ProbeFails, RetriesExhausted,
         TerminalError, Fail, PlaceOrder, OrderAcknowledged, RetryPlaceOrder,
         SavePreliminary, HandleEvent, HandlerFails, Crash, vars

\* execute_proposal and handle_execution_event implement OrderContract for any number of
\* executions of a proposal: a proposal gets one key, in the database before the broker
\* has an order with it, and a fill is booked once.
THEOREM ExecutionImplementsContract == Spec => ContractSpec
<1>1. Init => FillsAreReal /\ Contract!Init
  <2>1. \A o \in Orders : o # NoId /\ o[1] \in Proposals
    BY OrderTypes DEF Orders, NoId
  <2>2. QED
    BY <2>1 DEF Init, FillsAreReal, Contract!Init, Exists
<1>2. KeyInv => TypeInv
  BY DEF KeyInv
<1>3. KeyInv /\ FillsAreReal => ContractInv
  BY DEF ContractInv
<1>4. QED
  BY <1>1, <1>2, <1>3, FillsNext, KeyInvariant, StepRefines, PTL
     DEF Spec, ContractSpec, Contract!Spec

------------------------------------------------------------------------------
(* No fill is dropped.                                                      *)

ReportsFill(o) == \E i \in 1..Len(events[o]) : events[o][i] = "filled"

\* The fill of an order is on its way, or written to its proposal and booked or about to
\* be: what FillsAreRecorded needs beside fairness.
NoFillIsDropped ==
  \A o \in Orders : broker[o] = "filled" =>
    \/ ReportsFill(o)
    \/ execution[o[1]] = "filled" /\ (handler[o] = "insert" \/ trades[o] = 1)

DropInv == KeyInv /\ FinalInv /\ OrdersAreApproved

\* A report is added behind what is queued.
LEMMA ReportKeepsQueue ==
  ASSUME TypeInv, NEW o \in Orders, NEW label \in ExecutionStatuses \ {"null"}, Report(o, label)
  PROVE  /\ \A q \in Orders : ReportsFill(q) => ReportsFill(q)'
         /\ label = "filled" => ReportsFill(o)'
<1>1. PICK copies \in {<<label>>, <<label, label>>} :
        events' = [events EXCEPT ![o] = events[o] \o copies]
  BY DEF Report
<1>2. events \in [Orders -> Seq(ExecutionStatuses \ {"null"})]
  BY DEF TypeInv, TypeOK
<1>3. /\ events'[o] = events[o] \o copies
      /\ \A q \in Orders \ {o} : events'[q] = events[q]
  BY <1>1, <1>2
<1>4. copies \in Seq(ExecutionStatuses \ {"null"}) /\ Len(copies) \in Nat /\ 1 \in 1..Len(copies) /\ copies[1] = label
  <2>1. CASE copies = <<label>>
    BY <2>1
  <2>2. CASE copies = <<label, label>>
    BY <2>2
  <2>3. QED
    BY <1>1, <2>1, <2>2
<1>5. PICK n \in Nat : n = Len(events[o])
  BY <1>2
<1>6. /\ Len(events'[o]) = n + Len(copies)
      /\ \A i \in 1..n : events'[o][i] = events[o][i]
      /\ events'[o][n + 1] = copies[1]
  <2>1. events[o] \in Seq(ExecutionStatuses \ {"null"})
    BY <1>2
  <2>2. QED
    BY <1>3, <1>4, <1>5, <2>1
<1>7. \A i \in 1..n : i \in 1..Len(events'[o])
  BY <1>4, <1>6
<1>8. n + 1 \in 1..Len(events'[o])
  BY <1>4, <1>6
<1>9. ReportsFill(o) => ReportsFill(o)'
  BY <1>5, <1>6, <1>7 DEF ReportsFill
<1>10. label = "filled" => ReportsFill(o)'
  BY <1>4, <1>6, <1>8 DEF ReportsFill
<1>11. QED
  BY <1>3, <1>9, <1>10 DEF ReportsFill

\* The first event is taken off a queue, the others stay.
LEMMA TailKeepsQueue ==
  ASSUME TypeInv, NEW o \in Orders, events[o] # <<>>, events' = [events EXCEPT ![o] = Tail(@)]
  PROVE  /\ \A q \in Orders \ {o} : ReportsFill(q) => ReportsFill(q)'
         /\ ReportsFill(o) /\ Head(events[o]) # "filled" => ReportsFill(o)'
<1>1. events \in [Orders -> Seq(ExecutionStatuses \ {"null"})]
  BY DEF TypeInv, TypeOK
<1>2. events[o] \in Seq(ExecutionStatuses \ {"null"})
  BY <1>1
<1>3. events'[o] = Tail(events[o]) /\ \A q \in Orders \ {o} : events'[q] = events[q]
  BY <1>1
<1>4. PICK n \in Nat : n = Len(events[o])
  BY <1>2
<1>5. /\ Len(events'[o]) = n - 1 /\ Head(events[o]) = events[o][1]
      /\ \A i \in 1..(n - 1) : events'[o][i] = events[o][i + 1]
  <2>1. Len(events[o]) >= 1
    BY <1>2, EmptySeq, LenProperties
  <2>2. /\ Len(Tail(events[o])) = Len(events[o]) - 1
        /\ Head(events[o]) = events[o][1]
        /\ \A i \in 1..(Len(events[o]) - 1) : Tail(events[o])[i] = events[o][i + 1]
    BY <1>2, <2>1, SMTT(30)
  <2>3. QED
    BY <1>3, <1>4, <2>2
<1>6. ASSUME NEW i \in 1..n, events[o][i] = "filled", Head(events[o]) # "filled"
      PROVE  i - 1 \in 1..(n - 1) /\ events'[o][i - 1] = "filled"
  <2>1. i # 1
    BY <1>5, <1>6
  <2>2. i - 1 \in 1..(n - 1) /\ (i - 1) + 1 = i
    BY <2>1
  <2>3. QED
    BY <1>5, <1>6, <2>2
<1>7. ReportsFill(o) /\ Head(events[o]) # "filled" => ReportsFill(o)'
  BY <1>4, <1>5, <1>6 DEF ReportsFill
<1>8. QED
  BY <1>3, <1>7 DEF ReportsFill

\* The handler takes a fill off the queue only to write it: it knows the key, and the
\* proposal is approved.
LEMMA HandlerKeepsFills ==
  ASSUME DropInv, NoFillIsDropped, NEW o \in Orders, HandleEvent(o)
  PROVE  NoFillIsDropped'
<1>1. /\ handler[o] = "idle" /\ events[o] # <<>> /\ events' = [events EXCEPT ![o] = Tail(@)]
      /\ UNCHANGED <<clientId, broker, trades>>
  BY DEF HandleEvent, rowVars, brokerVars
<1>2. /\ TypeInv /\ o[1] \in Proposals
      /\ handler \in [Orders -> {"idle", "insert"}]
      /\ execution \in [Proposals -> ExecutionStatuses]
  BY OrderTypes DEF DropInv, FinalInv, TypeInv, TypeOK
<1>3. /\ \A q \in Orders \ {o} : ReportsFill(q) => ReportsFill(q)'
      /\ ReportsFill(o) /\ Head(events[o]) # "filled" => ReportsFill(o)'
  BY <1>1, <1>2, TailKeepsQueue
<1>4. \A q \in Orders : broker[q] = "filled" =>
        clientId[q[1]] = q /\ pStatus[q[1]] = "approved"
  BY DEF DropInv, KeyInv, KeysAreClaimed, OrdersAreApproved, Exists
<1>5. \A p \in Proposals : execution[p] = "filled" => execution'[p] = "filled"
  <2>1. [Next]_vars
    BY DEF Next, NoFailure, HandlerStep
  <2>2. QED
    BY <2>1, FinalNext DEF DropInv
<1>6. \A q \in Orders \ {o} : handler'[q] = handler[q]
  BY <1>2 DEF HandleEvent
<1>7. ASSUME NEW q \in Orders \ {o}, broker'[q] = "filled"
      PROVE  \/ ReportsFill(q)'
             \/ execution'[q[1]] = "filled" /\ (handler'[q] = "insert" \/ trades'[q] = 1)
  <2>1. q[1] \in Proposals
    BY OrderTypes
  <2>2. CASE ReportsFill(q)
    BY <1>3, <2>2
  <2>3. CASE execution[q[1]] = "filled" /\ (handler[q] = "insert" \/ trades[q] = 1)
    BY <1>1, <1>5, <1>6, <2>1, <2>3
  <2>4. QED
    BY <1>1, <1>7, <2>2, <2>3 DEF NoFillIsDropped
<1>8. ASSUME broker'[o] = "filled"
      PROVE  \/ ReportsFill(o)'
             \/ execution'[o[1]] = "filled" /\ (handler'[o] = "insert" \/ trades'[o] = 1)
  <2>1. clientId[o[1]] = o /\ pStatus[o[1]] = "approved"
    BY <1>1, <1>4, <1>8
  <2>2. CASE Head(events[o]) = "filled"
    BY <1>2, <2>1, <2>2 DEF HandleEvent
  <2>3. CASE ReportsFill(o) /\ Head(events[o]) # "filled"
    BY <1>3, <2>3
  <2>4. CASE execution[o[1]] = "filled" /\ (handler[o] = "insert" \/ trades[o] = 1)
    BY <1>1, <1>2, <1>5, <2>4
  <2>5. QED
    BY <1>1, <1>8, <2>2, <2>3, <2>4 DEF NoFillIsDropped
<1>9. QED
  BY <1>7, <1>8 DEF NoFillIsDropped

\* Each step but a failure keeps the fills.
LEMMA DroppedNext == DropInv /\ NoFillIsDropped /\ [NoFailure]_vars => NoFillIsDropped'
<1> SUFFICES ASSUME DropInv, NoFillIsDropped, [NoFailure]_vars
             PROVE  NoFillIsDropped'
  OBVIOUS
<1> USE DEF rowVars, brokerVars
<1>1. /\ TypeInv
      /\ broker \in [Orders -> BrokerStates]
      /\ handler \in [Orders -> {"idle", "insert"}]
      /\ trades \in [Orders -> Nat]
      /\ execution \in [Proposals -> ExecutionStatuses]
  BY DEF DropInv, FinalInv, TypeInv, TypeOK
<1>2. CASE UNCHANGED <<broker, events, execution, handler, trades>>
  BY <1>2 DEF NoFillIsDropped, ReportsFill
<1>3. ASSUME NEW t \in Orders, SavePreliminary(t)
      PROVE  NoFillIsDropped'
  <2>1. /\ UNCHANGED <<broker, events, handler, trades>>
        /\ \A p \in Proposals : execution[p] = "filled" => execution'[p] = "filled"
    BY <1>1, <1>3 DEF SavePreliminary, PreliminaryMatches
  <2>2. QED
    BY <2>1, OrderTypes DEF NoFillIsDropped, ReportsFill
<1>4. ASSUME NEW o \in Orders, BrokerReceives(o)
      PROVE  NoFillIsDropped'
  <2>1. /\ UNCHANGED <<execution, handler, trades>>
        /\ \A q \in Orders : broker'[q] = "filled" => broker[q] = "filled"
    BY <1>1, <1>4 DEF BrokerReceives
  <2>2. \A q \in Orders : ReportsFill(q) => ReportsFill(q)'
    <3>1. CASE UNCHANGED events
      BY <3>1 DEF ReportsFill
    <3>2. CASE Report(o, "submitted")
      BY <1>1, <3>2, ReportKeepsQueue DEF ExecutionStatuses
    <3>3. QED
      BY <1>4, <3>1, <3>2 DEF BrokerReceives
  <2>3. QED
    BY <2>1, <2>2 DEF NoFillIsDropped
<1>5. ASSUME NEW o \in Orders, NEW label \in {"partial", "filled", "rejected", "cancelled"},
             OrderMoves(o, label)
      PROVE  NoFillIsDropped'
  <2>1. /\ UNCHANGED <<execution, handler, trades>>
        /\ broker'[o] = label /\ \A q \in Orders \ {o} : broker'[q] = broker[q]
    BY <1>1, <1>5 DEF OrderMoves
  <2>2. /\ \A q \in Orders : ReportsFill(q) => ReportsFill(q)'
        /\ label = "filled" => ReportsFill(o)'
    BY <1>1, <1>5, ReportKeepsQueue DEF OrderMoves, ExecutionStatuses
  <2>3. QED
    BY <2>1, <2>2 DEF NoFillIsDropped
<1>6. ASSUME NEW o \in Orders, InsertTrade(o)
      PROVE  NoFillIsDropped'
  <2>1. /\ UNCHANGED <<broker, events, execution>>
        /\ \A q \in Orders \ {o} : handler'[q] = handler[q] /\ trades'[q] = trades[q]
    BY <1>1, <1>6 DEF InsertTrade
  <2>2. trades'[o] = 1
    BY <1>1, <1>6 DEF InsertTrade, RowsAfterInsert, DropInv, FinalInv, FillsAreReal
  <2>3. QED
    BY <2>1, <2>2 DEF NoFillIsDropped, ReportsFill
<1>7. QED
  BY <1>2, <1>3, <1>4, <1>5, <1>6, HandlerKeepsFills
     DEF NoFailure, TaskStep, BrokerStep, HandlerStep, EnvironmentMoves, StartReplay,
         CheckProposal, ReadClientId, ClaimClientId, ProbeAnswers, ProbeFails,
         RetriesExhausted, TerminalError, Fail, PlaceOrder, OrderAcknowledged,
         RetryPlaceOrder, SubmissionLost, vars

\* handle_execution_event and the client's callback: unless the process dies or the database
\* fails the handler, a filled order whose trade is missing has a report on its way or the
\* second statement of the handler before it.
THEOREM FillsAreNeverDropped == Init /\ [][NoFailure]_vars => []NoFillIsDropped
<1>1. Init => NoFillIsDropped
  BY DEF Init, NoFillIsDropped
<1>2. [NoFailure]_vars => [Next]_vars
  BY DEF Next
<1>3. KeyInv /\ FinalInv /\ OrdersAreApproved => DropInv
  BY DEF DropInv
<1>4. QED
  BY <1>1, <1>2, <1>3, KeyInvariant, FinalInvariant, OrdersAreForApproved, DroppedNext, PTL
     DEF Spec
==============================================================================
