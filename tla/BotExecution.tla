----------------------------- MODULE BotExecution -----------------------------
(***************************************************************************)
(* From an approved proposal to an order at cTrader and a row in trades    *)
(* (app/services/bot_execution.py).                                        *)
(*                                                                         *)
(* An approval spawns one execution: a background task that re-checks the  *)
(* strategy, claims an idempotency key in proposals.client_order_id and    *)
(* submits the order, again after every timeout.  Further executions of    *)
(* the same proposal are what the claim and the order_exists probe are     *)
(* written for; no route starts one, ReplayAllowed switches them on.       *)
(*                                                                         *)
(* The broker is external: it takes or refuses a submission some time      *)
(* after it was sent, takes a key only once, and reports every transition  *)
(* of an order, in order and at least once.                                *)
(*                                                                         *)
(* Strategies and proposals are moved by their environment, along          *)
(* ProposalContract.                                                       *)
(***************************************************************************)
EXTENDS ProposalModel, Naturals, Sequences

CONSTANTS
  Executions,      \* calls of execute_proposal there may be for a proposal
  FirstExecution,  \* the one post_approve spawns
  ReplayAllowed,   \* may the others run?
  MaxAttempts      \* submissions before an execution gives up

ASSUME ExecutionAssumption ==
  /\ FirstExecution \in Executions
  /\ ReplayAllowed \in BOOLEAN
  /\ MaxAttempts \in Nat \ {0}

VARIABLES
  status, pStatus, strategyOf, gate, decisionLog,  \* as in ProposalContract
  clientId,     \* proposals.client_order_id
  execution,    \* proposals.execution_status
  task,         \* task[t] : local state of execution t
  failureRows,  \* executions whose failure audit_log records
  wire,         \* keys whose submission is under way to the broker
  broker,       \* broker[o] : state of the order with key o at the broker
  events,       \* events[o] : execution events not handled yet
  handler,      \* handler[o] : the handler is between its two statements
  trades        \* trades[o] : rows of trades with the order id of o

\* Execution a of proposal p, the key it would generate and the order with that
\* key have one name; the uuid in the key sets those of two executions apart.
Orders == Proposals \X Executions
NoId   == <<>>

envVars    == <<status, pStatus, strategyOf, gate, decisionLog>>
rowVars    == <<clientId, execution, failureRows, trades>>
brokerVars == <<wire, broker, events>>
vars       == <<envVars, rowVars, brokerVars, task, handler>>

ExecutionStatuses == {"null", "submitted", "partial", "filled", "rejected", "cancelled"}

BrokerStates == {"unknown", "refused", "accepted", "partial", "filled", "rejected", "cancelled"}

Running == {"check", "read", "claim", "probe", "place", "await", "save"}
Ended   == {"done", "skipped", "failed"}

Tasks == [pc : {"idle", "lost"} \cup Running \cup Ended,
          id : Orders \cup {NoId},
          tries : 0..MaxAttempts]

NoTask == [pc |-> "idle", id |-> NoId, tries |-> 0]

TypeOK ==
  /\ clientId    \in [Proposals -> Orders \cup {NoId}]
  /\ execution   \in [Proposals -> ExecutionStatuses]
  /\ task        \in [Orders -> Tasks]
  /\ failureRows \subseteq Orders
  /\ wire        \subseteq Orders
  /\ broker      \in [Orders -> BrokerStates]
  /\ events      \in [Orders -> Seq(ExecutionStatuses \ {"null"})]
  /\ handler     \in [Orders -> {"idle", "insert"}]
  /\ trades      \in [Orders -> Nat]

Environment == INSTANCE ProposalContract

Init ==
  /\ Environment!Init
  /\ clientId    = [p \in Proposals |-> NoId]
  /\ execution   = [p \in Proposals |-> "null"]
  /\ task        = [t \in Orders |-> NoTask]
  /\ failureRows = {}
  /\ wire        = {}
  /\ broker      = [o \in Orders |-> "unknown"]
  /\ events      = [o \in Orders |-> <<>>]
  /\ handler     = [o \in Orders |-> "idle"]
  /\ trades      = [o \in Orders |-> 0]

------------------------------------------------------------------------------
(* Executions.                                                              *)

\* Mutant: a task without a reference, collected before it runs.
SpawnForgotten(t) == FALSE

\* The request that commits an approval goes on to spawn its execution.
Spawned(t) ==
  t[2] = FirstExecution /\ pStatus[t[1]] # "approved" /\ pStatus'[t[1]] = "approved"

EnvironmentMoves ==
  /\ Environment!Next
  /\ task' = [t \in Orders |-> IF Spawned(t) THEN [NoTask EXCEPT !.pc = "check"] ELSE task[t]]
  /\ UNCHANGED <<rowVars, brokerVars, handler>>

StartReplay(t) ==
  /\ ReplayAllowed
  /\ t[2] # FirstExecution
  /\ pStatus[t[1]] # "none"
  /\ task[t] = NoTask
  /\ task' = [task EXCEPT ![t].pc = "check"]
  /\ UNCHANGED <<envVars, rowVars, brokerVars, handler>>

\* Mutant: no check that the proposal is approved.
MayExecuteAny(p) ==
  strategyOf[p] # NoStrategy => status[strategyOf[p]] = "active"

\* get_proposal and the re-check of the strategy.  Two reads, but what the first
\* one returns of an approved proposal never changes again.
MayExecute(p) ==
  /\ pStatus[p] = "approved"
  /\ strategyOf[p] # NoStrategy => status[strategyOf[p]] = "active"

CheckProposal(t) ==
  /\ task[t].pc = "check"
  /\ task' = [task EXCEPT ![t].pc = IF MayExecute(t[1]) THEN "read" ELSE "skipped"]
  /\ UNCHANGED <<envVars, rowVars, brokerVars, handler>>

ReadClientId(t) ==
  LET found == clientId[t[1]]
  IN /\ task[t].pc = "read"
     /\ task' = [task EXCEPT
          ![t].pc = IF found = NoId THEN "claim" ELSE "probe",
          ![t].id = found]
     /\ UNCHANGED <<envVars, rowVars, brokerVars, handler>>

\* Mutants: an UPDATE without IS NULL; a loser that keeps its own key.
ClaimAlways(p) == TRUE
OwnKey(t) == t

\* _UPDATE_CLIENT_ORDER_ID_SQL: WHERE client_order_id IS NULL.
ClaimMatches(p) == clientId[p] = NoId

\* An execution that loses the claim refetches the key of the winner.
KeyOfLoser(t) == clientId[t[1]]

ClaimClientId(t) ==
  LET wins == ClaimMatches(t[1])
  IN /\ task[t].pc = "claim"
     /\ clientId' = IF wins THEN [clientId EXCEPT ![t[1]] = t] ELSE clientId
     /\ task' = [task EXCEPT
          ![t].pc = IF wins THEN "place" ELSE "probe",
          ![t].id = IF wins THEN t ELSE KeyOfLoser(t)]
     /\ UNCHANGED <<envVars, execution, failureRows, trades, brokerVars, handler>>

\* What the broker says of a key.
Exists(o) == broker[o] \notin {"unknown", "refused"}

\* An exception ends the execution; its audit row may fail to be written too.
Fail(t) ==
  /\ task' = [task EXCEPT ![t].pc = "failed"]
  /\ failureRows' \in {failureRows, failureRows \cup {t}}
  /\ UNCHANGED <<envVars, clientId, execution, trades, brokerVars, handler>>

ProbeAnswers(t) ==
  /\ task[t].pc = "probe"
  /\ task' = [task EXCEPT ![t].pc = IF Exists(task[t].id) THEN "done" ELSE "place"]
  /\ UNCHANGED <<envVars, rowVars, brokerVars, handler>>

\* Nothing retries the probe.
ProbeFails(t) == task[t].pc = "probe" /\ Fail(t)

\* One turn of place_order_with_retry.
PlaceOrder(t) ==
  /\ task[t].pc = "place"
  /\ wire' = wire \cup {task[t].id}
  /\ task' = [task EXCEPT ![t].pc = "await", ![t].tries = @ + 1]
  /\ UNCHANGED <<envVars, rowVars, broker, events, handler>>

OrderAcknowledged(t) ==
  /\ task[t].pc = "await"
  /\ Exists(task[t].id)
  /\ task' = [task EXCEPT ![t].pc = "save"]
  /\ UNCHANGED <<envVars, rowVars, brokerVars, handler>>

\* Mutant: one submission too many.
GivesUpLate(t) == task[t].tries > MaxAttempts

\* A retryable exception says nothing of the order: it may be at the broker, on
\* its way there, or lost.
GivesUp(t) == task[t].tries >= MaxAttempts

RetryPlaceOrder(t) ==
  /\ task[t].pc = "await"
  /\ ~GivesUp(t)
  /\ task' = [task EXCEPT ![t].pc = "place"]
  /\ UNCHANGED <<envVars, rowVars, brokerVars, handler>>

RetriesExhausted(t) == task[t].pc = "await" /\ GivesUp(t) /\ Fail(t)

TerminalError(t) ==
  /\ task[t].pc = "await"
  /\ broker[task[t].id] = "refused"
  /\ Fail(t)

\* Mutant: the UPDATE of the event handler.
AnyExecutionMatches(p) == pStatus[p] = "approved"

\* _UPDATE_EXECUTION_STATUS_PRELIMINARY_SQL.
PreliminaryMatches(p) ==
  pStatus[p] = "approved" /\ execution[p] \in {"null", "submitted"}

SavePreliminary(t) ==
  LET p == t[1]
  IN /\ task[t].pc = "save"
     /\ execution' = IF PreliminaryMatches(p)
                     THEN [execution EXCEPT ![p] = "submitted"] ELSE execution
     /\ task' = [task EXCEPT ![t].pc = "done"]
     /\ UNCHANGED <<envVars, clientId, failureRows, trades, brokerVars, handler>>

------------------------------------------------------------------------------
(* The broker.                                                              *)

\* A transition is reported at least once.
Report(o, label) ==
  \E copies \in {<<label>>, <<label, label>>} : events' = [events EXCEPT ![o] = @ \o copies]

\* A submission with a key the broker knows is answered with the known order.
BrokerReceives(o) ==
  /\ o \in wire
  /\ wire' = wire \ {o}
  /\ \/ /\ broker[o] = "unknown"
        /\ broker' = [broker EXCEPT ![o] = "accepted"]
        /\ Report(o, "submitted")
     \/ /\ broker[o] = "unknown"
        /\ broker' = [broker EXCEPT ![o] = "refused"]
        /\ UNCHANGED events
     \/ /\ broker[o] # "unknown"
        /\ UNCHANGED <<broker, events>>
  /\ UNCHANGED <<envVars, rowVars, task, handler>>

SubmissionLost(o) ==
  /\ o \in wire
  /\ wire' = wire \ {o}
  /\ UNCHANGED <<envVars, rowVars, broker, events, task, handler>>

OrderMoves(o, label) ==
  /\ \/ broker[o] = "accepted"
     \/ broker[o] = "partial" /\ label # "partial"
  /\ broker' = [broker EXCEPT ![o] = label]
  /\ Report(o, label)
  /\ UNCHANGED <<envVars, rowVars, wire, task, handler>>

------------------------------------------------------------------------------
(* handle_execution_event.                                                  *)

\* One statement writes the status, the next one the trade of a fill; there is
\* no transaction around them.
HandleEvent(o) ==
  LET p == o[1]
      label == Head(events[o])
      known == clientId[p] = o
  IN /\ handler[o] = "idle"
     /\ events[o] # <<>>
     /\ events' = [events EXCEPT ![o] = Tail(@)]
     /\ execution' = IF known /\ pStatus[p] = "approved"
                     THEN [execution EXCEPT ![p] = label] ELSE execution
     /\ handler' = [handler EXCEPT
          ![o] = IF known /\ label = "filled" THEN "insert" ELSE "idle"]
     /\ UNCHANGED <<envVars, clientId, failureRows, trades, wire, broker, task>>

\* Mutant: no conflict clause.
AlwaysInsert(o) == trades[o] + 1

\* ON CONFLICT (broker, perm_id) DO NOTHING.
RowsAfterInsert(o) == IF trades[o] = 0 THEN 1 ELSE trades[o]

InsertTrade(o) ==
  /\ handler[o] = "insert"
  /\ trades' = [trades EXCEPT ![o] = RowsAfterInsert(o)]
  /\ handler' = [handler EXCEPT ![o] = "idle"]
  /\ UNCHANGED <<envVars, clientId, execution, failureRows, brokerVars, task>>

\* The database fails the handler; the client logs it and drops the event.
HandlerFails(o) ==
  /\ \/ /\ handler[o] = "insert"
        /\ handler' = [handler EXCEPT ![o] = "idle"]
        /\ UNCHANGED events
     \/ /\ handler[o] = "idle"
        /\ events[o] # <<>>
        /\ events' = [events EXCEPT ![o] = Tail(@)]
        /\ UNCHANGED handler
  /\ UNCHANGED <<envVars, rowVars, wire, broker, task>>

------------------------------------------------------------------------------

\* The process dies and starts again.  Nothing on the way up looks for an
\* approved proposal without an order; events for the old process may be lost.
Crash ==
  /\ task' = [t \in Orders |->
       IF task[t].pc \in Running THEN [task[t] EXCEPT !.pc = "lost"] ELSE task[t]]
  /\ handler' = [o \in Orders |-> "idle"]
  /\ events' \in {events, [o \in Orders |-> <<>>]}
  /\ UNCHANGED <<envVars, rowVars, wire, broker>>

TaskStep(t) ==
  \/ CheckProposal(t) \/ ReadClientId(t) \/ ClaimClientId(t)
  \/ ProbeAnswers(t) \/ ProbeFails(t)
  \/ PlaceOrder(t) \/ OrderAcknowledged(t)
  \/ RetryPlaceOrder(t) \/ RetriesExhausted(t) \/ TerminalError(t)
  \/ SavePreliminary(t)

HandlerStep(o) == HandleEvent(o) \/ InsertTrade(o)

BrokerStep(o) ==
  \/ BrokerReceives(o) \/ SubmissionLost(o)
  \/ \E label \in {"partial", "filled", "rejected", "cancelled"} : OrderMoves(o, label)

NoFailure ==
  \/ EnvironmentMoves
  \/ \E o \in Orders : StartReplay(o) \/ TaskStep(o) \/ HandlerStep(o) \/ BrokerStep(o)

Next == NoFailure \/ Crash \/ \E o \in Orders : HandlerFails(o)

Spec == Init /\ [][Next]_vars

\* The event loop runs on and every await of a call to the broker ends, with an
\* answer or a timeout.  Chef and the broker owe nothing.
Fairness == \A o \in Orders : WF_vars(TaskStep(o)) /\ WF_vars(HandlerStep(o))

FairSpec      == Init /\ [][NoFailure]_vars /\ Fairness
FairCrashSpec == Spec /\ Fairness

------------------------------------------------------------------------------
(* Properties.                                                              *)

\* NFR-R3: whatever executions race, time out, resubmit or die, the broker
\* never has two orders for one proposal.
AtMostOneOrderPerProposal ==
  \A o1, o2 \in Orders : o1[1] = o2[1] /\ Exists(o1) /\ Exists(o2) => o1 = o2

\* An order exists only for a proposal that Chef approved and whose verdict
\* allowed it.
OrdersAreApproved ==
  \A o \in Orders :
    Exists(o) => pStatus[o[1]] = "approved" /\ ~IsRed(gate[o[1]])

\* The key is in the database before the broker can see it, and stays there: no
\* order can report an event the handler does not know.
EveryOrderIsClaimed ==
  \A o \in Orders : o \in wire \/ Exists(o) => clientId[o[1]] = o

\* A late acknowledgement, or an event delivered again, never moves a filled
\* order back.
FilledStays ==
  [][\A p \in Proposals : execution[p] = "filled" => execution'[p] = "filled"]_vars

\* A trade is booked once, and only for an order that the broker has filled.
TradesAreFills ==
  \A o \in Orders : trades[o] > 0 => trades[o] = 1 /\ broker[o] = "filled"

\* Unless the process dies, the execution of an approval comes to an end: it is
\* placed, skipped because of the strategy, or given up.
ApprovalIsAnswered ==
  \A p \in Proposals :
    pStatus[p] = "approved" ~> task[<<p, FirstExecution>>].pc \in Ended

\* Unless the handler fails, every fill becomes a trade.
FillsAreRecorded ==
  \A o \in Orders : broker[o] = "filled" ~> (trades[o] = 1 /\ execution[o[1]] = "filled")

\* A crash between the claim and the submission is safe: the order is submitted
\* after all, or its execution ends.
ClaimIsExecuted ==
  \A o \in Orders :
    clientId[o[1]] = o ~> (o \in wire \/ broker[o] # "unknown" \/ task[o].pc \in Ended)

\* Retries, races, crashes and repeated events together keep what OrderContract
\* promises of an order.
Contract == INSTANCE OrderContract WITH
  Principal <- [o \in Orders |-> o[1]],
  recorded  <- {o \in Orders : clientId[o[1]] = o},
  placed    <- {o \in Orders : Exists(o)},
  filled    <- {o \in Orders : broker[o] = "filled"}

ContractSpec == Contract!Spec
==============================================================================
