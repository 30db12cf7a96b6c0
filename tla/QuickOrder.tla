------------------------------ MODULE QuickOrder ------------------------------
(***************************************************************************)
(* Chef's manual IB orders (app/services/ib_quick_order.py).               *)
(*                                                                         *)
(* A submit request writes a quick_orders row, then sends a bracket order  *)
(* with the row's order_ref, again after every transient error, then       *)
(* stamps the broker's id on the row.  Execution events of the order run   *)
(* through handle_fill_event at any time meanwhile.  A start of the        *)
(* process sweeps rows that look as if their submit had died.              *)
(*                                                                         *)
(* The broker is external, as in BotExecution: it takes or refuses a       *)
(* submission some time after it was sent, takes an order_ref only once,   *)
(* and reports every transition of an order, in order and at least once.   *)
(***************************************************************************)
EXTENDS Naturals, Sequences

CONSTANTS
  Orders,       \* order_refs; each submit request generates one
  MaxAttempts   \* submissions before a request gives up

ASSUME AttemptsAssumption == MaxAttempts \in Nat \ {0}

VARIABLES
  status,    \* quick_orders.status, "none" before the INSERT
  stamped,   \* rows whose ib_order_id is set
  old,       \* rows created more than five minutes ago
  request,   \* request[o] : local state of the submit request
  server,    \* is the process starting up or serving requests?
  wire,      \* order_refs whose submission is under way to the broker
  broker,    \* broker[o] : state of the order at the broker
  events,    \* events[o] : execution events not handled yet
  trades,    \* trades[o] : rows of trades with the order's id
  missed     \* history: orders a report of whose fill was lost

rowVars    == <<status, stamped, old, trades>>
brokerVars == <<wire, broker, events, missed>>
vars       == <<rowVars, brokerVars, request, server>>

OrderStatuses == {"submitted", "partial", "filled", "rejected", "cancelled"}

BrokerStates == {"unknown", "refused", "accepted", "partial", "filled", "rejected", "cancelled"}

Running == {"place", "await", "reject", "stamp"}

\* How a request ends: 201, the two 422 fragments, or an uncaught exception.
Ended == {"placed", "refused", "gave_up", "error"}

Requests == [pc : {"idle", "lost"} \cup Running \cup Ended, tries : 0..MaxAttempts]

TypeOK ==
  /\ status  \in [Orders -> OrderStatuses \cup {"none"}]
  /\ stamped \subseteq Orders
  /\ old     \subseteq Orders
  /\ request \in [Orders -> Requests]
  /\ server  \in {"starting", "serving"}
  /\ wire    \subseteq Orders
  /\ broker  \in [Orders -> BrokerStates]
  /\ events  \in [Orders -> Seq(OrderStatuses)]
  /\ trades  \in [Orders -> Nat]
  /\ missed  \subseteq Orders

Init ==
  /\ status  = [o \in Orders |-> "none"]
  /\ stamped = {}
  /\ old     = {}
  /\ request = [o \in Orders |-> [pc |-> "idle", tries |-> 0]]
  /\ server  = "starting"
  /\ wire    = {}
  /\ broker  = [o \in Orders |-> "unknown"]
  /\ events  = [o \in Orders |-> <<>>]
  /\ trades  = [o \in Orders |-> 0]
  /\ missed  = {}

------------------------------------------------------------------------------
(* The submit request.                                                      *)

GoesTo(o, pc) == request' = [request EXCEPT ![o].pc = pc]

\* The INSERT commits before the broker hears of the order.  A client that is
\* not connected and a margin not acknowledged end the request before it.
Submit(o) ==
  /\ server = "serving"
  /\ request[o].pc = "idle"
  /\ status' = [status EXCEPT ![o] = "submitted"]
  /\ GoesTo(o, "place")
  /\ UNCHANGED <<stamped, old, trades, brokerVars, server>>

\* One turn of place_order_with_retry.
PlaceBracket(o) ==
  /\ request[o].pc = "place"
  /\ wire' = wire \cup {o}
  /\ request' = [request EXCEPT ![o] = [pc |-> "await", tries |-> @.tries + 1]]
  /\ UNCHANGED <<rowVars, broker, events, missed, server>>

\* What the broker holds.
Exists(o) == broker[o] \notin {"unknown", "refused"}

\* Mutant: a refusal is taken for an answer like any other.
AnyAnswer(o) == broker[o] # "unknown"

Acknowledged(o) == Exists(o)

OrderAcknowledged(o) ==
  /\ request[o].pc = "await"
  /\ Acknowledged(o)
  /\ GoesTo(o, "stamp")
  /\ UNCHANGED <<rowVars, brokerVars, server>>

\* A terminal error is an answer of the broker, or the client's own: a turn
\* that finds the connection closed sends nothing.
TerminalError(o) ==
  /\ \/ request[o].pc = "await" /\ broker[o] = "refused"
     \/ request[o].pc = "place"
  /\ GoesTo(o, "reject")
  /\ UNCHANGED <<rowVars, brokerVars, server>>

\* Mutant: one submission too many.
GivesUpLate(o) == request[o].tries > MaxAttempts

GivesUp(o) == request[o].tries >= MaxAttempts

RetryBracket(o) ==
  /\ request[o].pc = "await"
  /\ ~GivesUp(o)
  /\ GoesTo(o, "place")
  /\ UNCHANGED <<rowVars, brokerVars, server>>

\* The last error is raised again.  submit_quick_order catches an
\* IBTransientError; a TimeoutError, which the loop retries too, it does not.
RetriesExhausted(o) ==
  /\ request[o].pc = "await"
  /\ GivesUp(o)
  /\ GoesTo(o, "gave_up") \/ GoesTo(o, "error")
  /\ UNCHANGED <<rowVars, brokerVars, server>>

\* The UPDATE by id alone.
MarkRejected(o) ==
  /\ request[o].pc = "reject"
  /\ status' = [status EXCEPT ![o] = "rejected"]
  /\ GoesTo(o, "refused")
  /\ UNCHANGED <<stamped, old, trades, brokerVars, server>>

StampOrderId(o) ==
  /\ request[o].pc = "stamp"
  /\ stamped' = stamped \cup {o}
  /\ GoesTo(o, "placed")
  /\ UNCHANGED <<status, old, trades, brokerVars, server>>

------------------------------------------------------------------------------
(* The broker.                                                              *)

\* A transition is reported at least once.
Report(o, label) ==
  \E copies \in {<<label>>, <<label, label>>} : events' = [events EXCEPT ![o] = @ \o copies]

BrokerReceives(o) ==
  /\ o \in wire
  /\ wire' = wire \ {o}
  /\ \/ /\ broker[o] = "unknown"
        /\ broker' = [broker EXCEPT ![o] = "accepted"]
        /\ Report(o, "submitted")
     \/ /\ broker[o] = "unknown"
        /\ broker' = [broker EXCEPT ![o] = "refused"]
        /\ UNCHANGED events
     \/ /\ broker[o] # "unknown"
        /\ UNCHANGED <<broker, events>>
  /\ UNCHANGED <<rowVars, missed, request, server>>

SubmissionLost(o) ==
  /\ o \in wire
  /\ wire' = wire \ {o}
  /\ UNCHANGED <<rowVars, broker, events, missed, request, server>>

OrderMoves(o, label) ==
  /\ \/ broker[o] = "accepted"
     \/ broker[o] = "partial" /\ label # "partial"
  /\ broker' = [broker EXCEPT ![o] = label]
  /\ Report(o, label)
  /\ UNCHANGED <<rowVars, wire, missed, request, server>>

------------------------------------------------------------------------------
(* handle_fill_event.                                                       *)

\* Mutants: a trade only for a row that is still open; no conflict clause.
BooksOpenRow(o, label) == label = "filled" /\ status[o] = "submitted"
AlwaysInsert(o) == trades[o] + 1

Books(o, label) == label = "filled"

\* ON CONFLICT (broker, perm_id) DO NOTHING.
RowsAfterInsert(o) == IF trades[o] = 0 THEN 1 ELSE trades[o]

\* The row is found by its order_ref; status, id and trade are one transaction.
HandleFillEvent(o) ==
  LET label == Head(events[o])
  IN /\ events[o] # <<>>
     /\ events' = [events EXCEPT ![o] = Tail(@)]
     /\ status' = [status EXCEPT ![o] = label]
     /\ stamped' = stamped \cup {o}
     /\ trades' = IF Books(o, label) THEN [trades EXCEPT ![o] = RowsAfterInsert(o)] ELSE trades
     /\ UNCHANGED <<old, wire, broker, missed, request, server>>

\* The database fails the handler; the client logs it and drops the event.
HandlerFails(o) ==
  /\ events[o] # <<>>
  /\ events' = [events EXCEPT ![o] = Tail(@)]
  /\ missed' = IF Head(events[o]) = "filled" THEN missed \cup {o} ELSE missed
  /\ UNCHANGED <<rowVars, wire, broker, request, server>>

------------------------------------------------------------------------------
(* Time, crashes and the start-up sweep.                                    *)

FiveMinutesPass(o) ==
  /\ status[o] # "none"
  /\ o \notin old
  /\ old' = old \cup {o}
  /\ UNCHANGED <<status, stamped, trades, brokerVars, request, server>>

ReportsFill(o) == \E i \in 1..Len(events[o]) : events[o][i] = "filled"

\* Requests die with the process; events for it may be lost.
Crash ==
  /\ server' = "starting"
  /\ request' = [o \in Orders |->
       IF request[o].pc \in Running THEN [request[o] EXCEPT !.pc = "lost"] ELSE request[o]]
  /\ \/ UNCHANGED <<events, missed>>
     \/ /\ events' = [o \in Orders |-> <<>>]
        /\ missed' = missed \cup {o \in Orders : ReportsFill(o)}
  /\ UNCHANGED <<rowVars, wire, broker>>

\* Rows matched by _SWEEP_ORPHAN_QUICK_ORDERS_SQL.
Orphans == {o \in old \ stamped : status[o] = "submitted"}

\* Event handlers are subscribed before the sweep, requests served after it.
SweepOrphans ==
  /\ server = "starting"
  /\ server' = "serving"
  /\ status' = [o \in Orders |-> IF o \in Orphans THEN "rejected" ELSE status[o]]
  /\ UNCHANGED <<stamped, old, trades, brokerVars, request>>

\* A sweep that raises is logged and the start goes on.
SweepFails ==
  /\ server = "starting"
  /\ server' = "serving"
  /\ UNCHANGED <<rowVars, brokerVars, request>>

SubmitStep(o) ==
  \/ PlaceBracket(o) \/ OrderAcknowledged(o) \/ TerminalError(o)
  \/ RetryBracket(o) \/ RetriesExhausted(o)
  \/ MarkRejected(o) \/ StampOrderId(o)

BrokerStep(o) ==
  \/ BrokerReceives(o) \/ SubmissionLost(o)
  \/ \E label \in {"partial", "filled", "rejected", "cancelled"} : OrderMoves(o, label)

OrderStep(o) ==
  \/ Submit(o) \/ SubmitStep(o) \/ BrokerStep(o) \/ HandleFillEvent(o)
  \/ FiveMinutesPass(o)

Next ==
  \/ \E o \in Orders : OrderStep(o) \/ HandlerFails(o)
  \/ Crash \/ SweepOrphans \/ SweepFails

\* The event loop runs on and every call to the client ends.
Fairness == \A o \in Orders : WF_vars(SubmitStep(o)) /\ WF_vars(HandleFillEvent(o))

Spec == Init /\ [][Next]_vars

FairSpec == Spec /\ Fairness

------------------------------------------------------------------------------
(* Properties.                                                              *)

\* Every filled quick order has its trade, whatever fails between the order and
\* the handler (the invariant of handle_fill_event's docstring).
FilledIsBooked == \A o \in Orders : status[o] = "filled" => trades[o] = 1

\* A trade is booked once, and only for an order that the broker has filled.
TradesAreFills ==
  \A o \in Orders : trades[o] > 0 => trades[o] = 1 /\ broker[o] = "filled"

\* A row that names a broker's order names one that exists, and no order exists
\* without a row: the INSERT precedes the submission.
StampedOrdersExist ==
  \A o \in Orders :
    /\ o \in stamped => Exists(o)
    /\ o \in wire \/ Exists(o) => status[o] # "none"

\* A fill is booked, whatever became of the request that placed the order,
\* unless a report of it never got through the handler.
FillsAreBooked ==
  \A o \in Orders : broker[o] = "filled" ~> trades[o] = 1 \/ o \in missed

\* The journal follows the broker: once it shows a fill, it goes on showing it.
FilledStays ==
  [][\A o \in Orders : status[o] = "filled" => status'[o] = "filled"]_vars

\* Retries, races, crashes and repeated events together keep what OrderContract
\* promises of an order.
Contract == INSTANCE OrderContract WITH
  Principal <- [o \in Orders |-> o],
  recorded  <- {o \in Orders : status[o] # "none"},
  placed    <- {o \in Orders : Exists(o)},
  filled    <- {o \in Orders : broker[o] = "filled"}

ContractSpec == Contract!Spec
==============================================================================
