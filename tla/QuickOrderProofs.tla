--------------------------- MODULE QuickOrderProofs ---------------------------
(***************************************************************************)
(* Proofs about QuickOrder, for any number of orders, any number of        *)
(* submissions per order, and any loss, delay, repetition, crash or        *)
(* failing statement the module allows.                                    *)
(*                                                                         *)
(* The argument: the row is written before anything leaves the process     *)
(* (RowsExist), an answer or an event that names an order comes from one   *)
(* that exists (AnswersAreReal, EventsAreReal), and an order that exists   *)
(* goes on existing, a filled one stays filled.                            *)
(***************************************************************************)
EXTENDS QuickOrder, SequenceTheorems, TLAPS

\* A request submits only while it has submissions left.
SubmissionsLeft ==
  \A o \in Orders :
    /\ request[o].pc = "idle"  => request[o].tries = 0
    /\ request[o].pc = "place" => request[o].tries < MaxAttempts

TypeInv == TypeOK /\ SubmissionsLeft

\* Whatever concerns an order begins after the INSERT of its row.
RowsExist ==
  \A o \in Orders :
    request[o].pc # "idle" \/ o \in wire \/ broker[o] # "unknown" => status[o] # "none"

\* Events come from orders that exist, and a fill from one that is filled.
EventsAreReal ==
  \A o \in Orders : \A i \in 1..Len(events[o]) :
    /\ Exists(o)
    /\ events[o][i] = "filled" => broker[o] = "filled"

\* An id that is on the row, or about to be, is one of an order that exists.
AnswersAreReal ==
  \A o \in Orders : request[o].pc = "stamp" \/ o \in stamped => Exists(o)

------------------------------------------------------------------------------
(* Types.                                                                   *)

LEMMA TypeInit == Init => TypeInv
BY AttemptsAssumption
   DEF Init, TypeInv, TypeOK, SubmissionsLeft, Requests, Running, Ended, OrderStatuses,
       BrokerStates

PcStates == {"idle", "lost"} \cup Running \cup Ended

\* A step that only moves one request on.
LEMMA PcKeepsTypes ==
  ASSUME TypeInv, NEW o \in Orders, NEW pc \in PcStates \ {"idle"},
         pc = "place" => request[o].tries < MaxAttempts, GoesTo(o, pc)
  PROVE  request' \in [Orders -> Requests] /\ SubmissionsLeft'
<1>1. request \in [Orders -> Requests]
  BY DEF TypeInv, TypeOK
<1>2. [request[o] EXCEPT !.pc = pc] \in Requests
  BY <1>1 DEF Requests, PcStates
<1>3. request' = [request EXCEPT ![o] = [request[o] EXCEPT !.pc = pc]]
  BY DEF GoesTo
<1>4. request' \in [Orders -> Requests]
  BY <1>1, <1>2, <1>3
<1>5. request'[o].pc = pc /\ request'[o].tries = request[o].tries
  BY <1>1, <1>3 DEF Requests
<1>6. \A q \in Orders \ {o} : request'[q] = request[q]
  BY <1>1, <1>3
<1>7. QED
  BY <1>4, <1>5, <1>6 DEF SubmissionsLeft, TypeInv

LEMMA SubmissionKeepsTypes ==
  ASSUME TypeInv, NEW o \in Orders, PlaceBracket(o)
  PROVE  request' \in [Orders -> Requests] /\ SubmissionsLeft'
<1>1. request \in [Orders -> Requests] /\ request[o].tries < MaxAttempts
  BY DEF TypeInv, TypeOK, SubmissionsLeft, PlaceBracket
<1>2. [pc |-> "await", tries |-> request[o].tries + 1] \in Requests
  BY <1>1, AttemptsAssumption DEF Requests, Running
<1>3. request' = [request EXCEPT ![o] = [pc |-> "await", tries |-> request[o].tries + 1]]
  BY DEF PlaceBracket
<1>4. QED
  BY <1>1, <1>2, <1>3 DEF SubmissionsLeft, TypeInv

LEMMA CrashKeepsTypes ==
  ASSUME TypeInv, Crash
  PROVE  request' \in [Orders -> Requests] /\ SubmissionsLeft'
<1>1. request \in [Orders -> Requests]
  BY DEF TypeInv, TypeOK
<1>2. \A o \in Orders : [request[o] EXCEPT !.pc = "lost"] \in Requests
  BY <1>1 DEF Requests
<1>3. \A o \in Orders :
        \/ request'[o] = request[o]
        \/ request'[o] = [request[o] EXCEPT !.pc = "lost"]
  BY DEF Crash
<1>4. request' \in [Orders -> Requests]
  BY <1>1, <1>2 DEF Crash
<1>5. \A o \in Orders : request'[o] = request[o] \/ request'[o].pc = "lost"
  BY <1>1, <1>3 DEF Requests
<1>6. QED
  BY <1>4, <1>5 DEF SubmissionsLeft, TypeInv

LEMMA ReportKeepsTypes ==
  ASSUME events \in [Orders -> Seq(OrderStatuses)], NEW o \in Orders,
         NEW label \in OrderStatuses, Report(o, label)
  PROVE  events' \in [Orders -> Seq(OrderStatuses)]
<1>1. PICK copies \in {<<label>>, <<label, label>>} :
        events' = [events EXCEPT ![o] = events[o] \o copies]
  BY DEF Report
<1>2. copies \in Seq(OrderStatuses)
  <2>1. <<label>> \in Seq(OrderStatuses) /\ <<label, label>> \in Seq(OrderStatuses)
    OBVIOUS
  <2>2. QED
    BY <2>1
<1>3. events[o] \o copies \in Seq(OrderStatuses)
  BY <1>2, ConcatProperties
<1>4. QED
  BY <1>1, <1>3

LEMMA TailKeepsTypes ==
  ASSUME events \in [Orders -> Seq(OrderStatuses)], NEW o \in Orders,
         events[o] # <<>>, events' = [events EXCEPT ![o] = Tail(@)]
  PROVE  /\ events' \in [Orders -> Seq(OrderStatuses)]
         /\ Head(events[o]) \in OrderStatuses
OBVIOUS

LEMMA TypeNext == TypeInv /\ [Next]_vars => TypeInv'
<1> SUFFICES ASSUME TypeInv, [Next]_vars PROVE TypeInv'
  OBVIOUS
<1> USE DEF TypeInv, TypeOK, rowVars, brokerVars
<1>1. ASSUME NEW o \in Orders, Submit(o) PROVE TypeInv'
  <2>1. request[o].tries < MaxAttempts
    BY <1>1, AttemptsAssumption DEF Submit, SubmissionsLeft
  <2>2. request' \in [Orders -> Requests] /\ SubmissionsLeft'
    BY <1>1, <2>1, PcKeepsTypes DEF Submit, PcStates, Running
  <2>3. QED
    BY <1>1, <2>2 DEF Submit, OrderStatuses
<1>2. ASSUME NEW o \in Orders, PlaceBracket(o) PROVE TypeInv'
  BY <1>2, SubmissionKeepsTypes DEF PlaceBracket
<1>3. ASSUME NEW o \in Orders,
             \/ OrderAcknowledged(o) \/ TerminalError(o) \/ RetryBracket(o)
             \/ RetriesExhausted(o) \/ MarkRejected(o) \/ StampOrderId(o)
      PROVE  request' \in [Orders -> Requests] /\ SubmissionsLeft'
  <2>1. request[o].tries \in 0..MaxAttempts
    BY DEF Requests
  <2>2. CASE RetryBracket(o)
    <3>1. GoesTo(o, "place") /\ request[o].tries < MaxAttempts
      BY <2>1, <2>2, AttemptsAssumption DEF RetryBracket, GivesUp
    <3>2. QED
      BY <3>1, PcKeepsTypes DEF PcStates, Running
  <2>3. CASE OrderAcknowledged(o)
    BY <2>3, PcKeepsTypes DEF OrderAcknowledged, PcStates, Running
  <2>4. CASE TerminalError(o)
    BY <2>4, PcKeepsTypes DEF TerminalError, PcStates, Running
  <2>5. CASE RetriesExhausted(o)
    BY <2>5, PcKeepsTypes DEF RetriesExhausted, PcStates, Ended
  <2>6. CASE MarkRejected(o)
    BY <2>6, PcKeepsTypes DEF MarkRejected, PcStates, Ended
  <2>7. CASE StampOrderId(o)
    BY <2>7, PcKeepsTypes DEF StampOrderId, PcStates, Ended
  <2>8. QED
    BY <1>3, <2>2, <2>3, <2>4, <2>5, <2>6, <2>7
<1>4. ASSUME NEW o \in Orders,
             \/ OrderAcknowledged(o) \/ TerminalError(o) \/ RetryBracket(o)
             \/ RetriesExhausted(o) \/ MarkRejected(o) \/ StampOrderId(o)
      PROVE  TypeInv'
  BY <1>3, <1>4
     DEF OrderAcknowledged, TerminalError, RetryBracket, RetriesExhausted, MarkRejected,
         StampOrderId, OrderStatuses
<1>5. ASSUME NEW o \in Orders, BrokerReceives(o) PROVE TypeInv'
  BY <1>5, ReportKeepsTypes DEF BrokerReceives, BrokerStates, OrderStatuses, SubmissionsLeft
<1>6. ASSUME NEW o \in Orders, SubmissionLost(o) PROVE TypeInv'
  BY <1>6 DEF SubmissionLost, SubmissionsLeft
<1>7. ASSUME NEW o \in Orders, NEW label \in {"partial", "filled", "rejected", "cancelled"},
             OrderMoves(o, label)
      PROVE  TypeInv'
  BY <1>7, ReportKeepsTypes DEF OrderMoves, BrokerStates, OrderStatuses, SubmissionsLeft
<1>8. ASSUME NEW o \in Orders, HandleFillEvent(o) PROVE TypeInv'
  BY <1>8, TailKeepsTypes DEF HandleFillEvent, RowsAfterInsert, SubmissionsLeft
<1>9. ASSUME NEW o \in Orders, HandlerFails(o) PROVE TypeInv'
  BY <1>9, TailKeepsTypes DEF HandlerFails, SubmissionsLeft
<1>10. ASSUME NEW o \in Orders, FiveMinutesPass(o) PROVE TypeInv'
  BY <1>10 DEF FiveMinutesPass, SubmissionsLeft
<1>11. CASE Crash
  <2>1. events' \in [Orders -> Seq(OrderStatuses)] /\ missed' \subseteq Orders
    <3>1. [o \in Orders |-> <<>>] \in [Orders -> Seq(OrderStatuses)]
      OBVIOUS
    <3>2. missed \cup {o \in Orders : ReportsFill(o)} \subseteq Orders
      OBVIOUS
    <3>3. QED
      BY <1>11, <3>1, <3>2 DEF Crash
  <2>2. QED
    BY <1>11, <2>1, CrashKeepsTypes DEF Crash
<1>12. CASE SweepOrphans
  BY <1>12 DEF SweepOrphans, OrderStatuses, SubmissionsLeft
<1>13. CASE SweepFails
  BY <1>13 DEF SweepFails, SubmissionsLeft
<1>14. CASE UNCHANGED vars
  BY <1>14 DEF vars, SubmissionsLeft
<1>15. QED
  BY <1>1, <1>2, <1>4, <1>5, <1>6, <1>7, <1>8, <1>9, <1>10, <1>11, <1>12, <1>13, <1>14
     DEF Next, OrderStep, SubmitStep, BrokerStep

LEMMA TypeInvariant == Spec => []TypeInv
BY TypeInit, TypeNext, PTL DEF Spec

\* Every variable stays in its type.
THEOREM TypeCorrect == Spec => []TypeOK
<1>1. TypeInv => TypeOK
  BY DEF TypeInv
<1>2. QED
  BY <1>1, TypeInvariant, PTL

------------------------------------------------------------------------------
(* Rows and answers.                                                        *)

\* The broker only adds orders, and only moves those it has from open states.
LEMMA BrokerGoesForward ==
  ASSUME TypeInv, [Next]_vars, NEW o \in Orders
  PROVE  /\ Exists(o) => Exists(o)'
         /\ broker[o] = "filled" => broker'[o] = "filled"
<1> USE DEF Exists, rowVars, brokerVars
<1>1. CASE UNCHANGED broker
  BY <1>1
<1>2. ASSUME NEW q \in Orders, BrokerReceives(q)
      PROVE  /\ Exists(o) => Exists(o)'
             /\ broker[o] = "filled" => broker'[o] = "filled"
  BY <1>2 DEF BrokerReceives, TypeInv, TypeOK
<1>3. ASSUME NEW q \in Orders, NEW label \in {"partial", "filled", "rejected", "cancelled"},
             OrderMoves(q, label)
      PROVE  /\ Exists(o) => Exists(o)'
             /\ broker[o] = "filled" => broker'[o] = "filled"
  BY <1>3 DEF OrderMoves, TypeInv, TypeOK
<1>4. QED
  BY <1>1, <1>2, <1>3
     DEF Next, OrderStep, SubmitStep, BrokerStep, Submit, PlaceBracket,
         OrderAcknowledged, TerminalError, RetryBracket, RetriesExhausted, MarkRejected,
         StampOrderId, SubmissionLost, HandleFillEvent, HandlerFails, FiveMinutesPass,
         Crash, SweepOrphans, SweepFails, vars

\* No row disappears: every UPDATE writes one of the five statuses.
LEMMA RowsStay ==
  ASSUME TypeInv, [Next]_vars, NEW o \in Orders, status[o] # "none"
  PROVE  status'[o] # "none"
<1> USE DEF rowVars, brokerVars, TypeInv, TypeOK
<1>1. CASE UNCHANGED status
  BY <1>1
<1>2. ASSUME NEW q \in Orders, Submit(q) \/ MarkRejected(q) PROVE status'[o] # "none"
  BY <1>2 DEF Submit, MarkRejected
<1>3. ASSUME NEW q \in Orders, HandleFillEvent(q) PROVE status'[o] # "none"
  <2>1. Head(events[q]) \in OrderStatuses
    BY <1>3 DEF HandleFillEvent
  <2>2. QED
    BY <1>3, <2>1 DEF HandleFillEvent, OrderStatuses
<1>4. CASE SweepOrphans
  BY <1>4 DEF SweepOrphans
<1>5. QED
  BY <1>1, <1>2, <1>3, <1>4
     DEF Next, OrderStep, SubmitStep, BrokerStep, PlaceBracket,
         OrderAcknowledged, TerminalError, RetryBracket, RetriesExhausted,
         StampOrderId, BrokerReceives, SubmissionLost, OrderMoves, HandlerFails,
         FiveMinutesPass, Crash, SweepFails, vars

LEMMA RowsNext == TypeInv /\ RowsExist /\ [Next]_vars => RowsExist'
<1> SUFFICES ASSUME TypeInv, RowsExist, [Next]_vars, NEW o \in Orders,
                    request'[o].pc # "idle" \/ o \in wire' \/ broker'[o] # "unknown"
             PROVE  status'[o] # "none"
  BY DEF RowsExist
<1>1. CASE request[o].pc # "idle" \/ o \in wire \/ broker[o] # "unknown"
  BY <1>1, RowsStay DEF RowsExist
<1>2. CASE ~(request[o].pc # "idle" \/ o \in wire \/ broker[o] # "unknown")
  <2> USE DEF rowVars, brokerVars, TypeInv, TypeOK
  <2>1. CASE Submit(o)
    BY <2>1 DEF Submit
  <2>2. ASSUME NEW q \in Orders, q # o, Submit(q) \/ SubmitStep(q) PROVE FALSE
    BY <1>2, <2>2
       DEF Submit, SubmitStep, PlaceBracket, OrderAcknowledged, TerminalError, RetryBracket,
           RetriesExhausted, MarkRejected, StampOrderId, GoesTo
  <2>3. CASE SubmitStep(o)
    BY <1>2, <2>3
       DEF SubmitStep, PlaceBracket, OrderAcknowledged, TerminalError, RetryBracket,
           RetriesExhausted, MarkRejected, StampOrderId
  <2>4. ASSUME NEW q \in Orders, BrokerStep(q) PROVE FALSE
    BY <1>2, <2>4 DEF BrokerStep, BrokerReceives, SubmissionLost, OrderMoves
  <2>5. CASE Crash
    BY <1>2, <2>5 DEF Crash, Running
  <2>6. QED
    BY <1>2, <2>1, <2>2, <2>3, <2>4, <2>5
       DEF Next, OrderStep, HandleFillEvent, HandlerFails, FiveMinutesPass,
           SweepOrphans, SweepFails, vars
<1>3. QED
  BY <1>1, <1>2

\* A report appended to the queue of an order.
LEMMA ReportKeepsEvents ==
  ASSUME TypeInv, EventsAreReal, NEW o \in Orders, NEW label \in OrderStatuses,
         Report(o, label), Exists(o)',
         label = "filled" \/ broker[o] = "filled" => broker'[o] = "filled",
         \A q \in Orders \ {o} : broker'[q] = broker[q]
  PROVE  EventsAreReal'
<1>1. PICK copies \in {<<label>>, <<label, label>>} :
        events' = [events EXCEPT ![o] = events[o] \o copies]
  BY DEF Report
<1>2. /\ events[o] \in Seq(OrderStatuses)
      /\ copies \in Seq(OrderStatuses)
      /\ \A i \in 1..Len(copies) : copies[i] = label
  <2>1. CASE copies = <<label>>
    BY <2>1 DEF TypeInv, TypeOK
  <2>2. CASE copies = <<label, label>>
    BY <2>2 DEF TypeInv, TypeOK
  <2>3. QED
    BY <1>1, <2>1, <2>2
<1>3. events'[o] = events[o] \o copies
  BY <1>1 DEF TypeInv, TypeOK
<1>4. \A i \in 1..Len(events'[o]) :
        events'[o][i] = label \/ (i \in 1..Len(events[o]) /\ events'[o][i] = events[o][i])
  BY <1>2, <1>3
<1>5. \A i \in 1..Len(events'[o]) : events'[o][i] = "filled" => broker'[o] = "filled"
  BY <1>4 DEF EventsAreReal
<1>6. \A q \in Orders \ {o} : events'[q] = events[q]
  BY <1>1 DEF TypeInv, TypeOK
<1>7. QED
  BY <1>5, <1>6 DEF EventsAreReal, Exists

\* The first event taken off the queue of an order.
LEMMA TailKeepsEvents ==
  ASSUME TypeInv, EventsAreReal, NEW o \in Orders, events[o] # <<>>,
         events' = [events EXCEPT ![o] = Tail(@)], UNCHANGED broker
  PROVE  /\ EventsAreReal'
         /\ Exists(o)
         /\ Head(events[o]) = "filled" => broker[o] = "filled"
<1>1. events[o] \in Seq(OrderStatuses)
  BY DEF TypeInv, TypeOK
<1>2. Head(events[o]) = events[o][1] /\ 1 \in 1..Len(events[o])
  BY <1>1
<1>3. events'[o] = Tail(events[o])
  BY DEF TypeInv, TypeOK
<1>4. \A i \in 1..Len(events'[o]) : i + 1 \in 1..Len(events[o]) /\ events'[o][i] = events[o][i + 1]
  <2>1. /\ Len(Tail(events[o])) = Len(events[o]) - 1
        /\ \A i \in 1..Len(Tail(events[o])) : Tail(events[o])[i] = events[o][i + 1]
    BY <1>1, HeadTailProperties
  <2>2. Len(events[o]) \in Nat
    BY <1>1
  <2>3. \A i \in 1..(Len(events[o]) - 1) : i + 1 \in 1..Len(events[o])
    BY <2>2
  <2>4. QED
    BY <1>3, <2>1, <2>3
<1>5. \A i \in 1..Len(events'[o]) : events'[o][i] = "filled" => broker[o] = "filled"
  BY <1>4 DEF EventsAreReal
<1>6. \A q \in Orders \ {o} : events'[q] = events[q]
  BY DEF TypeInv, TypeOK
<1>7. Exists(o)
  BY <1>2 DEF EventsAreReal
<1>8. QED
  BY <1>2, <1>5, <1>6, <1>7 DEF EventsAreReal, Exists

LEMMA EventsNext == TypeInv /\ EventsAreReal /\ [Next]_vars => EventsAreReal'
<1> SUFFICES ASSUME TypeInv, EventsAreReal, [Next]_vars PROVE EventsAreReal'
  OBVIOUS
<1> USE DEF rowVars, brokerVars
<1>1. CASE UNCHANGED <<broker, events>>
  BY <1>1 DEF EventsAreReal, Exists
<1>2. ASSUME NEW o \in Orders, BrokerReceives(o) PROVE EventsAreReal'
  <2>1. CASE UNCHANGED events /\ broker[o] = "unknown" /\ broker' = [broker EXCEPT ![o] = "refused"]
    BY <2>1 DEF EventsAreReal, Exists, TypeInv, TypeOK
  <2>2. CASE /\ broker[o] = "unknown" /\ Report(o, "submitted")
             /\ broker' = [broker EXCEPT ![o] = "accepted"]
    BY <2>2, ReportKeepsEvents DEF OrderStatuses, Exists, TypeInv, TypeOK
  <2>3. QED
    BY <1>1, <1>2, <2>1, <2>2 DEF BrokerReceives
<1>3. ASSUME NEW o \in Orders, NEW label \in {"partial", "filled", "rejected", "cancelled"},
             OrderMoves(o, label)
      PROVE  EventsAreReal'
  BY <1>3, ReportKeepsEvents DEF OrderMoves, OrderStatuses, Exists, TypeInv, TypeOK
<1>4. ASSUME NEW o \in Orders, HandleFillEvent(o) \/ HandlerFails(o) PROVE EventsAreReal'
  BY <1>4, TailKeepsEvents DEF HandleFillEvent, HandlerFails
<1>5. CASE Crash
  <2>1. CASE events' = [o \in Orders |-> <<>>]
    BY <2>1 DEF EventsAreReal
  <2>2. QED
    BY <1>1, <1>5, <2>1 DEF Crash
<1>6. QED
  BY <1>1, <1>2, <1>3, <1>4, <1>5
     DEF Next, OrderStep, SubmitStep, BrokerStep, Submit, PlaceBracket,
         OrderAcknowledged, TerminalError, RetryBracket, RetriesExhausted, MarkRejected,
         StampOrderId, SubmissionLost, FiveMinutesPass, SweepOrphans, SweepFails, vars

LEMMA AnswersNext ==
  TypeInv /\ EventsAreReal /\ AnswersAreReal /\ [Next]_vars => AnswersAreReal'
<1> SUFFICES ASSUME TypeInv, EventsAreReal, AnswersAreReal, [Next]_vars, NEW o \in Orders,
                    request'[o].pc = "stamp" \/ o \in stamped'
             PROVE  Exists(o)'
  BY DEF AnswersAreReal
<1>1. CASE request[o].pc = "stamp" \/ o \in stamped \/ Exists(o)
  BY <1>1, BrokerGoesForward DEF AnswersAreReal
<1>2. CASE ~(request[o].pc = "stamp" \/ o \in stamped \/ Exists(o))
  <2> USE DEF rowVars, brokerVars, TypeInv, TypeOK
  <2>1. ASSUME NEW q \in Orders, Submit(q) PROVE FALSE
    BY <1>2, <2>1 DEF Submit, GoesTo, Requests
  <2>2. ASSUME NEW q \in Orders, SubmitStep(q) PROVE FALSE
    <3>1. CASE PlaceBracket(q)
      BY <1>2, <3>1 DEF PlaceBracket
    <3>2. CASE OrderAcknowledged(q)
      BY <1>2, <3>2 DEF OrderAcknowledged, Acknowledged, GoesTo, Requests
    <3>3. CASE TerminalError(q) \/ RetryBracket(q) \/ RetriesExhausted(q) \/ MarkRejected(q)
      <4>1. PICK pc \in {"reject", "place", "gave_up", "error", "refused"} : GoesTo(q, pc)
        BY <3>3 DEF TerminalError, RetryBracket, RetriesExhausted, MarkRejected
      <4>2. UNCHANGED stamped
        BY <3>3 DEF TerminalError, RetryBracket, RetriesExhausted, MarkRejected
      <4>3. request'[o].pc # "stamp"
        BY <1>2, <4>1 DEF GoesTo, Requests
      <4>4. QED
        BY <1>2, <4>2, <4>3
    <3>4. CASE StampOrderId(q)
      BY <1>2, <3>4 DEF StampOrderId, GoesTo, Requests
    <3>5. QED
      BY <2>2, <3>1, <3>2, <3>3, <3>4 DEF SubmitStep
  <2>3. ASSUME NEW q \in Orders, HandleFillEvent(q) PROVE FALSE
    <3>1. Exists(q)
      BY <2>3, TailKeepsEvents DEF HandleFillEvent
    <3>2. QED
      BY <1>2, <2>3, <3>1 DEF HandleFillEvent
  <2>4. ASSUME NEW q \in Orders, BrokerStep(q) \/ HandlerFails(q) \/ FiveMinutesPass(q)
        PROVE  FALSE
    BY <1>2, <2>4
       DEF BrokerStep, BrokerReceives, SubmissionLost, OrderMoves, HandlerFails,
           FiveMinutesPass
  <2>5. CASE Crash
    BY <1>2, <2>5 DEF Crash
  <2>6. QED
    BY <1>2, <2>1, <2>2, <2>3, <2>4, <2>5
       DEF Next, OrderStep, SweepOrphans, SweepFails, vars
<1>3. QED
  BY <1>1, <1>2

\* The row comes before the order, and the order before its id on the row.
THEOREM StampsAreReal == Spec => []StampedOrdersExist
<1>1. Init => RowsExist /\ EventsAreReal /\ AnswersAreReal
  BY DEF Init, RowsExist, EventsAreReal, AnswersAreReal
<1>2. RowsExist /\ AnswersAreReal => StampedOrdersExist
  BY DEF RowsExist, AnswersAreReal, StampedOrdersExist, Exists
<1>3. QED
  BY <1>1, <1>2, TypeInvariant, RowsNext, EventsNext, AnswersNext, PTL DEF Spec

------------------------------------------------------------------------------
(* Trades.                                                                  *)

LEMMA TradesNext ==
  TypeInv /\ EventsAreReal /\ TradesAreFills /\ [Next]_vars => TradesAreFills'
<1> SUFFICES ASSUME TypeInv, EventsAreReal, TradesAreFills, [Next]_vars, NEW o \in Orders,
                    trades'[o] > 0
             PROVE  trades'[o] = 1 /\ broker'[o] = "filled"
  BY DEF TradesAreFills
<1> USE DEF rowVars, brokerVars
<1>1. CASE trades'[o] = trades[o]
  BY <1>1, BrokerGoesForward DEF TradesAreFills
<1>2. CASE HandleFillEvent(o)
  <2>1. Head(events[o]) = "filled" => broker[o] = "filled"
    BY <1>2, TailKeepsEvents DEF HandleFillEvent
  <2>2. trades[o] > 0 => trades[o] = 1 /\ broker[o] = "filled"
    BY DEF TradesAreFills
  <2>3. QED
    BY <1>2, <2>1, <2>2 DEF HandleFillEvent, Books, RowsAfterInsert, TypeInv, TypeOK
<1>3. ASSUME NEW q \in Orders \ {o}, HandleFillEvent(q) PROVE trades'[o] = trades[o]
  BY <1>3 DEF HandleFillEvent, TypeInv, TypeOK
<1>4. QED
  BY <1>1, <1>2, <1>3
     DEF Next, OrderStep, SubmitStep, BrokerStep, Submit, PlaceBracket,
         OrderAcknowledged, TerminalError, RetryBracket, RetriesExhausted, MarkRejected,
         StampOrderId, BrokerReceives, SubmissionLost, OrderMoves, HandlerFails,
         FiveMinutesPass, Crash, SweepOrphans, SweepFails, vars

LEMMA TradesInvariant == Spec => [](TypeInv /\ EventsAreReal /\ TradesAreFills)
<1>1. Init => EventsAreReal /\ TradesAreFills
  BY DEF Init, EventsAreReal, TradesAreFills
<1>2. QED
  BY <1>1, TypeInvariant, EventsNext, TradesNext, PTL DEF Spec

\* However often a fill is reported, it is one trade, and nothing else is one.
THEOREM TradesAreBookedOnce == Spec => []TradesAreFills
BY TradesInvariant, PTL

LEMMA BookedNext ==
  TypeInv /\ TradesAreFills /\ FilledIsBooked /\ [Next]_vars => FilledIsBooked'
<1> SUFFICES ASSUME TypeInv, TradesAreFills, FilledIsBooked, [Next]_vars, NEW o \in Orders,
                    status'[o] = "filled"
             PROVE  trades'[o] = 1
  BY DEF FilledIsBooked
<1> USE DEF rowVars, brokerVars, TypeInv, TypeOK
<1>1. CASE status'[o] = status[o] /\ trades'[o] = trades[o]
  BY <1>1 DEF FilledIsBooked
<1>2. CASE HandleFillEvent(o)
  <2>1. Head(events[o]) = "filled"
    BY <1>2 DEF HandleFillEvent
  <2>2. trades[o] > 0 => trades[o] = 1
    BY DEF TradesAreFills
  <2>3. QED
    BY <1>2, <2>1, <2>2 DEF HandleFillEvent, Books, RowsAfterInsert
<1>3. ASSUME NEW q \in Orders \ {o}, HandleFillEvent(q)
      PROVE  status'[o] = status[o] /\ trades'[o] = trades[o]
  BY <1>3 DEF HandleFillEvent
<1>4. ASSUME NEW q \in Orders, Submit(q) \/ MarkRejected(q)
      PROVE  status'[o] = status[o] /\ trades'[o] = trades[o]
  BY <1>4 DEF Submit, MarkRejected
<1>5. CASE SweepOrphans
  BY <1>5 DEF SweepOrphans, FilledIsBooked
<1>6. QED
  BY <1>1, <1>2, <1>3, <1>4, <1>5
     DEF Next, OrderStep, SubmitStep, BrokerStep, PlaceBracket,
         OrderAcknowledged, TerminalError, RetryBracket, RetriesExhausted,
         StampOrderId, BrokerReceives, SubmissionLost, OrderMoves, HandlerFails,
         FiveMinutesPass, Crash, SweepFails, vars

\* The invariant of handle_fill_event's docstring, whatever fails around it.
THEOREM FilledOrdersAreBooked == Spec => []FilledIsBooked
<1>1. Init => FilledIsBooked
  BY DEF Init, FilledIsBooked
<1>2. QED
  BY <1>1, TradesInvariant, BookedNext, PTL DEF Spec

------------------------------------------------------------------------------
(* The contract.                                                            *)

ContractInv == TypeInv /\ RowsExist /\ EventsAreReal /\ TradesAreFills

\* An event belongs to an order that exists, and such an order has its row.
LEMMA EventsHaveRows ==
  ASSUME ContractInv, NEW o \in Orders, events[o] # <<>>
  PROVE  status[o] # "none"
<1>1. EventsAreReal /\ RowsExist
  BY DEF ContractInv
<1>2. events[o] \in Seq(OrderStatuses)
  BY DEF ContractInv, TypeInv, TypeOK
<1>3. 1 \in 1..Len(events[o])
  BY <1>2
<1>4. Exists(o)
  BY <1>1, <1>3 DEF EventsAreReal
<1>5. QED
  BY <1>1, <1>4 DEF RowsExist, Exists

\* Whatever writes a status but the INSERT writes it to a row that exists.
LEMMA RowsOnlyCome ==
  ASSUME ContractInv, [Next]_vars, NEW o \in Orders, ~Submit(o)
  PROVE  status'[o] = "none" <=> status[o] = "none"
<1> USE DEF rowVars, brokerVars
<1> TypeInv /\ RowsExist
  BY DEF ContractInv
<1>1. CASE status[o] # "none"
  BY <1>1, RowsStay
<1>2. CASE status[o] = "none" /\ UNCHANGED status
  BY <1>2
<1>3. ASSUME NEW q \in Orders, Submit(q), status[o] = "none" PROVE status'[o] = "none"
  BY <1>3 DEF Submit, TypeInv, TypeOK
<1>4. ASSUME NEW q \in Orders, MarkRejected(q), status[o] = "none" PROVE status'[o] = "none"
  <2>1. q # o
    BY <1>4 DEF MarkRejected, RowsExist
  <2>2. QED
    BY <1>4, <2>1 DEF MarkRejected, TypeInv, TypeOK
<1>5. ASSUME NEW q \in Orders, HandleFillEvent(q), status[o] = "none" PROVE status'[o] = "none"
  <2>1. q # o
    BY <1>5, EventsHaveRows DEF HandleFillEvent
  <2>2. QED
    BY <1>5, <2>1 DEF HandleFillEvent, TypeInv, TypeOK
<1>6. ASSUME SweepOrphans, status[o] = "none" PROVE status'[o] = "none"
  BY <1>6 DEF SweepOrphans, Orphans
<1>7. QED
  BY <1>1, <1>2, <1>3, <1>4, <1>5, <1>6
     DEF Next, OrderStep, SubmitStep, BrokerStep, PlaceBracket,
         OrderAcknowledged, TerminalError, RetryBracket, RetriesExhausted,
         StampOrderId, BrokerReceives, SubmissionLost, OrderMoves, HandlerFails,
         FiveMinutesPass, Crash, SweepFails, vars

\* The INSERT records a key, its own.
LEMMA SubmitIsRecord ==
  ASSUME ContractInv, NEW o \in Orders, Submit(o)
  PROVE  [Contract!Next]_(Contract!vars)
<1> DEFINE recorded == {q \in Orders : status[q] # "none"}
<1>1. UNCHANGED <<broker, trades>> /\ status' = [status EXCEPT ![o] = "submitted"]
  BY DEF Submit, brokerVars
<1>2. recorded' = recorded \cup {o}
  BY <1>1 DEF ContractInv, TypeInv, TypeOK
<1>3. CASE o \in recorded
  <2>1. recorded' = recorded
    BY <1>2, <1>3
  <2>2. QED
    BY <1>1, <2>1 DEF Contract!vars, Exists
<1>4. CASE o \notin recorded
  <2>1. Contract!Record(o)
    BY <1>1, <1>2, <1>4 DEF Contract!Record, Exists
  <2>2. QED
    BY <2>1 DEF Contract!Next
<1>5. QED
  BY <1>3, <1>4

\* The broker places what is recorded, and fills what is placed.
LEMMA BrokerKeepsContract ==
  ASSUME ContractInv, NEW o \in Orders, BrokerStep(o)
  PROVE  [Contract!Next]_(Contract!vars)
<1> DEFINE recorded == {q \in Orders : status[q] # "none"}
           placed   == {q \in Orders : Exists(q)}
           filled   == {q \in Orders : broker[q] = "filled"}
<1>1. UNCHANGED <<status, trades>>
  BY DEF BrokerStep, BrokerReceives, SubmissionLost, OrderMoves, rowVars
<1>2. broker \in [Orders -> BrokerStates]
  BY DEF ContractInv, TypeInv, TypeOK
<1>3. CASE UNCHANGED broker
  BY <1>1, <1>3 DEF Contract!vars, Exists
<1>4. ASSUME broker[o] = "unknown", broker' = [broker EXCEPT ![o] = "refused"]
      PROVE  [Contract!Next]_(Contract!vars)
  <2>1. placed' = placed /\ filled' = filled
    BY <1>2, <1>4 DEF Exists
  <2>2. QED
    BY <1>1, <2>1 DEF Contract!vars
<1>5. ASSUME broker[o] = "unknown", broker' = [broker EXCEPT ![o] = "accepted"], o \in wire
      PROVE  [Contract!Next]_(Contract!vars)
  <2>1. placed' = placed \cup {o} /\ filled' = filled /\ o \notin placed
    BY <1>2, <1>5 DEF Exists
  <2>2. o \in recorded
    BY <1>5 DEF ContractInv, RowsExist
  <2>3. Contract!Place(o)
    BY <1>1, <2>1, <2>2 DEF Contract!Place
  <2>4. QED
    BY <2>3 DEF Contract!Next
<1>6. ASSUME NEW label \in {"partial", "filled", "rejected", "cancelled"}, OrderMoves(o, label)
      PROVE  [Contract!Next]_(Contract!vars)
  <2>1. o \in placed /\ o \notin filled /\ broker' = [broker EXCEPT ![o] = label]
    BY <1>6 DEF OrderMoves, Exists
  <2>2. placed' = placed
    BY <1>2, <2>1 DEF Exists
  <2>3. CASE label = "filled"
    <3>1. filled' = filled \cup {o}
      BY <1>2, <2>1, <2>3
    <3>2. Contract!Fill(o)
      BY <1>1, <2>1, <2>2, <3>1 DEF Contract!Fill
    <3>3. QED
      BY <3>2 DEF Contract!Next
  <2>4. CASE label # "filled"
    <3>1. filled' = filled
      BY <1>2, <2>1, <2>4
    <3>2. QED
      BY <1>1, <2>2, <3>1 DEF Contract!vars
  <2>5. QED
    BY <2>3, <2>4
<1>7. QED
  BY <1>3, <1>4, <1>5, <1>6 DEF BrokerStep, BrokerReceives, SubmissionLost

\* The handler's transaction books a fill, unless it is booked already.
LEMMA HandleKeepsContract ==
  ASSUME ContractInv, [Next]_vars, NEW o \in Orders, HandleFillEvent(o), \A q \in Orders : ~Submit(q)
  PROVE  [Contract!Next]_(Contract!vars)
<1> DEFINE recorded == {q \in Orders : status[q] # "none"}
<1>1. recorded' = recorded /\ UNCHANGED broker
  BY RowsOnlyCome DEF HandleFillEvent
<1>2. trades \in [Orders -> Nat]
  BY DEF ContractInv, TypeInv, TypeOK
<1>3. CASE Books(o, Head(events[o])) /\ trades[o] = 0
  <2>1. broker[o] = "filled"
    BY <1>3, TailKeepsEvents DEF HandleFillEvent, Books, ContractInv
  <2>2. Contract!Book(o)
    BY <1>1, <1>3, <2>1 DEF Contract!Book, HandleFillEvent, RowsAfterInsert, Exists
  <2>3. QED
    BY <2>2 DEF Contract!Next
<1>4. CASE ~(Books(o, Head(events[o])) /\ trades[o] = 0)
  <2>1. trades' = trades
    BY <1>2, <1>4 DEF HandleFillEvent, RowsAfterInsert
  <2>2. QED
    BY <1>1, <2>1 DEF Contract!vars, Exists
<1>5. QED
  BY <1>3, <1>4

\* Every other statement, and a crash, leaves rows, orders and trades alone.
LEMMA StepRefines == ContractInv /\ [Next]_vars => [Contract!Next]_(Contract!vars)
<1> SUFFICES ASSUME ContractInv, [Next]_vars
             PROVE  [Contract!Next]_(Contract!vars)
  OBVIOUS
<1> USE DEF rowVars, brokerVars
<1>1. CASE \E o \in Orders : Submit(o)
  BY <1>1, SubmitIsRecord
<1>2. CASE ~(\E o \in Orders : Submit(o)) /\ UNCHANGED <<broker, trades>>
  <2>1. {o \in Orders : status[o] # "none"}' = {o \in Orders : status[o] # "none"}
    BY <1>2, RowsOnlyCome
  <2>2. QED
    BY <1>2, <2>1 DEF Contract!vars, Exists
<1>3. CASE \E o \in Orders : BrokerStep(o)
  BY <1>3, BrokerKeepsContract
<1>4. CASE ~(\E o \in Orders : Submit(o)) /\ \E o \in Orders : HandleFillEvent(o)
  BY <1>4, HandleKeepsContract
<1>5. QED
  BY <1>1, <1>2, <1>3, <1>4
     DEF Next, OrderStep, SubmitStep, PlaceBracket, OrderAcknowledged, TerminalError,
         RetryBracket, RetriesExhausted, MarkRejected, StampOrderId, HandlerFails,
         FiveMinutesPass, Crash, SweepOrphans, SweepFails, vars

\* submit_quick_order, handle_fill_event and the sweep implement OrderContract for any
\* number of orders and attempts: a row precedes its order, no row is lost, and a fill is
\* booked once.
THEOREM QuickOrdersImplementContract == Spec => ContractSpec
<1>1. Init => RowsExist /\ EventsAreReal /\ TradesAreFills /\ Contract!Init
  BY DEF Init, RowsExist, EventsAreReal, TradesAreFills, Contract!Init, Exists
<1>2. TypeInv /\ RowsExist /\ EventsAreReal /\ TradesAreFills => ContractInv
  BY DEF ContractInv
<1>3. QED
  BY <1>1, <1>2, TypeInvariant, RowsNext, EventsNext, TradesNext, StepRefines, PTL
     DEF Spec, ContractSpec, Contract!Spec

------------------------------------------------------------------------------
(* No fill is dropped.                                                      *)

\* The fill of an order is booked, on its way, or was lost to a crash or a failing
\* handler: what FillsAreBooked needs beside fairness.
NoFillIsDropped ==
  \A o \in Orders :
    broker[o] = "filled" => trades[o] = 1 \/ o \in missed \/ ReportsFill(o)

\* A report is added behind what is queued.
LEMMA ReportKeepsQueue ==
  ASSUME TypeInv, NEW o \in Orders, NEW label \in OrderStatuses, Report(o, label)
  PROVE  /\ \A q \in Orders : ReportsFill(q) => ReportsFill(q)'
         /\ label = "filled" => ReportsFill(o)'
<1>1. PICK copies \in {<<label>>, <<label, label>>} :
        events' = [events EXCEPT ![o] = events[o] \o copies]
  BY DEF Report
<1>2. events \in [Orders -> Seq(OrderStatuses)]
  BY DEF TypeInv, TypeOK
<1>3. /\ events'[o] = events[o] \o copies
      /\ \A q \in Orders \ {o} : events'[q] = events[q]
  BY <1>1, <1>2
<1>4. copies \in Seq(OrderStatuses) /\ Len(copies) \in Nat /\ 1 \in 1..Len(copies) /\ copies[1] = label
  <2>1. CASE copies = <<label>>
    BY <2>1
  <2>2. CASE copies = <<label, label>>
    BY <2>2
  <2>3. QED
    BY <1>1, <2>1, <2>2
<1>5. PICK n \in Nat : n = Len(events[o])
  BY <1>2
<1>6. /\ Len(events'[o]) = n + Len(copies)
      /\ \A i \in 1..n : events'[o][i] = events[o][i]
      /\ events'[o][n + 1] = copies[1]
  <2>1. events[o] \in Seq(OrderStatuses)
    BY <1>2
  <2>2. QED
    BY <1>3, <1>4, <1>5, <2>1
<1>7. \A i \in 1..n : i \in 1..Len(events'[o])
  BY <1>4, <1>6
<1>8. n + 1 \in 1..Len(events'[o])
  BY <1>4, <1>6
<1>9. ReportsFill(o) => ReportsFill(o)'
  BY <1>5, <1>6, <1>7 DEF ReportsFill
<1>10. label = "filled" => ReportsFill(o)'
  BY <1>4, <1>6, <1>8 DEF ReportsFill
<1>11. QED
  BY <1>3, <1>9, <1>10 DEF ReportsFill

\* The first event is taken off a queue, the others stay.
LEMMA TailKeepsQueue ==
  ASSUME TypeInv, NEW o \in Orders, events[o] # <<>>, events' = [events EXCEPT ![o] = Tail(@)]
  PROVE  /\ \A q \in Orders \ {o} : ReportsFill(q) => ReportsFill(q)'
         /\ ReportsFill(o) /\ Head(events[o]) # "filled" => ReportsFill(o)'
<1>1. events \in [Orders -> Seq(OrderStatuses)]
  BY DEF TypeInv, TypeOK
<1>2. events[o] \in Seq(OrderStatuses)
  BY <1>1
<1>3. events'[o] = Tail(events[o]) /\ \A q \in Orders \ {o} : events'[q] = events[q]
  BY <1>1
<1>4. PICK n \in Nat : n = Len(events[o])
  BY <1>2
<1>5. /\ Len(events'[o]) = n - 1 /\ Head(events[o]) = events[o][1]
      /\ \A i \in 1..(n - 1) : events'[o][i] = events[o][i + 1]
  <2>1. Len(events[o]) >= 1
    BY <1>2, EmptySeq, LenProperties
  <2>2. /\ Len(Tail(events[o])) = Len(events[o]) - 1
        /\ Head(events[o]) = events[o][1]
        /\ \A i \in 1..(Len(events[o]) - 1) : Tail(events[o])[i] = events[o][i + 1]
    BY <1>2, <2>1, SMTT(30)
  <2>3. QED
    BY <1>3, <1>4, <2>2
<1>6. ASSUME NEW i \in 1..n, events[o][i] = "filled", Head(events[o]) # "filled"
      PROVE  i - 1 \in 1..(n - 1) /\ events'[o][i - 1] = "filled"
  <2>1. i # 1
    BY <1>5, <1>6
  <2>2. i - 1 \in 1..(n - 1) /\ (i - 1) + 1 = i
    BY <2>1
  <2>3. QED
    BY <1>5, <1>6, <2>2
<1>7. ReportsFill(o) /\ Head(events[o]) # "filled" => ReportsFill(o)'
  BY <1>4, <1>5, <1>6 DEF ReportsFill
<1>8. QED
  BY <1>3, <1>7 DEF ReportsFill

\* Each step keeps it: only the handler takes a fill off a queue, and books it or marks it missed.
LEMMA DroppedNext ==
  TypeInv /\ EventsAreReal /\ TradesAreFills /\ NoFillIsDropped /\ [Next]_vars => NoFillIsDropped'
<1> SUFFICES ASSUME TypeInv, EventsAreReal, TradesAreFills, NoFillIsDropped, [Next]_vars
             PROVE  NoFillIsDropped'
  OBVIOUS
<1> USE DEF rowVars, brokerVars
<1>1. broker \in [Orders -> BrokerStates] /\ trades \in [Orders -> Nat]
  BY DEF TypeInv, TypeOK
<1>2. CASE UNCHANGED <<broker, events, trades, missed>>
  BY <1>2 DEF NoFillIsDropped, ReportsFill
<1>3. ASSUME NEW o \in Orders, BrokerReceives(o)
      PROVE  NoFillIsDropped'
  <2>1. /\ UNCHANGED <<trades, missed>>
        /\ \A q \in Orders : broker'[q] = "filled" => broker[q] = "filled"
    BY <1>1, <1>3 DEF BrokerReceives
  <2>2. \A q \in Orders : ReportsFill(q) => ReportsFill(q)'
    <3>1. CASE UNCHANGED events
      BY <3>1 DEF ReportsFill
    <3>2. CASE Report(o, "submitted")
      BY <3>2, ReportKeepsQueue DEF OrderStatuses
    <3>3. QED
      BY <1>3, <3>1, <3>2 DEF BrokerReceives
  <2>3. QED
    BY <2>1, <2>2 DEF NoFillIsDropped
<1>4. ASSUME NEW o \in Orders, NEW label \in {"partial", "filled", "rejected", "cancelled"},
             OrderMoves(o, label)
      PROVE  NoFillIsDropped'
  <2>1. /\ UNCHANGED <<trades, missed>>
        /\ broker'[o] = label /\ \A q \in Orders \ {o} : broker'[q] = broker[q]
    BY <1>1, <1>4 DEF OrderMoves
  <2>2. /\ \A q \in Orders : ReportsFill(q) => ReportsFill(q)'
        /\ label = "filled" => ReportsFill(o)'
    BY <1>4, ReportKeepsQueue DEF OrderMoves, OrderStatuses
  <2>3. QED
    BY <2>1, <2>2 DEF NoFillIsDropped
<1>5. ASSUME NEW o \in Orders, HandleFillEvent(o)
      PROVE  NoFillIsDropped'
  <2>1. /\ UNCHANGED <<broker, missed>>
        /\ \A q \in Orders \ {o} : trades'[q] = trades[q]
        /\ trades'[o] = IF Head(events[o]) = "filled" THEN RowsAfterInsert(o) ELSE trades[o]
    BY <1>1, <1>5 DEF HandleFillEvent, Books
  <2>2. /\ \A q \in Orders \ {o} : ReportsFill(q) => ReportsFill(q)'
        /\ ReportsFill(o) /\ Head(events[o]) # "filled" => ReportsFill(o)'
    BY <1>5, TailKeepsQueue DEF HandleFillEvent
  <2>3. Head(events[o]) = "filled" => trades'[o] = 1
    BY <1>1, <2>1 DEF RowsAfterInsert, TradesAreFills
  <2>4. QED
    BY <2>1, <2>2, <2>3 DEF NoFillIsDropped
<1>6. ASSUME NEW o \in Orders, HandlerFails(o)
      PROVE  NoFillIsDropped'
  <2>1. /\ UNCHANGED <<broker, trades>> /\ missed \subseteq missed'
        /\ Head(events[o]) = "filled" => o \in missed'
    BY <1>6 DEF HandlerFails
  <2>2. /\ \A q \in Orders \ {o} : ReportsFill(q) => ReportsFill(q)'
        /\ ReportsFill(o) /\ Head(events[o]) # "filled" => ReportsFill(o)'
    BY <1>6, TailKeepsQueue DEF HandlerFails
  <2>3. QED
    BY <2>1, <2>2 DEF NoFillIsDropped
<1>7. CASE Crash
  <2>1. UNCHANGED <<broker, trades>>
    BY <1>7 DEF Crash
  <2>2. CASE UNCHANGED <<events, missed>>
    BY <2>1, <2>2 DEF NoFillIsDropped, ReportsFill
  <2>3. CASE missed' = missed \cup {o \in Orders : ReportsFill(o)}
    BY <2>1, <2>3 DEF NoFillIsDropped
  <2>4. QED
    BY <1>7, <2>2, <2>3 DEF Crash
<1>8. QED
  BY <1>2, <1>3, <1>4, <1>5, <1>6, <1>7
     DEF Next, OrderStep, SubmitStep, BrokerStep, Submit, PlaceBracket,
         OrderAcknowledged, TerminalError, RetryBracket, RetriesExhausted, MarkRejected,
         StampOrderId, SubmissionLost, FiveMinutesPass, SweepOrphans, SweepFails, vars

\* handle_fill_event and the client's callback: whatever the request, the sweep and the
\* process did meanwhile, a filled order that has no trade has a report on its way, unless
\* one was lost with a process or in a handler that failed.
THEOREM FillsAreNeverDropped == Spec => []NoFillIsDropped
<1>1. Init => NoFillIsDropped
  BY DEF Init, NoFillIsDropped
<1>2. QED
  BY <1>1, TradesInvariant, DroppedNext, PTL DEF Spec
==============================================================================
