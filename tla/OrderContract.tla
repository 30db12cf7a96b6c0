---------------------------- MODULE OrderContract ----------------------------
(***************************************************************************)
(* What both ways to an order promise, to the broker and to the journal,   *)
(* whatever is retried, repeated, lost or killed on the way: the key of an *)
(* order is in the database before the broker can see it, and never leaves *)
(* it; a principal (a proposal, or a quick order's form) has one order at  *)
(* most; and an order is booked once, after it was filled.                 *)
(*                                                                         *)
(* BotExecution and QuickOrder implement this specification.               *)
(***************************************************************************)
EXTENDS Naturals

CONSTANTS
  Orders,    \* orders, by idempotency key
  Principal  \* Principal[o] : what o is placed for

VARIABLES
  recorded,  \* orders whose key is in the database
  placed,    \* orders the broker has
  filled,    \* those it has filled
  trades     \* trades[o] : rows of trades with the order id of o

vars == <<recorded, placed, filled, trades>>

Init ==
  /\ recorded = {} /\ placed = {} /\ filled = {}
  /\ trades = [o \in Orders |-> 0]

\* A principal gets one key.
Record(o) ==
  /\ \A q \in recorded : Principal[q] # Principal[o]
  /\ recorded' = recorded \cup {o}
  /\ UNCHANGED <<placed, filled, trades>>

Place(o) ==
  /\ o \in recorded \ placed
  /\ placed' = placed \cup {o}
  /\ UNCHANGED <<recorded, filled, trades>>

Fill(o) ==
  /\ o \in placed \ filled
  /\ filled' = filled \cup {o}
  /\ UNCHANGED <<recorded, placed, trades>>

Book(o) ==
  /\ o \in filled
  /\ trades[o] = 0
  /\ trades' = [trades EXCEPT ![o] = 1]
  /\ UNCHANGED <<recorded, placed, filled>>

Next == \E o \in Orders : Record(o) \/ Place(o) \/ Fill(o) \/ Book(o)

Spec == Init /\ [][Next]_vars
==============================================================================
