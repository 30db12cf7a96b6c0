---------------------------- MODULE TradeContract ----------------------------
(***************************************************************************)
(* What the journal may expect of the trades of Interactive Brokers,       *)
(* however many writers work on them: a trade that is recorded stays       *)
(* recorded, one that is closed stays closed, one that Chef has tagged     *)
(* stays tagged, and only closed trades are tagged.                        *)
(***************************************************************************)
CONSTANTS
  Orders,    \* the orders of the account, by permanent id
  Closing    \* the orders that close a position

VARIABLES
  recorded,  \* orders with a row in trades
  closed,    \* rows with closed_at
  tagged     \* rows with trigger_spec

vars == <<recorded, closed, tagged>>

Init == recorded = {} /\ closed = {} /\ tagged = {}

\* A writer adds rows, or adds what the broker says of the close.
Record ==
  /\ recorded \subseteq recorded'
  /\ closed \subseteq closed'
  /\ recorded' \subseteq Orders
  /\ closed' \subseteq recorded' \cap Closing
  /\ UNCHANGED tagged

\* Chef tags a trade that is closed.
Tag ==
  /\ \E o \in closed : tagged' = tagged \cup {o}
  /\ UNCHANGED <<recorded, closed>>

Next == Record \/ Tag

Spec == Init /\ [][Next]_vars
==============================================================================
