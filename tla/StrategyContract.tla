--------------------------- MODULE StrategyContract ---------------------------
(***************************************************************************)
(* What the rest of the program may rely on about strategies.status,       *)
(* whoever writes it: a row is inserted once, with any status, and then    *)
(* only moves along the lifecycle FSM.  Several rows may move in one step  *)
(* (the kill switch updates all its rows with one UPDATE).                 *)
(*                                                                         *)
(* StrategyLifecycle implements this specification; ApprovalPipeline and   *)
(* BotExecution take its steps as the moves of their environment.          *)
(***************************************************************************)
EXTENDS StrategyModel

VARIABLE status         \* status[s] : strategies.status of row s

Init == status = [s \in Strategies |-> Absent]

\* The rows of S move along the FSM, all others stay as they are.
MoveRows(S) ==
  \E next \in [S -> Statuses] :
    /\ \A s \in S : CanTransition(status[s], next[s])
    /\ status' = [s \in Strategies |-> IF s \in S THEN next[s] ELSE status[s]]

InsertRow(s) ==
  /\ status[s] = Absent
  /\ \E initial \in Statuses : status' = [status EXCEPT ![s] = initial]

Next ==
  \/ \E s \in Strategies : InsertRow(s)
  \/ \E S \in SUBSET Strategies : MoveRows(S)

Spec == Init /\ [][Next]_status
==============================================================================
