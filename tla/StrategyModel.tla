---------------------------- MODULE StrategyModel ----------------------------
(***************************************************************************)
(* The strategy lifecycle as a transition relation: the FSM that           *)
(* app/models/strategy.py defines and that every writer of                 *)
(* strategies.status is supposed to stay inside.                           *)
(***************************************************************************)

CONSTANT Strategies     \* ids of strategies rows that may ever exist

Statuses == {"active", "paused", "retired"}

\* The status of an id whose row has not been inserted yet.
Absent == "absent"

\* _ALLOWED_TRANSITIONS: retired has no way out.
AllowedTransitions == { <<"active", "paused">>, <<"active", "retired">>,
                        <<"paused", "active">>, <<"paused", "retired">> }

CanTransition(current, target) == <<current, target>> \in AllowedTransitions

\* Mutant: no case for a paused row.
ToggleActiveOnly(current) == IF current = "active" THEN "paused" ELSE Absent

\* The target of a click on the status badge; a retired row stays put.
NextToggleStatus(current) ==
  CASE current = "active" -> "paused"
    [] current = "paused" -> "active"
    [] OTHER              -> current
==============================================================================
