--------------------------- MODULE ProposalContract ---------------------------
(***************************************************************************)
(* What the approval pipeline promises about the proposals table and its   *)
(* audit rows, in one atomic step per promise:                             *)
(*   - a proposal is created only while its strategy is active;            *)
(*   - a verdict lands only on a pending proposal;                         *)
(*   - a proposal is decided once, and the decision and its audit row are  *)
(*     one step;                                                           *)
(*   - an approval finds a verdict that does not block it, in the row and  *)
(*     in what the audit row records.                                      *)
(* ApprovalPipeline implements this specification; BotExecution takes its  *)
(* steps as the moves of its environment.                                  *)
(***************************************************************************)
EXTENDS ProposalModel, Naturals, Sequences

VARIABLES
  status,      \* strategies.status
  pStatus,     \* proposals.status, "none" before the INSERT
  strategyOf,  \* proposals.strategy_id
  gate,        \* proposals.risk_gate_result
  decisionLog  \* decisionLog[p] : audit_log rows of Chef's decisions on p

proposalVars == <<pStatus, strategyOf, gate, decisionLog>>
vars == <<status, proposalVars>>

StrategySide == INSTANCE StrategyContract

Init ==
  /\ StrategySide!Init
  /\ pStatus     = [p \in Proposals |-> "none"]
  /\ strategyOf  = [p \in Proposals |-> NoStrategy]
  /\ gate        = [p \in Proposals |-> "null"]
  /\ decisionLog = [p \in Proposals |-> <<>>]

Create(p, s) ==
  /\ pStatus[p] = "none"
  /\ s # NoStrategy => status[s] = "active"
  /\ pStatus' = [pStatus EXCEPT ![p] = "pending"]
  /\ strategyOf' = [strategyOf EXCEPT ![p] = s]
  /\ UNCHANGED <<status, gate, decisionLog>>

SetVerdict(p, verdict) ==
  /\ pStatus[p] = "pending"
  /\ gate' = [gate EXCEPT ![p] = verdict]
  /\ UNCHANGED <<status, pStatus, strategyOf, decisionLog>>

\* The audit row records the verdict Chef's request had read.
Decide(p, decision, seen) ==
  /\ pStatus[p] = "pending"
  /\ decision = "approved" => ~IsRed(gate[p]) /\ ~IsRed(seen)
  /\ pStatus' = [pStatus EXCEPT ![p] = decision]
  /\ decisionLog' = [decisionLog EXCEPT
                       ![p] = Append(@, [event |-> decision, verdict |-> seen])]
  /\ UNCHANGED <<status, strategyOf, gate>>

ProposalStep ==
  \E p \in Proposals :
    \/ \E s \in Strategies \cup {NoStrategy} : Create(p, s)
    \/ \E verdict \in Verdicts \ {"null"} : SetVerdict(p, verdict)
    \/ \E decision \in Decisions, seen \in Verdicts : Decide(p, decision, seen)

Next == ProposalStep \/ (StrategySide!Next /\ UNCHANGED proposalVars)

Spec == Init /\ [][Next]_vars
==============================================================================
