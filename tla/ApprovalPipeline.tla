--------------------------- MODULE ApprovalPipeline ---------------------------
(***************************************************************************)
(* Proposals from creation to Chef's decision.                             *)
(*                                                                         *)
(* Three kinds of process work on a proposal, each with awaits between its *)
(* statements:                                                             *)
(*   - the creation request (POST /api/proposals): one transaction that    *)
(*     locks the strategy row, checks it and inserts the proposal, then    *)
(*     the call to the risk-gate agent, then the UPDATE of the verdict;    *)
(*   - decision requests (approve, reject, revision): a read with checks,  *)
(*     for an approval a call to the fundamental agent, then one           *)
(*     transaction with a compare-and-swap and the audit row;              *)
(*   - a refresh of the verdict.  No route starts one today, but           *)
(*     _UPDATE_RISK_GATE_SQL and _APPROVE_STATUS_SQL are written against   *)
(*     it; RefreshAllowed switches it on.                                  *)
(* Strategies are moved by their environment, along StrategyContract.      *)
(***************************************************************************)
EXTENDS ProposalModel, Naturals, Sequences

CONSTANTS
  Deciders,        \* concurrent decision requests
  RefreshAllowed   \* may a verdict be evaluated again?

ASSUME RefreshAssumption == RefreshAllowed \in BOOLEAN

VARIABLES
  status,       \* strategies.status
  pStatus,      \* proposals.status, "none" before the INSERT
  strategyOf,   \* proposals.strategy_id
  gate,         \* proposals.risk_gate_result
  decisionLog,  \* decisionLog[p] : audit_log rows of Chef's decisions on p
  creation,     \* creation[p] : local state of the request that creates p
  refreshing,   \* refreshing[p] : a refresh awaits the risk-gate agent
  decider       \* decider[d] : local state of decision request d

proposalVars == <<pStatus, strategyOf, gate, decisionLog>>
requestVars  == <<creation, refreshing, decider>>
vars         == <<status, proposalVars, requestVars>>

NoCreation == [pc |-> "idle"]
NoDecision == [pc |-> "idle"]

CreationStates ==
  {NoCreation, [pc |-> "gating"], [pc |-> "lost"]} \cup [pc : {"locked"}, s : Strategies]

DecisionStates ==
  {NoDecision} \cup [pc : {"cas"}, p : Proposals, decision : Decisions, seen : Verdicts]

AuditRows == [event : Decisions, verdict : Verdicts]

TypeOK ==
  /\ status      \in [Strategies -> Statuses \cup {Absent}]
  /\ pStatus     \in [Proposals -> ProposalStatuses]
  /\ strategyOf  \in [Proposals -> Strategies \cup {NoStrategy}]
  /\ gate        \in [Proposals -> Verdicts]
  /\ decisionLog \in [Proposals -> Seq(AuditRows)]
  /\ creation    \in [Proposals -> CreationStates]
  /\ refreshing  \in [Proposals -> BOOLEAN]
  /\ decider     \in [Deciders -> DecisionStates]

Init ==
  /\ status      = [s \in Strategies |-> Absent]
  /\ pStatus     = [p \in Proposals |-> "none"]
  /\ strategyOf  = [p \in Proposals |-> NoStrategy]
  /\ gate        = [p \in Proposals |-> "null"]
  /\ decisionLog = [p \in Proposals |-> <<>>]
  /\ creation    = [p \in Proposals |-> NoCreation]
  /\ refreshing  = [p \in Proposals |-> FALSE]
  /\ decider     = [d \in Deciders |-> NoDecision]

------------------------------------------------------------------------------
(* Strategy rows.                                                           *)

\* Mutant: a plain SELECT.
NeverLocked(s) == FALSE

\* SELECT ... FOR UPDATE holds the row until its transaction ends.
Locked(s) == \E p \in Proposals : creation[p] = [pc |-> "locked", s |-> s]

StrategySide == INSTANCE StrategyContract

\* A badge click, a kill-switch sweep or an insert; an UPDATE of a locked row
\* waits for the lock.
StrategyMoves ==
  /\ StrategySide!Next
  /\ \A s \in Strategies : Locked(s) => status'[s] = status[s]
  /\ UNCHANGED <<proposalVars, requestVars>>

------------------------------------------------------------------------------
(* The creation request.                                                    *)

\* BEGIN and the locking read; an inactive or missing strategy ends the
\* request with a 409 and releases the lock.
LockStrategy(p, s) ==
  /\ pStatus[p] = "none"
  /\ creation[p] = NoCreation
  /\ ~Locked(s)
  /\ creation' = [creation EXCEPT
       ![p] = IF status[s] = "active" THEN [pc |-> "locked", s |-> s] ELSE NoCreation]
  /\ UNCHANGED <<status, proposalVars, refreshing, decider>>

\* The row becomes visible, with a NULL verdict; the risk gate is called next.
InsertRow(p, s) ==
  /\ pStatus'    = [pStatus EXCEPT ![p] = "pending"]
  /\ strategyOf' = [strategyOf EXCEPT ![p] = s]
  /\ creation'   = [creation EXCEPT ![p] = [pc |-> "gating"]]
  /\ UNCHANGED <<status, gate, decisionLog, refreshing, decider>>

InsertProposal(p) ==
  /\ creation[p].pc = "locked"
  /\ InsertRow(p, creation[p].s)

\* Without a strategy there is nothing to lock.
InsertWithoutStrategy(p) ==
  /\ pStatus[p] = "none"
  /\ creation[p] = NoCreation
  /\ InsertRow(p, NoStrategy)

\* Mutants: a verdict for any proposal; no verdict from an unreachable agent.
StoreAnyVerdict(p, level) == gate' = [gate EXCEPT ![p] = DbLevel(level)]
StoreAnswer(p, level) ==
  gate' = [gate EXCEPT ![p] = IF pStatus[p] = "pending" /\ level # "unreachable"
                              THEN DbLevel(level) ELSE @]

\* _UPDATE_RISK_GATE_SQL: only a pending proposal accepts a verdict.
StoreVerdict(p, level) ==
  gate' = [gate EXCEPT ![p] = IF pStatus[p] = "pending" THEN DbLevel(level) ELSE @]

GateAnswers(p) ==
  /\ creation[p].pc = "gating"
  /\ \E level \in Levels : StoreVerdict(p, level)
  /\ creation' = [creation EXCEPT ![p] = NoCreation]
  /\ UNCHANGED <<status, pStatus, strategyOf, decisionLog, refreshing, decider>>

StartRefresh(p) ==
  /\ RefreshAllowed
  /\ pStatus[p] # "none"
  /\ ~refreshing[p]
  /\ refreshing' = [refreshing EXCEPT ![p] = TRUE]
  /\ UNCHANGED <<status, proposalVars, creation, decider>>

RefreshAnswers(p) ==
  /\ refreshing[p]
  /\ \E level \in Levels : StoreVerdict(p, level)
  /\ refreshing' = [refreshing EXCEPT ![p] = FALSE]
  /\ UNCHANGED <<status, pStatus, strategyOf, decisionLog, creation, decider>>

------------------------------------------------------------------------------
(* Decision requests.                                                       *)

\* Mutant: an approval that leaves the verdict to the swap.
MayDecideUngated(p, decision) == pStatus[p] = "pending"

\* The read and its checks; what fails them ends the request with 404 or 403.
MayDecide(p, decision) ==
  pStatus[p] = "pending" /\ (decision = "approved" => ~IsRed(gate[p]))

ReadProposal(d, p, decision) ==
  /\ decider[d] = NoDecision
  /\ MayDecide(p, decision)
  /\ decider' = [decider EXCEPT
       ![d] = [pc |-> "cas", p |-> p, decision |-> decision, seen |-> gate[p]]]
  /\ UNCHANGED <<status, proposalVars, creation, refreshing>>

\* Mutants: a swap without the verdict, and one without the status.
SwapIgnoresVerdict(p, decision) == pStatus[p] = "pending"
SwapIgnoresStatus(p, decision)  == decision = "approved" => ~IsRed(gate[p])

\* The rows _APPROVE_STATUS_SQL and _UPDATE_STATUS_SQL match.
SwapMatches(p, decision) ==
  pStatus[p] = "pending" /\ (decision = "approved" => ~IsRed(gate[p]))

\* The swap and the audit row commit together.  The row records the verdict
\* read before the awaits.
CommitDecision(d) ==
  LET p == decider[d].p
      decision == decider[d].decision
  IN /\ decider[d].pc = "cas"
     /\ SwapMatches(p, decision)
     /\ pStatus' = [pStatus EXCEPT ![p] = decision]
     /\ decisionLog' = [decisionLog EXCEPT
          ![p] = Append(@, [event |-> decision, verdict |-> decider[d].seen])]
     /\ decider' = [decider EXCEPT ![d] = NoDecision]
     /\ UNCHANGED <<status, strategyOf, gate, creation, refreshing>>

\* The swap matches no row: the transaction rolls back, 404 or 403.
LoseDecision(d) ==
  /\ decider[d].pc = "cas"
  /\ ~SwapMatches(decider[d].p, decider[d].decision)
  /\ decider' = [decider EXCEPT ![d] = NoDecision]
  /\ UNCHANGED <<status, proposalVars, creation, refreshing>>

------------------------------------------------------------------------------

\* The process dies: open transactions roll back, pending calls are lost.
Crash ==
  /\ creation'   = [p \in Proposals |->
       IF creation[p].pc \in {"gating", "lost"} THEN [pc |-> "lost"] ELSE NoCreation]
  /\ refreshing' = [p \in Proposals |-> FALSE]
  /\ decider'    = [d \in Deciders |-> NoDecision]
  /\ UNCHANGED <<status, proposalVars>>

CreationStep(p) ==
  \/ \E s \in Strategies : LockStrategy(p, s)
  \/ InsertProposal(p)
  \/ InsertWithoutStrategy(p)
  \/ GateAnswers(p)

DecisionStep(d) ==
  \/ \E p \in Proposals, decision \in Decisions : ReadProposal(d, p, decision)
  \/ CommitDecision(d)
  \/ LoseDecision(d)

Next ==
  \/ StrategyMoves
  \/ \E p \in Proposals : CreationStep(p) \/ StartRefresh(p) \/ RefreshAnswers(p)
  \/ \E d \in Deciders : DecisionStep(d)
  \/ Crash

Spec == Init /\ [][Next]_vars

\* The MCP client bounds its calls by a timeout and the event loop runs on, so a
\* creation request goes on to its verdict; Chef and the agents owe nothing.
Fairness == \A p \in Proposals : WF_vars(GateAnswers(p))

FairSpec == Spec /\ Fairness

------------------------------------------------------------------------------
(* Properties.                                                              *)

\* FR28: an approved proposal carries a verdict that does not block it, even
\* when the verdict is refreshed while approvals are in flight, and for good.
NeverApprovedRed ==
  \A p \in Proposals : pStatus[p] = "approved" => ~IsRed(gate[p])

\* However many requests race to decide a proposal, exactly one of them
\* decides it, and the audit trail holds that decision and no other.
OneAuditRowPerDecision ==
  \A p \in Proposals :
    IF pStatus[p] \in Decisions
    THEN Len(decisionLog[p]) = 1 /\ decisionLog[p][1].event = pStatus[p]
    ELSE decisionLog[p] = <<>>

\* The audit row of an approval records a verdict that allowed it, although it
\* is taken from a read that is older than the swap.
ApprovalAuditShowsPass ==
  \A p \in Proposals : \A i \in 1..Len(decisionLog[p]) :
    decisionLog[p][i].event = "approved" => ~IsRed(decisionLog[p][i].verdict)

\* A proposal appears only while its strategy is active: a pause or a
\* retirement cannot slip between the check and the INSERT.
CreatedWhileActive ==
  [][\A p \in Proposals :
       pStatus[p] = "none" /\ pStatus'[p] # "none" /\ strategyOf'[p] # NoStrategy
         => status'[strategyOf'[p]] = "active"]_vars

\* No proposal stays without a verdict: it gets one, whatever the risk-gate
\* agent answers, unless Chef rejects it first or its request dies.
VerdictArrives ==
  \A p \in Proposals :
    (pStatus[p] = "pending" /\ gate[p] = "null") ~>
    (gate[p] # "null" \/ pStatus[p] # "pending" \/ creation[p] = [pc |-> "lost"])

Contract == INSTANCE ProposalContract
ContractSpec == Contract!Spec
==============================================================================
