------------------------ MODULE ApprovalPipelineProofs ------------------------
(***************************************************************************)
(* Proofs about ApprovalPipeline, for any strategies, proposals and number *)
(* of concurrent decision requests, with and without refreshed verdicts.   *)
(*                                                                         *)
(* The argument: what a request has established before its awaits          *)
(* (LockedRows, CheckedApprovals) survives them, the first because of the  *)
(* row lock, the second because a request's own copy cannot change.  With  *)
(* that every step is a step of ProposalContract, and the invariants of    *)
(* the rows follow from the contract's few actions alone.                  *)
(***************************************************************************)
EXTENDS ApprovalPipeline, TLAPS

\* A creation request between its locking read and its INSERT.
LockedRows ==
  \A p \in Proposals : creation[p].pc = "locked" =>
    pStatus[p] = "none" /\ status[creation[p].s] = "active"

\* An approval that reaches its swap has read a verdict that allows it.
CheckedApprovals ==
  \A d \in Deciders :
    decider[d].pc = "cas" /\ decider[d].decision = "approved" => ~IsRed(decider[d].seen)

LocalInv == TypeOK /\ LockedRows /\ CheckedApprovals

RowInv == NeverApprovedRed /\ OneAuditRowPerDecision /\ ApprovalAuditShowsPass

------------------------------------------------------------------------------
\* The instances' copies of the constant operators.
LEMMA SameStrategyModel ==
  /\ StrategySide!Statuses = Statuses
  /\ StrategySide!Absent = Absent
BY DEF StrategySide!Statuses, Statuses, StrategySide!Absent, Absent

LEMMA SameProposalModel ==
  /\ Contract!Decisions = Decisions
  /\ Contract!Verdicts = Verdicts
  /\ \A v : Contract!IsRed(v) <=> IsRed(v)
BY DEF Contract!Decisions, Decisions, Contract!Verdicts, Verdicts, Contract!IsRed, IsRed

\* The environment keeps strategies.status well-typed.
LEMMA StrategyTypes ==
  ASSUME status \in [Strategies -> Statuses \cup {Absent}], StrategySide!Next
  PROVE  status' \in [Strategies -> Statuses \cup {Absent}]
<1>1. ASSUME NEW s \in Strategies, StrategySide!InsertRow(s)
      PROVE  status' \in [Strategies -> Statuses \cup {Absent}]
  BY <1>1, SameStrategyModel DEF StrategySide!InsertRow
<1>2. ASSUME NEW S \in SUBSET Strategies, StrategySide!MoveRows(S)
      PROVE  status' \in [Strategies -> Statuses \cup {Absent}]
  <2>1. PICK next \in [S -> Statuses] :
          status' = [s \in Strategies |-> IF s \in S THEN next[s] ELSE status[s]]
    BY <1>2, SameStrategyModel DEF StrategySide!MoveRows
  <2>2. QED
    BY <2>1
<1>3. QED
  BY <1>1, <1>2 DEF StrategySide!Next

\* What a stored verdict looks like.
LEMMA StoredVerdict ==
  ASSUME gate \in [Proposals -> Verdicts], NEW p \in Proposals, NEW level \in Levels,
         StoreVerdict(p, level)
  PROVE  /\ gate' \in [Proposals -> Verdicts]
         /\ \/ UNCHANGED gate
            \/ /\ pStatus[p] = "pending"
               /\ DbLevel(level) \in Verdicts \ {"null"}
               /\ gate' = [gate EXCEPT ![p] = DbLevel(level)]
BY DEF StoreVerdict, Levels, DbLevel, Verdicts

\* A creation request that holds a lock holds it on some strategy.
LEMMA LockedState ==
  ASSUME creation \in [Proposals -> CreationStates], NEW p \in Proposals,
         creation[p].pc = "locked"
  PROVE  /\ creation[p].s \in Strategies
         /\ creation[p] = [pc |-> "locked", s |-> creation[p].s]
<1>1. creation[p] \in {NoCreation, [pc |-> "gating"]} \cup [pc : {"locked"}, s : Strategies]
  BY DEF CreationStates
<1>2. creation[p] \in [pc : {"locked"}, s : Strategies]
  BY <1>1 DEF NoCreation
<1>3. QED
  BY <1>2

------------------------------------------------------------------------------
LEMMA TypeInit == Init => TypeOK
BY DEF Init, TypeOK, ProposalStatuses, Verdicts, CreationStates, NoCreation,
       DecisionStates, NoDecision

LEMMA TypeNext == TypeOK /\ [Next]_vars => TypeOK'
<1> SUFFICES ASSUME TypeOK, [Next]_vars PROVE TypeOK'
  OBVIOUS
<1> USE DEF TypeOK, proposalVars, requestVars
<1>1. CASE StrategyMoves
  BY <1>1, StrategyTypes DEF StrategyMoves
<1>2. ASSUME NEW p \in Proposals, NEW s \in Strategies, LockStrategy(p, s)
      PROVE  TypeOK'
  BY <1>2 DEF LockStrategy, CreationStates
<1>3. ASSUME NEW p \in Proposals, NEW s \in Strategies \cup {NoStrategy}, InsertRow(p, s)
      PROVE  TypeOK'
  BY <1>3 DEF InsertRow, CreationStates, ProposalStatuses
<1>4. ASSUME NEW p \in Proposals, InsertProposal(p) PROVE TypeOK'
  <2>1. creation[p].s \in Strategies
    BY <1>4, LockedState DEF InsertProposal
  <2>2. QED
    BY <1>3, <1>4, <2>1 DEF InsertProposal
<1>5. ASSUME NEW p \in Proposals, InsertWithoutStrategy(p) PROVE TypeOK'
  BY <1>3, <1>5 DEF InsertWithoutStrategy
<1>6. ASSUME NEW p \in Proposals, GateAnswers(p) PROVE TypeOK'
  BY <1>6, StoredVerdict DEF GateAnswers, CreationStates
<1>7. ASSUME NEW p \in Proposals, StartRefresh(p) PROVE TypeOK'
  BY <1>7 DEF StartRefresh
<1>8. ASSUME NEW p \in Proposals, RefreshAnswers(p) PROVE TypeOK'
  BY <1>8, StoredVerdict DEF RefreshAnswers
<1>9. ASSUME NEW d \in Deciders, NEW p \in Proposals, NEW decision \in Decisions,
             ReadProposal(d, p, decision)
      PROVE  TypeOK'
  BY <1>9 DEF ReadProposal, DecisionStates
<1>10. ASSUME NEW d \in Deciders, CommitDecision(d) PROVE TypeOK'
  <2> DEFINE p == decider[d].p
             row == [event |-> decider[d].decision, verdict |-> decider[d].seen]
  <2>1. p \in Proposals /\ decider[d].decision \in Decisions /\ row \in AuditRows
    BY <1>10 DEF CommitDecision, DecisionStates, NoDecision, AuditRows
  <2>2. Append(decisionLog[p], row) \in Seq(AuditRows)
    BY <2>1
  <2>3. decisionLog' \in [Proposals -> Seq(AuditRows)]
    BY <1>10, <2>2 DEF CommitDecision
  <2>4. pStatus' \in [Proposals -> ProposalStatuses]
    BY <1>10, <2>1 DEF CommitDecision, ProposalStatuses
  <2>5. QED
    BY <1>10, <2>3, <2>4 DEF CommitDecision, DecisionStates
<1>11. ASSUME NEW d \in Deciders, LoseDecision(d) PROVE TypeOK'
  BY <1>11 DEF LoseDecision, DecisionStates
<1>12. CASE Crash
  BY <1>12 DEF Crash, CreationStates, DecisionStates
<1>13. CASE UNCHANGED vars
  BY <1>13 DEF vars
<1>14. QED
  BY <1>1, <1>2, <1>4, <1>5, <1>6, <1>7, <1>8, <1>9, <1>10, <1>11, <1>12, <1>13
     DEF Next, CreationStep, DecisionStep

\* Every variable keeps its type in every reachable state.
THEOREM TypeCorrect == Spec => []TypeOK
BY TypeInit, TypeNext, PTL DEF Spec
------------------------------------------------------------------------------
(* What requests carry across their awaits.                                 *)

\* The lock keeps the strategy active, and nobody else inserts the proposal.
LEMMA LockedNext ==
  TypeOK /\ LockedRows /\ [Next]_vars => LockedRows'
<1> SUFFICES ASSUME TypeOK, LockedRows, [Next]_vars,
                    NEW q \in Proposals, creation'[q].pc = "locked"
             PROVE  pStatus'[q] = "none" /\ status'[creation'[q].s] = "active"
  BY DEF LockedRows
<1> USE DEF TypeOK, LockedRows, proposalVars, requestVars, NoCreation
<1>1. CASE StrategyMoves
  <2>1. creation[q].s \in Strategies /\ Locked(creation[q].s)
    BY <1>1, LockedState DEF StrategyMoves, Locked
  <2>2. QED
    BY <1>1, <2>1 DEF StrategyMoves
<1>2. ASSUME NEW p \in Proposals, NEW s \in Strategies, LockStrategy(p, s)
      PROVE  pStatus'[q] = "none" /\ status'[creation'[q].s] = "active"
  BY <1>2 DEF LockStrategy
<1>3. ASSUME NEW p \in Proposals, NEW s, creation[p].pc = "locked" \/ creation[p] = NoCreation,
             InsertRow(p, s)
      PROVE  pStatus'[q] = "none" /\ status'[creation'[q].s] = "active"
  BY <1>3 DEF InsertRow
<1>4. ASSUME NEW p \in Proposals, GateAnswers(p) \/ StartRefresh(p) \/ RefreshAnswers(p)
      PROVE  pStatus'[q] = "none" /\ status'[creation'[q].s] = "active"
  BY <1>4 DEF GateAnswers, StartRefresh, RefreshAnswers
<1>5. ASSUME NEW d \in Deciders, CommitDecision(d)
      PROVE  pStatus'[q] = "none" /\ status'[creation'[q].s] = "active"
  BY <1>5 DEF CommitDecision, SwapMatches
<1>6. CASE UNCHANGED <<status, pStatus, creation>>
  BY <1>6
<1>7. CASE Crash
  BY <1>7 DEF Crash
<1>8. QED
  BY <1>1, <1>2, <1>3, <1>4, <1>5, <1>6, <1>7
     DEF Next, CreationStep, DecisionStep, InsertProposal,
         InsertWithoutStrategy, ReadProposal, LoseDecision, vars

LEMMA CheckedNext ==
  TypeOK /\ CheckedApprovals /\ [Next]_vars => CheckedApprovals'
<1> SUFFICES ASSUME TypeOK, CheckedApprovals, [Next]_vars,
                    NEW e \in Deciders,
                    decider'[e].pc = "cas", decider'[e].decision = "approved"
             PROVE  ~IsRed(decider'[e].seen)
  BY DEF CheckedApprovals, IsRed
<1> USE DEF TypeOK, CheckedApprovals, proposalVars, requestVars, NoDecision
<1>1. ASSUME NEW d \in Deciders, NEW p \in Proposals, NEW decision \in Decisions,
             ReadProposal(d, p, decision)
      PROVE  ~IsRed(decider'[e].seen)
  BY <1>1 DEF ReadProposal, MayDecide
<1>2. ASSUME NEW d \in Deciders, CommitDecision(d) \/ LoseDecision(d)
      PROVE  ~IsRed(decider'[e].seen)
  BY <1>2 DEF CommitDecision, LoseDecision
<1>3. CASE Crash
  BY <1>3 DEF Crash
<1>4. CASE UNCHANGED decider
  BY <1>4
<1>5. QED
  BY <1>1, <1>2, <1>3, <1>4
     DEF Next, CreationStep, DecisionStep, StrategyMoves, LockStrategy,
         InsertProposal, InsertWithoutStrategy, InsertRow, GateAnswers, StartRefresh,
         RefreshAnswers, vars

LEMMA LocalInvariant == Spec => []LocalInv
<1>1. Init => LocalInv
  BY TypeInit DEF Init, LocalInv, LockedRows, CheckedApprovals, NoCreation, NoDecision
<1>2. LocalInv /\ [Next]_vars => LocalInv'
  BY TypeNext, LockedNext, CheckedNext DEF LocalInv
<1>3. QED
  BY <1>1, <1>2, PTL DEF Spec

------------------------------------------------------------------------------
(* Refinement of the contract.                                              *)

LEMMA InsertIsCreate ==
  ASSUME NEW p \in Proposals, NEW s \in Strategies \cup {NoStrategy},
         pStatus[p] = "none", s # NoStrategy => status[s] = "active", InsertRow(p, s)
  PROVE  Contract!Next
BY DEF InsertRow, Contract!Create, Contract!ProposalStep, Contract!Next

LEMMA StoreIsSetVerdict ==
  ASSUME TypeOK, NEW p \in Proposals, NEW level \in Levels, StoreVerdict(p, level),
         UNCHANGED <<status, pStatus, strategyOf, decisionLog>>
  PROVE  [Contract!Next]_(Contract!vars)
<1>1. CASE UNCHANGED gate
  BY <1>1 DEF Contract!vars, Contract!proposalVars
<1>2. CASE /\ pStatus[p] = "pending"
           /\ DbLevel(level) \in Verdicts \ {"null"}
           /\ gate' = [gate EXCEPT ![p] = DbLevel(level)]
  <2>1. Contract!SetVerdict(p, DbLevel(level))
    BY <1>2 DEF Contract!SetVerdict
  <2>2. QED
    BY <1>2, <2>1, SameProposalModel DEF Contract!ProposalStep, Contract!Next
<1>3. QED
  BY <1>1, <1>2, StoredVerdict DEF TypeOK

LEMMA CommitIsDecide ==
  ASSUME LocalInv, NEW d \in Deciders, CommitDecision(d)
  PROVE  Contract!Next
<1>1. decider[d] \in [pc : {"cas"}, p : Proposals, decision : Decisions, seen : Verdicts]
  BY DEF LocalInv, TypeOK, CommitDecision, DecisionStates, NoDecision
<1>2. Contract!Decide(decider[d].p, decider[d].decision, decider[d].seen)
  BY <1>1, SameProposalModel
     DEF LocalInv, CheckedApprovals, CommitDecision, SwapMatches, Contract!Decide
<1>3. QED
  BY <1>1, <1>2, SameProposalModel DEF Contract!ProposalStep, Contract!Next

LEMMA StrategyMoveIsContractual ==
  ASSUME StrategyMoves PROVE Contract!Next
<1>1. Contract!StrategySide!Next
  BY DEF StrategyMoves, StrategySide!Next, StrategySide!InsertRow, StrategySide!MoveRows,
         StrategySide!CanTransition, StrategySide!AllowedTransitions, StrategySide!Statuses,
         StrategySide!Absent, Contract!StrategySide!Next, Contract!StrategySide!InsertRow,
         Contract!StrategySide!MoveRows, Contract!StrategySide!CanTransition,
         Contract!StrategySide!AllowedTransitions, Contract!StrategySide!Statuses,
         Contract!StrategySide!Absent
<1>2. QED
  BY <1>1 DEF StrategyMoves, proposalVars, Contract!Next, Contract!proposalVars

LEMMA StepRefines == LocalInv /\ [Next]_vars => [Contract!Next]_(Contract!vars)
<1> SUFFICES ASSUME LocalInv, [Next]_vars PROVE [Contract!Next]_(Contract!vars)
  OBVIOUS
<1>1. CASE StrategyMoves
  BY <1>1, StrategyMoveIsContractual
<1>2. ASSUME NEW p \in Proposals, InsertProposal(p) PROVE Contract!Next
  BY <1>2, InsertIsCreate, LockedState DEF InsertProposal, LocalInv, TypeOK, LockedRows
<1>3. ASSUME NEW p \in Proposals, InsertWithoutStrategy(p) PROVE Contract!Next
  BY <1>3, InsertIsCreate DEF InsertWithoutStrategy
<1>4. ASSUME NEW p \in Proposals, GateAnswers(p) \/ RefreshAnswers(p)
      PROVE  [Contract!Next]_(Contract!vars)
  BY <1>4, StoreIsSetVerdict DEF GateAnswers, RefreshAnswers, LocalInv
<1>5. ASSUME NEW d \in Deciders, CommitDecision(d) PROVE Contract!Next
  BY <1>5, CommitIsDecide
<1>6. CASE UNCHANGED <<status, proposalVars>>
  BY <1>6 DEF proposalVars, Contract!vars, Contract!proposalVars
<1>7. QED
  BY <1>1, <1>2, <1>3, <1>4, <1>5, <1>6
     DEF Next, CreationStep, DecisionStep, LockStrategy, StartRefresh,
         ReadProposal, LoseDecision, Crash, vars

\* The pipeline, with its awaits, races and crashes, does to the tables only
\* what the contract's atomic steps do.
THEOREM PipelineImplementsContract == Spec => ContractSpec
<1>1. Init => Contract!Init
  BY DEF Init, Contract!Init, Contract!StrategySide!Init, Contract!StrategySide!Absent, Absent
<1>2. QED
  BY <1>1, StepRefines, LocalInvariant, PTL DEF Spec, ContractSpec, Contract!Spec
------------------------------------------------------------------------------
(* The rows: what follows from the contract's actions.                      *)

\* Nobody takes back or refreshes the verdict of a decided proposal, and its
\* one audit row is written with the decision.
LEMMA DecideKeepsRows ==
  ASSUME TypeOK, RowInv, NEW p \in Proposals, NEW decision \in Decisions,
         NEW seen \in Verdicts, Contract!Decide(p, decision, seen)
  PROVE  RowInv'
<1> DEFINE row == [event |-> decision, verdict |-> seen]
<1>1. /\ pStatus[p] = "pending"
      /\ decision = "approved" => ~IsRed(gate[p]) /\ ~IsRed(seen)
      /\ pStatus' = [pStatus EXCEPT ![p] = decision]
      /\ decisionLog' = [decisionLog EXCEPT ![p] = Append(@, row)]
      /\ gate' = gate
  BY SameProposalModel DEF Contract!Decide
<1>2. NeverApprovedRed'
  BY <1>1 DEF RowInv, NeverApprovedRed, TypeOK
<1>3. decisionLog[p] = <<>>
  BY <1>1 DEF RowInv, OneAuditRowPerDecision, Decisions
<1>4. decisionLog'[p] = <<row>>
  BY <1>1, <1>3 DEF TypeOK
<1>5. OneAuditRowPerDecision'
  BY <1>1, <1>4 DEF RowInv, OneAuditRowPerDecision, TypeOK
<1>6. ApprovalAuditShowsPass'
  BY <1>1, <1>4 DEF RowInv, ApprovalAuditShowsPass, TypeOK
<1>7. QED
  BY <1>2, <1>5, <1>6 DEF RowInv

LEMMA RowNext == TypeOK /\ RowInv /\ [Contract!Next]_(Contract!vars) => RowInv'
<1> SUFFICES ASSUME TypeOK, RowInv, [Contract!Next]_(Contract!vars) PROVE RowInv'
  OBVIOUS
<1> USE DEF TypeOK, RowInv, NeverApprovedRed, OneAuditRowPerDecision, ApprovalAuditShowsPass
<1>1. ASSUME NEW p \in Proposals, NEW s, Contract!Create(p, s) PROVE RowInv'
  BY <1>1 DEF Contract!Create, Decisions
<1>2. ASSUME NEW p \in Proposals, NEW verdict, Contract!SetVerdict(p, verdict) PROVE RowInv'
  BY <1>2 DEF Contract!SetVerdict
<1>3. ASSUME NEW p \in Proposals, NEW decision \in Decisions, NEW seen \in Verdicts,
             Contract!Decide(p, decision, seen)
      PROVE  RowInv'
  BY <1>3, DecideKeepsRows
<1>4. CASE UNCHANGED proposalVars
  BY <1>4 DEF proposalVars
<1>5. QED
  BY <1>1, <1>2, <1>3, <1>4, SameProposalModel
     DEF Contract!Next, Contract!ProposalStep, Contract!vars, Contract!proposalVars,
         proposalVars

LEMMA RowInvariant == Spec => []RowInv
<1>1. Init => RowInv
  BY DEF Init, RowInv, NeverApprovedRed, OneAuditRowPerDecision, ApprovalAuditShowsPass,
         Decisions
<1>2. LocalInv /\ RowInv /\ [Next]_vars => RowInv'
  BY StepRefines, RowNext DEF LocalInv
<1>3. QED
  BY <1>1, <1>2, LocalInvariant, PTL DEF Spec

\* FR28 for every instance: no race of approvals, refreshes and crashes
\* approves a proposal whose verdict blocks it.
THEOREM ApprovalsAreNeverRed == Spec => []NeverApprovedRed
BY RowInvariant, PTL DEF RowInv

\* However many requests compete, a proposal is decided by one of them and the
\* audit trail holds that decision alone.
THEOREM DecisionsAreAuditedOnce == Spec => []OneAuditRowPerDecision
BY RowInvariant, PTL DEF RowInv

\* The verdict that an approval's audit row records allowed the approval.
THEOREM AuditedApprovalsPassed == Spec => []ApprovalAuditShowsPass
BY RowInvariant, PTL DEF RowInv

\* The row lock closes the gap between the check of the strategy and the INSERT.
THEOREM ProposalsStartActive == Spec => CreatedWhileActive
<1>1. LocalInv /\ [Next]_vars =>
        [\A p \in Proposals :
           pStatus[p] = "none" /\ pStatus'[p] # "none" /\ strategyOf'[p] # NoStrategy
             => status'[strategyOf'[p]] = "active"]_vars
  <2> SUFFICES ASSUME LocalInv, [Next]_vars, NEW p \in Proposals,
                      pStatus[p] = "none", pStatus'[p] # "none", strategyOf'[p] # NoStrategy
               PROVE  status'[strategyOf'[p]] = "active"
    OBVIOUS
  <2> USE DEF LocalInv, TypeOK
  <2>1. ASSUME NEW q \in Proposals, InsertProposal(q)
        PROVE  status'[strategyOf'[p]] = "active"
    BY <2>1 DEF InsertProposal, InsertRow, LockedRows
  <2>2. ASSUME NEW q \in Proposals, InsertWithoutStrategy(q)
        PROVE  status'[strategyOf'[p]] = "active"
    BY <2>2 DEF InsertWithoutStrategy, InsertRow
  <2>3. ASSUME NEW d \in Deciders, CommitDecision(d)
        PROVE  status'[strategyOf'[p]] = "active"
    BY <2>3 DEF CommitDecision, SwapMatches
  <2>4. QED
    BY <2>1, <2>2, <2>3
       DEF Next, CreationStep, DecisionStep, StrategyMoves, LockStrategy,
           GateAnswers, StartRefresh, RefreshAnswers, ReadProposal, LoseDecision, Crash,
           proposalVars, vars
<1>2. QED
  BY <1>1, LocalInvariant, PTL DEF Spec, CreatedWhileActive
==============================================================================
