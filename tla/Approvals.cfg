SPECIFICATION FairSpec
CONSTANTS
  Strategies = {s1, s2}
  NoStrategy = NoStrategy
  Proposals = {p1}
  Deciders = {d1, d2}
  RefreshAllowed = TRUE
INVARIANTS TypeOK NeverApprovedRed OneAuditRowPerDecision ApprovalAuditShowsPass
PROPERTIES CreatedWhileActive VerdictArrives ContractSpec
