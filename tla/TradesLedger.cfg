CONSTANTS
  Orders = {o1, o2}
  Closing = {o1}
  Options = {o2}
  MaxFills = 2
  MaxCrashes = 1
SPECIFICATION FairSpec
INVARIANTS
  TypeOK
  QuantityIsReal
  CapturedOnce
PROPERTIES
  ContractSpec
  FlexClosesTrades
