CONSTANTS
  Strategies = {short, long}
  ShortHorizon = {short}
  Handlers = {h1, h2}
  Runs = {r1, r2}
SPECIFICATION Spec
SYMMETRY Symmetry
INVARIANTS
  TypeOK
  TrailMatchesTag
PROPERTIES
  RetiredIsTerminal
  ReleaseFollowsPause
  ContractSpec
