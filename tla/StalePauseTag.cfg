CONSTANTS
  Strategies = {short}
  ShortHorizon = {short}
  Handlers = {h1}
  Runs = {r1}
SPECIFICATION Spec
PROPERTIES
  ManualPauseSurvivesRecovery
