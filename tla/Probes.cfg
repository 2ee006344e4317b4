SPECIFICATION Spec
CONSTANTS
  Minute = 2
  Patience = 1
INVARIANTS DecisionFresh PoolFromRun
PROPERTIES ButtonObeyed
