SPECIFICATION Spec
CONSTANTS
  r1 = r1
  r2 = r2
  r3 = r3
  p1 = p1
  base = base
  lora = lora
  other = other
  Queued <- MCQueued
  Preformed <- MCPreformed
  Loras <- MCLoras
  Base = base
  Strategy <- MCStrategy
  MaxSplitDepth = 2
  MaxBatchCost = 5
  MaxBatchRequests = 3
  MaxQueue = 3
  Workloads <- MCWorkloads
INVARIANTS
  ForwardUnderItsLora
  RecoveryAccountsForItems
  NoTeardownUnderForward
PROPERTIES
  EveryRequestAnswered
CHECK_DEADLOCK FALSE
