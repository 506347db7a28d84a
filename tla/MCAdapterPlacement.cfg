SPECIFICATION MCSpec
CONSTANTS
  NumChildren = 2
  m1 = m1
  m2 = m2
  v1 = v1
  Models = {m1, m2}
  Versions = {v1}
  Absent = Absent
  NoHash = NoHash
  NoBatch = NoBatch
  Executors = {x1}
  Baseline <- MCBaseline
  MaxFanouts = 2
  Items = {i1, i2}
  NoItem = NoItem
  Costs = {2}
  PinBaseline <- MCPinBaseline
  MaxRevision = 4
INVARIANTS
  QuarantineHidesChildren
  RegistryStableDuringBatch
  UniformWhenServing
  PinsInForce
  LoadIsExact
