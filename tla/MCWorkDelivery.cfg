SPECIFICATION Spec
CONSTANTS
  r1 = r1
  i1 = i1
  i2 = i2
  w1 = w1
  Requests = {r1}
  Items = {i1, i2}
  Workers = {w1}
  DirectWorker = w1
  Direct = {r1}
  MaxDeliver = 2
  MaxFaults = 1
SYMMETRY ItemSymmetry
CHECK_DEADLOCK FALSE
INVARIANTS NoItemStranded
PROPERTIES ImplementsRequestReply
