SPECIFICATION Spec
CONSTANTS
  r1 = r1
  i1 = i1
  i2 = i2
  Requests = {r1}
  Items = {i1, i2}
  MaxFaults = 1
CHECK_DEADLOCK FALSE
INVARIANTS PayloadWhileWaiting NothingForgotten
PROPERTIES PayloadsReclaimed
