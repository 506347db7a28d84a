SPECIFICATION Spec
CONSTANTS
  w1 = w1
  w2 = w2
  r1 = r1
  r2 = r2
  Workers = {w1, w2}
  Requests = {r1, r2}
  Attempts = {1, 2, 3, 4, 5, 6}
  Generations = {0, 1, 2}
  MaxDeliver = 2
  MaxTokens = 3
  FlushMax = 2
  QueueMax = 1
  Budget = 1
  ReleasedMax = 2
  TombstoneMax = 1
  TapMax = 1
  Workloads <- MCWorkloads
INVARIANTS
  BudgetConserved
  AckMeansAnswered
  CompleteMeansComplete
PROPERTIES
  CancelStopsDecoding
  AttemptsEnd
CHECK_DEADLOCK FALSE
