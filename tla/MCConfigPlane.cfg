SPECIFICATION ClusterSpec
CONSTANTS
  a = a
  b = b
  c = c
  p = p
  q = q
  x = x
  y = y
  Models = {a, b, c}
  Ours = {a, b}
  Profiles = {p, q}
  Contents = {x, y}
  None = None
  NoJob = NoJob
  NoHash = NoHash
  NoNote = NoNote
  NoSnap = NoSnap
  HasStore = TRUE
  PeriodicExport = TRUE
  Workloads <- MCWorkloads
CHECK_DEADLOCK FALSE
INVARIANTS
  RestartIsInvisible
  ExportIsRegistry
  NoSilentDrift
  NobodyAhead
  GatewayNoSilentDrift
PROPERTIES
  ServedCatalogGrows
  EventuallyInStep
