SPECIFICATION Spec
CONSTANTS
  None = None
  m1 = m1
  m2 = m2
  v1 = v1
  v2 = v2
  Models = {m1, m2}
  Versions = {v1, v2}
  Plain = {m1}
  InitialDisk <- MCInitialDisk
  Workloads <- MCWorkloads
  MaxWaiting = 2
  Loras = {"a", "b"}
  MaxLoras = 1
  Hot = {m1}
  Profile <- MCProfile
  MaxTasks = 2
INVARIANTS
  LoadedConfigCurrent NoGhosts ReloadConverges LoraStateSound
PROPERTIES
  LoadsEnd
CHECK_DEADLOCK FALSE
