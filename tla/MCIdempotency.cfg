SPECIFICATION Spec
CONSTANTS
  r1 = r1
  r2 = r2
  r3 = r3
  reused = reused
  other = other
  k1 = k1
  k2 = k2
  f1 = f1
  f2 = f2
  Requests <- MCRequests
  Keys = {k1, k2}
  Fingerprints = {f1, f2}
  key <- MCKey
  fp <- MCFp
  Nobody = Nobody
  MaxCache = 1
CHECK_DEADLOCK FALSE
INVARIANTS OneOwner ReplayIsTruthful
PROPERTIES NoWriteWhileRemembered WaitersAnswered
