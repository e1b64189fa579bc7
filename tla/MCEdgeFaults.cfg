SPECIFICATION Spec
CONSTANTS
  p1 = p1
  p2 = p2
  b1 = b1
  s1 = s1
  r1 = r1
  Pushes = {p1, p2}
  Bundles = {b1}
  None = None
  Servers = {s1}
  Requests = {r1}
  ServerOf <- OneServer
  SecondLength = 2
  MaxNow = 2
  KVMayFail = TRUE
INVARIANTS
  KVHoldsSavedManifests
  RefusedPushIsInvisible
  CleanPushWins
PROPERTIES
  PushEnds
  KeepsPromise
  LoadEnds
CHECK_DEADLOCK FALSE
