SPECIFICATION Spec
CONSTANTS
  p1 = p1
  p2 = p2
  b1 = b1
  b2 = b2
  s1 = s1
  r1 = r1
  r2 = r2
  Pushes = {p1, p2}
  Bundles = {b1, b2}
  None = None
  Servers = {s1}
  Requests = {r1, r2}
  ServerOf <- OneServer
  SecondLength = 1
  MaxNow = 1
  KVMayFail = FALSE
SYMMETRY Symmetry
INVARIANTS
  TypeOK
  OnlySavedBundlesRun
  PublishedIsFound
  MissSeesSettledPush
CHECK_DEADLOCK FALSE
