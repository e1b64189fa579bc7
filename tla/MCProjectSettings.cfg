SPECIFICATION Spec
CONSTANTS
  x = x
  y = y
  v1 = v1
  v2 = v2
  Runs = {r1, r2}
  Texts = {x, y}
  Keys <- MCKeys
  Values = {v1, v2}
  PathKey <- MCPathKey
  HubKeys = {"old", "new"}
  Tree <- MCTree
  Edits <- MCEdits
  Offered <- MCOffered
  Blank = Blank
  None = None
SYMMETRY Symmetry
INVARIANTS
  TypeOK
  DoneIsStored
CHECK_DEADLOCK FALSE
