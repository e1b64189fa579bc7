SPECIFICATION Spec
CONSTANTS
  c1 = c1
  c2 = c2
  c3 = c3
  u1 = u1
  u2 = u2
  e1 = e1
  Calls = {c1, c2, c3}
  Users = {u1, u2}
  Emails = {e1}
  Offered <- MCOffered
  Stray = Stray
  None = None
INVARIANTS
  TypeOK
  CreatedIsListed
  LosesOnlyTheFirstRace
PROPERTIES
  CallsEnd
  KeepsItsPromise
CHECK_DEADLOCK FALSE
