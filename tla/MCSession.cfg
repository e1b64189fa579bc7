SPECIFICATION Spec
CONSTANTS
  Ops = {o1, o2, o3}
  Users = {u1, u2}
  Wide = {u2}
  TTL = 1
  MaxNow = 2
  None = None
  Anonymous = Anonymous
  Done = Done
  Refused = Refused
INVARIANTS
  TypeOK
  LoggedOutStaysOut
PROPERTIES
  ExpiredIsOver
  HeadersOrTimeOut
CHECK_DEADLOCK FALSE
