SPECIFICATION Spec
CONSTANTS
  Ops = {o1}
  Users = {u1}
  Wide = {}
  TTL = 1
  MaxNow = 1
  None = None
  Anonymous = Anonymous
  Done = Done
  Refused = Refused
PROPERTY CallsTimeOut
CHECK_DEADLOCK FALSE
