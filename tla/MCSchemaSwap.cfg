SPECIFICATION Spec
CONSTANTS
  c1 = c1
  c2 = c2
  v1 = v1
  v2 = v2
  Callers = {c1, c2}
  Schemas = {v1, v2}
  Empty = Empty
  Mixed = Mixed
INVARIANT AppliesItsPlan
CHECK_DEADLOCK FALSE
