SPECIFICATION Spec
CONSTANTS
  Requests <- MCRequests
  q1 = q1
  q2 = q2
  q3 = q3
  Configs <- MCConfigs
  NoCache = NoCache
  Malformed = Malformed
  None = None
  MaxTTL = 2
  MaxNow = 3
  MaxData = 1
SYMMETRY Symmetry
INVARIANTS
  TypeOK
  SharedRepliesArePublic
PROPERTIES
  HitsAgeOut
