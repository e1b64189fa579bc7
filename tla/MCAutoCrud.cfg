SPECIFICATION Spec
CONSTANTS
  Ids <- MCIds
  Columns <- MCColumns
  Spelling <- MCSpelling
  Star = "all"
  Texts = {"text"}
  Prefix <- MCPrefix
  OwnerColumn = "user_id"
  Users <- MCUsers
  RoleSets <- MCRoleSets
  Values <- MCValues
  Null = Null
  Initially <- MCInitially
  Configs <- MCConfigs
  Unset = Unset
  Anonymous = Anonymous
  Absent = Absent
  Idle = Idle
  Requests = {q1}
  Wheres <- MCWheres
  Data <- MCData
  Lists <- MCLists
  u1 = u1
  u2 = u2
  r1 = r1
  r2 = r2
  v = v
SYMMETRY Symmetry
VIEW TableView
INVARIANTS
  TypeOK
  SelectsReadWhatIsPermitted
PROPERTIES
  OwnersWriteOwnRows
  ClosedColumnsKeep
