SPECIFICATION Spec
CONSTANTS
  Commands = {c1, c2, c3}
  Names = {"default", "other"}
  Default = "default"
  Hubs <- MCHubs
  Tokens <- MCTokens
  Projects = {p1}
  Issues <- MCIssues
  Accepts <- MCAccepts
  Offered <- MCOffered
  None = None
  Truncated = Truncated
  Torn = Torn
  h1 = h1
  h2 = h2
  t1 = t1
  t2 = t2
  p1 = p1
INVARIANTS
  TypeOK
  CurrentIsAProfile
  UnreadableOnlyWhenSpoiled
  LoginSavesItsHubsToken
PROPERTIES
  CommandsEnd
CHECK_DEADLOCK FALSE
