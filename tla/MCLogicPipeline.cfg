SPECIFICATION PipelineSpec
CONSTANTS
  get = get
  aux = aux
  root = root
  r1 = r1
  r2 = r2
  Runs = {r1, r2}
  Offered = {"apply", "validate", "sync"}
  Entries = {get, aux, root}
  Private = {aux}
  Misplaced = {root}
  Files <- MCFiles
  Rank <- MCRank
  Trees <- MCTrees
  Earlier <- MCEarlier
  Edits <- MCEdits
  MaxEdits = 1
  None = None
  Malformed = Malformed
SYMMETRY Symmetry
INVARIANTS
  PipelineTypeOK
  VerdictIsOfADirectory
  SyncShowsTheDeployed
CHECK_DEADLOCK FALSE
