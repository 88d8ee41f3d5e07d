SPECIFICATION FairSpec
CONSTANTS
  Keys <- FourKeys
  Values = {"base", "own", "stale"}
  Repos = {"web"}
  RepoNames = {"web", "api"}
  OrgScope = OrgScope
  Unset = Unset
  None = None
  Hidden = Hidden
  Empty = Empty
  Garbage = Garbage
  Tasks = {"main"}
  Scenarios <- TroubledScopes
  Followups <- Review
  Ids = {11, 12}
  RepoId <- BothKnown
  ForeignCells <- Passersby
  PageSize = 4
  MaxFaults = 2
  MaxChanges = 1
INVARIANTS TypeOK LinesTellTheTruth ExitZeroMeansReconciled
PROPERTIES ToolOnlyReconciles AllOrNothing ImplementsReconcile RunsEnd
CHECK_DEADLOCK FALSE
