SPECIFICATION FairSpec
CONSTANTS
  Keys <- ThreeKeys
  Values = {"base", "own", "stale"}
  Repos = {"web"}
  RepoNames = {}
  OrgScope = OrgScope
  Unset = Unset
  None = None
  Hidden = Hidden
  Empty = Empty
  Garbage = Garbage
  Tasks <- TwoTasks
  Scenarios <- Rivals
  Followups <- NoFollowups
  Ids = {}
  RepoId <- NoneKnown
  ForeignCells <- Passersby
  PageSize = 4
  MaxFaults = 0
  MaxChanges = 1
INVARIANTS LinesTellTheTruth ExitZeroMeansReconciled
PROPERTIES ToolOnlyReconciles ImplementsReconcile RunsEnd
CHECK_DEADLOCK FALSE
