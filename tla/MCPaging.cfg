SPECIFICATION Spec
CONSTANTS
  Keys <- ThreeKeys
  Values = {"base", "own", "stale"}
  Repos = {"web"}
  RepoNames = {}
  OrgScope = OrgScope
  Unset = Unset
  None = None
  Hidden = Hidden
  Empty = Empty
  Garbage = Garbage
  Tasks = {"main"}
  Scenarios <- Crowded
  Followups <- Review
  Ids = {}
  RepoId <- NoneKnown
  ForeignCells = {}
  PageSize = 1
  MaxFaults = 0
  MaxChanges = 0
INVARIANTS ExitZeroMeansReconciled
CHECK_DEADLOCK FALSE
