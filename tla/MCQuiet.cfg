SPECIFICATION Spec
CONSTANTS
  Keys <- ThreeKeys
  Values = {"base", "own", "stale"}
  Repos = {"web"}
  RepoNames = {}
  OrgScope = OrgScope
  Unset = Unset
  None = None
  Hidden = Hidden
  Empty = Empty
  Garbage = Garbage
  Tasks = {"main"}
  Scenarios <- Quiet
  Followups <- Review
  Ids = {}
  RepoId <- NoneKnown
  ForeignCells = {}
  PageSize = 2
  MaxFaults = 0
  MaxChanges = 0
INVARIANTS AuditReportsOnlyChanges
CHECK_DEADLOCK FALSE
