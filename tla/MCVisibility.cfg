SPECIFICATION Spec
CONSTANTS
  Keys <- KindKeys
  Values = {"base", "own", "stale"}
  Repos = {"web"}
  RepoNames <- OrgNames
  OrgScope = OrgScope
  Unset = Unset
  None = None
  Hidden = Hidden
  Empty = Empty
  Garbage = Garbage
  Tasks = {"main"}
  Scenarios <- OrgScopes
  Followups <- Review
  Ids = {11, 12}
  RepoId <- KnownIds
  ForeignCells = {}
  PageSize = 2
  MaxFaults = 0
  MaxChanges = 0
INVARIANTS AuditSeesAllDrift
CHECK_DEADLOCK FALSE
