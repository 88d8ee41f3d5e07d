SPECIFICATION OrgSpec
CONSTANTS
  Keys <- OrgRunKeys
  Values = {"base", "own", "stale"}
  Repos = {"web", "api", "lib"}
  RepoNames = {}
  OrgScope = "(org)"
  Unset = Unset
  None = None
  Hidden = Hidden
  Empty = Empty
  Garbage = Garbage
  Tasks = {0, 1, 2, 3}
  Scenarios <- OrgRuns
  Followups <- NoFollowups
  Ids = {}
  RepoId <- NoneKnown
  ForeignCells <- Passersby
  PageSize = 2
  MaxFaults = 1
  MaxChanges = 1
  Hosted = {"web", "api", "lib"}
  Catalogs <- TwoRepos
  PerPage = 1
  MaxMoves = 1
  MaxTroubles = 1
  Workers = {1, 2, 3}
  Concurrencies = {2}
  MaxFailed = 2
  Nobody = Nobody
INVARIANTS IterationIsOptIn
CHECK_DEADLOCK FALSE
