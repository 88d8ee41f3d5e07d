SPECIFICATION Spec
CONSTANTS
  Keys <- AllKeys
  Values <- AllValues
  Repos = {"web", "api"}
  RepoNames <- AllTexts
  OrgScope = "(org)"
  Unset = Unset
  None = None
  Names <- TwoNames
  Texts <- AllTexts
  MaxDepth = 10
  Owners = {"us", "them"}
  Environment <- SomeEnvironment
  Files <- SomeFiles
  BaseDir = "dir"
  Rooted = {"/key"}
  Unparsable = Unparsable
  Invocations <- LoadsAndCommandLines
  Example <- StarterFile
  Absent = Absent
  MaxTouches = 1
INVARIANTS CommandTypeOK LoadedIsConfiguration LoadKeepsMeaning RefusesOnlyBadDocuments ExampleZeroMeansWritten
PROPERTIES SparesExisting
CHECK_DEADLOCK FALSE
