SPECIFICATION ToolSpec
CONSTANTS
  None = None
  Malformed = Malformed
  Composite = Composite
  Absent = Absent
  Directory = Directory
  Unreadable = Unreadable
  Inaccessible = Inaccessible
  Bytes <- MCBytes
  ParseRoot <- MCParseRoot
  ParseContract <- MCParseContract
  Json <- MCJson
  Toml <- MCToml
  Text <- MCText
  Identifiers <- MCIdentifiers
  EvidencePaths <- MCEvidencePaths
  Trees <- ToolTrees
  Contents <- ToolContents
  MaxWrites = 1
  c1 = c1
  c2 = c2
  Requests <- MCRequests
  Commits <- MCCommits
  TreeOf <- MCTreeOf
  CiRuns <- MCCiRuns
  MaxMoves = 1
INVARIANTS
  PayloadIsEarned
  ReadyAnswersTheTarget
  CurrentMeansCommitted
  UndisturbedAnswerIsExact
