SPECIFICATION HarnessSpec
CONSTANTS
  None = None
  Malformed = Malformed
  Composite = Composite
  Absent = Absent
  Directory = Directory
  Unreadable = Unreadable
  Inaccessible = Inaccessible
  Bytes <- MCBytes
  ParseRoot <- MCParseRoot
  ParseContract <- MCParseContract
  Json <- MCJson
  Toml <- MCToml
  Text <- MCText
  EvidencePaths <- MCEvidencePaths
  Demo <- MCDemo
  NotJson = "not-json"
  Review <- MCReview
  TestRun <- MCTestRun
  Stranger <- MCStranger
  OtherRelease <- MCOtherRelease
  Schedules <- RunsTaken
  Requests <- MCRequests
  MaxTurns = 3
  MaxCalls = 2
INVARIANTS
  FixturesDecideAsExpected
  PassIsGoverned
  ProofPassIsComplete
