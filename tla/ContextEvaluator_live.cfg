SPECIFICATION FairSpec
CONSTANTS
  None = None
  Malformed = Malformed
  Composite = Composite
  Absent = Absent
  Directory = Directory
  Unreadable = Unreadable
  Inaccessible = Inaccessible
  Bytes <- MCBytes
  ParseRoot <- MCParseRoot
  ParseContract <- MCParseContract
  Json <- MCJson
  Toml <- MCToml
  Text <- MCText
  Identifiers <- MCIdentifiers
  EvidencePaths <- MCEvidencePaths
  Trees <- LiveTrees
  Contents <- LiveContents
  MaxWrites = 2
INVARIANTS
  TypeOK
  EvidenceOnlyAfterTrust
  ReadyIsEarned
  VerdictsAreSupported
  RaisesOnlyWhen
PROPERTIES
  ImplementsPromise
  CallAdvances
  CallEnds
