SPECIFICATION FederationSpec
CONSTANTS
  None = None
  Malformed = Malformed
  Composite = Composite
  Absent = Absent
  Directory = Directory
  Unreadable = Unreadable
  Inaccessible = Inaccessible
  Bytes <- MCBytes
  ParseRoot <- MCParseRoot
  ParseContract <- MCParseContract
  Json <- MCJson
  Toml <- MCToml
  Text <- MCText
  Identifiers <- MCIdentifiers
  EvidencePaths <- MCEvidencePaths
  Trees <- FederationTrees
  Contents <- FederationContents
  MaxWrites = 2
  Calls <- MCCalls
INVARIANTS
  ReadyEnvelopeIsBacked
  UndisturbedEnvelopeIsExact
  LifetimeIsReal
  EnvelopeBindsTheCall
