SPECIFICATION Spec
CONSTANTS
  None = None
  Malformed = Malformed
  Composite = Composite
  Absent = Absent
  Directory = Directory
  Unreadable = Unreadable
  Inaccessible = Inaccessible
  Bytes <- MCBytes
  ParseRoot <- MCParseRoot
  ParseContract <- MCParseContract
  Json <- MCJson
  Toml <- MCToml
  Text <- MCText
  Identifiers <- MCIdentifiers
  EvidencePaths <- MCEvidencePaths
  Trees <- LiveTrees
  Contents <- NoChanges
  MaxWrites = 0
INVARIANTS
  UntrustedFailsClosed
