SPECIFICATION ProvenanceSpec
CONSTANTS
  None = None
  Ids <- MCIds
  Bundles <- MCBundles
  Reports <- MCReports
INVARIANTS
  ConflictHasTwoClaims
