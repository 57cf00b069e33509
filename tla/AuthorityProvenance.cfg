SPECIFICATION FairProvenanceSpec
CONSTANTS
  None = None
  Ids <- MCIds
  Bundles <- MCBundles
  Reports <- MCReports
INVARIANTS
  PathIsAuthorized
  SearchIsComplete
  LeastIfAcyclic
  AcceptedIsAuthorized
  ClaimsAreAuthorized
  ReadyIsBacked
  AcceptsTheRightReports
PROPERTIES
  ValidationAdvances
  ValidationEnds
