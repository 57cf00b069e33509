SPECIFICATION SearchSpec
CONSTANTS
  None = None
  K1 = K1
  K2 = K2
  R = R
  Ids <- MCIds
  Bundles <- MCBundles
INVARIANTS
  PathIsCanonical
