\* A rolling deploy whose new build adds v2 and has edited the frozen v1,
\* under fairness.
SPECIFICATION FairSpec
CONSTANTS
  dA = dA  dA2 = dA2  dB = dB  dHuge = dHuge  dBad = dBad
  r1 = r1  r2 = r2  w1 = w1  w2 = w2
  None = None
  Replicas = {r1, r2}
  Workers = {w1, w2}
  Host <- HostTwo
  Refs <- WithUnnamed
  Docs <- TwoDocs
  Usable <- TwoDocs
  Decodable <- TwoDocs
  Image <- RoundedTwo
  Catalog <- EditedCatalog
  Archivable = {}
INVARIANTS
  ServingBuildAgrees
PROPERTIES
  CallsReturn
  BootSettles
CHECK_DEADLOCK FALSE
