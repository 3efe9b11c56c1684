\* A rolling deploy whose new build adds v2, while clients of both replicas
\* publish and read three versions of a kind; v2 may be retired.  Nothing is
\* kept in Redis, which Latest and List do not ask.
SPECIFICATION ListingSpec
CONSTANTS
  dA = dA  dA2 = dA2  dB = dB  dHuge = dHuge  dBad = dBad
  r1 = r1  r2 = r2  w1 = w1  w2 = w2
  None = None
  Replicas = {r1, r2}
  Workers = {w1, w2}
  Host <- HostTwo
  Refs <- ThreeVersions
  Docs <- OneDoc
  Usable <- OneDoc
  Decodable <- OneDoc
  Image <- RoundedOne
  Catalog <- NewerCatalog
  Archivable <- OnlyV2
CONSTRAINT Uncached
INVARIANTS
  LatestFollowsTheDeploy
  ReadsAgree
CHECK_DEADLOCK FALSE
