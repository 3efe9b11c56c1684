\* Two replicas of one build without built-ins: contracts arrive over HTTP,
\* with every kind of document and a version that may be retired.
SPECIFICATION Spec
CONSTANTS
  dA = dA  dA2 = dA2  dB = dB  dHuge = dHuge  dBad = dBad
  r1 = r1  r2 = r2  w1 = w1  w2 = w2
  None = None
  Replicas = {r1, r2}
  Workers = {w1, w2}
  Host <- HostTwo
  Refs <- OneRef
  Docs <- AllDocs
  Usable <- AllButBad
  Decodable <- AllButHuge
  Image <- Rounded
  Catalog <- NoCatalog
  Archivable <- OneRef
INVARIANTS
  TypeOK
  CacheCoherent
  CompiledPublished
  AnswersHold
PROPERTIES
  WriteOnce
  PromiseKept
SYMMETRY Exchange
CHECK_DEADLOCK FALSE
