\* Two replicas given documents that differ beyond float64's precision.
SPECIFICATION Spec
CONSTANTS
  dA = dA  dA2 = dA2  dB = dB  dHuge = dHuge  dBad = dBad
  r1 = r1  r2 = r2  w1 = w1  w2 = w2
  None = None
  Replicas = {r1, r2}
  Workers = {w1, w2}
  Host <- HostTwo
  Refs <- OneRef
  Docs <- ThreeDocs
  Usable <- ThreeDocs
  Decodable <- ThreeDocs
  Image <- RoundedThree
  Catalog <- NoCatalog
  Archivable = {}
INVARIANTS
  SameOnEveryReplica
CHECK_DEADLOCK FALSE
