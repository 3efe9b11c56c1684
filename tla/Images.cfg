\* Two callers, two images, two references: either store.
SPECIFICATION Spec
CONSTANTS
  Digests = {nginx, redis}
  Tags = {latest, stable}
  Ids = {i1, i2, i3, i4}
  Callers = {c1, c2}
  None = None
INVARIANTS
  TypeOK
  MapsAgree
  ToldStaysTrue
  RemovesWhatWasAsked
PROPERTIES
  PromiseKept
SYMMETRY Exchange
CHECK_DEADLOCK FALSE
