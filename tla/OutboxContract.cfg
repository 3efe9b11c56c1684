\* A request without an image reference.
SPECIFICATION Spec
CONSTANTS
  Workers = {w1, w2}
  Ids = {d1, d2}
  Apps = {a1}
  Images = {nginx, empty}
  ContractImages = {nginx}
  User = dev
  None = None
  MaxOpenConns = 2
INVARIANTS
  PayloadsHonourContract
CHECK_DEADLOCK FALSE
