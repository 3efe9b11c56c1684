\* Three requests at a time on two connections, every statement failing: the
\* transaction against the one-step ledger, and the end of every request.
SPECIFICATION FairSpec
CONSTANTS
  Workers = {w1, w2, w3}
  Ids = {d1, d2, d3}
  Apps = {a1}
  Images = {nginx}
  ContractImages = {nginx}
  User = dev
  None = None
  MaxOpenConns = 2
INVARIANTS
  TypeOK
  Paired
  CreatedIsDurable
  JobsHaveTheirApp
PROPERTIES
  AppendOnly
  PromiseKept
  RequestsEnd
CHECK_DEADLOCK FALSE
