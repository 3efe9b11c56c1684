\* One request from the POST to its job's end, two processes consuming,
\* which end twice within a batch.
SPECIFICATION DeliverySpec
CONSTANTS
  Workers = {w1}
  Ids = {d1}
  Apps = {a1}
  Images = {nginx}
  ContractImages = {nginx}
  User = dev
  None = None
  MaxOpenConns = 1
  Malformed = {}
  Consumers = {c1, c2}
  MaxRetries = 1
  MaxReturn = 100
  NTables = 2
  Nearby = 1
  Maintained = TRUE
  Budgets <- TwoStops
INVARIANTS
  HandlersFindTheirRow
  NoJobLost
PROPERTIES
  CreatedIsSettled
  QueueKeepsPromise
CHECK_DEADLOCK FALSE
