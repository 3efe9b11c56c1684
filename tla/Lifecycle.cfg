\* A store between two plain handlers, under fairness.
SPECIFICATION FairSpec
CONSTANTS
  http = http
  pg = pg
  redis = redis
  jobs = jobs
  App = app
  Handlers <- OneStore
  Stores = {pg}
INVARIANTS
  TypeOK
  StopIsFinal
  EveryoneStops
PROPERTIES
  WindsDown
  StopReturns
  Recovers
CHECK_DEADLOCK FALSE
