\* Stop racing Run.
SPECIFICATION FairSpec
CONSTANTS
  http = http
  pg = pg
  redis = redis
  jobs = jobs
  App = app
  Handlers <- OneStore
  Stores = {pg}
PROPERTIES
  StopAlwaysReturns
CHECK_DEADLOCK FALSE
