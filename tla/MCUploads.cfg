\* Concurrent uploads, failures and a crash; two writers.
CONSTANTS
  f1 = f1
  f2 = f2
  v1 = v1
  w1 = w1
  w2 = w2
  bandwidth = bandwidth
  own1 = own1
  own2 = own2
  shared = shared
  Files = {f1, f2}
  Visitors = {v1}
  Owner <- OneOwner
  TotalLimit = 3
  FileLimit = 2
  VisitorLimit = 3
  Expiry = 1
  CacheDuration = 2
  Caching = {TRUE, FALSE}
  Failures = TRUE
  MaxTime = 3
  MaxCrashes = 1
  Writers = {w1, w2}
  Fixed = {own1, own2, shared}
  Rate = {bandwidth}
  Limit <- MCLimit
  Limiters <- MCLimiters
  Chunks = {1, 2}
  MaxValue = 8
SPECIFICATION UploadsSpec
INVARIANTS LiveHaveFiles ForgottenAreRemoved LimitsRespected 
 
CHECK_DEADLOCK FALSE
