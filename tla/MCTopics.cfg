\* Two handlers, one of them on two topics, a publisher, an expiring clock; and two tabs
\* that register one topic, which the user changes twice.
CONSTANTS
  idA = a
  idB = b
  idC = c
  h1 = h1
  v1 = v1
  v2 = v2
  TopicIDs = {a, b, c}
  UnifiedPush = {c}
  Objects = {o1, o2, o3}
  Handlers = {h1, h2}
  Publishers = {p1}
  Visitors = {v1, v2}
  VisitorOf <- MCVisitorOf
  UserOf <- MCUserOf
  TopicsOf <- MCTopicsOf
  TopicOf <- ToC
  Cancelers = {"u"}
  Manager = manager
  None = none
  TotalTopicLimit = 2
  SubscriptionLimit = 1
  RateLimiting = TRUE
  ExpungeAfter = 0
  VisitorExpungeAfter = 0
  MaxTime = 1
  Tabs = {x1, x2}
  Pushable = {a}
  MaxChanges = 2
  MaxRuns = 2
  MaxEndpoints = 2
  MaxFaults = 1
SPECIFICATION MCSpec
SYMMETRY ObjectSymmetry
INVARIANTS StreamsAreFound TopicsReachServer
CHECK_DEADLOCK FALSE
