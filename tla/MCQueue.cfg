\* Batches of two and a ticker; the table stays empty.
CONSTANTS
  m1 = m1  m2 = m2  alice = alice  topic = topic
  Topics = {topic}
  Users = {alice}
  TopicOf <- MCTopicOf
  OwnerOf <- MCOwnerOf
  None = None
  Delays = {0, 1}
  Expiry = 1
  BatchTimeouts = {0, 1}
  MaxFailures = 2
  MaxTime = 4
  BatchSize = 2
  Timeout = 1
  Ticker = ticker
  Messages = {}
  BatchSizes = {0}
  Elements = {e1, e2, e3, e4, e5}
SPECIFICATION QueueSpec
PROPERTIES ImplementsSink EventuallyHandled
CHECK_DEADLOCK FALSE
