\* Writes are synchronous or go through the batching queue.
CONSTANTS
  m1 = m1  m2 = m2  alice = alice  topic = topic
  Topics = {topic}
  Users = {alice}
  TopicOf <- MCTopicOf
  OwnerOf <- MCOwnerOf
  None = None
  Delays = {0, 1}
  Expiry = 1
  BatchTimeouts = {0, 1}
  MaxFailures = 2
  MaxTime = 4
  BatchSize = 2
  Timeout = 1
  Ticker = ticker
  Messages = {m1, m2}
  BatchSizes = {0, 2}
  Elements = {}
SPECIFICATION CacheSpec
INVARIANTS PublishedMeansSent SentOnceButForFailures AcceptedAreKept
PROPERTY StoredAreSentAndDeleted
CHECK_DEADLOCK FALSE
