\* Three messages, or one and a change of the user, and a failure of the network; two
\* devices that change two subscriptions; and the dialog for one topic, with one optional
\* row, a file within the limits and one over them.
CONSTANTS
  None = None
  Polls = {p1}
  MaxMessages = 3
  MaxFailures = 1
  MaxVersion = 1
  Devices = {d1, d2}
  Topics = {t1, t2}
  Initial = {t1}
  MaxChanges = 2
  MaxFetches = 2
  MaxLoads = 1
  MaxFaults = 1
  DialogTopics = {t1}
  Rows = {row1}
  Files = {f1, f2}
  Large = {f2}
  MaxKey = 1
  MaxRequests = 2
  MaxFiles = 1
SPECIFICATION WebAppSpec
INVARIANTS OnlySkippedMissed  
PROPERTY SentAsShown
CHECK_DEADLOCK FALSE
