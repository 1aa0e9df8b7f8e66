\* The web app with a message, two failures of the network and a change of the user; and
\* the topics as MCLive has them.
CONSTANTS
  None = None
  Polls = {p1}
  MaxMessages = 1
  MaxFailures = 2
  MaxVersion = 1
  a = a
  b = b
  h1 = h1
  h2 = h2
  h3 = h3
  o1 = o1
  p = p
  v1 = v1
  user = user
  manager = manager
SPECIFICATION MCSpec
INVARIANT UntrackedAreQuiet
PROPERTIES StreamingHandlersGetIt CanceledHandlersClose Reconnects
CHECK_DEADLOCK FALSE
