\* Two messages, now or later, and a client that connects twice with any marker; and the
\* other parts as MCMessages has them.
CONSTANTS
  Messages = {m1, m2}
  Delays = {0, 1}
  Kinds = {"none", "all", "latest", "id", "time"}
  None = None
  MaxTime = 2
  MaxConnects = 2
  q1 = q1
  q2 = q2
  u1 = u1
  u2 = u2
  Requests = {q1, q2}
  Asks <- MCAsks
  Configurations <- MCConfigurations
  MessageLimit = 1
  CallLimit = 1
  EmailBurst = 1
  MaxRateChanges = 2
  Subscriptions = {u1, u2}
  ChannelSize = 1
  MaxMessages = 2
  MaxConnections <- MCConnections
  Topics = {a1, a2}
  Credentials = {c1, c2}
  Bodies <- MCBodies
  MaxCalls = 4
  Tabs = {x1, x2}
  Notes = {n1}
  MaxPolls = 1
  MaxClicks = 1
  Parts = {"delivery", "publish", "actions", "client", "mail", "notifications"}
SPECIFICATION MCSpec
INVARIANTS OnlyEarlyFanOutsMissed  ReadAsWritten  OwnMail
PROPERTY ReadStaysRead
CHECK_DEADLOCK FALSE
