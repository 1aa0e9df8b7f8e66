\* Three requests around two resets; two users and three tokens; two checkout sessions
\* and two requests to copy them; two browsers; three kills of a starting server.
CONSTANTS
  Publishes = {r1, r2, r3}
  Limit = 2
  None = None
  MaxResets = 2
  Users = {u1, u2}
  TokenIds = {a, b, c}
  TokenMaxCount = 1
  Lifetimes = {0, 1}
  MaxTime = 3
  MaxFlight = 1
  NoToken = NoToken
  Tiers = {paid}
  Requests = {p1, p2}
  Subscriptions = {s1, s2}
  MaxVersion = 3
  MaxFailures = 1
  Endpoints = {e1, e2}
  Owners = {u1}
  Ips = {ip}
  Goroutines = {g1, g2}
  EndpointLimit = 2
  WarnAfter = 1
  ExpireAfter = 2
  MaxDays = 3
  MaxIds = 2
  MaxCrashes = 3
SPECIFICATION AccountsSpec
INVARIANTS LimitRespected    ExpiredWereWarned SurvivesKills
 
CHECK_DEADLOCK FALSE
