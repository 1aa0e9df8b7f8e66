\* Reservations only, two requests at the same time.
CONSTANTS
  u1 = u1
  t1 = t1
  t2 = t2
  star = star
  basic = basic
  pro = pro
  home = home
  other = other
  Everyone = Everyone
  System = System
  NoTier = NoTier
  NoRow = NoRow
  NoRequest = NoRequest
  None = None
  Users = {u1, u2}
  Topics = {t1, t2}
  Tiers = {basic, pro}
  Length <- MCLength
  Rank <- MCRank
  ReservationLimit <- MCLimit
  Patterns = {t1, t2, star}
  Matches <- MCMatches
  DefaultAccess <- ReadWrite
  GrantPerms <- ReadOnly
  GrantPatterns = {t1, star}
  Tabs = {x1, x2}
  MaxPages = 3
  Servers = {home, other}
  Home = home
  SessionUser = u1
  Readable <- MCReadable
  Taken = {t2}
  MaxKey = 2
  MaxRuns = 2
  MaxEdits = 1
  Devices = {d1, d2}
  Values = {week, day, never}
  Default = week
  Zero = never
  MaxChanges = 2
  MaxFetches = 2
  MaxLoads = 1
  MaxFaults = 1
  EveryonePerms <- DenyOnly
  Workers = {w1, w2}
  Conns = {}
  Scenarios <- Reserving
  Parts = {"reservations"}
SPECIFICATION UsersSpec
INVARIANT OneOwner
CHECK_DEADLOCK FALSE
