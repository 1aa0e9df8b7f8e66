\* The client asks for what came after the last message it got.
CONSTANTS
  Messages = {m1, m2}
  Delays = {0, 1}
  Kinds = {"all", "id"}
  None = None
  MaxTime = 1
  MaxConnects = 2
SPECIFICATION Spec
INVARIANT MissedReadBack
CHECK_DEADLOCK FALSE
