CONSTANTS
  Events = {e1}
  DeadRows = {d1}
  MaxRetries = 1
  NoMessage = NoMessage
  Ticks = {t1}
  BatchLimit = 2
  MaxAborts = 0
  Workers = {w1}
  Unparseable = {}
  CacheMayFail = FALSE
  DeadSlots = {s1}
  Operators = {o1}
  NoRow = NoRow
  MaxCrashes = 0
SPECIFICATION Spec
CHECK_DEADLOCK FALSE
INVARIANT ReplayReachesConsumer
