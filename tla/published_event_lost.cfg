CONSTANTS
  Events = {e1}
  DeadRows = {}
  MaxRetries = 0
  NoMessage = NoMessage
  Ticks = {t1}
  BatchLimit = 2
  MaxAborts = 0
  Workers = {w1}
  Unparseable = {}
  CacheMayFail = FALSE
  DeadSlots = {s1}
  Operators = {}
  NoRow = NoRow
  MaxCrashes = 1
SPECIFICATION Spec
CHECK_DEADLOCK FALSE
INVARIANT NeverLost
