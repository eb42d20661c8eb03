CONSTANTS
  Events = {e1, e2, e3}
  DeadRows = {}
  MaxRetries = 0
  NoMessage = NoMessage
  Ticks = {t1, t2}
  BatchLimit = 2
  MaxAborts = 1
  Workers = {w1}
  Unparseable = {}
  CacheMayFail = FALSE
  DeadSlots = {s1}
  Operators = {}
  NoRow = NoRow
  MaxCrashes = 0
SPECIFICATION Spec
CHECK_DEADLOCK FALSE
SYMMETRY Rows
INVARIANT NothingVanishes
