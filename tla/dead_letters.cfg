CONSTANTS
  Events = {e1}
  DeadRows = {d1, d2, d3, d4}
  MaxRetries = 0
  NoMessage = NoMessage
  Ticks = {t1}
  BatchLimit = 2
  MaxAborts = 1
  Workers = {w1}
  Unparseable = {e1}
  CacheMayFail = FALSE
  DeadSlots = {s1, s2}
  Operators = {o1}
  NoRow = NoRow
  MaxCrashes = 1
SPECIFICATION Spec
CHECK_DEADLOCK FALSE
SYMMETRY Letters
INVARIANT DeadRowsBounded
