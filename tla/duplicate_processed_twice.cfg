CONSTANTS
  Events = {e1}
  DeadRows = {}
  MaxRetries = 0
  NoMessage = NoMessage
  Ticks = {t1}
  BatchLimit = 2
  MaxAborts = 1
  Workers = {w1, w2}
  Unparseable = {}
  CacheMayFail = FALSE
  DeadSlots = {s1}
  Operators = {}
  NoRow = NoRow
  MaxCrashes = 0
SPECIFICATION Spec
CHECK_DEADLOCK FALSE
INVARIANT RepublishedNotProcessedTwice
