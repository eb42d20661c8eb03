CONSTANTS
  Events = {e1}
  DeadRows = {}
  MaxRetries = 1
  NoMessage = NoMessage
  Ticks = {t1, t2}
  BatchLimit = 2
  MaxAborts = 1
  Workers = {w1, w2}
  Unparseable = {}
  CacheMayFail = FALSE
  DeadSlots = {s1}
  Operators = {}
  NoRow = NoRow
  MaxCrashes = 1
SPECIFICATION Spec
CHECK_DEADLOCK FALSE
SYMMETRY Slots
INVARIANTS TypeOK NothingVanishes RepeatsBounded OutcomesBounded DeadMeansExhausted
