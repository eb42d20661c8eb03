CONSTANTS
  Events = {e1}
  DeadRows = {}
  MaxRetries = 2
  NoMessage = NoMessage
  Ticks = {t1}
  BatchLimit = 2
  MaxAborts = 1
  Workers = {w1}
  Unparseable = {}
  CacheMayFail = TRUE
  DeadSlots = {s1}
  Operators = {}
  NoRow = NoRow
  MaxCrashes = 1
SPECIFICATION FairSpec
CHECK_DEADLOCK FALSE
INVARIANT OutcomesBounded
PROPERTIES ImplementsLifecycle EventuallySettled
