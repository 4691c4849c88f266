\* The company is disconnected while a page waits.
SPECIFICATION Spec
CONSTANTS
  e1 = e1  e2 = e2
  Entities = {e1}
  Pages = 1
  SlotTicks = 2
  MaxAge = 3
  MaxClock = 2
  MaxRuns = 1
  MaxAttempts = 2
  MaxFaults = 0
  MaxChanges = 2
  MaxTrouble = 4
CHECK_DEADLOCK FALSE
INVARIANT OpenRunHasPage
