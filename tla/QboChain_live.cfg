\* Two entities of one page, slots of two ticks; two connection changes and a failure,
\* or two failures, which is every attempt of a task.
SPECIFICATION FairSpec
CONSTANTS
  e1 = e1  e2 = e2
  Entities = {e1, e2}
  Pages = 1
  SlotTicks = 2
  MaxAge = 3
  MaxClock = 3
  MaxRuns = 1
  MaxAttempts = 2
  MaxFaults = 2
  MaxChanges = 2
  MaxTrouble = 4
CHECK_DEADLOCK FALSE
INVARIANT ChainHolds
PROPERTIES FailureKeepsChain BackfillEnds
