\* One worker, a full page of two records, two versions, one backfill, a crash.
SPECIFICATION MCSpec
CONSTANTS
  w1 = w1  w2 = w2
  Recs <- OneEntity
  Workers = {w1}
  PageSize = 2
  CdcCap = 3
  Overlap = 1
  Lag = 1
  MaxVersion = 2
  MaxClock = 2
  MaxRuns = 1
  MaxFaults = 1
CHECK_DEADLOCK FALSE
INVARIANT CopyHolds
PROPERTY EventuallyCopied
