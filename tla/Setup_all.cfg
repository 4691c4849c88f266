\* One person in two browsers and an administrator, two failures before the lock;
\* one company linked by two browsers and read by two tasks; two workers copying one record.
SPECIFICATION MCSpec
CONSTANTS
  b1 = b1  b2 = b2  r1 = r1  r2 = r2  w1 = w1  w2 = w2
  Window = {b1, b2}
  Admin = Admin
  MaxFails = 2
  RecoveryCode = {"r"}
  MaxTick = 1
  MaxEra = 2
  Caller = {1, 2}
  Threshold = 2
  Free = Free
  Tenant = {"t"}
  Realm = {"A", "B"}
  User = {"u"}
  Browser = {b1, b2}
  Reader = {r1, r2}
  MaxStates = 2
  MaxTokens = 3
  Nil = Nil
  Recs <- OneRecord
  Workers = {w1, w2}
  PageSize = 1
  CdcCap = 1
  Overlap = 1
  Lag = 1
  MaxVersion = 2
  MaxClock = 1
  MaxRuns = 2
  MaxFaults = 1
SYMMETRY MCSymmetry
CONSTRAINTS AccountBound CopyBound
CHECK_DEADLOCK FALSE
INVARIANTS AccountsHold ThrottleBounds ConnectionsAgree
PROPERTIES RawAppends
