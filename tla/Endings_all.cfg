\* Two workers, one task, two faults of any kind; two people upload two charts
\* and an empty file, or a chart and one other file while one step fails; a person
\* follows the home page through two surprises.  Without symmetry (liveness).
SPECIFICATION MCSpec
CONSTANTS
  w1 = w1  w2 = w2  t1 = t1  f1 = f1  f2 = f2  f3 = f3  f4 = f4  f5 = f5  u1 = u1  u2 = u2
  Workers = {w1, w2}
  Tenants = {"n1"}
  TaskId = {t1}
  Keys = {"k"}
  NoTask = NoTask
  MaxAttempts = 2
  FaultKinds = {"crash", "socket", "database", "listen", "stop"}
  MaxFaults = 2
  File = {f1, f2, f3, f4, f5}
  Outcome <- MCOutcome
  Chart <- MCChart
  Account = {"a", "b"}
  Name = {"x", "y"}
  Uploader = {u1, u2}
  MaxTries = 2
  MaxFailures = 1
  None = None
  Ledger = {"a", "b"}
  Crew = {"c"}
  MaxSurprises = 2
CHECK_DEADLOCK FALSE
INVARIANTS ImportsAgree NewestChartApplied
PROPERTIES EveryTaskEnds EveryBatchEnds HomePageLeadsOn
