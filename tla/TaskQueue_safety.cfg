\* Two workers, one tenant, two tasks, two attempts, two faults of any kind.
SPECIFICATION Spec
CONSTANTS
  w1 = w1  w2 = w2  t1 = t1  t2 = t2
  Workers = {w1, w2}
  Tenants = {"n1"}
  TaskId = {t1, t2}
  Keys = {"k"}
  NoTask = NoTask
  MaxAttempts = 2
  FaultKinds = {"crash", "socket", "database", "listen", "stop"}
  MaxFaults = 2
SYMMETRY Symmetry
CHECK_DEADLOCK FALSE
INVARIANTS OneOpenPerKey ExecutionsCounted NoLostWakeup
PROPERTIES LeaseDiscipline OneInFlight
