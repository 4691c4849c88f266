\* One write, one link, two faults out of crashes, failed runs and rollbacks.
SPECIFICATION FairSpec
CONSTANTS
  c1 = c1  c2 = c2  l1 = l1  l2 = l2
  Requests = {c1, l1}
  Links = {l1}
  MaxAttempts = 3
  MaxFaults = 2
CHECK_DEADLOCK FALSE
PROPERTY RunsSettle
