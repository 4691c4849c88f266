\* Two links and no fault at all.
SPECIFICATION Spec
CONSTANTS
  c1 = c1  c2 = c2  l1 = l1  l2 = l2
  Requests = {l1, l2}
  Links = {l1, l2}
  MaxAttempts = 3
  MaxFaults = 0
CHECK_DEADLOCK FALSE
INVARIANT LinkReachesLines
