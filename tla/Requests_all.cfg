\* Two jobs, two estimates, a customer and its sub-customer, two people; one estimate
\* in three uploads, two approval events; one invoice in two versions, two work
\* areas, two decisions; pay applications of one work area, three of them, and two
\* changes around them.
SPECIFICATION MCSpec
CONSTANTS
  c1 = c1  c2 = c2
  j1 = j1  j2 = j2  e1 = e1  e2 = e2  k1 = k1  k2 = k2
  Job = {j1, j2}
  Estimate = {e1, e2}
  Customer = {k1, k2}
  Client = {c1, c2}
  Parent <- MCParent
  NoCustomer = NoCustomer
  NoRequest = NoRequest
  Order = {1, 2}
  Sheet <- MCSheet
  CoName = {"CO: wall"}
  HeaderPrice = 5
  Person = {c1, c2}
  MaxUploads = 3
  MaxEvents = 2
  None = None
  Clerk = {c1, c2}
  Shape <- MCShape
  AreaKey <- MCAreaKey
  Original = "o"
  SplitOf <- MCSplit
  MaxVersions = 2
  MaxDecisions = 2
  Erased = Erased
  Unasked = Unasked
  Areas = {"a"}
  Prices = {2, 3}
  Amounts = {0, 4}
  Percents = {5000, 10000}
  Rates = {"r"}
  MaxNumber = 1
  MaxApps = 3
  MaxChanges = 2
  Persons = {c1, c2}
  NotListed = NotListed  NoLine = NoLine  NoRate = NoRate
  NoDoc = NoDoc  NoHold = NoHold  Unnamed = Unnamed
SYMMETRY MCSymmetry
CONSTRAINT Bound
CHECK_DEADLOCK FALSE
INVARIANTS EstimateHome CustomerLinks ApprovalsHold VersionsFollow LinesAgree OneDraft IssuedExplained
PROPERTIES BreakIsForGood EarnedGrows IssuedStays
