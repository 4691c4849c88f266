\* Two users of one company; one ledger account, two divisions, two loads of rules, two rates; one
\* document of costs in two versions, three edits around it.
SPECIFICATION MCSpec
CONSTANTS
  u1 = u1  u2 = u2
  Users = {u1, u2}
  First = u1
  Nobody = Nobody
  Tenants = {"t"}
  ClientRoles = {"client_pm"}
  GlAccount = {"a"}
  Division = {"L", "M"}
  Category = {"labor"}
  Client = {1, 2}
  Digit <- MCDigit
  Slot <- MCSlot
  CategorySlot <- MCCategorySlot
  RuleSets <- MCRuleSets
  Days = {1, 2, 3}
  StartDays = {1, 2}
  MaxRates = 2
  Unset = Unset
  CostDoc = {"d1"}
  CostLineId = {"l1", "l2"}
  CostAccount = {"cogs", "asset"}
  ExpenseTyped = {"cogs"}
  CostItem = {"i"}
  Coded = {"c1"}
  CostSite = {"j1"}
  CostSlot = {"labor", "material", "owned"}
  LABOR_SLOTS = {"labor"}
  CostPayload <- MCCostPayload
  CostPolicy <- MCCostPolicy
  MapChoice <- MCMapChoice
  AsOf = 1
  MaxSent = 2
  MaxEdits = 3
  Nothing = Nothing
CHECK_DEADLOCK FALSE
INVARIANTS AdminStays RequestsApart ConfigAgrees CostAgrees
PROPERTIES RemovalCleans DecisionsKept
