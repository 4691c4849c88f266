\* Two customers, three documents and a payment, three new versions of them.
SPECIFICATION MCSpec
CONSTANTS
  b1 = b1  b2 = b2  inv = inv  cm = cm  sr = sr  pay = pay
  Buyer = {b1, b2}
  Document = {inv, cm, sr}
  Cheque = {pay}
  Kind <- MCKind
  Payload <- MCPayload
  Months = {1, 2, 3}
  Start = 2
  Site = {s1, s2}
  MaxArrivals = 3
  Absent = Absent
  Gone = Gone
CHECK_DEADLOCK FALSE
INVARIANTS BillingFollows MonthsTie
