\* Two payments of one plan for one key, every fault, the administrator.
CONSTANTS
  p1 = p1  p2 = p2  k1 = k1  e1 = e1  basic = basic  h1 = h1  h2 = h2
  Payment = {p1, p2}
  Key = {k1}
  KeyOf <- OneKey
  Email = {e1}
  Nobody = Nobody
  Contact <- OneCustomer
  Plan = {basic}
  PlanOf <- OnePlan
  ForSale = {basic}
  Handler = {h1, h2}
  MaxVerifies = 1
  MaxRepeats = 1
  MaxChanges = 1
  MaxFaults = 1
SPECIFICATION Spec
INVARIANTS TypeOK SettledIsPaid
PROPERTIES CapturedIsPaid CapturedIsInvoiced
CHECK_DEADLOCK FALSE
