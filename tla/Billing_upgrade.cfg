\* Two payments of one key whose trial ends; the customer keeps trying.
CONSTANTS
  p1 = p1  p2 = p2  k1 = k1  e1 = e1  basic = basic  h1 = h1  h2 = h2
  Payment = {p1, p2}
  Key = {k1}
  KeyOf <- OneKey
  Email = {e1}
  Nobody = Nobody
  Contact <- OneCustomer
  Plan = {basic}
  PlanOf <- OnePlan
  ForSale = {basic}
  Handler = {h1, h2}
  MaxVerifies = 0
  MaxRepeats = 0
  MaxChanges = 1
  MaxFaults = 0
SPECIFICATION UpgradeSpec
PROPERTIES OverdueCanUpgrade
CHECK_DEADLOCK FALSE
