SPECIFICATION Spec
CONSTANTS
  Process <- MCProcess
  Thread = {t1, t2}
  Email = {e1, e2}
  NoEmail = NoEmail
  MaxKeys = 2
  MaxSecrets = 3
  MaxCrashes = 1
SYMMETRY Symmetry
INVARIANTS
  TypeOK
  BillingGateCoherent
  SoleOwner
  LeadNamesOwner
  RecentLeadsBounded
PROPERTIES
  DeadSecretsStayDead
CHECK_DEADLOCK FALSE
