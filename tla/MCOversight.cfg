SPECIFICATION Spec
CONSTANTS
  NULL = NULL
  Actions <- MCActions
  Policies = {"v1", "v2"}
  Issuer = "issuer"
  Other = "other"
  HorizonMs = 2
  MaxTime = 3
  MaxApprovals = 1
  MaxHops = 3
  MaxRecords = 3
INVARIANTS
  TypeOK
  BoundWasApproved
  RetryOnlyExpires
  QuietWasQuiet
  ViolationWasLate
CHECK_DEADLOCK FALSE
