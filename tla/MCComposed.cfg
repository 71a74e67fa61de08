SPECIFICATION UsageSpec
CONSTANTS
  g1 = g1
  g2 = g2
  c1 = c1
  c2 = c2
  c3 = c3
  l1 = l1
  l2 = l2
  Keys = {g1, g2}
  ChargeKeys = {c1, c2}
  LeaseKeys = {l1}
  Amounts = {1, 2}
  Operations = {"signup"}
  Buckets = {1}
  Priority <- MCPriority
  DefaultBucket = 1
  Expiries = {1}
  BucketArgs = {0}
  Floors <- StrictAndLine
  MaxCredit = 3
  MaxNow = 1
  MaxLag = 1
  Period = 2
  Allowance <- OneEach
  AllowancePriority = 2
  TTLs = {1}
  MaxInFlight = 1
  PlanChanges <- StrictAndLine
  LedgerCalls = {"grant", "adjustment", "refund", "clawback", "sweep"}
SYMMETRY KeySymmetry
INVARIANTS
  WindowsReconcile
  ChargesReconcile
PROPERTIES
  ChargesRespectHolds
