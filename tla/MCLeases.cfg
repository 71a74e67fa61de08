SPECIFICATION FairUsageSpec
CONSTANTS
  g1 = g1
  g2 = g2
  c1 = c1
  c2 = c2
  c3 = c3
  l1 = l1
  l2 = l2
  Keys = {g1}
  ChargeKeys = {c1, c2}
  LeaseKeys = {l1, l2}
  Amounts = {1, 2}
  Operations = {"signup"}
  Buckets = {1}
  Priority <- MCPriority
  DefaultBucket = 1
  Expiries = {}
  BucketArgs = {0}
  Floors <- StrictAndLine
  MaxCredit = 3
  MaxNow = 1
  MaxLag = 0
  Period = 1
  Allowance <- OneEach
  AllowancePriority = 2
  TTLs = {1, 2}
  MaxInFlight = 2
  PlanChanges = {}
  LedgerCalls = {"grant"}
INVARIANTS
  LeasesCanSettle
PROPERTIES
  DueHoldsReclaimed
