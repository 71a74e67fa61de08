SPECIFICATION FairSpec
CONSTANTS
  k1 = k1
  k2 = k2
  k3 = k3
  k4 = k4
  Keys = {k1, k2, k3}
  Amounts = {1, 2}
  Operations = {"signup"}
  Buckets = {1, 2}
  Priority <- MCPriority
  DefaultBucket = 1
  Expiries = {1}
  BucketArgs = {0, 2}
  Floors <- MCFloors
  MaxCredit = 3
  MaxNow = 1
  MaxLag = 0
INVARIANTS
  LedgerChain
  BalanceIsLotsLessDebt
  KeysPostOnce
  LotsExplained
PROPERTIES
  ExpiredStaysGone
  DueLotsExpire
