SPECIFICATION RechargeSpec
CONSTANTS
  card1 = card1
  card2 = card2
  Callers = {c1, c2}
  MaxCalls = 3
  Threshold = 1
  RearmAbove = 2
  Credits = 1
  MaxPurchases = 1
  WindowLength = 2
  Anchor = 1
  Cooldown = 1
  MaxFailures = 2
  Provider = "dodo"
  MethodSets <- Cards
  Rolling = FALSE
  MaxBalance = 2
  MaxTime = 1
  MaxCrashes = 1
INVARIANTS
  AttemptsExclusive
  OneUngrantedPayment
  PurchasesBounded
  
SYMMETRY CallerSymmetry
CHECK_DEADLOCK FALSE
