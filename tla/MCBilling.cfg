CONSTANTS
  Workers = {w1, w2}
  Inboxes <- AllInboxes
  Subs = {"d1", "s1"}
  Pays = {"p1", "p2"}
  Refunds = {"r1", "r2"}
  Documents = {"p1", "p2", "i1", "x1"}
  Offered = {"d1", "s1", "p1"}
  PaymentOf <- MCPaymentOf
  Amount <- MCAmount
  UnitAmount = 3
  MinAmount = 3
  MaxAmount = 9
  CreditsPerUnit = 4
  AutoSelect = TRUE
  AttemptLimit = 2
  MaxFaults = 1
SYMMETRY Symmetry
SPECIFICATION BillingSpec
INVARIANTS EntitlementConverges AccessEnds
 
CHECK_DEADLOCK FALSE
