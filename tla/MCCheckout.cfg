SPECIFICATION FairCheckoutSpec
CONSTANTS
    Callers = {c1, c2}
    Keys = {k1}
    Sellers = {"stripe","dodo"}
    Requests <- MCRequests
    Offers <- MCOffers
    DefaultProvider = "dodo"
    MaxCalls = 2
    MaxClears = 1
    MaxFaults = 1
    None = None
CHECK_DEADLOCK FALSE
INVARIANTS
  OneSessionPerIntent
  SessionMatches
PROPERTIES
  CallsReturn
