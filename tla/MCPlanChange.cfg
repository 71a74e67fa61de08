SPECIFICATION PlanChangeSpec
CONSTANTS
    Callers = {c1, c2}
    Hooks = {h1}
    Keys = {k1, k2}
    Offers <- MCOffers
    Policies <- MCPolicies
    Provider = "dodo"
    MaxCalls = 2
    MaxMoves = 2
    MaxFaults = 1
    None = None
SYMMETRY Symmetry
CHECK_DEADLOCK FALSE
INVARIANTS
  OneOpenChange
  
