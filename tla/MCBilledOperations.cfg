SPECIFICATION BilledSpec
CONSTANTS
    None = None
    b1 = b1
    b2 = b2
    i1 = i1
    i2 = i2
    n1 = n1
    n2 = n2
    j1 = j1
    Nonces = {n1, n2}
    Jobs = {j1}
    Branches = {b1, b2}
    Invocations = {i1}
    InvocationOf <- MCInvocationOf
    Failures = {"deadline", "transport"}
    MaxAttempts = 2
    MaxFaults = 2
    MaxJobCalls = 2
SYMMETRY BranchSymmetry
CHECK_DEADLOCK FALSE
INVARIANTS
  ChargesFollowWork
  SessionKeepsWork
