CONSTANTS
    Charges = {"u1", "u2"}
    Invalid = {"u2"}
    Apps = {"main", "other"}
    Ops <- MCOps
    Writers = {b1, b2}
    AttemptLimit = 2
    MaxFaults = 1
    MaxCalls <- MCMaxCalls
    None = None
SPECIFICATION FairSpec
CHECK_DEADLOCK FALSE
INVARIANTS
  DeliveredIsExported
  EndsCleanly
PROPERTIES
  CallsReturn
