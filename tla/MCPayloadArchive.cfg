CONSTANTS
    Events = {e1}
    Workers = {w1, w2}
    AttemptLimit = 3
    MaxFaults = 3
    None = None
SPECIFICATION FairSpec
CHECK_DEADLOCK FALSE
INVARIANTS
  EnvelopeKept
  NoLocalOriginal
PROPERTIES
  SentIsArchived
