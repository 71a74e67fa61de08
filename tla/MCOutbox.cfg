SPECIFICATION FairOutboxSpec
CONSTANTS
  Events = {e1}
  Required = {e1}
  Workers = {w1, w2}
  Stoppable = {w2}
  Concurrency = 2
  BatchSize = 2
  Lease = 2
  BaseDelay = 1
  MaxDelay = 1
  AttemptLimit = 2
  MaxLag = 1
  MaxFaults = 2
INVARIANTS
  ClaimsFence
PROPERTIES
  SettledIsFinal
  EventsSettle
