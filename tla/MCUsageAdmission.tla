-------------------------- MODULE MCUsageAdmission --------------------------
(* Instances of UsageAdmission for TLC. *)
EXTENDS UsageAdmission, TLC

CONSTANTS g1, g2, c1, c2, c3, l1, l2

MCPriority == [u \in Buckets |-> u]
StrictOnly == {0}
StrictAndLine == {0, -1}
OneEach == [f \in Floors |-> 1]
KeySymmetry ==
  Permutations(Keys) \cup Permutations(ChargeKeys) \cup Permutations(LeaseKeys)
=============================================================================
