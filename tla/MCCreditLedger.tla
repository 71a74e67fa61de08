--------------------------- MODULE MCCreditLedger ---------------------------
(* Instances of CreditLedger for TLC. *)
EXTENDS CreditLedger, TLC

CONSTANTS k1, k2, k3, k4

MCPriority == [u \in Buckets |-> u]
MCFloors == {0, -1}
KeySymmetry == Permutations(Keys)
=============================================================================
