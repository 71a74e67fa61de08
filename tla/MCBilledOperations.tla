------------------------ MODULE MCBilledOperations ------------------------
(* Instances of BilledOperations. *)
EXTENDS BilledOperations, TLC

CONSTANTS b1, b2, i1, i2, n1, n2, j1

\* Both branches run in the invocation i1; any other has only a runner.
MCInvocationOf == [b \in Branches |-> i1]

\* The branches of an invocation are alike.  The operation keys are not
\* exchanged: BeforeModel draws them in a fixed order.
BranchSymmetry == Permutations(Branches)

=============================================================================
