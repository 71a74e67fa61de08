---------------------------- MODULE MCPlanChange ----------------------------
(* PlanChange with three plans: the step up is immediate, the step down waits. *)
EXTENDS PlanChange, TLC

MCOffers == [basic |-> [plan |-> "basic", interval |-> "month", rank |-> 1],
             pro |-> [plan |-> "pro", interval |-> "month", rank |-> 2],
             team |-> [plan |-> "team", interval |-> "month", rank |-> 2]]

MCPolicies == [upgrade |-> "immediate", downgrade |-> "renewal", lateral |-> "renewal"]

Symmetry == Permutations(Callers) \cup Permutations(Keys)
=============================================================================
