----------------------------- MODULE MCCheckout -----------------------------
(* Checkout with a subscription and a credit pack. *)
EXTENDS Checkout

CONSTANT Sellers  \* the providers the catalog refers to

MCOffers ==
    [plan |-> [type |-> "subscription", providers |-> Sellers, default |-> 1, min |-> 1, max |-> 1],
     pack |-> [type |-> "credit_pack", providers |-> Sellers, default |-> 1, min |-> 1, max |-> 2]]

\* The pack as it comes, three of it (too many), and the plan.
MCRequests ==
    {[offer |-> "pack", provider |-> None, quantity |-> None],
     [offer |-> "pack", provider |-> None, quantity |-> 3],
     [offer |-> "plan", provider |-> "stripe", quantity |-> None]}
=============================================================================
