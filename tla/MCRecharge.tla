----------------------------- MODULE MCRecharge -----------------------------
(* Auto-recharge on small instances; a customer has one card or two, none default. *)
EXTENDS Recharge, TLC

CONSTANTS card1, card2

Cards == {{[id |-> card1, default |-> TRUE]},
          {[id |-> card1, default |-> FALSE], [id |-> card2, default |-> FALSE]}}
OneCard == {{[id |-> card1, default |-> FALSE]}}
CallerSymmetry == Permutations(Callers)
=============================================================================
