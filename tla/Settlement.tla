---------------------------- MODULE Settlement ------------------------------
(***************************************************************************)
(* What billing promises the ledger, whatever order webhooks arrive in: a  *)
(* top-up payment is credited at most once, a renewal event grants its     *)
(* cycle at most once, and a refund takes back at most once, after its     *)
(* payment was credited, never more in total than was credited.            *)
(***************************************************************************)
EXTENDS Integers, FiniteSetsExt

CONSTANTS Payments, Renewals, Refunds, PaymentOf, Credits

VARIABLES credited,  \* credit postings of each payment
          granted,   \* cycle postings of each renewal
          reversed   \* credits each refund took back

Init ==
    /\ credited = [p \in Payments |-> 0]
    /\ granted = [e \in Renewals |-> 0]
    /\ reversed = [r \in Refunds |-> 0]

CreditPayment(p) ==
    /\ credited[p] = 0
    /\ credited' = [credited EXCEPT ![p] = 1]
    /\ UNCHANGED <<granted, reversed>>

GrantCycle(e) ==
    /\ granted[e] = 0
    /\ granted' = [granted EXCEPT ![e] = 1]
    /\ UNCHANGED <<credited, reversed>>

TakenBack(p) == MapThenSumSet(LAMBDA r : reversed[r], {r \in Refunds : PaymentOf[r] = p})

ReverseRefund(r) ==
    /\ credited[PaymentOf[r]] = 1 /\ reversed[r] = 0
    /\ \E c \in 1..(Credits[PaymentOf[r]] - TakenBack(PaymentOf[r])) :
          reversed' = [reversed EXCEPT ![r] = c]
    /\ UNCHANGED <<credited, granted>>

Next == \/ \E p \in Payments : CreditPayment(p)
        \/ \E e \in Renewals : GrantCycle(e)
        \/ \E r \in Refunds : ReverseRefund(r)

Spec == Init /\ [][Next]_<<credited, granted, reversed>>

=============================================================================
