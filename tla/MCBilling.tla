----------------------------- MODULE MCBilling ------------------------------
(* Webhook scenarios for TLC, each an inbox: its members may arrive in any  *)
(* order, late, and again after a failure.                                  *)
EXTENDS Billing, TLC

Dodo(type, at) == [Webhook EXCEPT !.provider = "dodo", !.type = type, !.at = at]
Stripe(name, type, at) == [Webhook EXCEPT !.name = name, !.type = type, !.at = at]

\* A Dodo subscription that falls behind and recovers with another plan.
DodoLife == {[Dodo("subscription.active", 1) EXCEPT !.sub = "d1", !.intent = TRUE],
             [Dodo("subscription.on_hold", 2) EXCEPT !.sub = "d1", !.account = FALSE],
             [Dodo("subscription.plan_changed", 3) EXCEPT !.sub = "d1"]}

\* A top-up that is refunded in two parts and disputed.
DodoTopup == {[Dodo("payment.succeeded", 1) EXCEPT !.pay = "p1", !.intent = TRUE],
              [Dodo("refund.succeeded", 2) EXCEPT !.pay = "p1", !.refund = "r1", !.account = FALSE],
              [Dodo("refund.succeeded", 3) EXCEPT !.pay = "p1", !.refund = "r2"],
              [Dodo("dispute.opened", 4) EXCEPT !.pay = "p1", !.dispute = "x1"]}

\* A Stripe subscription: checkout, first invoice, end.
StripeLife == {[Stripe("s1", "checkout.session.completed", 1) EXCEPT !.mode = "subscription",
                    !.sub = "s1", !.intent = TRUE],
               [Stripe("s2", "invoice.paid", 2) EXCEPT !.sub = "s1", !.invoice = "i1"],
               [Stripe("s3", "customer.subscription.deleted", 3) EXCEPT !.sub = "s1"]}

\* Two events say that the same payment succeeded; another payment fails.
StripeTopup == {[Stripe("t1", "checkout.session.async_payment_succeeded", 2) EXCEPT !.pay = "p1",
                    !.intent = TRUE],
                [Stripe("t2", "payment_intent.succeeded", 3) EXCEPT !.pay = "p1", !.recharge = TRUE],
                [Stripe("t3", "payment_intent.payment_failed", 4) EXCEPT !.pay = "p2",
                    !.recharge = TRUE],
                [Webhook EXCEPT !.provider = "mock", !.name = "c1", !.type = "customer.created"]}

MCPaymentOf == [r \in {"r1", "r2"} |-> "p1"]
MCAmount == [x \in {"p1", "p2", "r1", "r2"} |-> IF x \in {"r1", "r2"} THEN 1 ELSE 3]
Symmetry == Permutations(Workers)

\* The first invoice and a change of the same subscription.
Renewal == {[Stripe("s2", "invoice.paid", 2) EXCEPT !.sub = "s1", !.invoice = "i1"],
            [Stripe("s4", "customer.subscription.updated", 3) EXCEPT !.sub = "s1",
                    !.status = "active", !.cancel = TRUE]}
Refund == {[Dodo("payment.succeeded", 1) EXCEPT !.pay = "p1"],
           [Dodo("refund.succeeded", 2) EXCEPT !.pay = "p1", !.refund = "r1"]}

EndingInboxes == {Renewal, Refund}
AllInboxes == {DodoLife, DodoTopup, StripeLife, StripeTopup}
=============================================================================
