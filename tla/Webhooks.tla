------------------------------ MODULE Webhooks ------------------------------
(***************************************************************************)
(* What the provider adapters make of a verified webhook: the normalised   *)
(* billing event that BillingService.Ingest receives, or no event.  A      *)
(* webhook and an event are records over small sets of names.  A field     *)
(* that is absent is None; money and periods live in Billing's constants.  *)
(***************************************************************************)
EXTENDS Integers, Sequences

None == "none"

SubscriptionStatuses == {"trialing", "active", "past_due", "incomplete", "incomplete_expired",
                         "paused", "canceled", "unpaid", "expired"}
DisputeStatuses == {"needs_response", "under_review", "won", "lost", "closed"}
PaymentStatuses == {"pending", "requires_action", "succeeded", "failed", "canceled",
                    "partially_refunded", "refunded", "disputed"}

\* A raw webhook of which a test or a scenario overrides what it needs.
Webhook == [name |-> None, provider |-> "stripe", type |-> None, at |-> 0,
            account |-> TRUE, cust |-> TRUE, intent |-> FALSE,
            sub |-> None, status |-> None, result |-> None, cancel |-> FALSE,
            pay |-> None, invoice |-> None, refund |-> None, dispute |-> None,
            mode |-> "payment", paid |-> TRUE, recharge |-> FALSE]

\* The normalised event with none of its parts: what every mapping starts from.
BillingEvent(w) ==
    [provider |-> w.provider, id |-> <<w.name>>, type |-> None, at |-> w.at,
     account |-> w.account, cust |-> w.cust, intent |-> w.intent,
     sub |-> None, status |-> None, refs |-> FALSE, cancel |-> FALSE,
     pay |-> None, purpose |-> None, invoice |-> None, refund |-> None, dispute |-> None, result |-> None]

NoEvent(w) == BillingEvent(w)

-----------------------------------------------------------------------------
(* Dodo *)

\* dodoSubscriptionStatus: a status the vocabulary does not know is left out.
DodoStatus(s) ==
    CASE s = "pending" -> "incomplete"
      [] s \in {"trialing", "active", "paused", "expired"} -> s
      [] s \in {"on_hold", "failed"} -> "past_due"
      [] s = "cancelled" -> "canceled"
      [] OTHER -> None

DodoSubscriptionTypes == {"subscription.active", "subscription.renewed", "subscription.cancelled",
    "subscription.expired", "subscription.failed", "subscription.on_hold", "subscription.paused",
    "subscription.updated", "subscription.plan_changed"}

\* The portable type of a Dodo subscription webhook.
DodoSubscriptionType(t) ==
    CASE t = "subscription.active" -> "subscription.created"
      [] t = "subscription.renewed" -> "subscription.renewed"
      [] t = "subscription.cancelled" -> "subscription.canceled"
      [] t = "subscription.expired" -> "subscription.expired"
      [] t = "subscription.paused" -> "subscription.paused"
      [] t = "subscription.plan_changed" -> "subscription.plan_changed"
      [] OTHER -> "subscription.updated"

\* The status such a webhook implies, or states.
DodoImpliedStatus(w) ==
    CASE w.type = "subscription.active" -> IF w.status = None THEN "active" ELSE DodoStatus(w.status)
      [] w.type = "subscription.updated" -> DodoStatus(w.status)
      [] w.type \in {"subscription.renewed", "subscription.plan_changed"} -> "active"
      [] w.type = "subscription.cancelled" -> "canceled"
      [] w.type = "subscription.expired" -> "expired"
      [] w.type = "subscription.paused" -> "paused"
      [] OTHER -> "past_due"

\* dodoSubscription: the subscription part, with the product it refers to.
DodoSubscription(w) ==
    [BillingEvent(w) EXCEPT !.type = DodoSubscriptionType(w.type), !.sub = w.sub,
                            !.status = DodoImpliedStatus(w), !.cancel = w.cancel, !.refs = TRUE]

\* dodoPayment: a payment with a subscription id names it, without its product.
DodoPayment(w) ==
    LET ok == w.type = "payment.succeeded" IN
    [BillingEvent(w) EXCEPT
        !.type = IF ok THEN "payment.succeeded" ELSE "payment.failed",
        !.pay = w.pay, !.sub = w.sub,
        !.purpose = IF w.sub = None THEN "credit_topup" ELSE "subscription",
        !.status = IF ~ok \/ w.sub = None THEN None
                   ELSE IF w.status = None THEN "active" ELSE DodoStatus(w.status),
        !.result = IF ok THEN "succeeded"
                   ELSE IF w.type = "payment.cancelled" THEN "canceled" ELSE "failed"]

DodoRefund(w) ==
    LET ok == w.type = "refund.succeeded" IN
    [BillingEvent(w) EXCEPT !.type = IF ok THEN "refund.created" ELSE "refund.failed",
                            !.refund = w.refund, !.pay = w.pay,
                            !.result = IF ok THEN "succeeded" ELSE "failed"]

DodoDisputeStatus(t) ==
    CASE t = "dispute.opened" -> "needs_response"
      [] t = "dispute.challenged" -> "under_review"
      [] t = "dispute.won" -> "won"
      [] t \in {"dispute.lost", "dispute.accepted"} -> "lost"
      [] OTHER -> "closed"

DodoDisputeTypes == {"dispute.opened", "dispute.challenged", "dispute.won", "dispute.lost",
                     "dispute.accepted", "dispute.cancelled", "dispute.expired"}

DodoDispute(w) ==
    [BillingEvent(w) EXCEPT
        !.type = IF w.type \in {"dispute.opened", "dispute.challenged"}
                 THEN "dispute.created" ELSE "dispute.closed",
        !.dispute = w.dispute, !.pay = w.pay, !.result = DodoDisputeStatus(w.type)]

\* dodoEventResourceID: what the webhook is about.
DodoResource(w) == IF w.refund # None THEN w.refund
                   ELSE IF w.dispute # None THEN w.dispute
                   ELSE IF w.pay # None THEN w.pay ELSE w.sub

\* dodoCanonicalEventID: type, resource and instant, not the delivery's id.
DodoEventID(w) == <<w.type, DodoResource(w), w.at>>

\* mapDodoEvent.
MapDodoEvent(w) ==
    LET e == CASE w.type \in DodoSubscriptionTypes -> DodoSubscription(w)
               [] w.type \in {"payment.succeeded", "payment.failed", "payment.cancelled"} -> DodoPayment(w)
               [] w.type \in {"refund.succeeded", "refund.failed"} -> DodoRefund(w)
               [] w.type \in DodoDisputeTypes -> DodoDispute(w)
               [] OTHER -> NoEvent(w)
    IN  [e EXCEPT !.id = DodoEventID(w)]

-----------------------------------------------------------------------------
(* Stripe.  "live" is the subscription as the API returns it at mapping time. *)

\* stripeSubscriptionInfo: the subscription part; its price says which offer.
StripeSubscriptionInfo(e, s, status, cancel) ==
    [e EXCEPT !.sub = s, !.status = status, !.cancel = cancel, !.refs = TRUE]

\* stripeCheckoutPayment: the payment of a completed or failed session.
StripeCheckoutPayment(w, result) ==
    [BillingEvent(w) EXCEPT !.pay = w.pay, !.result = result,
                            !.purpose = IF w.mode = "subscription" THEN "subscription"
                                        ELSE "credit_topup"]

\* A session that failed later: its subscription, if any, is read from the API.
StripeCheckoutFailed(w, live) ==
    LET e == [StripeCheckoutPayment(w, "failed") EXCEPT !.type = "payment.failed"]
    IN  IF w.sub = None THEN e
        ELSE StripeSubscriptionInfo(e, w.sub, live.status, live.cancel)

\* A session that was paid: a subscription to create, or a one-time payment.
StripeCheckoutPaid(w, live) ==
    IF w.mode = "subscription" /\ w.sub # None
    THEN StripeSubscriptionInfo([BillingEvent(w) EXCEPT !.type = "checkout.completed"],
                                w.sub, live.status, live.cancel)
    ELSE [StripeCheckoutPayment(w, "succeeded") EXCEPT !.type = "payment.succeeded"]

\* The three outcomes of a checkout session; an unpaid one is not an event yet.
StripeCheckout(w, live) ==
    CASE w.type = "checkout.session.expired" ->
           [BillingEvent(w) EXCEPT !.type = "checkout.expired"]
      [] w.type = "checkout.session.async_payment_failed" -> StripeCheckoutFailed(w, live)
      [] w.type = "checkout.session.completed" /\ ~w.paid -> NoEvent(w)
      [] OTHER -> StripeCheckoutPaid(w, live)

\* The portable type of a customer.subscription webhook.
StripeSubscriptionType(w) ==
    CASE w.type = "customer.subscription.created" -> "subscription.created"
      [] w.type = "customer.subscription.paused" -> "subscription.paused"
      [] w.type = "customer.subscription.resumed" -> "subscription.resumed"
      [] w.type = "customer.subscription.trial_will_end" -> "subscription.trial_will_end"
      [] w.type = "customer.subscription.deleted" -> "subscription.canceled"
      [] w.status = "canceled" -> "subscription.canceled"
      [] w.cancel -> "subscription.cancellation_scheduled"
      [] OTHER -> "subscription.updated"

StripeSubscription(w) ==
    StripeSubscriptionInfo([BillingEvent(w) EXCEPT !.type = StripeSubscriptionType(w)], w.sub,
        IF w.type = "customer.subscription.deleted" THEN "canceled" ELSE w.status, w.cancel)

\* Payment intents count only when an auto-recharge attempt created them.
StripePaymentIntent(w) ==
    IF ~w.recharge THEN NoEvent(w)
    ELSE [BillingEvent(w) EXCEPT
            !.cust = FALSE, !.pay = w.pay, !.purpose = "credit_topup",
            !.type = IF w.type = "payment_intent.succeeded" THEN "payment.succeeded"
                     ELSE "payment.failed",
            !.result = CASE w.type = "payment_intent.succeeded" -> "succeeded"
                         [] w.type = "payment_intent.canceled" -> "canceled"
                         [] OTHER -> "failed"]

StripeDispute(w) ==
    [BillingEvent(w) EXCEPT !.cust = FALSE, !.dispute = w.dispute, !.pay = w.pay,
        !.result = w.status,
        !.type = IF w.type = "charge.dispute.closed" THEN "dispute.closed" ELSE "dispute.created"]

\* Invoices carry the subscription the API returns now, not the one they were made for.
StripeInvoice(w, live) ==
    IF w.sub = None THEN NoEvent(w)
    ELSE StripeSubscriptionInfo(
           IF w.type = "invoice.paid"
           THEN [BillingEvent(w) EXCEPT !.type = "invoice.paid", !.invoice = w.invoice]
           ELSE [BillingEvent(w) EXCEPT !.type = "payment.failed", !.pay = w.pay,
                     !.purpose = "subscription", !.result = "failed"],
           w.sub, live.status, live.cancel)

\* A refund whose status has no counterpart is pending.
StripeRefund(w) ==
    [BillingEvent(w) EXCEPT !.cust = FALSE, !.refund = w.refund, !.pay = w.pay,
        !.type = w.type,
        !.result = IF w.type = "refund.failed" THEN "failed"
                   ELSE IF w.status \in {"succeeded", "failed", "canceled"} THEN w.status
                   ELSE "pending"]

StripeCheckoutTypes == {"checkout.session.completed", "checkout.session.async_payment_succeeded",
                        "checkout.session.async_payment_failed", "checkout.session.expired"}
StripeSubscriptionTypes == {"customer.subscription.created", "customer.subscription.paused",
    "customer.subscription.resumed", "customer.subscription.trial_will_end",
    "customer.subscription.updated", "customer.subscription.deleted"}

\* mapStripeEvent.
MapStripeEvent(w, live) ==
    CASE w.type \in StripeCheckoutTypes -> StripeCheckout(w, live)
      [] w.type \in StripeSubscriptionTypes -> StripeSubscription(w)
      [] w.type \in {"payment_intent.succeeded", "payment_intent.payment_failed",
                     "payment_intent.canceled"} -> StripePaymentIntent(w)
      [] w.type \in {"charge.dispute.created", "charge.dispute.updated",
                     "charge.dispute.closed"} -> StripeDispute(w)
      [] w.type \in {"invoice.paid", "invoice.payment_failed"} -> StripeInvoice(w, live)
      [] w.type \in {"refund.created", "refund.updated", "refund.failed"} -> StripeRefund(w)
      [] OTHER -> NoEvent(w)

-----------------------------------------------------------------------------
(* The mock provider, and an application that calls Ingest itself *)

\* QueueEvent: the event is handed over as it is.
MockEvent(w) ==
    [BillingEvent(w) EXCEPT !.type = w.type, !.sub = w.sub, !.status = w.status,
        !.refs = w.sub # None, !.cancel = w.cancel, !.pay = w.pay, !.invoice = w.invoice,
        !.refund = w.refund, !.dispute = w.dispute, !.result = w.result,
        !.purpose = IF w.pay = None THEN None
                    ELSE IF w.sub = None THEN "credit_topup" ELSE "subscription"]

-----------------------------------------------------------------------------
(* All providers *)

CustomerTypes == {"customer.created", "customer.updated", "customer.deleted"}
InvoiceTypes == {"invoice.created", "invoice.updated", "invoice.finalized", "invoice.paid",
    "invoice.payment_failed", "invoice.voided", "invoice.upcoming"}
MethodTypes == {"payment_method.attached", "payment_method.updated", "payment_method.detached"}
SubscriptionTypes == {"subscription.created", "subscription.updated", "subscription.activated",
    "subscription.renewed", "subscription.plan_changed", "subscription.cancellation_scheduled",
    "subscription.cancellation_unscheduled", "subscription.canceled", "subscription.expired",
    "subscription.paused", "subscription.resumed", "subscription.trial_will_end"}
PaymentTypes == {"payment.succeeded", "payment.failed"}
RefundTypes == {"refund.created", "refund.updated", "refund.failed"}
DisputeTypes == {"dispute.created", "dispute.updated", "dispute.closed"}

IsBillingLifecycleEventType(t) ==
    t \in UNION {CustomerTypes, InvoiceTypes, MethodTypes, SubscriptionTypes, PaymentTypes,
                 RefundTypes, DisputeTypes, {"checkout.completed", "checkout.expired"}}

\* Validate: the part a type is about is there, and its status is in the vocabulary.
Validate(e) ==
    /\ IsBillingLifecycleEventType(e.type)
    /\ e.type \in CustomerTypes => e.cust
    /\ e.type \in SubscriptionTypes => e.sub # None
    /\ e.type \in InvoiceTypes => e.invoice # None
    /\ e.sub # None => e.status \in SubscriptionStatuses \cup {None}
    /\ e.type \in PaymentTypes =>
          e.pay # None /\ e.purpose \in {"subscription", "credit_topup"} /\ e.result \in PaymentStatuses
    /\ e.type \in RefundTypes => e.refund # None /\ e.pay # None /\ e.result \in PaymentStatuses
    /\ e.type \in DisputeTypes => e.dispute # None /\ e.pay # None /\ e.result \in DisputeStatuses

\* The adapter's HandleWebhook.
MapEvent(w, live) ==
    CASE w.provider = "dodo" -> MapDodoEvent(w)
      [] w.provider = "stripe" -> MapStripeEvent(w, live)
      [] OTHER -> MockEvent(w)

=============================================================================
