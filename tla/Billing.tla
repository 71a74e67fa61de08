------------------------------ MODULE Billing -------------------------------
(***************************************************************************)
(* The billing events of one account: BillingService.Ingest with the       *)
(* lifecycle processor of the PostgreSQL store.  Workers receive webhooks  *)
(* late, twice and out of order, claim the event, and apply it in a        *)
(* sequence of transactions.  work[w].todo is what a worker still has to   *)
(* do for its event; every element of it is one transaction.               *)
(***************************************************************************)
EXTENDS Webhooks, FiniteSets, FiniteSetsExt

CONSTANTS Workers,        \* processes that handle webhooks
          Inboxes,        \* sets of webhooks a provider may send
          Subs, Pays, Refunds, Documents,
          Offered,        \* subscriptions and payments whose reference the catalog resolves
          PaymentOf,      \* the payment a refund returns
          Amount,         \* what a payment or a refund amounts to
          UnitAmount,     \* price of one unit of the top-up
          MinAmount,
          MaxAmount,      \* limits of the top-up
          CreditsPerUnit, \* in the ledger's smallest unit
          AutoSelect,     \* automatic entitlement selection
          AttemptLimit,   \* claims of one event
          MaxFaults       \* bound on crashes, lapsed claims, failed calls and provider changes

ASSUME BillingConstants ==
    /\ UnitAmount \in Nat \ {0} /\ MinAmount \in Nat /\ MaxAmount \in Nat
    /\ CreditsPerUnit \in Nat \ {0} /\ AttemptLimit \in Nat \ {0} /\ MaxFaults \in Nat
    /\ AutoSelect \in BOOLEAN
    /\ \A r \in Refunds : PaymentOf[r] \in Pays
    /\ \A x \in Pays \cup Refunds : Amount[x] \in Nat \ {0}

\* A provider's refund names the payment it returns; "terminal" is the plan source that
\* revoking leaves behind, never a subscription's id.
ASSUME ProviderConstants ==
    /\ IsFiniteSet(Refunds) /\ None \notin Refunds
    /\ "terminal" \notin Subs
    /\ \A h \in UNION Inboxes : h.at \in Nat /\ (h.refund # None => h.pay = PaymentOf[h.refund])

VARIABLES inbox,     \* what the provider sends in this behaviour
          live,      \* each subscription as the provider's API shows it
          rows,      \* billing_events
          subs,      \* billing_subscriptions
          plan,      \* source of the account's plan
          customer,  \* providers for which billing_customers has the account
          payments,  \* billing_payments
          refunds,   \* billing_refunds
          documents, \* billing_invoices and billing_disputes
          topups,    \* billing_credit_grants by payment
          cycles,    \* billing_credit_grants by event
          allocs,    \* billing_refund_grants by refund: credits, 0 when there is no row
          credited, granted, reversed,  \* what was posted to the ledger
          conflicts, \* billing_subscription_conflicts
          intent,    \* the checkout intent the metadata names
          change,    \* the open change of a subscription's offer
          lapsed,    \* grace periods that are over, by their start
          work, faults

ledger == <<credited, granted, reversed>>
grants == <<topups, cycles, allocs, ledger>>
records == <<payments, refunds, documents>>
contract == <<subs, plan, customer, conflicts, change>>
outside == <<inbox, live, lapsed, faults>>
vars == <<outside, rows, contract, records, grants, intent, work>>

Live(s) == IF s = None THEN [status |-> None, cancel |-> FALSE] ELSE live[s]
EventOf(h) == MapEvent(h, Live(h.sub))
EventIds == {IF h.provider = "dodo" THEN DodoEventID(h) ELSE <<h.name>> : h \in UNION Inboxes}

Current == {"active", "trialing", "past_due", "incomplete"}
Entitled == {"active", "trialing"}
Ended == {"incomplete_expired", "paused", "canceled", "unpaid", "expired"}

NoRow == [provider |-> None, status |-> None, at |-> 0, by |-> <<None>>, cancel |-> FALSE,
          grace |-> 0, expired |-> FALSE, entAt |-> 0, entBy |-> <<None>>, outcome |-> None]
Idle == [todo |-> <<>>, ev |-> BillingEvent(Webhook), token |-> 0, account |-> FALSE, seen |-> NoRow]

Doing(w, step) == work[w].todo # <<>> /\ Head(work[w].todo) = step
Then(w, todo) == work' = [work EXCEPT ![w].todo = todo]
Continue(w) == Then(w, Tail(work[w].todo))
Fails(w) == Then(w, <<"fail">>)       \* the processor returns an error
Handled(w) == Then(w, <<"complete">>) \* the processor returns before its end

-----------------------------------------------------------------------------
(* Claim *)

\* claim_billing_event: the digest covers the whole normalised event.
ClaimResult(e) ==
    LET r == rows[e.id] IN
    CASE r.status = None -> "claimed"
      [] r.digest # e -> "idempotency_conflict"
      [] r.status = "completed" -> "duplicate"
      [] r.attempts >= AttemptLimit -> "max_retries_exceeded"
      [] r.status = "processing" /\ r.live -> "busy"
      [] OTHER -> "claimed"

\* ClaimBillingEvent.
ClaimRow(e) == [status |-> "processing", live |-> TRUE, digest |-> e,
                attempts |-> rows[e.id].attempts + 1]

\* HandleWebhook and Ingest up to the claim; every other answer changes nothing.
Receive(w, h) ==
    /\ work[w].todo = <<>>
    /\ LET e == EventOf(h) IN
       /\ Validate(e)
       /\ ClaimResult(e) = "claimed"
       /\ rows' = [rows EXCEPT ![e.id] = ClaimRow(e)]
       /\ work' = [work EXCEPT ![w] = [Idle EXCEPT !.ev = e, !.token = ClaimRow(e).attempts,
                                                   !.todo = <<"resolve">>]]
    /\ UNCHANGED <<outside, contract, records, grants, intent>>

\* The worker's claim is the row's, and its lease has not lapsed.
Owns(w) == LET r == rows[work[w].ev.id]
           IN  r.status = "processing" /\ r.attempts = work[w].token /\ r.live

EndClaim(w, status) ==
    /\ rows' = IF Owns(w) THEN [rows EXCEPT ![work[w].ev.id].status = status] ELSE rows
    /\ work' = [work EXCEPT ![w] = Idle]
    /\ UNCHANGED <<outside, contract, records, grants, intent>>

CompleteBillingEvent(w) == Doing(w, "complete") /\ EndClaim(w, "completed")
FailBillingEvent(w) == Doing(w, "fail") /\ EndClaim(w, "failed")

-----------------------------------------------------------------------------
(* Dispatch *)

\* resolveAccount: the metadata, then rows that earlier events left.
ResolveAccount(e) ==
    \/ e.account
    \/ e.cust /\ e.provider \in customer
    \/ e.sub # None /\ subs[e.sub].status # None
    \/ e.pay # None /\ payments[e.pay].status # None

\* What process calls applySubscription with.
Action(e) ==
    CASE e.type \in {"checkout.completed", "subscription.created"} -> "subscription_created"
      [] e.type \in {"subscription.renewed", "invoice.paid", "payment.succeeded"} ->
           "subscription_renewed"
      [] e.type = "subscription.plan_changed" -> "subscription_plan_changed"
      [] e.type = "subscription.cancellation_scheduled" -> "cancellation_scheduled"
      [] e.type = "subscription.cancellation_unscheduled" -> "cancellation_unscheduled"
      [] OTHER -> "subscription_updated"

\* The status and the cancellation flag process writes over the event's own.
Forced(e) ==
    CASE e.type \in {"subscription.activated", "subscription.renewed", "invoice.paid",
                     "payment.succeeded"} -> [e EXCEPT !.status = "active"]
      [] e.type = "subscription.resumed" -> [e EXCEPT !.status = "active", !.cancel = FALSE]
      [] e.type = "subscription.canceled" -> [e EXCEPT !.status = "canceled", !.cancel = TRUE]
      [] e.type = "subscription.expired" -> [e EXCEPT !.status = "expired"]
      [] e.type = "subscription.paused" -> [e EXCEPT !.status = "paused"]
      [] e.type = "payment.failed" -> [e EXCEPT !.status = "past_due"]
      [] e.type = "subscription.cancellation_scheduled" -> [e EXCEPT !.cancel = TRUE]
      [] e.type = "subscription.cancellation_unscheduled" -> [e EXCEPT !.cancel = FALSE]
      [] OTHER -> e

Steps(cond, todo) == IF cond THEN todo ELSE <<>>

\* offerForEvent: the offer of the reference, whose cycle grant is paid on renewal.
OfferOf(e) == e.refs /\ e.sub \in Offered

\* The transactions of applySubscription, in order.
ApplySubscription(e) ==
    Steps(e.cust, <<"customer">>) \o <<"read">>
      \o Steps(Action(e) = "subscription_created", <<"check">>)
      \o <<"upsert", "reconcile">>
      \o Steps(Action(e) = "subscription_plan_changed", <<"change">>)
      \o <<"grace", "activated">>
      \o Steps(Action(e) = "subscription_renewed" /\ OfferOf(e), <<"cycle", "post_cycle">>)

\* paymentSucceeded.
PaymentSucceeded(e) ==
    Steps(e.purpose = "subscription" /\ e.sub # None, ApplySubscription(e))
      \o <<"payment">>
      \o Steps(e.purpose = "credit_topup", <<"topup", "post_topup">>)
      \o Steps(e.purpose = "subscription" /\ e.sub # None, <<"invoice">>)
      \o <<"completed">>

\* paymentFailed: an account that is not known leaves only the intent to close.
PaymentFailed(e, account) ==
    Steps(account /\ e.sub # None, ApplySubscription(e))
      \o Steps(account, <<"payment">>) \o <<"failed">>

\* The switch of process: what a worker has to do for its event.
Process(e, account) ==
    CASE e.type = "payment.failed" -> PaymentFailed(e, account) \o <<"complete">>
      [] e.type \in {"customer.created", "customer.updated"} ->
           Steps(account, <<"customer">>) \o <<"complete">>
      [] e.type = "checkout.expired" -> <<"expired", "complete">>
      [] e.type = "checkout.completed" /\ e.sub = None ->
           Steps(e.cust /\ account, <<"customer">>) \o <<"completed", "complete">>
      [] e.type \in DisputeTypes -> <<"dispute", "complete">>
      [] e.type \in MethodTypes \cup {"customer.deleted", "subscription.trial_will_end",
                                      "invoice.upcoming"} -> <<"complete">>
      [] e.type \in InvoiceTypes \ {"invoice.paid"} ->
           Steps(account, <<"invoice">>) \o <<"complete">>
      [] e.type = "invoice.paid" /\ e.sub = None -> <<"invoice", "complete">>
      [] ~account -> <<"fail">>
      [] e.type = "invoice.paid" -> ApplySubscription(e) \o <<"invoice", "complete">>
      [] e.type = "payment.succeeded" -> PaymentSucceeded(e) \o <<"complete">>
      [] e.type \in RefundTypes -> <<"refund", "complete">>
      [] OTHER -> ApplySubscription(e) \o <<"complete">>

\* ResolveBillingEventAccount and the dispatch of process.
Resolve(w) ==
    /\ Doing(w, "resolve")
    /\ LET e == work[w].ev
           account == ResolveAccount(e)
       IN  work' = [work EXCEPT ![w].ev = Forced(e), ![w].account = account,
                                ![w].todo = Process(e, account)]
    /\ UNCHANGED <<outside, rows, contract, records, grants, intent>>

\* UpsertBillingCustomer.
UpsertCustomer(w) ==
    /\ Doing(w, "customer")
    /\ customer' = customer \cup {work[w].ev.provider}
    /\ Continue(w)
    /\ UNCHANGED <<outside, rows, subs, plan, conflicts, change, records, grants, intent>>

-----------------------------------------------------------------------------
(* Subscription *)

\* GetBillingSubscriptionByProvider; without an offer and without a row the event fails.
ReadSubscription(w) ==
    /\ Doing(w, "read")
    /\ LET s == work[w].ev.sub IN
       IF ~OfferOf(work[w].ev) /\ subs[s].status = None THEN Fails(w)
       ELSE work' = [work EXCEPT ![w].seen = subs[s], ![w].todo = Tail(@)]
    /\ UNCHANGED <<outside, rows, contract, records, grants, intent>>

\* Another current subscription of the same provider.
Others(e) == {o \in Subs \ {e.sub} : subs[o].provider = e.provider /\ subs[o].status \in Current}

\* ListBillingSubscriptions and RecordSubscriptionConflict.
CheckConflict(w) ==
    /\ Doing(w, "check")
    /\ LET e == work[w].ev IN
       IF Others(e) = {} THEN Continue(w) /\ UNCHANGED conflicts
       ELSE conflicts' = conflicts \cup {e.sub} /\ Fails(w)
    /\ UNCHANGED <<outside, rows, subs, plan, customer, change, records, grants, intent>>

\* The row applySubscription asks for, from the event and from what it read.
Wanted(w) ==
    LET e == work[w].ev
        seen == work[w].seen
        status == IF e.status # None THEN e.status
                  ELSE IF seen.status # None THEN seen.status ELSE "incomplete"
    IN  [NoRow EXCEPT !.provider = e.provider, !.status = status, !.at = e.at, !.by = e.id,
            !.grace = IF status # "past_due" THEN 0 ELSE IF seen.grace # 0 THEN seen.grace ELSE e.at,
            !.cancel = IF /\ seen.status # None /\ ~e.cancel
                          /\ Action(e) \notin {"cancellation_scheduled", "cancellation_unscheduled"}
                       THEN seen.cancel ELSE e.cancel]

Content(r) == <<r.status, r.cancel, r.grace>>

NewerAny(e, r) == TRUE   \* Wrong on purpose: the last delivery wins.

\* upsert_billing_subscription: only a later provider timestamp overwrites.
Newer(e, r) == e.at > r.at

\* The row kept by upsert_billing_subscription after an insert or a later event.
Merged(new, old) ==
    [new EXCEPT !.expired = old.expired /\ new.status = "past_due" /\ new.grace = old.grace,
                !.entAt = old.entAt, !.entBy = old.entBy, !.outcome = old.outcome]

\* UpsertBillingSubscriptionState; fields the model leaves out may differ as well.
UpsertSubscription(w) ==
    /\ Doing(w, "upsert")
    /\ LET e == work[w].ev
           old == subs[e.sub]
           new == Wanted(w)
       IN  \/ /\ Newer(e, old)
              /\ subs' = [subs EXCEPT ![e.sub] = Merged(new, old)]
              /\ Continue(w) /\ UNCHANGED conflicts
           \/ /\ ~Newer(e, old)
              /\ e.at = old.at => Content(new) = Content(old)
              /\ Continue(w) /\ UNCHANGED <<subs, conflicts>>
           \/ /\ ~Newer(e, old) /\ e.at = old.at
              /\ Content(new) # Content(old) \/ e.id # old.by
              /\ conflicts' = IF Action(e) = "subscription_created" /\ Others(e) # {}
                              THEN conflicts \cup {e.sub} ELSE conflicts
              /\ Fails(w) /\ UNCHANGED subs
    /\ UNCHANGED <<outside, rows, plan, customer, change, records, grants, intent>>

StaleNever(w) == FALSE   \* Wrong on purpose: the effect of an overtaken version is applied.

\* reconcile_subscription_entitlement: this version was overtaken, or settled by another event.
Stale(w) ==
    LET e == work[w].ev
        r == subs[e.sub]
    IN  \/ r.status # Wanted(w).status \/ r.at # e.at
        \/ r.entAt = e.at /\ r.entBy # e.id
        \/ r.entAt > e.at

\* The outcome a version asks for.
Outcome(s, status) ==
    CASE ~AutoSelect -> "preserved"
      [] status \in Entitled -> "applied"
      [] status \in Ended /\ plan = s -> "revoked"
      [] OTHER -> "preserved"

\* validateSubscriptionEntitlementOutcome.
ValidOutcome(status, outcome) ==
    CASE status \in Entitled -> outcome = IF AutoSelect THEN "applied" ELSE "preserved"
      [] status \in Ended -> outcome \in {"revoked", "preserved"}
      [] OTHER -> outcome = "preserved"

\* reconcileSubscriptionEntitlement; a retry of the same event gets the stored outcome.
Reconcile(w) ==
    /\ Doing(w, "reconcile")
    /\ LET e == work[w].ev
           s == e.sub
           status == Wanted(w).status
           outcome == Outcome(s, status)
       IN  \/ /\ Stale(w)
              /\ Handled(w) /\ UNCHANGED <<subs, plan>>
           \/ /\ ~Stale(w) /\ subs[s].entAt = e.at
              /\ IF ValidOutcome(status, subs[s].outcome) THEN Continue(w) ELSE Fails(w)
              /\ UNCHANGED <<subs, plan>>
           \/ /\ ~Stale(w) /\ subs[s].entAt # e.at
              /\ subs' = [subs EXCEPT ![s].entAt = e.at, ![s].entBy = e.id, ![s].outcome = outcome]
              /\ plan' = CASE outcome = "applied" -> s
                           [] outcome = "revoked" -> "terminal"
                           [] OTHER -> plan
              /\ IF ValidOutcome(status, outcome) THEN Continue(w) ELSE Fails(w)
    /\ UNCHANGED <<outside, rows, customer, conflicts, change, records, grants, intent>>

\* applyOpenBillingSubscriptionChange.
ApplyChange(w) ==
    /\ Doing(w, "change")
    /\ change' = IF change = "open" THEN "applied" ELSE change
    /\ Continue(w)
    /\ UNCHANGED <<outside, rows, subs, plan, customer, conflicts, records, grants, intent>>

\* expire_subscription_grace_period, for the deadline the caller saw.
ExpirePastDue(s, grace) ==
    IF subs[s].status = "past_due" /\ subs[s].grace = grace /\ grace \in lapsed /\ ~subs[s].expired
    THEN /\ subs' = [subs EXCEPT ![s].expired = TRUE]
         /\ plan' = IF plan = s THEN "terminal" ELSE plan
    ELSE UNCHANGED <<subs, plan>>

\* The end of a grace period that the event itself meets.
GraceOfEvent(w) ==
    /\ Doing(w, "grace")
    /\ LET new == Wanted(w) IN
       IF AutoSelect /\ new.status = "past_due" /\ (work[w].seen.expired \/ new.grace \in lapsed)
       THEN ExpirePastDue(work[w].ev.sub, new.grace)
       ELSE UNCHANGED <<subs, plan>>
    /\ Continue(w)
    /\ UNCHANGED <<outside, rows, customer, conflicts, change, records, grants, intent>>

\* ExpirePastDueGracePeriods, and expireGraceIfNeeded on a read.
SweepGrace(s) ==
    /\ AutoSelect
    /\ subs[s].status = "past_due" /\ subs[s].grace \in lapsed /\ ~subs[s].expired
    /\ ExpirePastDue(s, subs[s].grace)
    /\ UNCHANGED <<outside, rows, customer, conflicts, change, records, grants, intent, work>>

-----------------------------------------------------------------------------
(* Cycle grants and checkout intent *)

\* CreateBillingCreditGrant of a renewal: any claim of the event will do.
CreateCycleGrant(w) ==
    /\ Doing(w, "cycle")
    /\ LET e == work[w].ev IN
       IF /\ rows[e.id].status = "processing"
          /\ subs[e.sub].status \in {"trialing", "active", "past_due"}
       THEN /\ cycles' = [cycles EXCEPT ![e.id] = IF @ = None THEN "created" ELSE @]
            /\ Continue(w)
       ELSE Fails(w) /\ UNCHANGED cycles
    /\ UNCHANGED <<outside, rows, contract, records, topups, allocs, ledger, intent>>

\* GrantBillingCredit: a grant that has its ledger entry is replayed.
PostCycleGrant(w) ==
    /\ Doing(w, "post_cycle")
    /\ LET e == work[w].ev.id IN
       IF cycles[e] = "posted" THEN UNCHANGED <<cycles, granted>>
       ELSE /\ cycles' = [cycles EXCEPT ![e] = "posted"]
            /\ granted' = [granted EXCEPT ![e] = @ + 1]
    /\ Continue(w)
    /\ UNCHANGED <<outside, rows, contract, records, topups, allocs, credited, reversed, intent>>

\* updateCheckoutFromEvent: a closed intent accepts only the status it has.
UpdateCheckout(w, to) ==
    \/ ~work[w].ev.intent /\ Continue(w) /\ UNCHANGED intent
    \/ work[w].ev.intent /\ intent \in {"open", to} /\ intent' = to /\ Continue(w)
    \/ work[w].ev.intent /\ intent \notin {"open", to} /\ Fails(w) /\ UNCHANGED intent

CloseIntent(w) ==
    /\ \/ \E to \in {"completed", "failed", "expired"} : Doing(w, to) /\ UpdateCheckout(w, to)
       \/ /\ Doing(w, "activated")
          /\ IF Wanted(w).status \in Entitled THEN UpdateCheckout(w, "completed")
             ELSE Continue(w) /\ UNCHANGED intent
    /\ UNCHANGED <<outside, rows, contract, records, grants>>

-----------------------------------------------------------------------------
(* Payments, refunds, documents *)

\* validate_billing_payment_transition.
PaymentMoves(from, to) ==
    \/ from = to \/ from \in {None, "pending", "requires_action"}
    \/ from = "succeeded" /\ to \in {"partially_refunded", "refunded", "disputed"}

\* UpsertBillingPaymentState, then the checks of paymentSucceeded on the top-up.
UpsertPayment(w) ==
    /\ Doing(w, "payment")
    /\ LET e == work[w].ev
           old == payments[e.pay]
           paid == Amount[e.pay]
       IN  IF /\ e.at >= old.at => PaymentMoves(old.status, e.result)
              /\ e.at = old.at => old.status = e.result
           THEN /\ payments' = IF e.at > old.at
                               THEN [payments EXCEPT ![e.pay] = [status |-> e.result, at |-> e.at,
                                                                 purpose |-> e.purpose]]
                               ELSE payments
                /\ IF e.type = "payment.succeeded" /\ e.purpose = "credit_topup"
                   THEN IF e.pay \notin Offered THEN Fails(w)
                        ELSE IF paid < MinAmount \/ paid > MaxAmount \/ paid % UnitAmount # 0
                             THEN Handled(w) ELSE Continue(w)
                   ELSE Continue(w)
           ELSE Fails(w) /\ UNCHANGED payments
    /\ UNCHANGED <<outside, rows, contract, refunds, documents, grants, intent>>

TopupCredits(p) == (Amount[p] \div UnitAmount) * CreditsPerUnit

\* CreateBillingCreditGrant of a top-up: one row per payment.
CreateTopupGrant(w) ==
    /\ Doing(w, "topup")
    /\ LET e == work[w].ev IN
       IF payments[e.pay].status = "succeeded" /\ rows[e.id].status = "processing"
       THEN /\ topups' = [topups EXCEPT ![e.pay] = IF @ = None THEN "created" ELSE @]
            /\ Continue(w)
       ELSE Fails(w) /\ UNCHANGED topups
    /\ UNCHANGED <<outside, rows, contract, records, cycles, allocs, ledger, intent>>

UnpostedAlways(grant) == TRUE   \* Wrong on purpose: the grant's entry is not looked at.

\* grant_billing_credit: the grant has no ledger entry yet.
Unposted(grant) == grant # "posted"

\* The top-up's credits; the event's recharge attempt is settled next (Recharge).
PostTopupGrant(w) ==
    /\ Doing(w, "post_topup")
    /\ LET p == work[w].ev.pay IN
       IF ~Unposted(topups[p]) THEN UNCHANGED <<topups, credited>>
       ELSE /\ topups' = [topups EXCEPT ![p] = "posted"]
            /\ credited' = [credited EXCEPT ![p] = @ + 1]
    /\ Continue(w)
    /\ UNCHANGED <<outside, rows, contract, records, cycles, allocs, granted, reversed, intent>>

\* check_refund_bounds on billing_refunds: what other refunds already take.
RefundedBesides(r) ==
    MapThenSumSet(LAMBDA o : Amount[o],
        {o \in Refunds \ {r} : /\ PaymentOf[o] = PaymentOf[r]
                               /\ refunds[o].status \in {"pending", "succeeded"}})

\* UpsertBillingRefundState, then what refund does with a refund that succeeded.
UpsertRefund(w) ==
    /\ Doing(w, "refund")
    /\ LET e == work[w].ev
           old == refunds[e.refund]
       IN  IF /\ payments[e.pay].status # None
              /\ RefundedBesides(e.refund) + Amount[e.refund] <= Amount[e.pay]
              /\ e.at > old.at => old.status \in {None, "pending", e.result}
              /\ e.at = old.at => old.status = e.result
           THEN /\ refunds' = IF e.at > old.at
                              THEN [refunds EXCEPT ![e.refund] = [status |-> e.result, at |-> e.at]]
                              ELSE refunds
                /\ IF e.result = "succeeded" THEN Then(w, <<"clawback", "complete">>) ELSE Handled(w)
           ELSE Fails(w) /\ UNCHANGED refunds
    /\ UNCHANGED <<outside, rows, contract, payments, documents, grants, intent>>

RoundedShare(a, b) == (2 * a + b) \div (2 * b)

\* check_refund_bounds on billing_refund_grants: the credits of one refund.
ClawbackCredits(r) == RoundedShare(Amount[r] * TopupCredits(PaymentOf[r]), Amount[PaymentOf[r]])

AllocatedBesides(r) ==
    MapThenSumSet(LAMBDA o : allocs[o], {o \in Refunds \ {r} : PaymentOf[o] = PaymentOf[r]})

Allocatable(r) == \/ allocs[r] # 0
                  \/ /\ ClawbackCredits(r) > 0
                     /\ AllocatedBesides(r) + ClawbackCredits(r) <= TopupCredits(PaymentOf[r])

\* GetBillingCreditGrantByPayment and PostBillingRefund.
PostRefund(w) ==
    /\ Doing(w, "clawback")
    /\ LET r == work[w].ev.refund
           p == work[w].ev.pay
           c == ClawbackCredits(r)
       IN  IF payments[p].purpose # "credit_topup" \/ topups[p] = None
           THEN Handled(w) /\ UNCHANGED <<allocs, reversed>>
           ELSE IF refunds[r].status # "succeeded" \/ ~Allocatable(r)
           THEN Fails(w) /\ UNCHANGED <<allocs, reversed>>
           ELSE /\ allocs' = [allocs EXCEPT ![r] = IF @ = 0 THEN c ELSE @]
                /\ reversed' = IF Unposted(topups[p]) \/ reversed[r] # 0 THEN reversed
                               ELSE [reversed EXCEPT ![r] = allocs'[r]]
                /\ IF Unposted(topups[p]) THEN Fails(w) ELSE Continue(w)
    /\ UNCHANGED <<outside, rows, contract, records, topups, cycles, credited, granted, intent>>

\* UpsertBillingInvoiceState and UpsertBillingDisputeState.
UpsertDocument(w) ==
    LET e == work[w].ev
        id == IF Doing(w, "dispute") THEN e.dispute ELSE IF e.invoice # None THEN e.invoice ELSE e.pay
        status == IF Doing(w, "dispute") THEN e.result ELSE "paid"
        old == documents[id]
    IN  /\ Doing(w, "invoice") \/ Doing(w, "dispute")
        /\ IF \/ Doing(w, "dispute") /\ payments[e.pay].status = None
              \/ e.at = old.at /\ status # old.status
           THEN Fails(w) /\ UNCHANGED documents
           ELSE /\ documents' = IF e.at > old.at
                                THEN [documents EXCEPT ![id] = [status |-> status, at |-> e.at]]
                                ELSE documents
                /\ Continue(w)
        /\ UNCHANGED <<outside, rows, contract, payments, refunds, grants, intent>>

-----------------------------------------------------------------------------
(* Faults and time *)

Fault == faults < MaxFaults /\ faults' = faults + 1

\* A worker stops between two transactions.
Crash(w) ==
    /\ work[w].todo # <<>> /\ Fault
    /\ work' = [work EXCEPT ![w] = Idle]
    /\ UNCHANGED <<inbox, live, lapsed, rows, contract, records, grants, intent>>

\* A transaction of the processor fails and is not retried.
CallFails(w) ==
    /\ work[w].todo # <<>> /\ Head(work[w].todo) \notin {"fail", "complete"} /\ Fault
    /\ Fails(w)
    /\ UNCHANGED <<inbox, live, lapsed, rows, contract, records, grants, intent>>

\* The lease of a claim ends, by itself when nobody works on it any more.
LeaseLapses(e) ==
    /\ rows[e].status = "processing" /\ rows[e].live
    /\ \/ /\ \A w \in Workers : work[w].todo # <<>> => work[w].ev.id # e
          /\ UNCHANGED faults
       \/ /\ \E w \in Workers : work[w].todo # <<>> /\ work[w].ev.id = e
          /\ Fault
    /\ rows' = [rows EXCEPT ![e].live = FALSE]
    /\ UNCHANGED <<inbox, live, lapsed, contract, records, grants, intent, work>>

\* The customer asks the provider to cancel, or to go on.
ProviderChanges(s) ==
    /\ Fault
    /\ live' = [live EXCEPT ![s].cancel = ~@]
    /\ UNCHANGED <<inbox, lapsed, rows, contract, records, grants, intent, work>>

\* Starts of the grace periods these webhooks can open.
GraceStarts == {h.at : h \in {g \in inbox : EventOf(g).type = "payment.failed"
                                            \/ EventOf(g).status = "past_due"}}

GraceEnds(t) ==
    /\ t \in GraceStarts \ lapsed
    /\ lapsed' = lapsed \cup {t}
    /\ UNCHANGED <<inbox, live, faults, rows, contract, records, grants, intent, work>>

-----------------------------------------------------------------------------

BillingInit ==
    /\ inbox \in Inboxes
    /\ live = [s \in Subs |-> [status |-> "active", cancel |-> FALSE]]
    /\ rows = [e \in EventIds |-> [status |-> None, live |-> FALSE, digest |-> Idle.ev, attempts |-> 0]]
    /\ subs = [s \in Subs |-> NoRow]
    /\ plan = "free" /\ customer = {} /\ conflicts = {} /\ change = "open"
    /\ payments = [p \in Pays |-> [status |-> None, at |-> 0, purpose |-> None]]
    /\ refunds = [r \in Refunds |-> [status |-> None, at |-> 0]]
    /\ documents = [d \in Documents |-> [status |-> None, at |-> 0]]
    /\ topups = [p \in Pays |-> None] /\ cycles = [e \in EventIds |-> None]
    /\ allocs = [r \in Refunds |-> 0]
    /\ credited = [p \in Pays |-> 0] /\ granted = [e \in EventIds |-> 0]
    /\ reversed = [r \in Refunds |-> 0]
    /\ intent = "open" /\ lapsed = {} /\ faults = 0
    /\ work = [w \in Workers |-> Idle]

Advance(w) ==
    \/ Resolve(w) \/ UpsertCustomer(w) \/ ReadSubscription(w) \/ CheckConflict(w)
    \/ UpsertSubscription(w) \/ Reconcile(w) \/ ApplyChange(w) \/ GraceOfEvent(w)
    \/ CreateCycleGrant(w) \/ PostCycleGrant(w) \/ CloseIntent(w)
    \/ UpsertPayment(w) \/ CreateTopupGrant(w) \/ PostTopupGrant(w)
    \/ UpsertRefund(w) \/ PostRefund(w) \/ UpsertDocument(w)
    \/ CompleteBillingEvent(w) \/ FailBillingEvent(w)

BillingNext ==
    \/ \E w \in Workers : Advance(w) \/ Crash(w) \/ CallFails(w)
    \/ \E w \in Workers, h \in inbox : Receive(w, h)
    \/ \E e \in EventIds : LeaseLapses(e)
    \/ \E s \in Subs : SweepGrace(s) \/ ProviderChanges(s)
    \/ \E t \in GraceStarts : GraceEnds(t)

BillingSpec == BillingInit /\ [][BillingNext]_vars

\* Workers go on, leases of dead workers end, and providers deliver again.
BillingFairness ==
    /\ \A w \in Workers : WF_vars(Advance(w))
    /\ \A e \in EventIds : WF_vars(LeaseLapses(e) /\ UNCHANGED faults)
    /\ \A h \in UNION Inboxes : SF_vars(h \in inbox /\ \E w \in Workers : Receive(w, h))

FairBillingSpec == BillingSpec /\ BillingFairness

-----------------------------------------------------------------------------
(* Properties *)

Settles == INSTANCE Settlement WITH Payments <- Pays, Renewals <- EventIds,
                                    Credits <- [p \in Pays |-> TopupCredits(p)]

\* The processor, with its retries, lost claims and reordered events, implements Settlement:
\* no payment or renewal is credited twice, no refund is taken back twice, before its credit,
\* or for more than the grant (postgres_billing_lifecycle.go, grant_billing_credit, post_billing_refund).
RefinesSettlement == Settles!Spec

Finished(e) == rows[e].status = "completed"

\* The events of the inbox that speak of s, and the latest of them.
About(s) == {e \in {EventOf(h) : h \in inbox} : e.sub = s}
Latest(s) == {e \in About(s) : \A f \in About(s) : f.at <= e.at}

\* Whatever the order of arrival, once every event of a subscription is completed its row has
\* the status of the latest one and the plan agrees with it (applySubscription, reconcile).
EntitlementConverges ==
    \A s \in Subs : (About(s) # {} /\ \A e \in About(s) : Finished(e.id)) =>
        \A e \in Latest(s) :
            /\ subs[s].at = e.at
            /\ Forced(e).status # None => subs[s].status = Forced(e).status
            /\ AutoSelect /\ subs[s].status \in Ended => plan # s
            /\ AutoSelect /\ subs[s].status \in Entitled =>
                  \/ plan = s
                  \/ \E o \in Subs \ {s} : subs[o].entAt # 0

\* A subscription whose last version was reconciled as ended, or whose grace period was expired,
\* is not the source of the plan, whatever worker still holds an older version of it.
AccessEnds ==
    AutoSelect => \A s \in Subs :
        (subs[s].expired \/ (subs[s].status \in Ended /\ subs[s].entAt = subs[s].at)) => plan # s

\* Every claimed event is completed, or uses up its claims, or is refused because the
\* provider's answer about its subscription has changed since it was claimed (Ingest).
EventsEnd ==
    \A e \in EventIds :
        rows[e].status # None ~>
            \/ Finished(e) \/ rows[e].attempts = AttemptLimit
            \/ \E h \in inbox : EventOf(h).id = e /\ EventOf(h) # rows[e].digest

\* A completed renewal or paid invoice of an offered subscription has granted its cycle.
RenewalsGranted ==
    \A e \in EventIds :
        LET d == rows[e].digest IN
        Finished(e) /\ d.type \in {"subscription.renewed", "invoice.paid"} /\ OfferOf(d)
            => granted[e] = 1

\* A completed refund of a payment whose credits were posted has taken credits back.
RefundsClawedBack ==
    \A e \in EventIds :
        LET d == rows[e].digest IN
        Finished(e) /\ d.type \in RefundTypes /\ d.result = "succeeded" /\ credited[d.pay] = 1
            => reversed[d.refund] > 0

=============================================================================
