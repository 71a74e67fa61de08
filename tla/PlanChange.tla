----------------------------- MODULE PlanChange -----------------------------
(***************************************************************************)
(* Commands on one account's subscription (commerce_management.go,          *)
(* postgres_commerce_state.go, 025_plan_migration_rpc.sql): cancellation,   *)
(* reactivation, plan changes now or at renewal, and the webhooks that tell  *)
(* Bursar what came of them.                                                *)
(*                                                                          *)
(* The provider owns the subscription.  Bursar keeps a row of it, brought up *)
(* to date by webhooks, and one row per plan change it asked for.  A command *)
(* reads the row, then speaks to the provider, and its replies may be lost.  *)
(***************************************************************************)
EXTENDS Naturals, Sequences, FiniteSets

CONSTANTS
    Callers,    \* goroutines that call the commands
    Hooks,      \* goroutines that handle webhooks
    Keys,       \* operation keys
    Offers,     \* offer -> [plan, interval, rank]
    Policies,   \* classification -> "immediate" or "renewal"
    Provider,   \* "stripe" or "dodo"
    MaxCalls,   \* bound: commands
    MaxMoves,   \* bound: versions of the provider's subscription
    MaxFaults,  \* bound: lost replies and dead callers
    None

ASSUME PlanChangeAssumption ==
    /\ MaxCalls \in Nat /\ MaxMoves \in Nat /\ MaxFaults \in Nat
    /\ Provider \in {"stripe", "dodo"}

OfferKeys == DOMAIN Offers

VARIABLES
    truth,    \* the provider's subscription: offer, status, cancel, next, period, version
    done,     \* <<request, key>> the provider has executed
    row,      \* the row of billing_subscriptions: offer, status, cancel, version
    changes,  \* key -> row of billing_subscription_changes, or None
    call,     \* caller -> command in progress
    hook,     \* webhook goroutine -> offer it still has to apply, or None
    wanted,   \* the owner's last word: the subscription shall end
    calls,    \* commands begun
    faults,   \* faults so far
    reached,  \* key -> offers the provider has had since the change was opened
    log       \* the provider's webhooks: a snapshot for every version

provider == <<truth, done, reached, log>>
vars == <<provider, row, changes, call, hook, wanted, calls, faults>>

Idle == [pc |-> "idle", key |-> None, to |-> None, when |-> None, at |-> None,
         cancel |-> FALSE, kept |-> FALSE]

Fault == faults < MaxFaults /\ faults' = faults + 1

OpenStates == {"awaiting_payment", "scheduled"}

OpenKeys == {k \in Keys : changes[k] # None /\ changes[k].state \in OpenStates}

Current == {"active", "trialing", "past_due", "incomplete"}

Cancellable == Current \cup {"unpaid", "paused"}

\* What is kept of a subscription; version stands for the time of its last event.
SubscriptionRows ==
    [offer : OfferKeys, status : Cancellable \cup {"canceled", "incomplete_expired", "expired"},
     cancel : BOOLEAN, version : 0..MaxMoves]

-----------------------------------------------------------------------------
(* What a change is *)

\* classifyPlanChange
Classify(from, to) ==
    LET f == Offers[from] t == Offers[to] IN
    IF f.plan = t.plan THEN IF f.interval = t.interval THEN "unchanged" ELSE "cadence_change"
    ELSE IF t.rank > f.rank THEN "upgrade"
    ELSE IF t.rank < f.rank THEN "downgrade" ELSE "lateral"

Effective(from, to) == Policies[Classify(from, to)]

\* Every change has a policy (validated when the catalog is loaded).
ASSUME PoliciesAssumption ==
    \A from, to \in OfferKeys :
        Classify(from, to) # "unchanged" => Effective(from, to) \in {"immediate", "renewal"}

\* What a webhook says of the provider's subscription.
Snapshot(t, changed) ==
    [offer |-> t.offer, status |-> t.status, cancel |-> t.cancel, version |-> t.version,
     changed |-> changed]

\* The provider's subscription becomes t, and a webhook tells of it.
Becomes(t) ==
    LET next == [t EXCEPT !.version = truth.version + 1] IN
    /\ truth' = next
    /\ log' = Append(log, Snapshot(next, t.offer # truth.offer))
    /\ reached' = [k \in Keys |-> IF changes[k] = None THEN {} ELSE reached[k] \cup {t.offer}]

\* The provider executes a request once per idempotency key.
Executes(request, t) ==
    IF request \in done \/ t = truth
    THEN done' = done \cup {request} /\ UNCHANGED <<truth, log, reached>>
    ELSE done' = done \cup {request} /\ Becomes(t)

-----------------------------------------------------------------------------
(* Commands *)

Goes(c, s) == call' = [call EXCEPT ![c].pc = s]

Returns(c) == call' = [call EXCEPT ![c] = Idle]

Begins(c, first) ==
    /\ call[c].pc = "idle" /\ calls < MaxCalls
    /\ calls' = calls + 1
    /\ call' = [call EXCEPT ![c] = first]
    /\ UNCHANGED <<provider, row, changes, hook, wanted, faults>>

\* CancelSubscription: a row that is not current, or cancelled already, needs no
\* request.
StartCancel(c, k) ==
    /\ row.status \in Current \cap Cancellable /\ ~row.cancel
    /\ Begins(c, [Idle EXCEPT !.pc = "cancel", !.key = k])

\* CancelAllSubscriptions lists the rows and cancels each under a key of its own.
StartCancelAll(c, k) ==
    /\ row.status \in Cancellable /\ ~row.cancel
    /\ Begins(c, [Idle EXCEPT !.pc = "cancelall", !.key = k])

\* Its call of CancelSubscription reads the row again.
CancelListed(c) ==
    /\ call[c].pc = "cancelall"
    /\ IF row.status \in Current /\ ~row.cancel
       THEN call' = [call EXCEPT ![c].pc = "cancel", ![c].key = <<"all", call[c].key>>]
       ELSE Returns(c)
    /\ UNCHANGED <<provider, row, changes, hook, wanted, calls, faults>>

\* ReactivateSubscription: a row that runs on needs no request.
StartReactivate(c, k) ==
    /\ ~(row.status = "active" /\ ~row.cancel)
    /\ Begins(c, [Idle EXCEPT !.pc = "reactivate", !.key = k])

\* The adapters' update of cancel_at_period_end; an ended subscription refuses it.
SetCancel(request, cancel) ==
    /\ truth.status = "active"
    /\ Executes(request, [truth EXCEPT !.cancel = cancel])

\* The command's request; what it executes is the owner's wish.
Command(c, name, cancel) ==
    /\ call[c].pc = name
    /\ LET request == <<name, call[c].key>> IN
       IF truth.status = "active"
       THEN /\ SetCancel(request, cancel)
            /\ wanted' = IF request \in done THEN wanted ELSE cancel
       ELSE UNCHANGED <<provider, wanted>>
    /\ Returns(c)
    /\ UNCHANGED <<row, changes, hook, calls, faults>>

-----------------------------------------------------------------------------
(* Plan changes *)

\* planChangeQuoteFingerprint: what the provider asks depends on its plan and period.
Quote(to) == <<truth.offer, to, truth.period>>

\* PreviewPlanChange: the owner is shown a quote of the change.
StartPreview(c, k, to) ==
    /\ row.status \in Current /\ Classify(row.offer, to) # "unchanged"
    /\ Begins(c, [Idle EXCEPT !.pc = "quoted", !.key = k, !.to = to, !.at = Quote(to)])

\* The quote the owner agreed to is still the provider's.
Unmoved(d) == d.at = Quote(d.to)

\* ConfirmPlanChange up to its durable record: the target differs, the quote has
\* not moved and no change is open.
Confirm(c) ==
    /\ call[c].pc = "quoted"
    /\ LET d == call[c] IN
       IF /\ row.status \in Current /\ Classify(row.offer, d.to) # "unchanged"
          /\ Unmoved(d)
          /\ OpenKeys = {}
       THEN call' = [call EXCEPT ![c] =
               [d EXCEPT !.pc = "open", !.when = Effective(row.offer, d.to),
                         !.at = truth.period, !.cancel = row.cancel]]
       ELSE Returns(c)
    /\ UNCHANGED <<provider, row, changes, hook, wanted, calls, faults>>

\* Wrong on purpose: relies on the check the caller made before.
NoOpenChangeUnchecked == TRUE

\* No change of the subscription is open (open_subscription_changes_idx).
NoOpenChange == OpenKeys = {}

\* open_subscription_change finds the key: the same change is replayed, and it is the
\* same only if it takes effect at the same time, as a renewal does.
Replays(x, d) ==
    x.from = row.offer /\ x.to = d.to /\ x.when = d.when /\ d.when = "renewal" /\ x.at = d.at

\* CreateBillingSubscriptionChange; the state of a replayed change is not looked at.
OpenChange(c) ==
    /\ call[c].pc = "open"
    /\ LET d == call[c]
           first == IF d.cancel THEN "keep" ELSE "change"
       IN IF row.offer = d.to THEN Returns(c) /\ UNCHANGED <<changes, reached>>
          ELSE IF changes[d.key] # None
          THEN /\ IF Replays(changes[d.key], d) THEN Goes(c, first) ELSE Returns(c)
               /\ UNCHANGED <<changes, reached>>
          ELSE IF ~NoOpenChange THEN Returns(c) /\ UNCHANGED <<changes, reached>>
          ELSE /\ changes' = [changes EXCEPT ![d.key] =
                    [from |-> row.offer, to |-> d.to, when |-> d.when, at |-> d.at,
                     state |-> IF d.when = "renewal" THEN "scheduled" ELSE "awaiting_payment"]]
               /\ reached' = [reached EXCEPT ![d.key] = {truth.offer}]
               /\ Goes(c, first)
    /\ UNCHANGED <<truth, done, log, row, hook, wanted, calls, faults>>

\* A subscription that was to end is kept before its plan is changed.
KeepSubscription(c) ==
    /\ call[c].pc = "keep"
    /\ IF truth.status = "active"
       THEN /\ SetCancel(<<"keep", call[c].key>>, FALSE)
            /\ call' = [call EXCEPT ![c].pc = "change", ![c].kept = TRUE]
       ELSE Goes(c, "fail") /\ UNCHANGED provider
    /\ UNCHANGED <<row, changes, hook, wanted, calls, faults>>

\* stripe.ChangePlan refuses a renewal change of a subscription that has a schedule,
\* a schedule of the same request included.
Scheduled(d) == Provider = "stripe" /\ d.when = "renewal" /\ truth.next # None

\* What the provider is asked to do: now, or at the next billing date.
Requested(d) == [to |-> d.to, when |-> d.when]

\* Wrong on purpose: a change that failed leaves the subscription running.
AfterFailureForgets(d) == "fail"

\* A change that failed gives the subscription its cancellation back.
AfterFailure(d) == IF d.kept THEN "restore" ELSE "fail"

\* ChangePlan: performed, refused, or performed with its reply lost.
ChangePlan(c, outcome) ==
    /\ call[c].pc = "change"
    /\ LET d == call[c]
           request == <<"change", d.key>>
       IN /\ outcome # "refused" => ~Scheduled(d) /\ (truth.status = "active" \/ request \in done)
          /\ IF outcome = "refused" THEN UNCHANGED provider
             ELSE Executes(request, [truth EXCEPT !.next = Requested(d)])
          /\ IF outcome = "ok" THEN Returns(c) ELSE Goes(c, AfterFailure(d))
          /\ wanted' = IF outcome = "ok" /\ d.kept THEN FALSE ELSE wanted
    /\ IF outcome = "lost" THEN Fault ELSE UNCHANGED faults
    /\ UNCHANGED <<row, changes, hook, calls>>

RestoreCancellation(c) ==
    /\ call[c].pc = "restore"
    /\ IF truth.status = "active" THEN SetCancel(<<"restore", call[c].key>>, TRUE)
       ELSE UNCHANGED provider
    /\ Goes(c, "fail")
    /\ UNCHANGED <<row, changes, hook, wanted, calls, faults>>

\* advance_subscription_change from the states it may leave; a change that is
\* applied is the subscription's offer from then on.
Advance(k, to) ==
    /\ changes[k].state \in OpenStates
    /\ to = "applied" => row.offer \in {changes[k].from, changes[k].to}
    /\ changes' = [changes EXCEPT ![k].state = to]
    /\ row' = IF to = "applied" THEN [row EXCEPT !.offer = changes[k].to] ELSE row

\* The change is marked failed, if it is open still.
FailChange(c) ==
    /\ call[c].pc = "fail"
    /\ \/ Advance(call[c].key, "failed")
       \/ changes[call[c].key].state \notin OpenStates /\ UNCHANGED <<changes, row>>
    /\ Returns(c)
    /\ UNCHANGED <<provider, hook, wanted, calls, faults>>

\* CancelScheduledPlanChange of the open renewal change.
StartUnschedule(c, k) ==
    /\ row.status \in Current
    /\ \E x \in OpenKeys : /\ changes[x].state = "scheduled"
                           /\ Begins(c, [Idle EXCEPT !.pc = "unschedule", !.key = k, !.to = x])

\* Stripe's adapter needs the schedule's id, which no change has; Dodo's does not.
NamesSchedule == Provider = "dodo"

Unschedule(c) ==
    /\ call[c].pc = "unschedule"
    /\ IF NamesSchedule /\ truth.next # None /\ truth.next.when = "renewal"
       THEN /\ Executes(<<"unschedule", call[c].key>>, [truth EXCEPT !.next = None])
            /\ Goes(c, "unscheduled")
       ELSE Returns(c) /\ UNCHANGED provider
    /\ UNCHANGED <<row, changes, hook, wanted, calls, faults>>

RecordUnscheduled(c) ==
    /\ call[c].pc = "unscheduled"
    /\ \/ Advance(call[c].to, "canceled")
       \/ changes[call[c].to].state \notin OpenStates /\ UNCHANGED <<changes, row>>
    /\ Returns(c)
    /\ UNCHANGED <<provider, hook, wanted, calls, faults>>

\* The caller dies or gives up: what it had still to do is not done.
Dies(c) ==
    /\ call[c].pc # "idle"
    /\ Fault
    /\ Returns(c)
    /\ UNCHANGED <<provider, row, changes, hook, wanted, calls>>

-----------------------------------------------------------------------------
(* The provider *)

\* An accepted change takes effect; a payment that fails may prevent it.
Settle(paid) ==
    /\ truth.version < MaxMoves
    /\ truth.status = "active" /\ truth.next # None /\ truth.next.when = "immediate"
    /\ Becomes([truth EXCEPT !.offer = IF paid THEN truth.next.to ELSE @, !.next = None])
    /\ UNCHANGED <<done, row, changes, call, hook, wanted, calls, faults>>

\* The period ends, and with it what was to end, or the old plan.
Renew ==
    /\ truth.version < MaxMoves
    /\ truth.status = "active"
    /\ LET scheduled == truth.next # None /\ truth.next.when = "renewal" IN
       Becomes(IF truth.cancel THEN [truth EXCEPT !.status = "canceled", !.next = None]
               ELSE [truth EXCEPT !.period = @ + 1,
                                  !.offer = IF scheduled THEN truth.next.to ELSE @,
                                  !.next = IF scheduled THEN None ELSE @])
    /\ UNCHANGED <<done, row, changes, call, hook, wanted, calls, faults>>

\* The customer changes the plan in the provider's portal.
PortalChange(o) ==
    /\ truth.version < MaxMoves
    /\ truth.status = "active" /\ o # truth.offer
    /\ Becomes([truth EXCEPT !.offer = o])
    /\ UNCHANGED <<done, row, changes, call, hook, wanted, calls, faults>>

-----------------------------------------------------------------------------
(* Webhooks *)

\* A subscription event is reconciled with the row unless it is older (module
\* Billing has the detail); a changed plan leaves an apply to do.
Reconcile(h, e) ==
    /\ hook[h] = None
    /\ e.version > row.version
    /\ row' = [offer |-> e.offer, status |-> e.status, cancel |-> e.cancel, version |-> e.version]
    /\ hook' = [hook EXCEPT ![h] = IF e.changed THEN e.offer ELSE None]
    /\ UNCHANGED <<provider, changes, call, wanted, calls, faults>>

\* Only the change whose target the webhook names is completed.
Completes(k, offer) == changes[k].to = offer

\* applyOpenBillingSubscriptionChange, a transaction of its own.
ApplyChange(h) ==
    /\ hook[h] # None
    /\ IF \E k \in OpenKeys : Completes(k, hook[h]) /\ row.offer \in {changes[k].from, changes[k].to}
       THEN \E k \in OpenKeys : Completes(k, hook[h]) /\ Advance(k, "applied")
       ELSE UNCHANGED <<changes, row>>
    /\ hook' = [hook EXCEPT ![h] = None]
    /\ UNCHANGED <<provider, call, wanted, calls, faults>>

-----------------------------------------------------------------------------
Init ==
    /\ row \in {r \in SubscriptionRows : r.status = "active" /\ r.version = 0}
    /\ truth = [offer |-> row.offer, status |-> "active", cancel |-> row.cancel, next |-> None,
                period |-> 0, version |-> 0]
    /\ wanted = row.cancel
    /\ done = {}
    /\ log = <<>>
    /\ changes = [k \in Keys |-> None]
    /\ reached = [k \in Keys |-> {}]
    /\ call = [c \in Callers |-> Idle]
    /\ hook = [h \in Hooks |-> None]
    /\ calls = 0
    /\ faults = 0

Next ==
    \/ \E c \in Callers :
         \/ \E k \in Keys :
              \/ StartCancel(c, k)
              \/ StartReactivate(c, k)
              \/ StartCancelAll(c, k)
              \/ \E o \in OfferKeys : StartPreview(c, k, o)
              \/ StartUnschedule(c, k)
         \/ Command(c, "cancel", TRUE)
         \/ Command(c, "reactivate", FALSE)
         \/ CancelListed(c)
         \/ Confirm(c)
         \/ OpenChange(c)
         \/ KeepSubscription(c)
         \/ \E outcome \in {"ok", "refused", "lost"} : ChangePlan(c, outcome)
         \/ RestoreCancellation(c)
         \/ FailChange(c)
         \/ Unschedule(c)
         \/ RecordUnscheduled(c)
         \/ Dies(c)
    \/ Settle(TRUE) \/ Settle(FALSE)
    \/ Renew
    \/ \E o \in OfferKeys : PortalChange(o)
    \/ \E h \in Hooks : (\E i \in DOMAIN log : Reconcile(h, log[i])) \/ ApplyChange(h)

PlanChangeSpec == Init /\ [][Next]_vars

-----------------------------------------------------------------------------
(* Properties *)

\* A subscription never has two open changes, even if two calls found none open
\* (commerce_management.go:321-327, 025_plan_migration_rpc.sql:1704-1714).
OneOpenChange == Cardinality(OpenKeys) <= 1

\* A subscription its owner cancelled does not run on because a plan change was
\* tried and failed: unless a reply was lost or a caller died, the cancellation is
\* back when the call returns (commerce_management.go:355-391).
CancellationSurvives ==
    /\ faults = 0
    /\ \A c \in Callers : call[c].pc = "idle"
    /\ wanted
    => truth.cancel

\* A change is applied only if the provider had its target since it was opened: no
\* older webhook completes a newer change (postgres_commerce_state.go:674-677).
StaleNeverCompletes ==
    \A k \in Keys : changes[k] # None /\ changes[k].state = "applied" =>
        changes[k].to \in reached[k]

=============================================================================
