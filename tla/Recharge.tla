------------------------------ MODULE Recharge ------------------------------
(***************************************************************************)
(* Auto-recharge of one account: the profile with its guardrails, the      *)
(* attempts, the callers of AutoRechargeService that evaluate, claim,      *)
(* charge the saved payment method and record the answer in separate       *)
(* transactions, the provider that keeps one payment per idempotency key,  *)
(* and the webhook that grants the credits and settles the attempt.        *)
(***************************************************************************)
EXTENDS Integers, FiniteSets, Sequences

CONSTANTS Callers,      \* threads and processes that call the service
          MaxCalls,     \* bound on ProcessIfNeeded calls, each with a new key
          Threshold,    \* balance_below of the policy
          RearmAbove,   \* rearm_above of the policy
          Credits,      \* credits of one top-up
          MaxPurchases, \* limits.max_purchases per window
          WindowLength, \* limits.window, in clock ticks
          Anchor,       \* the calendar's anchor instant, in clock ticks
          Cooldown,     \* limits.cooldown, in clock ticks
          MaxFailures,  \* limits.max_consecutive_failures
          Provider,     \* the configured adapter, "stripe" or "dodo"
          MethodSets,   \* the saved payment methods a customer may have
          Rolling,      \* whether limits.window is rolling
          MaxBalance,   \* bound on the balance
          MaxTime,      \* bound on the clock
          MaxCrashes    \* bound on crashes and catalog or card changes

ASSUME RechargeConstants ==
    /\ MaxCalls \in Nat /\ Threshold \in Nat /\ RearmAbove \in Nat
    /\ Threshold < RearmAbove
    /\ Credits \in Nat \ {0} /\ MaxPurchases \in Nat \ {0}
    /\ WindowLength \in Nat \ {0} /\ Cooldown \in Nat /\ MaxFailures \in Nat \ {0}
    /\ Anchor \in Int /\ MaxBalance \in Nat /\ MaxTime \in Nat /\ MaxCrashes \in Nat

VARIABLES profile,   \* the billing_auto_recharge_profiles row
          attempts,  \* the billing_auto_recharge_attempts rows, by key
          calls,     \* what each caller is about to do
          payments,  \* the provider's payments, by idempotency key
          events,    \* the payment events of the provider, by key
          balance, now, methods, offered, fresh, crashes

vars == <<profile, attempts, calls, payments, events, balance, now, methods,
          offered, fresh, crashes>>
store == <<profile, attempts>>
world == <<balance, now, methods, offered, crashes>>

Keys == 1..MaxCalls
OpenStates == {"claimed", "submitted", "processing", "unknown", "action_required"}
FinalStates == {"succeeded", "failed"}
AttemptStates == {"none"} \cup OpenStates \cup FinalStates
Open == {k \in Keys : attempts[k].state \in OpenStates}

\* The rows as the store decodes them; "known" says that provider_attempt_id is set.
ProfileRows == [state : {"none", "disabled", "active", "paused"},
                armed : BOOLEAN, failures : Nat, last : Int]
AttemptRows == [state : AttemptStates, known : BOOLEAN, created : Int]

RechargeTypeOK ==
    /\ profile \in ProfileRows
    /\ attempts \in [Keys -> AttemptRows]
    /\ payments \in [Keys -> [state : {"none", "processing", "action", "succeeded", "failed"},
                              attempt : Keys]]
    /\ events \in [Keys -> {"none", "sent", "granted", "done"}]
    /\ fresh \in Nat

-----------------------------------------------------------------------------
(* Windows *)

\* Go's / rounds toward zero.
Quotient(a, b) == IF a >= 0 THEN a \div b ELSE -((-a) \div b)

\* floorDivide corrects the quotient of a negative dividend.
FloorDivide(a, b) ==
    LET q == Quotient(a, b)
        r == a - b * q
    IN  IF r # 0 /\ (r < 0) # (b < 0) THEN q - 1 ELSE q

\* First instant of the calendar window that holds t.
CalendarStart(t) == Anchor + FloorDivide(t - Anchor, WindowLength) * WindowLength

\* resolveAutoRechargeWindow: [start, end) of the window at t.
RechargeWindow(t) ==
    IF Rolling THEN [start |-> t - WindowLength, end |-> t + 1]
    ELSE [start |-> CalendarStart(t), end |-> CalendarStart(t) + WindowLength]

\* The states that claim_auto_recharge_attempt and GetStatus count.
Counted(w) == {k \in Keys : /\ attempts[k].state \in
                                  {"submitted", "processing", "succeeded", "action_required"}
                            /\ w.start <= attempts[k].created
                            /\ attempts[k].created < w.end}

-----------------------------------------------------------------------------
(* Policy and payment method *)

\* resolvePolicy: the active catalog may have no usable policy.
Configured == offered

\* Stripe lists a customer's cards and marks the default of the invoice settings.
StripeMethods(ms) == ms

\* Dodo lists the cards enabled for recurring payments; only a single one is the default.
DodoMethods(ms) == {[m EXCEPT !.default = Cardinality(ms) = 1] : m \in ms}

ListPaymentMethods(ms) == IF Provider = "stripe" THEN StripeMethods(ms) ELSE DodoMethods(ms)

\* paymentMethod: the default method or the only one.
Usable(ms) == \/ Cardinality({m \in ms : m.default}) = 1
              \/ Cardinality(ms) = 1

-----------------------------------------------------------------------------
(* Profile *)

\* validateAutoRechargeProfile: an enabled profile is active or paused.
Enabled == profile.state \in {"active", "paused"}

\* GetStatus: the state a customer sees and the purchases of the current window.
GetStatus == [state |-> IF Enabled THEN profile.state ELSE "disabled",
              recharges |-> Cardinality(Counted([RechargeWindow(now) EXCEPT !.end = now + 1]))]

\* upsert_auto_recharge_profile with enabled=true, state=active, armed=true.
Armed(resetCooldown) ==
    [profile EXCEPT !.state = "active", !.armed = TRUE,
                    !.last = IF resetCooldown THEN -Cooldown ELSE @]

RearmedNever(p, b) == p   \* Wrong on purpose: the trigger is gone.

\* rearm_auto_recharge_profile: the trigger on an upward balance movement.
Rearmed(p, b) == IF p.state = "active" /\ b >= RearmAbove
                 THEN [p EXCEPT !.armed = TRUE] ELSE p

Credit(amount) == /\ balance + amount <= MaxBalance
                  /\ balance' = balance + amount

\* profile part of advance_auto_recharge_attempt.
AfterOutcome(p, st) ==
    IF p.state \notin {"active", "paused"} THEN p
    ELSE CASE st = "action_required" -> [p EXCEPT !.state = "paused", !.armed = FALSE]
           [] st = "failed" ->
                LET out == p.failures + 1 >= MaxFailures
                IN  [p EXCEPT !.failures = @ + 1, !.armed = ~out,
                              !.state = IF out THEN "paused" ELSE @]
           [] st = "succeeded" ->
                [p EXCEPT !.failures = 0, !.state = "active",
                          !.armed = @ \/ balance >= RearmAbove]
           [] OTHER -> p

-----------------------------------------------------------------------------
(* Attempts *)

\* The adjacent transitions advance_auto_recharge_attempt accepts.
Legal == {<<"claimed", "submitted">>, <<"submitted", "processing">>,
          <<"submitted", "action_required">>}
         \cup {"processing"} \X {"succeeded", "failed", "unknown", "action_required"}
         \cup {"unknown"} \X {"processing", "action_required", "succeeded", "failed"}
         \cup {"action_required"} \X {"processing", "succeeded", "failed"}

\* commerceStateAutoRechargeTransitionPath: the steps from one state to another.
Path(from, to) ==
    CASE from = "claimed" /\ to \in {"action_required", "processing"} -> <<"submitted", to>>
      [] from = "claimed" /\ to \notin {"submitted", "action_required", "processing"} ->
           <<"submitted", "processing", to>>
      [] from = "submitted" /\ to \in {"succeeded", "failed", "unknown"} -> <<"processing", to>>
      [] OTHER -> <<to>>

\* Every step of the path is accepted in one transaction, or none is kept.
Accepted(from, to) ==
    \A i \in 1..Len(Path(from, to)) :
        <<IF i = 1 THEN from ELSE Path(from, to)[i - 1], Path(from, to)[i]>> \in Legal

\* UpdateAutoRechargeAttempt: nothing when the state is already the target.
Update(k, to, known) ==
    IF attempts[k].state = to THEN UNCHANGED store
    ELSE /\ Accepted(attempts[k].state, to)
         /\ attempts' = [attempts EXCEPT ![k].state = to, ![k].known = @ \/ known]
         /\ profile' = AfterOutcome(profile, to)

-----------------------------------------------------------------------------
(* Callers *)

Idle == [pc |-> "idle", key |-> 1, attempt |-> 1, answer |-> "none"]
Goto(c, r) == calls' = [calls EXCEPT ![c] = r]

\* ProcessIfNeeded up to the claim: early returns leave nothing behind.
Evaluated(c) ==
    IF /\ Configured /\ profile.state = "active"
       /\ balance < Threshold /\ Usable(ListPaymentMethods(methods)) /\ fresh < MaxCalls
    THEN /\ Goto(c, [Idle EXCEPT !.pc = "claim", !.key = fresh + 1])
         /\ fresh' = fresh + 1
    ELSE Goto(c, Idle) /\ UNCHANGED fresh

\* ProcessIfNeeded called by the hook after a deduction, or by the application.
ProcessIfNeeded(c) ==
    /\ calls[c].pc \in {"idle", "evaluate"}
    /\ Evaluated(c)
    /\ calls'[c] # calls[c]
    /\ UNCHANGED <<profile, attempts, payments, events, world>>

\* Enable: a usable method and a policy, then the profile, then an evaluation.
Enable(c) ==
    /\ calls[c].pc = "idle" /\ fresh < MaxCalls
    /\ Configured /\ Usable(ListPaymentMethods(methods))
    /\ profile' = Armed(FALSE)
    /\ Goto(c, [Idle EXCEPT !.pc = "evaluate"])
    /\ UNCHANGED <<attempts, payments, events, fresh, world>>

\* Retry reads the profile ...
Retry(c) ==
    /\ calls[c].pc = "idle" /\ fresh < MaxCalls
    /\ Enabled
    /\ Goto(c, [Idle EXCEPT !.pc = "rearm"])
    /\ UNCHANGED <<store, payments, events, fresh, world>>

\* ... and writes back what it read, in a later transaction, if the catalog still agrees.
RetryUpsert(c) ==
    /\ calls[c].pc = "rearm"
    /\ IF Configured
       THEN profile' = Armed(TRUE) /\ Goto(c, [Idle EXCEPT !.pc = "evaluate"])
       ELSE UNCHANGED profile /\ Goto(c, Idle)
    /\ UNCHANGED <<attempts, payments, events, fresh, world>>

Disable ==
    /\ profile.state \in {"active", "paused"}
    /\ profile' = [profile EXCEPT !.state = "disabled", !.armed = TRUE]
    /\ UNCHANGED <<attempts, calls, payments, events, fresh, world>>

MayClaimUncounted == Open = {}   \* Wrong on purpose: no window, no cooldown.

\* Wrong on purpose: an uncertain attempt does not block the next one.
MayClaimPastUnknown ==
    /\ \A k \in Open : attempts[k].state = "unknown"
    /\ Cardinality(Counted(RechargeWindow(now))) < MaxPurchases

\* claim_auto_recharge_attempt: conditions under which a new attempt is inserted.
MayClaim ==
    /\ Open = {}
    /\ profile.last + Cooldown <= now
    /\ Cardinality(Counted(RechargeWindow(now))) < MaxPurchases

\* ClaimAutoRechargeAttempt and what the caller does with its answer.
Claim(c) ==
    /\ calls[c].pc = "claim"
    /\ IF profile.state # "active" \/ ~profile.armed \/ balance >= Threshold
       THEN Goto(c, Idle) /\ UNCHANGED store
       ELSE \/ /\ MayClaim
               /\ attempts' = [attempts EXCEPT ![calls[c].key] =
                     [state |-> "claimed", known |-> FALSE, created |-> now]]
               /\ profile' = [profile EXCEPT !.armed = FALSE, !.last = now]
               /\ Goto(c, [calls[c] EXCEPT !.pc = "charge", !.attempt = calls[c].key])
            \/ /\ ~MayClaim
               /\ UNCHANGED store
               /\ \/ \E k \in Open : /\ attempts[k].state = "unknown"
                                     /\ Goto(c, [calls[c] EXCEPT !.pc = "charge", !.attempt = k])
                  \/ /\ \A k \in Open : attempts[k].state # "unknown"
                     /\ Goto(c, Idle)
    /\ UNCHANGED <<payments, events, fresh, world>>

\* The key the provider sees: the attempt's, not the caller's.
ChargeKey(c) == calls[c].attempt

\* Stripe refuses the request itself when the card is declined.
StripeAnswer(st) == IF st = "failed" THEN "error" ELSE st

\* Dodo answers with the state of the payment it has just read.
DodoAnswer(st) == st

ChargeAnswer(st) == IF Provider = "stripe" THEN StripeAnswer(st) ELSE DodoAnswer(st)

\* ChargeSavedPaymentMethod: one payment per key; the reply may be lost or malformed.
Charge(c) ==
    /\ calls[c].pc = "charge"
    /\ LET k == ChargeKey(c) IN
       /\ IF payments[k].state # "none" THEN UNCHANGED <<payments, events>>
          ELSE \E st \in {"none", "processing", "action", "succeeded", "failed"} :
                  /\ payments' = [payments EXCEPT ![k] = [state |-> st, attempt |-> calls[c].attempt]]
                  /\ events' = IF st \in FinalStates THEN [events EXCEPT ![k] = "sent"] ELSE events
       /\ \E a \in {"error", "invalid", ChargeAnswer(payments'[k].state)} \ {"none"} :
             Goto(c, [calls[c] EXCEPT !.pc = "record", !.answer = a])
    /\ UNCHANGED <<store, fresh, world>>

\* Wrong on purpose: the synchronous answer settles the attempt before its grant.
TargetSettled(answer) ==
    CASE answer = "error" -> "unknown" [] answer = "action" -> "action_required"
      [] answer \in FinalStates -> answer [] OTHER -> "processing"

\* The attempt state an answer asks for; a malformed answer asks for none.
Target(answer) ==
    CASE answer = "error" -> "unknown"
      [] answer = "action" -> "action_required"
      [] answer = "failed" -> "failed"
      [] OTHER -> "processing"

\* validateSavedPaymentCharge: an answer that is refused before it is recorded.
Malformed(answer) == answer = "invalid"

\* The last transaction of ProcessIfNeeded.
Record(c) ==
    /\ calls[c].pc = "record"
    /\ LET k == calls[c].attempt
           a == calls[c].answer
       IN  IF Malformed(a) \/ (attempts[k].state # Target(a)
                                /\ ~Accepted(attempts[k].state, Target(a)))
           THEN UNCHANGED store
           ELSE Update(k, Target(a), a # "error")
    /\ Goto(c, Idle)
    /\ UNCHANGED <<payments, events, fresh, world>>

\* A caller dies, or its context is cancelled, between two of its steps.
Crash(c) ==
    /\ calls[c].pc # "idle" /\ crashes < MaxCrashes
    /\ crashes' = crashes + 1
    /\ Goto(c, Idle)
    /\ UNCHANGED <<store, payments, events, balance, now, methods, offered, fresh>>

-----------------------------------------------------------------------------
(* Provider and webhook *)

\* A payment that was processing, or waited for its customer, comes to an end.
PaymentSettles(k) ==
    /\ payments[k].state \in {"processing", "action"}
    /\ \E st \in FinalStates : payments' = [payments EXCEPT ![k].state = st]
    /\ events' = [events EXCEPT ![k] = "sent"]
    /\ UNCHANGED <<store, calls, fresh, world>>

\* paymentSucceeded: the top-up grant of the event, and the trigger on the balance.
GrantTopup(k) ==
    /\ events[k] = "sent" /\ payments[k].state = "succeeded"
    /\ Credit(Credits)
    /\ profile' = Rearmed(profile, balance + Credits)
    /\ events' = [events EXCEPT ![k] = "granted"]
    /\ UNCHANGED <<attempts, calls, payments, now, methods, offered, fresh, crashes>>

\* UpdateAutoRechargeAttemptByProviderPayment: nothing when no attempt has the id.
Settle(k, to) ==
    LET a == payments[k].attempt IN
    IF attempts[a].known THEN Update(a, to, TRUE) ELSE UNCHANGED store

SettleAttempt(k) ==
    /\ \/ events[k] = "granted" /\ Settle(k, "succeeded")
       \/ events[k] = "sent" /\ payments[k].state = "failed" /\ Settle(k, "failed")
    /\ events' = [events EXCEPT ![k] = "done"]
    /\ UNCHANGED <<calls, payments, fresh, world>>

-----------------------------------------------------------------------------
(* Account, customer, catalog and clock *)

\* Usage lowers the balance; another grant raises it and may rearm.
Spend == /\ balance > 0 /\ balance' = balance - 1
         /\ UNCHANGED <<store, calls, payments, events, now, methods, offered, fresh, crashes>>

Deposit == /\ Credit(1)
           /\ profile' = Rearmed(profile, balance + 1)
           /\ UNCHANGED <<attempts, calls, payments, events, now, methods, offered, fresh, crashes>>

Environment ==
    /\ crashes < MaxCrashes /\ crashes' = crashes + 1
    /\ \/ methods' \in MethodSets \ {methods} /\ UNCHANGED offered
       \/ offered' = ~offered /\ UNCHANGED methods
    /\ UNCHANGED <<store, calls, payments, events, balance, now, fresh>>

Tick == /\ now < MaxTime /\ now' = now + 1
        /\ UNCHANGED <<store, calls, payments, events, balance, methods, offered, fresh, crashes>>

RechargeInit ==
    /\ profile = [state |-> "none", armed |-> TRUE, failures |-> 0, last |-> -Cooldown]
    /\ attempts = [k \in Keys |-> [state |-> "none", known |-> FALSE, created |-> 0]]
    /\ calls = [c \in Callers |-> Idle]
    /\ payments = [k \in Keys |-> [state |-> "none", attempt |-> k]]
    /\ events = [k \in Keys |-> "none"]
    /\ balance \in {Threshold, MaxBalance} /\ now = 0 /\ fresh = 0 /\ crashes = 0
    /\ methods \in MethodSets /\ offered = TRUE

CallerStep(c) == ProcessIfNeeded(c) \/ RetryUpsert(c) \/ Claim(c) \/ Charge(c) \/ Record(c)
Webhook(k) == GrantTopup(k) \/ SettleAttempt(k)

RechargeNext ==
    \/ \E c \in Callers : Enable(c) \/ Retry(c) \/ CallerStep(c) \/ Crash(c)
    \/ \E k \in Keys : PaymentSettles(k) \/ Webhook(k)
    \/ Disable \/ Spend \/ Deposit \/ Environment \/ Tick

RechargeSpec == RechargeInit /\ [][RechargeNext]_vars

\* Callers finish the calls they began, the provider its payments, and the
\* provider redelivers an event until it is handled.
RechargeFairSpec ==
    /\ RechargeSpec
    /\ \A c \in Callers : WF_vars(CallerStep(c))
    /\ \A k \in Keys : WF_vars(PaymentSettles(k)) /\ WF_vars(Webhook(k))

-----------------------------------------------------------------------------
(* Properties *)

\* At most one attempt of an account is open, whichever callers race and
\* whichever of them crashed before recording what the provider said
\* (claim_auto_recharge_attempt, billing_auto_recharge_one_active).
OneOpenAttempt == Cardinality(Open) <= 1

\* The provider never holds two payments of one attempt: an attempt resumed
\* after a lost reply reuses its key (ProcessIfNeeded).
OnePaymentPerAttempt ==
    \A j, k \in Keys : /\ payments[j].state # "none" /\ payments[k].state # "none"
                       /\ payments[j].attempt = payments[k].attempt
                       => j = k

\* Attempts exclude one another: one is open at a time and the provider holds one
\* payment of each, however callers race, crash and resume.
AttemptsExclusive == OneOpenAttempt /\ OnePaymentPerAttempt

\* No second payment is taken while the credits of one are still to come: an
\* attempt ends only after its grant (paymentSucceeded, advance_auto_recharge_attempt).
OneUngrantedPayment ==
    Cardinality({k \in Keys : /\ payments[k].state \in {"processing", "action", "succeeded"}
                              /\ events[k] \in {"none", "sent"}}) <= 1

\* The payments taken for attempts of one policy window never exceed the
\* policy's max_purchases, and neither does what a status reports
\* (claim_auto_recharge_attempt, GetStatus).
PurchasesBounded ==
    /\ GetStatus.recharges <= MaxPurchases
    /\ \A t \in 0..now :
        LET w == RechargeWindow(t) IN
           Cardinality({k \in Keys : /\ payments[k].state = "succeeded"
                                     /\ w.start <= attempts[payments[k].attempt].created
                                     /\ attempts[payments[k].attempt].created < w.end})
               <= MaxPurchases

\* An active profile waits disarmed only while the balance has not come back
\* above rearm_above (rearm_auto_recharge_profile, advance_auto_recharge_attempt).
RearmedAboveLine ==
    profile.state = "active" /\ ~profile.armed => balance < RearmAbove

\* A payment whose event was handled ends its attempt (paymentSucceeded,
\* paymentFailed, UpdateAutoRechargeAttemptByProviderPayment).
AttemptsSettle ==
    \A k \in Keys : events[k] = "done" ~> attempts[payments[k].attempt].state \in FinalStates
=============================================================================
