------------------------------ MODULE Checkout ------------------------------
(***************************************************************************)
(* Hosted checkouts of one account (commerce.go, commerce_management.go,    *)
(* postgres_commerce.go, 023_billing_document_rpc.sql) and the registry of  *)
(* lazily built payment providers they go through (provider.go).            *)
(*                                                                          *)
(* A call of CreateCheckout is several transactions and requests: it        *)
(* chooses a provider, has the registry build it, creates or finds the      *)
(* intent of its operation key, asks the provider for a session and         *)
(* attaches it.  Between any two of them another call, a status poll, a     *)
(* webhook or the clock may move the same intent, and the caller may die.   *)
(***************************************************************************)
EXTENDS Naturals, FiniteSets

CONSTANTS
    Callers,          \* goroutines of the application
    Keys,             \* operation keys
    Requests,         \* what a call asks for: [offer, provider, quantity]
    Offers,           \* catalog: offer -> [type, providers, default, min, max]
    DefaultProvider,  \* CommerceOptions.DefaultProvider, or None
    MaxCalls,         \* bound: calls made
    MaxClears,        \* bound: ClearProviderCache
    MaxFaults,        \* bound: failed factories, lost replies, dead callers
    None

ASSUME CheckoutAssumption ==
    /\ MaxCalls \in Nat /\ MaxClears \in Nat /\ MaxFaults \in Nat
    /\ \A r \in Requests : r.offer \in DOMAIN Offers

Providers == UNION {Offers[o].providers : o \in DOMAIN Offers}

\* An intent, and a provider's session, is found by provider and operation key.
Ids == Providers \X Keys

VARIABLES
    call,       \* caller -> the call it makes or made last
    calls,      \* calls begun
    cache,      \* provider -> registry generation its cached instance was built in
    loading,    \* provider -> the caller whose factory call is in flight
    generation, \* ProviderRegistry.generation
    intents,    \* id -> row of billing_checkout_intents, or None
    late,       \* ids whose expires_at has passed
    sessions,   \* id -> session of the provider, or None
    made,       \* id -> sessions the provider made under this key
    memory,     \* ids whose idempotency key the provider still remembers
    customers,  \* providers with a row in billing_customers
    subscription, \* provider of the account's blocking subscription, or None
    faults      \* faults so far

registry == <<cache, loading, generation>>
remote == <<sessions, made, memory>>
account == <<customers, subscription>>
vars == <<call, calls, registry, intents, late, remote, account, faults>>

NoCall == [pc |-> "idle", kind |-> "none", key |-> None, req |-> None, provider |-> None,
           since |-> 0, on |-> None, inst |-> None, then |-> "none",
           seen |-> None, to |-> "none", answer |-> "none"]

Id(c) == <<call[c].provider, call[c].key>>

-----------------------------------------------------------------------------
(* Steps of a call *)

\* The call goes on as d.
Goes(c, d) == call' = [call EXCEPT ![c] = d]

\* A call that returned: the caller knows its answer, and what a session is for.
Returned(d, a) ==
    IF a = "session" THEN [NoCall EXCEPT !.pc = "done", !.key = d.key, !.req = d.req,
                                         !.provider = d.provider, !.answer = a]
    ELSE [NoCall EXCEPT !.pc = "done", !.answer = a]

Returns(c, a) == call' = [call EXCEPT ![c] = Returned(@, a)]

Fault == faults < MaxFaults /\ faults' = faults + 1

-----------------------------------------------------------------------------
(* Choosing a provider *)

\* checkoutQuantity: a subscription is bought once; a pack within its bounds.
CheckoutQuantity(o, q) ==
    LET n == IF q = None THEN Offers[o].default ELSE q IN
    IF Offers[o].type = "subscription" THEN IF q \in {None, 1} THEN 1 ELSE None
    ELSE IF n >= 1 /\ n >= Offers[o].min /\ n <= Offers[o].max THEN n ELSE None

\* get_billing_customer orders its rows by provider name.
Before(p, q) == p = q \/ p = "dodo"

\* The provider of the account's subscription comes before that of its customer
\* (get_billing_customer's first row by name), the customer's before the default.
Fallback ==
    IF subscription # None THEN subscription
    ELSE IF customers # {} THEN CHOOSE p \in customers : \A q \in customers : Before(p, q)
    ELSE DefaultProvider

\* Select: the requested provider, the fallback, or the only compatible one.
Select(requested, fallback, compatible) ==
    LET named == IF requested # None THEN requested ELSE fallback IN
    IF named # None THEN IF named \in compatible THEN named ELSE None
    ELSE IF Cardinality(compatible) = 1 THEN CHOOSE p \in compatible : TRUE ELSE None

\* A call of CreateCheckout enters and has its request validated.
StartCheckout(c, k, r) ==
    /\ call[c].pc \in {"idle", "done"} /\ calls < MaxCalls
    /\ calls' = calls + 1
    /\ LET begun == [NoCall EXCEPT !.pc = "select", !.kind = "create", !.key = k, !.req = r]
       IN call' = [call EXCEPT ![c] = IF CheckoutQuantity(r.offer, r.quantity) = None
                                      THEN Returned(begun, "error") ELSE begun]
    /\ UNCHANGED <<registry, intents, late, remote, account, faults>>

\* CreateCheckout reads the account's subscription and customer, refuses a
\* second subscription, and selects the provider.
SelectProvider(c) ==
    /\ call[c].pc = "select"
    /\ LET o == Offers[call[c].req.offer]
           p == Select(call[c].req.provider, Fallback, o.providers)
       IN IF \/ o.type = "subscription" /\ subscription # None
             \/ p = None
          THEN Returns(c, "error")
          ELSE Goes(c, [call[c] EXCEPT !.pc = "get", !.provider = p, !.then = "intent"])
    /\ UNCHANGED <<calls, registry, intents, late, remote, account, faults>>

-----------------------------------------------------------------------------
(* The provider registry *)

\* Get: the cached instance, or the load in flight, or a load of its own.
Get(c) ==
    /\ call[c].pc = "get"
    /\ LET p == call[c].provider
           now == [call[c] EXCEPT !.since = generation, !.inst = None, !.on = None]
       IN IF cache[p] # None
          THEN /\ Goes(c, [now EXCEPT !.pc = call[c].then, !.inst = cache[p]])
               /\ UNCHANGED loading
          ELSE IF loading[p] # None
          THEN /\ Goes(c, [now EXCEPT !.pc = "wait", !.on = loading[p]])
               /\ UNCHANGED loading
          ELSE /\ loading' = [loading EXCEPT ![p] = c]
               /\ Goes(c, [now EXCEPT !.pc = "load"])
    /\ UNCHANGED <<calls, cache, generation, intents, late, remote, account, faults>>

\* An instance is cached only if no Clear came while its factory ran.
Cacheable(c) == call[c].since = generation

\* Wrong on purpose: a failed load stays registered.
UnloadedOnSuccess(c, ok) == ok

\* Every load, failed or not, leaves the table of loads in flight.
Unloaded(c, ok) == TRUE

\* The factory returns: the caller and those waiting on its load get the result.
FinishLoad(c, ok) ==
    /\ call[c].pc = "load"
    /\ IF ok THEN UNCHANGED faults ELSE Fault
    /\ LET p == call[c].provider
           result(d) == IF ok THEN [call[d] EXCEPT !.pc = call[d].then, !.inst = call[c].since]
                        ELSE Returned(call[d], "error")
       IN /\ call' = [d \in Callers |->
                        IF d = c \/ (call[d].pc = "wait" /\ call[d].on = c)
                        THEN result(d) ELSE call[d]]
          /\ loading' = [loading EXCEPT ![p] = IF @ = c /\ Unloaded(c, ok) THEN None ELSE @]
          /\ cache' = [cache EXCEPT ![p] = IF ok /\ Cacheable(c) THEN call[c].since ELSE @]
    /\ UNCHANGED <<calls, generation, intents, late, remote, account>>

\* ClearProviderCache, after the application rotated its credentials.
Clear ==
    /\ generation < MaxClears
    /\ generation' = generation + 1
    /\ cache' = [p \in Providers |-> None]
    /\ loading' = [p \in Providers |-> None]
    /\ UNCHANGED <<call, calls, intents, late, remote, account, faults>>

-----------------------------------------------------------------------------
(* The intent *)

\* checkoutRequestDigest
RequestDigest(r) == <<r.offer, CheckoutQuantity(r.offer, r.quantity)>>

Digest(c) == RequestDigest(call[c].req)

\* Rows of billing_checkout_intents.
IntentRows == [status : {"open", "completed", "expired", "failed"},
               digest : {RequestDigest(r) : r \in Requests}, session : {None} \cup Ids]

\* None stands for a row, and for a session, that is not there.
ASSUME NoneAssumption == None \notin IntentRows /\ None \notin Ids

\* Wrong on purpose: a key may be bound to another request.
SameRequestAny(c, row) == TRUE

\* The stored digest is compared before anything is asked of the provider.
SameRequest(c, row) == row.digest = Digest(c)

\* Wrong on purpose: an intent that is past its time is resumed.
LapsedNever(id) == FALSE

\* The intent's expires_at is not in the future.
Lapsed(id) == id \in late

\* advance_checkout_intent: a closed intent accepts only the status it has, and
\* no session; an attached session is never replaced.
MayAdvance(row, to, session) ==
    /\ row # None
    /\ row.status = "open" \/ (row.status = to /\ session = None)
    /\ session # None => row.session \in {None, session}

Advanced(row, to, session) ==
    [row EXCEPT !.status = to, !.session = IF session # None THEN session ELSE @]

\* CreateOrGetCheckoutIntent: the row of the key, new or found.
CreateOrGet(c) ==
    IF intents[Id(c)] # None THEN intents[Id(c)]
    ELSE [status |-> "open", digest |-> Digest(c), session |-> None]

\* The intent is created or found: another request's or a closed intent ends the
\* call, an attached session is polled.
CreateIntent(c) ==
    /\ call[c].pc = "intent"
    /\ LET id == Id(c)
           row == CreateOrGet(c)
       IN /\ intents' = [intents EXCEPT ![id] = row]
          /\ IF ~SameRequest(c, row) \/ row.status # "open" THEN Returns(c, "error")
             ELSE IF Lapsed(id) THEN Goes(c, [call[c] EXCEPT !.pc = "close", !.to = "expired"])
             ELSE IF row.session # None
             THEN Goes(c, [call[c] EXCEPT !.pc = "get", !.then = "poll", !.seen = row.session])
             ELSE Goes(c, [call[c] EXCEPT !.pc = "session", !.seen = None])
    /\ UNCHANGED <<calls, registry, late, remote, account, faults>>

\* GetCheckoutStatus reads the intent; a closed one is its own answer.
StartStatus(c, id) ==
    /\ call[c].pc \in {"idle", "done"} /\ calls < MaxCalls /\ intents[id] # None
    /\ calls' = calls + 1
    /\ LET row == intents[id]
           first == [NoCall EXCEPT !.kind = "status", !.provider = id[1], !.key = id[2]]
       IN call' = [call EXCEPT ![c] =
             IF row.status # "open" THEN Returned(first, row.status)
             ELSE IF Lapsed(id) THEN [first EXCEPT !.pc = "close", !.to = "expired"]
             ELSE IF row.session = None THEN Returned(first, "pending")
             ELSE [first EXCEPT !.pc = "get", !.then = "poll", !.seen = row.session]]
    /\ UNCHANGED <<registry, intents, late, remote, account, faults>>

\* stripeCheckoutStatus: a session that is complete and not paid is judged by its
\* payment intent, which a subscription's session does not have.
StripeStatus(s) ==
    CASE s.state = "expired" -> "expired"
      [] s.state = "paid" -> "succeeded"
      [] s.state = "open" -> "processing"
      [] Offers[s.for[1]].type = "subscription" -> "complete"
      [] s.state = "unpaid" -> "processing"
      [] OTHER -> "requires_payment_method"

\* The payment status of a Dodo checkout session, empty before there is a payment.
DodoStatus(s) ==
    CASE s.state = "paid" -> "succeeded"
      [] s.state = "unpaid" -> "processing"
      [] s.state = "failed" -> "failed"
      [] OTHER -> ""

\* resolveCheckoutStatus: the durable status a provider's answer stands for.
DurableStatus(answer) ==
    CASE answer \in {"complete", "completed", "paid", "succeeded"} -> "completed"
      [] answer = "expired" -> "expired"
      [] answer \in {"failed", "cancelled", "canceled", "requires_payment_method"} -> "failed"
      [] OTHER -> "open"

\* GetCheckoutSessionStatus
Poll(c) ==
    /\ call[c].pc = "poll"
    /\ LET s == sessions[call[c].seen]
           to == DurableStatus(IF call[c].provider = "stripe" THEN StripeStatus(s) ELSE DodoStatus(s))
       IN
       IF to = "open"
       THEN Returns(c, IF call[c].kind = "create" THEN "session" ELSE "pending")
       ELSE Goes(c, [call[c] EXCEPT !.pc = "close", !.to = to])
    /\ UNCHANGED <<calls, registry, intents, late, remote, account, faults>>

\* UpdateCheckoutIntent with the status the call found; a checkout call has no
\* session to return then.
CloseIntent(c) ==
    /\ call[c].pc = "close"
    /\ LET id == Id(c) IN
       IF MayAdvance(intents[id], call[c].to, None)
       THEN /\ intents' = [intents EXCEPT ![id] = Advanced(@, call[c].to, None)]
            /\ Returns(c, IF call[c].kind = "create" THEN "error" ELSE call[c].to)
       ELSE Returns(c, "error") /\ UNCHANGED intents
    /\ UNCHANGED <<calls, registry, late, remote, account, faults>>

-----------------------------------------------------------------------------
(* The session *)

\* The operation key is the provider's idempotency key: a key it knows answers
\* with the session it made.
Remembers(id) == id \in memory

\* CreateCheckoutSession at the provider; its reply may be lost.
CreateSession(c, replied) ==
    /\ call[c].pc = "session"
    /\ IF replied THEN UNCHANGED faults ELSE Fault
    /\ LET id == Id(c) IN
       /\ IF Remembers(id) THEN UNCHANGED remote
          ELSE /\ sessions' = [sessions EXCEPT ![id] = [state |-> "open", for |-> Digest(c),
                                                          asked |-> call[c].req]]
               /\ made' = [made EXCEPT ![id] = @ + 1]
               /\ memory' = memory \cup {id}
       /\ IF replied THEN Goes(c, [call[c] EXCEPT !.pc = "customer", !.seen = id])
          ELSE Returns(c, "error")
    /\ UNCHANGED <<calls, registry, intents, late, account>>

\* Stripe's session may come with a customer, Dodo's never does.
StripeCustomer == BOOLEAN
DodoCustomer == {FALSE}

\* UpsertBillingCustomer, when the session came with a customer.
UpsertCustomer(c, returned) ==
    /\ call[c].pc = "customer"
    /\ returned \in IF call[c].provider = "stripe" THEN StripeCustomer ELSE DodoCustomer
    /\ customers' = IF returned THEN customers \cup {call[c].provider} ELSE customers
    /\ Goes(c, [call[c] EXCEPT !.pc = "attach", !.to = "open"])
    /\ UNCHANGED <<calls, registry, intents, late, remote, subscription, faults>>

\* The session is attached to the intent, or the call fails.
AttachSession(c) ==
    /\ call[c].pc = "attach"
    /\ LET id == Id(c) IN
       IF MayAdvance(intents[id], "open", call[c].seen)
       THEN /\ intents' = [intents EXCEPT ![id] = Advanced(@, "open", call[c].seen)]
            /\ Returns(c, "session")
       ELSE Returns(c, "error") /\ UNCHANGED intents
    /\ UNCHANGED <<calls, registry, late, remote, account, faults>>

-----------------------------------------------------------------------------
(* Faults, time, the customer and the provider *)

\* The call's context ends: whatever it was about to do returns an error.
Cancelled(c) ==
    /\ call[c].pc \notin {"idle", "done", "load"}
    /\ Fault
    /\ Returns(c, "error")
    /\ UNCHANGED <<calls, registry, intents, late, remote, account>>

\* The process dies and is started again.
Restart ==
    /\ Fault
    /\ \E c \in Callers : call[c].pc \notin {"idle", "done"}
    /\ call' = [c \in Callers |-> NoCall]
    /\ cache' = [p \in Providers |-> None]
    /\ loading' = [p \in Providers |-> None]
    /\ UNCHANGED <<calls, generation, intents, late, remote, account>>

\* CheckoutIntentTTL passes; nobody asks a closed intent for its time.
Lapse(id) ==
    /\ intents[id] # None /\ intents[id].status = "open" /\ id \notin late
    /\ late' = late \cup {id}
    /\ UNCHANGED <<call, calls, registry, intents, remote, account, faults>>

\* The provider forgets an idempotency key after its retention (a day, as long as
\* an intent lives), which no single call of Bursar outlasts.
Forget(id) ==
    /\ id \in memory \cap late
    /\ \A c \in Callers : call[c].pc = "session" => Id(c) # id
    /\ memory' = memory \ {id}
    /\ UNCHANGED <<call, calls, registry, intents, late, sessions, made, account, faults>>

\* The customer pays, pays by a method that settles later, or lets it expire.
SessionMoves(id, to) ==
    /\ sessions[id] # None
    /\ \/ sessions[id].state = "open" /\ to \in {"paid", "unpaid", "expired"}
       \/ sessions[id].state = "unpaid" /\ to \in {"paid", "failed"}
    /\ sessions' = [sessions EXCEPT ![id].state = to]
    /\ UNCHANGED <<call, calls, registry, intents, late, made, memory, account, faults>>

\* A verified webhook of the session: the account's customer and subscription are
\* recorded, and the intent is closed unless it is closed otherwise already.
Webhook(id) ==
    /\ sessions[id] # None /\ sessions[id].state \in {"paid", "failed", "expired"}
    /\ LET s == sessions[id]
           paid == s.state = "paid"
           to == IF paid THEN "completed" ELSE s.state
       IN /\ intents' = IF MayAdvance(intents[id], to, None)
                        THEN [intents EXCEPT ![id] = Advanced(@, to, None)] ELSE intents
          /\ customers' = IF paid THEN customers \cup {id[1]} ELSE customers
          /\ subscription' = IF paid /\ Offers[s.for[1]].type = "subscription"
                                /\ subscription = None
                             THEN id[1] ELSE subscription
    /\ UNCHANGED <<call, calls, registry, late, remote, faults>>

-----------------------------------------------------------------------------
Init ==
    /\ call = [c \in Callers |-> NoCall]
    /\ calls = 0
    /\ cache = [p \in Providers |-> None]
    /\ loading = [p \in Providers |-> None]
    /\ generation = 0
    /\ intents = [id \in Ids |-> None]
    /\ late = {}
    /\ sessions = [id \in Ids |-> None]
    /\ made = [id \in Ids |-> 0]
    /\ memory = {}
    /\ customers = {}
    /\ subscription = None
    /\ faults = 0

\* What a call does by itself.
CallStep(c) ==
    \/ SelectProvider(c)
    \/ Get(c)
    \/ FinishLoad(c, TRUE) \/ FinishLoad(c, FALSE)
    \/ CreateIntent(c)
    \/ Poll(c)
    \/ CloseIntent(c)
    \/ CreateSession(c, TRUE) \/ CreateSession(c, FALSE)
    \/ \E returned \in BOOLEAN : UpsertCustomer(c, returned)
    \/ AttachSession(c)

Next ==
    \/ \E c \in Callers :
         \/ \E k \in Keys, r \in Requests : StartCheckout(c, k, r)
         \/ \E id \in Ids : StartStatus(c, id)
         \/ CallStep(c)
         \/ Cancelled(c)
    \/ Restart
    \/ Clear
    \/ \E id \in Ids :
         \/ Lapse(id)
         \/ Forget(id)
         \/ \E to \in {"paid", "unpaid", "failed", "expired"} : SessionMoves(id, to)
         \/ Webhook(id)

CheckoutSpec == Init /\ [][Next]_vars

\* Goroutines are scheduled and factories and requests return.
FairCheckoutSpec == CheckoutSpec /\ \A c \in Callers : WF_vars(CallStep(c))

-----------------------------------------------------------------------------
(* Properties *)

\* One operation key never has two sessions at a provider, whatever was retried:
\* by the time the provider forgets the key the intent is past its time
\* (commerce.go:485-491, the operation key as provider key at commerce.go:517).
OneSessionPerIntent == \A id \in Ids : made[id] <= 1

\* A session a caller is sent to is for the offer and quantity it asked for, even
\* when another call used the same key (commerce.go:470-476).
SessionIsWhatWasAsked ==
    \A c \in Callers : call[c].answer = "session" => sessions[Id(c)].for = Digest(c)

\* A caller is sent only to a session that the intent of its key names, so that a
\* webhook or a poll finds it (commerce.go:542-549).
SessionIsAttached ==
    \A c \in Callers : call[c].answer = "session" =>
        intents[Id(c)] # None /\ intents[Id(c)].session = Id(c)

\* A caller is sent only to the session of its own request, and only to one that a
\* webhook can find.
SessionMatches == SessionIsWhatWasAsked /\ SessionIsAttached

\* Every call returns: no lookup waits on a load that is gone (provider.go:291-326).
CallsReturn ==
    \A c \in Callers : call[c].pc \notin {"idle", "done"} ~> call[c].pc \in {"idle", "done"}

\* A retry of one operation, same key and same request, resumes the checkout the
\* first attempt made; it does not open another (commerce.go:314-315).
OneCheckoutPerOperation ==
    \A k \in Keys : \A p, q \in Providers :
        /\ sessions[<<p, k>>] # None /\ sessions[<<q, k>>] # None
        /\ sessions[<<p, k>>].asked = sessions[<<q, k>>].asked
        => p = q

=============================================================================
