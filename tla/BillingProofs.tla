--------------------------- MODULE BillingProofs ----------------------------
(***************************************************************************)
(* Proofs about Billing, for any set of workers, webhooks, subscriptions,  *)
(* payments and refunds:                                                   *)
(*   - BillingSettles: the processor implements Settlement, whatever is    *)
(*     retried, lost or reordered;                                         *)
(*   - BillingEndsAccess: an ended subscription is not the plan's source.  *)
(***************************************************************************)
EXTENDS Billing, FiniteSetTheorems, WellFoundedInduction, TLAPS

-----------------------------------------------------------------------------
(***************************************************************************)
(* Sums over finite sets: the laws of MapThenSumSet for a function's       *)
(* values, each by a smallest counterexample among the subsets of a finite *)
(* set.                                                                    *)
(***************************************************************************)

\* The sum of f over S.
SumOver(f, S) == MapThenSumSet(LAMBDA x : f[x], S)

\* A non-empty family of subsets of a finite set has a smallest member.
LEMMA SmallestSet ==
  ASSUME NEW S, IsFiniteSet(S), NEW T, T \subseteq SUBSET S, T # {}
  PROVE  \E U \in T : \A V \in T : V \subseteq U => V = U
<1> DEFINE R == StrictSubsetOrdering(S)
<1>1. IsWellFoundedOn(R, FiniteSubsetsOf(S))
  BY FS_StrictSubsetOrderingWellFounded, Zenon
<1>2. T \subseteq FiniteSubsetsOf(S)
  BY FS_Subset DEF FiniteSubsetsOf
<1>3. PICK U \in T : \A V \in T : ~ (<<V, U>> \in R)
  <2> HIDE DEF R
  <2> QED BY <1>1, <1>2, WFMin, Zenon
<1>4. ASSUME NEW V \in T, V \subseteq U PROVE V = U
  <2> SUFFICES ASSUME V # U PROVE FALSE
    OBVIOUS
  <2>1. V \subseteq S /\ U \subseteq S
    OBVIOUS
  <2>2. <<V, U>> \in R
    BY <1>4, <2>1 DEF StrictSubsetOrdering
  <2> QED BY <1>3, <2>2
<1> QED BY <1>4

\* The element the fold takes from T next.
First(T) == CHOOSE x \in T : TRUE

Rest(T) == T \ {First(T)}

\* s is the table of the sums of f over the subsets of S.
IsFold(s, f, S) ==
  s = [T \in SUBSET S |-> IF T = {} THEN 0 ELSE f[First(T)] + s[Rest(T)]]

LEMMA RestParts ==
  ASSUME NEW T, T # {}
  PROVE  First(T) \in T /\ Rest(T) \subseteq T /\ Rest(T) # T /\ First(T) \notin Rest(T)
BY DEF First, Rest

LEMMA FoldAt ==
  ASSUME NEW s, NEW f, NEW S, IsFold(s, f, S), NEW T, T \subseteq S
  PROVE  s[T] = IF T = {} THEN 0 ELSE f[First(T)] + s[Rest(T)]
BY DEF IsFold

\* Two tables agree where both are defined.
LEMMA FoldsAgree ==
  ASSUME NEW f, NEW S, NEW P, NEW s, NEW r, IsFiniteSet(S),
         IsFold(s, f, S), IsFold(r, f, P), NEW X, X \subseteq S, X \subseteq P
  PROVE  s[X] = r[X]
<1> DEFINE B == {T \in SUBSET X : s[T] # r[T]}
<1> SUFFICES ASSUME B # {} PROVE FALSE
  OBVIOUS
<1>1. PICK U \in B : \A V \in B : V \subseteq U => V = U
  <2>1. B \subseteq SUBSET S
    OBVIOUS
  <2> HIDE DEF B
  <2> QED BY <2>1, SmallestSet
<1>2. U \subseteq S /\ U \subseteq P /\ U \subseteq X
  OBVIOUS
<1>3. s[U] = (IF U = {} THEN 0 ELSE f[First(U)] + s[Rest(U)])
  BY <1>2, FoldAt
<1>4. r[U] = (IF U = {} THEN 0 ELSE f[First(U)] + r[Rest(U)])
  BY <1>2, FoldAt
<1>5. U # {}
  BY <1>1, <1>3, <1>4
<1>6. Rest(U) \in SUBSET X /\ Rest(U) \subseteq U /\ Rest(U) # U
  BY <1>2, <1>5, RestParts
<1>7. Rest(U) \notin B
  BY <1>1, <1>6
<1>8. s[Rest(U)] = r[Rest(U)]
  BY <1>6, <1>7
<1> QED BY <1>1, <1>3, <1>4, <1>5, <1>8

\* The recursive definition inside the sum has a solution.
LEMMA FoldExists ==
  ASSUME NEW f, NEW S, IsFiniteSet(S)
  PROVE  \E s : IsFold(s, f, S)
<1> DEFINE B == {T \in SUBSET S : ~ \E s : IsFold(s, f, T)}
<1> SUFFICES ASSUME B # {} PROVE FALSE
  OBVIOUS
<1>1. PICK U \in B : \A V \in B : V \subseteq U => V = U
  <2>1. B \subseteq SUBSET S
    OBVIOUS
  <2> HIDE DEF B
  <2> QED BY <2>1, SmallestSet
<1> DEFINE q(T) == CHOOSE s : IsFold(s, f, T)
           t == [T \in SUBSET U |->
                   IF T = {} THEN 0 ELSE f[First(T)] + q(Rest(T))[Rest(T)]]
<1>2. ASSUME NEW T, T \subseteq U, T # U
      PROVE  IsFold(q(T), f, T) /\ IsFiniteSet(T)
  <2>1. T \notin B /\ T \subseteq S
    BY <1>1, <1>2
  <2>2. \E s : IsFold(s, f, T)
    BY <2>1
  <2> QED BY <2>1, <2>2, FS_Subset
<1>3. ASSUME NEW T \in SUBSET U, T # {}
      PROVE  q(Rest(T))[Rest(T)] = t[Rest(T)]
  <2> DEFINE W == Rest(T)
  <2>1. W \subseteq U /\ W # U
    BY <1>3, RestParts
  <2>2. IsFold(q(W), f, W) /\ IsFiniteSet(W)
    BY <1>2, <2>1
  <2>3. q(W)[W] = IF W = {} THEN 0 ELSE f[First(W)] + q(W)[Rest(W)]
    <3> HIDE DEF W, q
    <3> QED BY <2>2, FoldAt
  <2>4. t[W] = IF W = {} THEN 0 ELSE f[First(W)] + q(Rest(W))[Rest(W)]
    BY <2>1
  <2>5. ASSUME W # {} PROVE q(W)[Rest(W)] = q(Rest(W))[Rest(W)]
    <3>1. Rest(W) \subseteq U /\ Rest(W) # U /\ Rest(W) \subseteq W
      BY <2>1, <2>5, RestParts
    <3>2. IsFold(q(Rest(W)), f, Rest(W))
      BY <1>2, <3>1
    <3> HIDE DEF W, q
    <3> QED BY <2>2, <3>1, <3>2, FoldsAgree
  <2> QED BY <2>3, <2>4, <2>5
<1>4. IsFold(t, f, U)
  <2>1. \A T \in SUBSET U : (IF T = {} THEN 0 ELSE f[First(T)] + q(Rest(T))[Rest(T)])
                             = (IF T = {} THEN 0 ELSE f[First(T)] + t[Rest(T)])
    <3> HIDE DEF t, q
    <3> QED BY <1>3
  <2> DEFINE u == t
  <2>2. t = [T \in SUBSET U |-> IF T = {} THEN 0 ELSE f[First(T)] + u[Rest(T)]]
    <3> HIDE DEF u, q
    <3> QED BY <2>1 DEF u
  <2> QED BY <2>2 DEF IsFold
<1> QED BY <1>1, <1>4

\* The sum reads a table at the whole set.
LEMMA SumOverIsFold ==
  ASSUME NEW f, NEW S, IsFiniteSet(S)
  PROVE  \E s : IsFold(s, f, S) /\ SumOver(f, S) = s[S]
<1>1. \E s : IsFold(s, f, S)
  BY FoldExists
<1> QED BY <1>1 DEF SumOver, MapThenSumSet, MapThenFoldSet, IsFold, First, Rest

\* An empty sum is zero; another one takes its first element.
LEMMA SumOverStep ==
  ASSUME NEW f, NEW S, IsFiniteSet(S)
  PROVE  SumOver(f, S) = IF S = {} THEN 0 ELSE f[First(S)] + SumOver(f, Rest(S))
<1>1. PICK s : IsFold(s, f, S) /\ SumOver(f, S) = s[S]
  BY SumOverIsFold
<1>2. s[S] = IF S = {} THEN 0 ELSE f[First(S)] + s[Rest(S)]
  BY <1>1, FoldAt
<1>3. ASSUME S # {} PROVE s[Rest(S)] = SumOver(f, Rest(S))
  <2>1. Rest(S) \subseteq S /\ IsFiniteSet(Rest(S))
    BY <1>3, RestParts, FS_Subset
  <2>2. PICK r : IsFold(r, f, Rest(S)) /\ SumOver(f, Rest(S)) = r[Rest(S)]
    BY <2>1, SumOverIsFold
  <2> QED BY <1>1, <2>1, <2>2, FoldsAgree
<1> QED BY <1>1, <1>2, <1>3

\* A sum of natural numbers is one, and termwise smaller terms have no larger sum.
LEMMA SumOverAtMost ==
  ASSUME NEW f, NEW g, NEW S, IsFiniteSet(S),
         \A x \in S : f[x] \in Nat /\ g[x] \in Nat /\ f[x] <= g[x]
  PROVE  SumOver(f, S) \in Nat /\ SumOver(g, S) \in Nat /\ SumOver(f, S) <= SumOver(g, S)
<1> DEFINE Good(T) == /\ SumOver(f, T) \in Nat /\ SumOver(g, T) \in Nat
                      /\ SumOver(f, T) <= SumOver(g, T)
           B == {T \in SUBSET S : ~ Good(T)}
<1> SUFFICES ASSUME B # {} PROVE FALSE
  OBVIOUS
<1>1. PICK U \in B : \A V \in B : V \subseteq U => V = U
  <2>1. B \subseteq SUBSET S
    OBVIOUS
  <2> HIDE DEF B
  <2> QED BY <2>1, SmallestSet
<1>2. U \subseteq S /\ IsFiniteSet(U)
  BY FS_Subset
<1>3. /\ SumOver(f, U) = IF U = {} THEN 0 ELSE f[First(U)] + SumOver(f, Rest(U))
      /\ SumOver(g, U) = IF U = {} THEN 0 ELSE g[First(U)] + SumOver(g, Rest(U))
  BY <1>2, SumOverStep
<1>4. U # {}
  BY <1>1, <1>3
<1>5. First(U) \in S /\ Rest(U) \in SUBSET S /\ Rest(U) \subseteq U /\ Rest(U) # U
  BY <1>2, <1>4, RestParts
<1>6. Good(Rest(U))
  BY <1>1, <1>5
<1>7. f[First(U)] \in Nat /\ g[First(U)] \in Nat /\ f[First(U)] <= g[First(U)]
  BY <1>5
<1> QED BY <1>1, <1>3, <1>4, <1>6, <1>7

\* Equal terms have equal sums.
LEMMA SumOverEqual ==
  ASSUME NEW f, NEW g, NEW S, IsFiniteSet(S), \A x \in S : f[x] = g[x]
  PROVE  SumOver(f, S) = SumOver(g, S)
<1> DEFINE B == {T \in SUBSET S : SumOver(f, T) # SumOver(g, T)}
<1> SUFFICES ASSUME B # {} PROVE FALSE
  OBVIOUS
<1>1. PICK U \in B : \A V \in B : V \subseteq U => V = U
  <2>1. B \subseteq SUBSET S
    OBVIOUS
  <2> HIDE DEF B
  <2> QED BY <2>1, SmallestSet
<1>2. U \subseteq S /\ IsFiniteSet(U)
  BY FS_Subset
<1>3. /\ SumOver(f, U) = IF U = {} THEN 0 ELSE f[First(U)] + SumOver(f, Rest(U))
      /\ SumOver(g, U) = IF U = {} THEN 0 ELSE g[First(U)] + SumOver(g, Rest(U))
  BY <1>2, SumOverStep
<1>4. U # {}
  BY <1>1, <1>3
<1>5. First(U) \in S /\ Rest(U) \in SUBSET S /\ Rest(U) \subseteq U /\ Rest(U) # U
  BY <1>2, <1>4, RestParts
<1>6. SumOver(f, Rest(U)) = SumOver(g, Rest(U))
  BY <1>1, <1>5
<1> QED BY <1>1, <1>3, <1>4, <1>5, <1>6

\* Any element can be taken first.
LEMMA SumOverTake ==
  ASSUME NEW f, NEW S, IsFiniteSet(S), \A x \in S : f[x] \in Nat, NEW y \in S
  PROVE  SumOver(f, S) = f[y] + SumOver(f, S \ {y})
<1> DEFINE B == {T \in SUBSET S : \E x \in T : SumOver(f, T) # f[x] + SumOver(f, T \ {x})}
<1> SUFFICES ASSUME B # {} PROVE FALSE
  OBVIOUS
<1>1. PICK U \in B : \A V \in B : V \subseteq U => V = U
  <2>1. B \subseteq SUBSET S
    OBVIOUS
  <2> HIDE DEF B
  <2> QED BY <2>1, SmallestSet
<1>2. PICK x \in U : SumOver(f, U) # f[x] + SumOver(f, U \ {x})
  BY <1>1
<1> DEFINE c == First(U)
<1>3. U \subseteq S /\ IsFiniteSet(U) /\ U # {} /\ c \in U
  BY <1>2, FS_Subset, RestParts
<1>4. SumOver(f, U) = f[c] + SumOver(f, U \ {c})
  BY <1>3, SumOverStep DEF Rest
<1>5. c # x
  BY <1>2, <1>4
<1>6. ASSUME NEW v \in U, NEW w \in U, v # w
      PROVE  SumOver(f, U \ {v}) = f[w] + SumOver(f, (U \ {v}) \ {w})
  <2>1. U \ {v} \subseteq U /\ U \ {v} # U /\ w \in U \ {v} /\ U \ {v} \in SUBSET S
    BY <1>3, <1>6
  <2>2. U \ {v} \notin B
    BY <1>1, <2>1
  <2> QED BY <2>1, <2>2
<1>7. SumOver(f, U \ {c}) = f[x] + SumOver(f, (U \ {c}) \ {x})
  BY <1>2, <1>3, <1>5, <1>6
<1>8. SumOver(f, U \ {x}) = f[c] + SumOver(f, (U \ {x}) \ {c})
  BY <1>2, <1>3, <1>5, <1>6
<1>9. (U \ {c}) \ {x} = (U \ {x}) \ {c}
  OBVIOUS
<1>10. SumOver(f, (U \ {x}) \ {c}) \in Nat
  <2>1. IsFiniteSet((U \ {x}) \ {c}) /\ \A z \in (U \ {x}) \ {c} : f[z] \in Nat
    BY <1>3, FS_Subset
  <2>2. \A z \in (U \ {x}) \ {c} : f[z] <= f[z]
    BY <2>1
  <2> HIDE DEF c
  <2> QED BY <2>1, <2>2, SumOverAtMost
<1>11. f[x] \in Nat /\ f[c] \in Nat
  BY <1>2, <1>3
<1> HIDE DEF c
<1> QED BY <1>2, <1>4, <1>7, <1>8, <1>9, <1>10, <1>11


-----------------------------------------------------------------------------
(* The events the adapters produce *)

\* e has the instant of webhook w and, when it names a refund, its refund and payment.
From(w, e) ==
  /\ {"at", "refund", "pay"} \subseteq DOMAIN e
  /\ e.at = w.at
  /\ e.refund = None \/ (e.refund = w.refund /\ e.pay = w.pay)

LEMMA FromEvent ==
  ASSUME NEW w
  PROVE  From(w, BillingEvent(w)) /\ BillingEvent(w).refund = None
BY DEF From, BillingEvent

\* Subscription data leaves the instant, the refund and the payment.
LEMMA FromSubscriptionInfo ==
  ASSUME NEW w, NEW e, From(w, e), NEW s, NEW status, NEW cancel
  PROVE  From(w, StripeSubscriptionInfo(e, s, status, cancel))
BY DEF From, StripeSubscriptionInfo

LEMMA FromDodo ==
  ASSUME NEW w
  PROVE  From(w, MapDodoEvent(w))
<1> DEFINE e == CASE w.type \in DodoSubscriptionTypes -> DodoSubscription(w)
                  [] w.type \in {"payment.succeeded", "payment.failed", "payment.cancelled"} ->
                       DodoPayment(w)
                  [] w.type \in {"refund.succeeded", "refund.failed"} -> DodoRefund(w)
                  [] w.type \in DodoDisputeTypes -> DodoDispute(w)
                  [] OTHER -> NoEvent(w)
<1>1. From(w, DodoSubscription(w))
  BY DEF From, DodoSubscription, BillingEvent
<1>2. From(w, DodoPayment(w))
  BY DEF From, DodoPayment, BillingEvent
<1>3. From(w, DodoRefund(w))
  BY DEF From, DodoRefund, BillingEvent
<1>4. From(w, DodoDispute(w))
  BY DEF From, DodoDispute, BillingEvent
<1>5. From(w, NoEvent(w))
  BY FromEvent DEF NoEvent
<1>6. From(w, e)
  BY <1>1, <1>2, <1>3, <1>4, <1>5 DEF DodoSubscriptionTypes, DodoDisputeTypes
<1> HIDE DEF e
<1>7. From(w, [e EXCEPT !.id = DodoEventID(w)])
  BY <1>6 DEF From
<1> QED BY <1>7 DEF MapDodoEvent, e

LEMMA FromStripe ==
  ASSUME NEW w, NEW l
  PROVE  From(w, MapStripeEvent(w, l))
<1>1. From(w, StripeCheckout(w, l))
  <2>1. ASSUME NEW r
        PROVE  From(w, StripeCheckoutPayment(w, r))
    BY DEF From, StripeCheckoutPayment, BillingEvent
  <2>2. From(w, StripeCheckoutFailed(w, l))
    <3> DEFINE e == [StripeCheckoutPayment(w, "failed") EXCEPT !.type = "payment.failed"]
    <3>1. From(w, e)
      BY <2>1 DEF From
    <3> HIDE DEF e
    <3> QED BY <3>1, FromSubscriptionInfo DEF StripeCheckoutFailed, e
  <2>3. From(w, StripeCheckoutPaid(w, l))
    <3> DEFINE e == [BillingEvent(w) EXCEPT !.type = "checkout.completed"]
               d == [StripeCheckoutPayment(w, "succeeded") EXCEPT !.type = "payment.succeeded"]
    <3>1. From(w, e)
      BY FromEvent DEF From
    <3>2. From(w, d)
      BY <2>1 DEF From
    <3> HIDE DEF e, d
    <3> QED BY <3>1, <3>2, FromSubscriptionInfo DEF StripeCheckoutPaid, e, d
  <2>4. From(w, [BillingEvent(w) EXCEPT !.type = "checkout.expired"])
    BY FromEvent DEF From
  <2>5. From(w, NoEvent(w))
    BY FromEvent DEF NoEvent
  <2> QED BY <2>2, <2>3, <2>4, <2>5 DEF StripeCheckout
<1>2. From(w, StripeSubscription(w))
  <2> DEFINE e == [BillingEvent(w) EXCEPT !.type = StripeSubscriptionType(w)]
  <2>1. From(w, e)
    BY FromEvent DEF From
  <2> HIDE DEF e
  <2> QED BY <2>1, FromSubscriptionInfo DEF StripeSubscription, e
<1>3. From(w, StripePaymentIntent(w))
  BY FromEvent DEF From, StripePaymentIntent, BillingEvent, NoEvent
<1>4. From(w, StripeDispute(w))
  BY DEF From, StripeDispute, BillingEvent
<1>5. From(w, StripeInvoice(w, l))
  <2> DEFINE e == IF w.type = "invoice.paid"
                  THEN [BillingEvent(w) EXCEPT !.type = "invoice.paid", !.invoice = w.invoice]
                  ELSE [BillingEvent(w) EXCEPT !.type = "payment.failed", !.pay = w.pay,
                            !.purpose = "subscription", !.result = "failed"]
  <2>1. From(w, e)
    BY DEF From, BillingEvent
  <2>2. From(w, NoEvent(w))
    BY FromEvent DEF NoEvent
  <2> HIDE DEF e
  <2> QED BY <2>1, <2>2, FromSubscriptionInfo DEF StripeInvoice, e
<1>6. From(w, StripeRefund(w))
  BY DEF From, StripeRefund, BillingEvent
<1>7. From(w, NoEvent(w))
  BY FromEvent DEF NoEvent
<1> QED BY <1>1, <1>2, <1>3, <1>4, <1>5, <1>6, <1>7
        DEF MapStripeEvent, StripeCheckoutTypes, StripeSubscriptionTypes

\* What workers know of the events they handle: an instant, and for a refund its payment.
EventOK(e) ==
  /\ {"at", "refund", "pay"} \subseteq DOMAIN e
  /\ e.at \in Nat
  /\ e.refund \in Refunds => e.pay = PaymentOf[e.refund]

LEMMA EventsOK ==
  ASSUME NEW h \in UNION Inboxes
  PROVE  EventOK(EventOf(h))
<1> DEFINE l == Live(h.sub)
           e == MapEvent(h, l)
<1>1. From(h, MockEvent(h))
  BY DEF From, MockEvent, BillingEvent
<1>2. From(h, e)
  BY <1>1, FromDodo, FromStripe DEF MapEvent
<1> HIDE DEF e
<1>3. EventOK(e)
  BY <1>2, ProviderConstants DEF From, EventOK
<1> QED BY <1>3 DEF EventOf, e

\* process writes over the status and the cancellation flag only.
LEMMA ForcedOK ==
  ASSUME NEW e, EventOK(e)
  PROVE  EventOK(Forced(e))
BY DEF EventOK, Forced

-----------------------------------------------------------------------------
(* The workers *)

WorkOK(x) == {"todo", "ev"} \subseteq DOMAIN x /\ EventOK(x.ev)

WorkersOK == DOMAIN work = Workers /\ \A w \in Workers : WorkOK(work[w])

LEMMA IdleOK == WorkOK(Idle)
<1>1. EventOK(BillingEvent(Webhook))
  <2>1. Webhook.at = 0
    BY DEF Webhook
  <2> QED BY <2>1, FromEvent, ProviderConstants DEF From, EventOK
<1>2. {"todo", "ev"} \subseteq DOMAIN Idle /\ Idle.ev = BillingEvent(Webhook)
  BY DEF Idle
<1> QED BY <1>1, <1>2 DEF WorkOK

\* A worker that goes on keeps its event.
LEMMA GoesOn ==
  ASSUME WorkersOK, NEW w \in Workers, NEW todo, Then(w, todo)
  PROVE  WorkersOK'
<1>1. DOMAIN work' = Workers
  BY DEF Then, WorkersOK
<1>2. ASSUME NEW v \in Workers
      PROVE  {"todo", "ev"} \subseteq DOMAIN work'[v] /\ work'[v].ev = work[v].ev
  BY DEF Then, WorkersOK, WorkOK
<1> QED BY <1>1, <1>2 DEF WorkersOK, WorkOK, EventOK

LEMMA Replaced ==
  ASSUME WorkersOK, NEW w \in Workers, NEW x, WorkOK(x), work' = [work EXCEPT ![w] = x]
  PROVE  WorkersOK'
<1>1. DOMAIN work' = Workers
  BY DEF WorkersOK
<1>2. ASSUME NEW v \in Workers
      PROVE  WorkOK(work'[v])
  BY DEF WorkersOK
<1> QED BY <1>1, <1>2 DEF WorkersOK, WorkOK, EventOK

\* Every step of a worker leaves it idle or with an event like the one it had.
LEMMA AdvanceWork ==
  ASSUME WorkersOK, NEW w \in Workers, Advance(w) \/ Crash(w) \/ CallFails(w)
  PROVE  WorkersOK'
<1>1. ASSUME Resolve(w) PROVE WorkersOK'
  <2> DEFINE e == work[w].ev
             account == ResolveAccount(e)
             x == [work[w] EXCEPT !.ev = Forced(e), !.account = account,
                                  !.todo = Process(e, account)]
  <2>1. work' = [work EXCEPT ![w] = x]
    BY <1>1 DEF Resolve, WorkersOK
  <2>2. EventOK(Forced(e))
    BY ForcedOK DEF WorkersOK, WorkOK
  <2>3. WorkOK(x)
    <3> HIDE DEF e, account
    <3>1. {"todo", "ev"} \subseteq DOMAIN work[w]
      BY DEF WorkersOK, WorkOK
    <3>2. {"todo", "ev"} \subseteq DOMAIN x /\ x.ev = Forced(e)
      BY <3>1
    <3> QED BY <2>2, <3>2 DEF WorkOK
  <2> HIDE DEF x
  <2> QED BY <2>1, <2>3, Replaced
<1>2. ASSUME ReadSubscription(w) PROVE WorkersOK'
  <2>1. CASE Fails(w)
    BY <2>1, GoesOn DEF Fails
  <2>2. CASE work' = [work EXCEPT ![w].seen = subs[work[w].ev.sub], ![w].todo = Tail(@)]
    <3> DEFINE x == [work[w] EXCEPT !.seen = subs[work[w].ev.sub], !.todo = Tail(@)]
    <3>1. work' = [work EXCEPT ![w] = x]
      BY <2>2 DEF WorkersOK
    <3>2. {"todo", "ev"} \subseteq DOMAIN work[w]
      BY DEF WorkersOK, WorkOK
    <3>3. {"todo", "ev"} \subseteq DOMAIN x /\ x.ev = work[w].ev
      BY <3>2
    <3>4. WorkOK(x)
      BY <3>3 DEF WorkOK, WorkersOK
    <3> HIDE DEF x
    <3> QED BY <3>1, <3>4, Replaced
  <2> QED BY <1>2, <2>1, <2>2 DEF ReadSubscription
<1>3. ASSUME EndClaim(w, "completed") \/ EndClaim(w, "failed") \/ Crash(w) PROVE WorkersOK'
  <2>1. work' = [work EXCEPT ![w] = Idle]
    BY <1>3 DEF EndClaim, Crash
  <2> QED BY <2>1, IdleOK, Replaced
<1>4. ASSUME Continue(w) \/ Fails(w) \/ Handled(w) \/ \E todo : Then(w, todo) PROVE WorkersOK'
  BY <1>4, GoesOn DEF Continue, Fails, Handled
<1>5. ASSUME UpsertCustomer(w) \/ CheckConflict(w) \/ UpsertSubscription(w) PROVE WorkersOK'
  BY <1>4, <1>5 DEF UpsertCustomer, CheckConflict, UpsertSubscription
<1>6. ASSUME Reconcile(w) PROVE WorkersOK'
  BY <1>4, <1>6 DEF Reconcile
<1>7. ASSUME ApplyChange(w) \/ GraceOfEvent(w) \/ CreateCycleGrant(w) \/ PostCycleGrant(w)
      PROVE  WorkersOK'
  BY <1>4, <1>7 DEF ApplyChange, GraceOfEvent, CreateCycleGrant, PostCycleGrant
<1>8. ASSUME CloseIntent(w) PROVE WorkersOK'
  BY <1>4, <1>8 DEF CloseIntent, UpdateCheckout
<1>9. ASSUME UpsertPayment(w) PROVE WorkersOK'
  BY <1>4, <1>9 DEF UpsertPayment
<1>10. ASSUME CreateTopupGrant(w) \/ PostTopupGrant(w) PROVE WorkersOK'
  BY <1>4, <1>10 DEF CreateTopupGrant, PostTopupGrant
<1>11. ASSUME UpsertRefund(w) PROVE WorkersOK'
  BY <1>4, <1>11 DEF UpsertRefund
<1>12. ASSUME PostRefund(w) PROVE WorkersOK'
  BY <1>4, <1>12 DEF PostRefund
<1>13. ASSUME UpsertDocument(w) PROVE WorkersOK'
  BY <1>4, <1>13 DEF UpsertDocument
<1>14. ASSUME CallFails(w) PROVE WorkersOK'
  BY <1>4, <1>14 DEF CallFails
<1> QED BY <1>1, <1>2, <1>3, <1>5, <1>6, <1>7, <1>8, <1>9, <1>10, <1>11, <1>12, <1>13, <1>14
        DEF Advance, CompleteBillingEvent, FailBillingEvent

\* A worker that claims an event knows what the webhook says.
LEMMA ReceiveWork ==
  ASSUME WorkersOK, NEW w \in Workers, NEW h \in UNION Inboxes, Receive(w, h)
  PROVE  WorkersOK'
<1> DEFINE e == EventOf(h)
           x == [Idle EXCEPT !.ev = e, !.token = ClaimRow(e).attempts, !.todo = <<"resolve">>]
<1>1. work' = [work EXCEPT ![w] = x]
  BY DEF Receive
<1>2. EventOK(e)
  BY EventsOK
<1> HIDE DEF e
<1>3. {"todo", "ev"} \subseteq DOMAIN x /\ x.ev = e
  BY DEF Idle
<1>4. WorkOK(x)
  BY <1>2, <1>3 DEF WorkOK
<1> HIDE DEF x
<1> QED BY <1>1, <1>4, Replaced

-----------------------------------------------------------------------------
(* Subscriptions and the plan *)

\* The entitlement applied is never newer than the version stored, and only an unpaid
\* subscription's grace period is over.
SubOK(r) ==
  /\ {"status", "at", "entAt", "expired"} \subseteq DOMAIN r
  /\ r.at \in Nat /\ r.entAt \in Nat /\ r.expired \in BOOLEAN
  /\ r.entAt <= r.at
  /\ r.expired => r.status = "past_due"

SubsOK == DOMAIN subs = Subs /\ \A s \in Subs : SubOK(subs[s])

\* The plan does not come from s, if its row r says that its access has ended.
EndsAccess(r, s, source) ==
  AutoSelect => ((r.expired \/ (r.status \in Ended /\ r.entAt = r.at)) => source # s)

LEMMA AccessParts == AccessEnds <=> \A s \in Subs : EndsAccess(subs[s], s, plan)
BY DEF AccessEnds, EndsAccess

LEMMA AccessPartsNext == AccessEnds' <=> \A s \in Subs : EndsAccess(subs'[s], s, plan')
BY DEF AccessEnds, EndsAccess

LEMMA NoRowOK == SubOK(NoRow) /\ NoRow.status = None /\ NoRow.expired = FALSE
BY DEF SubOK, NoRow, None

LEMMA UnchangedSubs ==
  ASSUME SubsOK, AccessEnds, UNCHANGED <<subs, plan>>
  PROVE  SubsOK' /\ AccessEnds'
<1>1. subs' = subs /\ plan' = plan
  OBVIOUS
<1>2. AccessEnds'
  BY <1>1, AccessParts, AccessPartsNext
<1> QED BY <1>1, <1>2 DEF SubsOK, SubOK

\* What applySubscription asks for has the event's instant.
LEMMA WantedParts ==
  ASSUME NEW w
  PROVE  /\ {"status", "at", "entAt", "expired"} \subseteq DOMAIN Wanted(w)
         /\ Wanted(w).at = work[w].ev.at
BY DEF Wanted, NoRow

\* upsert_billing_subscription: a later version keeps what was settled for earlier ones.
LEMMA UpsertAccess ==
  ASSUME WorkersOK, SubsOK, AccessEnds, NEW w \in Workers, UpsertSubscription(w)
  PROVE  SubsOK' /\ AccessEnds'
<1> DEFINE e == work[w].ev
           old == subs[e.sub]
           new == Wanted(w)
           m == Merged(new, old)
<1>1. plan' = plan
  BY DEF UpsertSubscription
<1>2. CASE subs' = subs
  BY <1>1, <1>2, UnchangedSubs
<1>3. CASE Newer(e, old) /\ subs' = [subs EXCEPT ![e.sub] = m]
  <2>1. new.at = e.at /\ {"status", "at", "entAt", "expired"} \subseteq DOMAIN new
    BY WantedParts
  <2>2. e.at \in Nat
    BY DEF WorkersOK, WorkOK, EventOK
  <2> HIDE DEF new, e
  <2>3. /\ {"status", "at", "entAt", "expired"} \subseteq DOMAIN m
        /\ m.at = e.at /\ m.entAt = old.entAt /\ m.status = new.status
        /\ m.expired = (old.expired /\ new.status = "past_due" /\ new.grace = old.grace)
    BY <2>1 DEF Merged
  <2> HIDE DEF m
  <2>4. ASSUME e.sub \in Subs
        PROVE  SubOK(m) /\ EndsAccess(m, e.sub, plan)
    <3>1. SubOK(old) /\ EndsAccess(old, e.sub, plan) /\ e.at > old.at
      BY <1>3, <2>4, AccessParts DEF SubsOK, Newer
    <3>2. old.entAt \in Nat /\ old.at \in Nat /\ old.entAt <= old.at /\ old.expired \in BOOLEAN
      BY <3>1 DEF SubOK
    <3>3. m.entAt \in Nat /\ m.at \in Nat /\ m.entAt < m.at
      BY <2>2, <2>3, <3>1, <3>2
    <3>4. m.expired \in BOOLEAN /\ (m.expired => m.status = "past_due" /\ old.expired)
      BY <2>3
    <3>5. SubOK(m)
      BY <2>3, <3>3, <3>4 DEF SubOK
    <3>6. m.entAt # m.at
      BY <3>3
    <3>7. EndsAccess(m, e.sub, plan)
      BY <3>1, <3>4, <3>6 DEF EndsAccess
    <3> QED BY <3>5, <3>7
  <2>5. DOMAIN subs' = Subs
    BY <1>3 DEF SubsOK
  <2>6. ASSUME NEW s \in Subs
        PROVE  SubOK(subs'[s]) /\ EndsAccess(subs'[s], s, plan)
    <3>1. subs'[s] = IF s = e.sub THEN m ELSE subs[s]
      BY <1>3 DEF SubsOK
    <3>2. SubOK(subs[s]) /\ EndsAccess(subs[s], s, plan)
      BY AccessParts DEF SubsOK
    <3> QED BY <2>4, <3>1, <3>2
  <2>7. AccessEnds'
    BY <1>1, <2>6, AccessPartsNext
  <2> QED BY <2>5, <2>6, <2>7 DEF SubsOK, SubOK
<1> QED BY <1>2, <1>3 DEF UpsertSubscription

\* reconcile_subscription_entitlement: the plan goes to, or is taken from, the version that
\* is stored.
LEMMA ReconcileAccess ==
  ASSUME WorkersOK, SubsOK, AccessEnds, NEW w \in Workers, Reconcile(w)
  PROVE  SubsOK' /\ AccessEnds'
<1> DEFINE e == work[w].ev
           s == e.sub
           status == Wanted(w).status
           outcome == Outcome(s, status)
<1>1. CASE UNCHANGED <<subs, plan>>
  BY <1>1, UnchangedSubs
<1>2. CASE /\ ~Stale(w) /\ subs[s].entAt # e.at
           /\ subs' = [subs EXCEPT ![s].entAt = e.at, ![s].entBy = e.id, ![s].outcome = outcome]
           /\ plan' = CASE outcome = "applied" -> s
                        [] outcome = "revoked" -> "terminal"
                        [] OTHER -> plan
  <2>1. subs[s].status = status /\ subs[s].at = e.at
    BY <1>2 DEF Stale
  <2>2. plan' = IF outcome = "applied" THEN s ELSE IF outcome = "revoked" THEN "terminal" ELSE plan
    BY <1>2
  <2>3. AutoSelect => outcome = IF status \in Entitled THEN "applied"
                                ELSE IF status \in Ended /\ plan = s THEN "revoked" ELSE "preserved"
    BY DEF Outcome, Entitled, Ended
  <2>4. e.at \in Nat
    BY DEF WorkersOK, WorkOK, EventOK
  <2>5. DOMAIN subs' = Subs
    BY <1>2 DEF SubsOK
  <2> HIDE DEF outcome, status
  <2>6. ASSUME NEW t \in Subs
        PROVE  SubOK(subs'[t]) /\ EndsAccess(subs'[t], t, plan')
    <3>1. SubOK(subs[t]) /\ EndsAccess(subs[t], t, plan) /\ t # "terminal"
      BY AccessParts, ProviderConstants DEF SubsOK
    <3>2. CASE t # s
      <4>1. subs'[t] = subs[t]
        BY <1>2, <3>2 DEF SubsOK
      <4>2. plan' \in {s, "terminal", plan}
        BY <2>2
      <4> QED BY <3>1, <3>2, <4>1, <4>2 DEF EndsAccess
    <3>3. CASE t = s
      <4> DEFINE r == subs'[t]
      <4>1. r = [subs[t] EXCEPT !.entAt = e.at, !.entBy = e.id, !.outcome = outcome]
        BY <1>2, <3>3 DEF SubsOK
      <4> HIDE DEF r
      <4>2. /\ {"status", "at", "entAt", "expired"} \subseteq DOMAIN r
            /\ r.status = subs[t].status /\ r.at = subs[t].at /\ r.entAt = e.at
            /\ r.expired = subs[t].expired
        BY <3>1, <4>1 DEF SubOK
      <4>3. SubOK(r)
        BY <2>1, <2>4, <3>1, <3>3, <4>2 DEF SubOK
      <4>4. EndsAccess(r, t, plan')
        <5> SUFFICES ASSUME AutoSelect, r.expired \/ (r.status \in Ended /\ r.entAt = r.at)
                     PROVE  plan' # t
          BY DEF EndsAccess
        <5>1. r.status = status /\ (r.expired => status = "past_due")
          BY <2>1, <3>3, <4>2, <4>3 DEF SubOK
        <5>2. CASE r.expired
          <6>1. status \notin Entitled /\ status \notin Ended
            BY <5>1, <5>2 DEF Entitled, Ended
          <6>2. outcome = "preserved"
            BY <2>3, <6>1
          <6>3. plan' = plan /\ plan # t
            BY <2>2, <3>1, <4>2, <5>2, <6>2 DEF EndsAccess
          <6> QED BY <6>3
        <5>3. CASE r.status \in Ended
          <6>1. status \notin Entitled /\ status \in Ended
            BY <5>1, <5>3 DEF Entitled, Ended
          <6>2. outcome = IF plan = s THEN "revoked" ELSE "preserved"
            BY <2>3, <6>1
          <6> QED BY <2>2, <3>1, <3>3, <6>2
        <5> QED BY <5>2, <5>3
      <4> QED BY <4>3, <4>4 DEF r
    <3> QED BY <3>2, <3>3
  <2>7. AccessEnds'
    BY <2>6, AccessPartsNext
  <2> QED BY <2>5, <2>6, <2>7 DEF SubsOK, SubOK
<1> QED BY <1>1, <1>2 DEF Reconcile

\* expire_subscription_grace_period takes the plan with it.
LEMMA ExpireAccess ==
  ASSUME SubsOK, AccessEnds, NEW s, NEW grace, ExpirePastDue(s, grace)
  PROVE  SubsOK' /\ AccessEnds'
<1>1. CASE UNCHANGED <<subs, plan>>
  BY <1>1, UnchangedSubs
<1>2. CASE /\ subs[s].status = "past_due"
           /\ subs' = [subs EXCEPT ![s].expired = TRUE]
           /\ plan' = IF plan = s THEN "terminal" ELSE plan
  <2>1. DOMAIN subs' = Subs
    BY <1>2 DEF SubsOK
  <2>2. ASSUME NEW t \in Subs
        PROVE  SubOK(subs'[t]) /\ EndsAccess(subs'[t], t, plan')
    <3>1. SubOK(subs[t]) /\ EndsAccess(subs[t], t, plan) /\ t # "terminal"
      BY AccessParts, ProviderConstants DEF SubsOK
    <3>2. CASE t # s
      <4>1. subs'[t] = subs[t] /\ plan' \in {"terminal", plan}
        BY <1>2, <3>2 DEF SubsOK
      <4> QED BY <3>1, <4>1 DEF EndsAccess
    <3>3. CASE t = s
      <4> DEFINE r == subs'[t]
      <4>1. r = [subs[t] EXCEPT !.expired = TRUE]
        BY <1>2, <3>3 DEF SubsOK
      <4> HIDE DEF r
      <4>2. /\ {"status", "at", "entAt", "expired"} \subseteq DOMAIN r
            /\ r.status = subs[t].status /\ r.at = subs[t].at /\ r.entAt = subs[t].entAt
            /\ r.expired = TRUE
        BY <3>1, <4>1 DEF SubOK
      <4>3. SubOK(r)
        BY <1>2, <3>1, <3>3, <4>2 DEF SubOK
      <4>4. plan' # t
        BY <1>2, <3>1, <3>3
      <4> QED BY <4>3, <4>4 DEF r, EndsAccess
    <3> QED BY <3>2, <3>3
  <2>3. AccessEnds'
    BY <2>2, AccessPartsNext
  <2> QED BY <2>1, <2>2, <2>3 DEF SubsOK, SubOK
<1> QED BY <1>1, <1>2 DEF ExpirePastDue

-----------------------------------------------------------------------------
(* Grants, refunds and the ledger *)

\* The grants of post are in the ledger exactly when they say so.
PostedOnce(post, count, D) ==
  /\ post \in [D -> {None, "created", "posted"}]
  /\ count \in [D -> {0, 1}]
  /\ \A x \in D : count[x] = 1 <=> post[x] = "posted"

RefundsOf(p) == {r \in Refunds : PaymentOf[r] = p}

\* A refund takes back what is allocated to it, and the allocations of a payment fit into
\* its credits.
RefundsFit(alloc, back) ==
  /\ alloc \in [Refunds -> Nat] /\ back \in [Refunds -> Nat]
  /\ \A r \in Refunds : back[r] = 0 \/ back[r] = alloc[r]
  /\ \A p \in Pays : SumOver(alloc, RefundsOf(p)) <= TopupCredits(p)

LedgerOK ==
  /\ PostedOnce(topups, credited, Pays)
  /\ PostedOnce(cycles, granted, EventIds)
  /\ RefundsFit(allocs, reversed)

LEMMA RefundsFinite ==
  ASSUME NEW p, NEW r
  PROVE  IsFiniteSet(RefundsOf(p)) /\ IsFiniteSet(RefundsOf(p) \ {r})
BY ProviderConstants, FS_Subset DEF RefundsOf

LEMMA CreditsNat ==
  ASSUME NEW p \in Pays
  PROVE  TopupCredits(p) \in Nat
<1>1. Amount[p] \in Nat /\ UnitAmount \in Nat \ {0} /\ CreditsPerUnit \in Nat
  BY BillingConstants
<1>2. Amount[p] \div UnitAmount \in Nat
  BY <1>1
<1>3. \A a, b \in Nat : a * b \in Nat
  OBVIOUS
<1> QED BY <1>1, <1>2, <1>3 DEF TopupCredits

LEMMA ClawbackInt ==
  ASSUME NEW r \in Refunds
  PROVE  ClawbackCredits(r) \in Int
<1> DEFINE p == PaymentOf[r]
           n == Amount[r] * TopupCredits(p)
<1>1. p \in Pays
  BY BillingConstants
<1>2. Amount[r] \in Nat /\ Amount[p] \in Nat \ {0} /\ TopupCredits(p) \in Nat
  BY <1>1, BillingConstants, CreditsNat
<1>3. n \in Nat
  <2>1. \A a, b \in Nat : a * b \in Nat
    OBVIOUS
  <2> QED BY <1>2, <2>1
<1> HIDE DEF n, p
<1>4. RoundedShare(n, Amount[p]) \in Int
  <2>1. 2 * n + Amount[p] \in Nat /\ 2 * Amount[p] \in Nat \ {0}
    BY <1>2, <1>3
  <2> QED BY <2>1 DEF RoundedShare
<1> QED BY <1>4 DEF ClawbackCredits, n, p

\* The grant of x gets its ledger entry.
Posts(x, post, count, post2, count2) ==
  /\ post[x] # "posted"
  /\ post2 = [post EXCEPT ![x] = "posted"]
  /\ count2 = [count EXCEPT ![x] = count[x] + 1]

\* A grant is posted once: its entry is looked at and made in one transaction.
LEMMA PostOnce ==
  ASSUME NEW D, NEW post, NEW count, PostedOnce(post, count, D), NEW x,
         NEW post2, NEW count2, Posts(x, post, count, post2, count2)
  PROVE  /\ PostedOnce(post2, count2, D)
         /\ x \in D => count[x] = 0 /\ count2 = [count EXCEPT ![x] = 1]
         /\ x \notin D => count2 = count
<1>1. CASE x \in D
  <2>1. count[x] = 0
    BY <1>1 DEF PostedOnce, Posts
  <2>2. count2 = [count EXCEPT ![x] = 1]
    BY <2>1 DEF Posts
  <2> QED BY <1>1, <2>1, <2>2 DEF PostedOnce, Posts
<1>2. CASE x \notin D
  <2>1. post2 = post /\ count2 = count
    BY <1>2 DEF PostedOnce, Posts
  <2> QED BY <1>2, <2>1
<1> QED BY <1>1, <1>2

\* A grant row that is created has no entry yet.
LEMMA CreateGrant ==
  ASSUME NEW D, NEW post, NEW count, PostedOnce(post, count, D), NEW x, NEW post2,
         post2 = [post EXCEPT ![x] = IF post[x] = None THEN "created" ELSE post[x]]
  PROVE  PostedOnce(post2, count, D)
<1>1. post2 \in [D -> {None, "created", "posted"}]
  BY DEF PostedOnce
<1>2. ASSUME NEW y \in D
      PROVE  post2[y] = "posted" <=> post[y] = "posted"
  BY DEF PostedOnce, None
<1> QED BY <1>1, <1>2 DEF PostedOnce

\* What other refunds of the payment have been given.
LEMMA AllocatedParts ==
  ASSUME NEW r \in Refunds
  PROVE  AllocatedBesides(r) = SumOver(allocs, RefundsOf(PaymentOf[r]) \ {r})
<1>1. {o \in Refunds \ {r} : PaymentOf[o] = PaymentOf[r]} = RefundsOf(PaymentOf[r]) \ {r}
  BY DEF RefundsOf
<1>2. AllocatedBesides(r) = SumOver(allocs, {o \in Refunds \ {r} : PaymentOf[o] = PaymentOf[r]})
  BY DEF AllocatedBesides, SumOver, MapThenSumSet, MapThenFoldSet
<1> QED BY <1>1, <1>2

LEMMA TakenBackParts ==
  ASSUME NEW p
  PROVE  Settles!TakenBack(p) = SumOver(reversed, RefundsOf(p))
BY DEF Settles!TakenBack, SumOver, RefundsOf, MapThenSumSet, MapThenFoldSet,
       Settles!MapThenSumSet, Settles!MapThenFoldSet

\* alloc is what the allocations become when r has been given its share.
Allocates(r, alloc) ==
  alloc = [allocs EXCEPT ![r] = IF allocs[r] = 0 THEN ClawbackCredits(r) ELSE allocs[r]]

\* Allocating a refund's share keeps the payment's refunds within its credits, and what is
\* taken back besides it leaves room for the share.
LEMMA AllocateFits ==
  ASSUME RefundsFit(allocs, reversed), NEW r \in Refunds, Allocatable(r),
         NEW alloc, Allocates(r, alloc)
  PROVE  /\ alloc \in [Refunds -> Nat] /\ alloc[r] > 0
         /\ \A o \in Refunds : o # r => alloc[o] = allocs[o]
         /\ allocs[r] # 0 => alloc = allocs
         /\ \A p \in Pays : SumOver(alloc, RefundsOf(p)) <= TopupCredits(p)
         /\ SumOver(alloc, RefundsOf(PaymentOf[r]) \ {r}) + alloc[r] <= TopupCredits(PaymentOf[r])
         /\ SumOver(alloc, RefundsOf(PaymentOf[r]) \ {r}) \in Nat
<1> DEFINE q == PaymentOf[r]
           N == RefundsOf(q) \ {r}
<1>1. /\ allocs \in [Refunds -> Nat]
      /\ \A p \in Pays : SumOver(allocs, RefundsOf(p)) <= TopupCredits(p)
  BY DEF RefundsFit
<1>2. ClawbackCredits(r) \in Int
  BY ClawbackInt
<1>3. /\ alloc \in [Refunds -> Nat] /\ alloc[r] > 0
      /\ \A o \in Refunds : o # r => alloc[o] = allocs[o]
      /\ allocs[r] # 0 => alloc = allocs
      /\ allocs[r] = 0 => alloc[r] = ClawbackCredits(r)
  <2>1. CASE allocs[r] = 0
    <3>1. ClawbackCredits(r) > 0
      BY <2>1 DEF Allocatable
    <3> QED BY <1>1, <1>2, <2>1, <3>1 DEF Allocates
  <2>2. CASE allocs[r] # 0
    BY <1>1, <2>2 DEF Allocates
  <2> QED BY <2>1, <2>2
<1>4. q \in Pays /\ r \in RefundsOf(q) /\ IsFiniteSet(N) /\ IsFiniteSet(RefundsOf(q))
  BY BillingConstants, RefundsFinite DEF RefundsOf
<1>5. TopupCredits(q) \in Nat
  BY <1>4, CreditsNat
<1>6. SumOver(alloc, N) = SumOver(allocs, N)
  <2>1. \A o \in N : alloc[o] = allocs[o]
    BY <1>3 DEF RefundsOf
  <2> HIDE DEF N
  <2> QED BY <1>4, <2>1, SumOverEqual
<1>7. SumOver(alloc, N) \in Nat
  <2>1. \A o \in N : alloc[o] \in Nat /\ alloc[o] <= alloc[o]
    BY <1>3 DEF RefundsOf
  <2> HIDE DEF N
  <2> QED BY <1>4, <2>1, SumOverAtMost
<1>8. /\ SumOver(alloc, RefundsOf(q)) = alloc[r] + SumOver(alloc, N)
      /\ SumOver(allocs, RefundsOf(q)) = allocs[r] + SumOver(allocs, N)
  <2>1. \A o \in RefundsOf(q) : alloc[o] \in Nat /\ allocs[o] \in Nat
    BY <1>1, <1>3 DEF RefundsOf
  <2> QED BY <1>4, <2>1, SumOverTake
<1>9. SumOver(alloc, N) + alloc[r] <= TopupCredits(q)
  <2>1. CASE allocs[r] = 0
    <3>1. AllocatedBesides(r) + ClawbackCredits(r) <= TopupCredits(q)
      BY <2>1 DEF Allocatable
    <3>2. AllocatedBesides(r) = SumOver(allocs, N)
      BY AllocatedParts
    <3>3. alloc[r] = ClawbackCredits(r)
      BY <1>3, <2>1
    <3> HIDE DEF N
    <3> QED BY <1>6, <3>1, <3>2, <3>3
  <2>2. CASE allocs[r] # 0
    <3>1. SumOver(allocs, RefundsOf(q)) <= TopupCredits(q) /\ alloc = allocs
      BY <1>1, <1>3, <1>4, <2>2
    <3>2. alloc[r] \in Nat
      BY <1>3
    <3> HIDE DEF N, q
    <3> QED BY <1>5, <1>7, <1>8, <3>1, <3>2
  <2> QED BY <2>1, <2>2
<1>10. ASSUME NEW p \in Pays
       PROVE  SumOver(alloc, RefundsOf(p)) <= TopupCredits(p)
  <2>1. CASE p = q
    <3>1. alloc[r] \in Nat
      BY <1>3
    <3> HIDE DEF N, q
    <3> QED BY <1>5, <1>7, <1>8, <1>9, <2>1, <3>1
  <2>2. CASE p # q
    <3>1. \A o \in RefundsOf(p) : alloc[o] = allocs[o]
      BY <1>3, <2>2 DEF RefundsOf
    <3>2. SumOver(alloc, RefundsOf(p)) = SumOver(allocs, RefundsOf(p))
      BY <3>1, RefundsFinite, SumOverEqual
    <3> QED BY <1>1, <3>2
  <2> QED BY <2>1, <2>2
<1> QED BY <1>3, <1>7, <1>9, <1>10

\* The ledger's part of a step that leaves every grant alone.
LEMMA UnchangedLedger ==
  ASSUME LedgerOK, UNCHANGED grants
  PROVE  LedgerOK' /\ UNCHANGED ledger
<1>1. /\ topups' = topups /\ cycles' = cycles /\ allocs' = allocs
      /\ credited' = credited /\ granted' = granted /\ reversed' = reversed
  BY DEF grants, ledger
<1>2. PostedOnce(topups', credited', Pays) /\ PostedOnce(cycles', granted', EventIds)
      /\ RefundsFit(allocs', reversed')
  BY <1>1 DEF LedgerOK
<1> QED BY <1>1, <1>2 DEF LedgerOK, ledger, PostedOnce, RefundsFit

LEMMA LedgerNext ==
  ASSUME PostedOnce(topups', credited', Pays), PostedOnce(cycles', granted', EventIds),
         RefundsFit(allocs', reversed')
  PROVE  LedgerOK'
BY DEF LedgerOK, PostedOnce, RefundsFit

\* CreateBillingCreditGrant posts nothing.
LEMMA CreateLedger ==
  ASSUME LedgerOK, NEW w \in Workers, CreateCycleGrant(w) \/ CreateTopupGrant(w)
  PROVE  LedgerOK' /\ UNCHANGED ledger
<1>1. CASE CreateCycleGrant(w)
  <2> DEFINE x == work[w].ev.id
  <2>1. /\ topups' = topups /\ allocs' = allocs
        /\ credited' = credited /\ granted' = granted /\ reversed' = reversed
    BY <1>1 DEF CreateCycleGrant, ledger
  <2>2. \/ cycles' = cycles
        \/ cycles' = [cycles EXCEPT ![x] = IF cycles[x] = None THEN "created" ELSE cycles[x]]
    BY <1>1 DEF CreateCycleGrant
  <2> HIDE DEF x
  <2>3. PostedOnce(cycles', granted, EventIds)
    BY <2>2, CreateGrant DEF LedgerOK
  <2> QED BY <2>1, <2>3, LedgerNext DEF LedgerOK, ledger
<1>2. CASE CreateTopupGrant(w)
  <2> DEFINE x == work[w].ev.pay
  <2>1. /\ cycles' = cycles /\ allocs' = allocs
        /\ credited' = credited /\ granted' = granted /\ reversed' = reversed
    BY <1>2 DEF CreateTopupGrant, ledger
  <2>2. \/ topups' = topups
        \/ topups' = [topups EXCEPT ![x] = IF topups[x] = None THEN "created" ELSE topups[x]]
    BY <1>2 DEF CreateTopupGrant
  <2> HIDE DEF x
  <2>3. PostedOnce(topups', credited, Pays)
    BY <2>2, CreateGrant DEF LedgerOK
  <2> QED BY <2>1, <2>3, LedgerNext DEF LedgerOK, ledger
<1> QED BY <1>1, <1>2

\* grant_billing_credit for a top-up is Settlement's CreditPayment, or a replay.
LEMMA TopupSettles ==
  ASSUME LedgerOK, NEW w \in Workers, PostTopupGrant(w)
  PROVE  LedgerOK' /\ [Settles!Next]_ledger
<1> DEFINE p == work[w].ev.pay
<1>1. /\ cycles' = cycles /\ allocs' = allocs /\ granted' = granted /\ reversed' = reversed
  BY DEF PostTopupGrant
<1>2. CASE UNCHANGED <<topups, credited>>
  <2>1. UNCHANGED grants
    BY <1>1, <1>2 DEF grants, ledger
  <2> QED BY <2>1, UnchangedLedger
<1>3. CASE /\ topups[p] # "posted"
           /\ topups' = [topups EXCEPT ![p] = "posted"]
           /\ credited' = [credited EXCEPT ![p] = credited[p] + 1]
  <2> HIDE DEF p
  <2>0. Posts(p, topups, credited, topups', credited')
    BY <1>3 DEF Posts
  <2>1. /\ PostedOnce(topups', credited', Pays)
        /\ p \in Pays => credited[p] = 0 /\ credited' = [credited EXCEPT ![p] = 1]
        /\ p \notin Pays => credited' = credited
    BY <2>0, PostOnce DEF LedgerOK
  <2>2. LedgerOK'
    BY <1>1, <2>1, LedgerNext DEF LedgerOK
  <2>3. CASE p \in Pays
    <3>1. Settles!CreditPayment(p)
      BY <1>1, <2>1, <2>3 DEF Settles!CreditPayment
    <3> QED BY <2>2, <2>3, <3>1 DEF Settles!Next
  <2>4. CASE p \notin Pays
    <3>1. UNCHANGED ledger
      BY <1>1, <2>1, <2>4 DEF ledger
    <3> QED BY <2>2, <3>1
  <2> QED BY <2>3, <2>4
<1> QED BY <1>2, <1>3 DEF PostTopupGrant, Unposted

\* GrantBillingCredit for a renewal is Settlement's GrantCycle, or a replay.
LEMMA CycleSettles ==
  ASSUME LedgerOK, NEW w \in Workers, PostCycleGrant(w)
  PROVE  LedgerOK' /\ [Settles!Next]_ledger
<1> DEFINE e == work[w].ev.id
<1>1. /\ topups' = topups /\ allocs' = allocs /\ credited' = credited /\ reversed' = reversed
  BY DEF PostCycleGrant
<1>2. CASE UNCHANGED <<cycles, granted>>
  <2>1. UNCHANGED grants
    BY <1>1, <1>2 DEF grants, ledger
  <2> QED BY <2>1, UnchangedLedger
<1>3. CASE /\ cycles[e] # "posted"
           /\ cycles' = [cycles EXCEPT ![e] = "posted"]
           /\ granted' = [granted EXCEPT ![e] = granted[e] + 1]
  <2> HIDE DEF e
  <2>0. Posts(e, cycles, granted, cycles', granted')
    BY <1>3 DEF Posts
  <2>1. /\ PostedOnce(cycles', granted', EventIds)
        /\ e \in EventIds => granted[e] = 0 /\ granted' = [granted EXCEPT ![e] = 1]
        /\ e \notin EventIds => granted' = granted
    BY <2>0, PostOnce DEF LedgerOK
  <2>2. LedgerOK'
    BY <1>1, <2>1, LedgerNext DEF LedgerOK
  <2>3. CASE e \in EventIds
    <3>1. Settles!GrantCycle(e)
      BY <1>1, <2>1, <2>3 DEF Settles!GrantCycle
    <3> QED BY <2>2, <2>3, <3>1 DEF Settles!Next
  <2>4. CASE e \notin EventIds
    <3>1. UNCHANGED ledger
      BY <1>1, <2>1, <2>4 DEF ledger
    <3> QED BY <2>2, <3>1
  <2> QED BY <2>3, <2>4
<1> QED BY <1>2, <1>3 DEF PostCycleGrant

\* post_billing_refund allocates without posting, or is Settlement's ReverseRefund.
LEMMA RefundSettles ==
  ASSUME WorkersOK, LedgerOK, NEW w \in Workers, PostRefund(w)
  PROVE  LedgerOK' /\ [Settles!Next]_ledger
<1> DEFINE r == work[w].ev.refund
           p == work[w].ev.pay
<1>1. /\ topups' = topups /\ cycles' = cycles /\ credited' = credited /\ granted' = granted
  BY DEF PostRefund
<1>2. CASE UNCHANGED <<allocs, reversed>>
  <2>1. UNCHANGED grants
    BY <1>1, <1>2 DEF grants, ledger
  <2> QED BY <2>1, UnchangedLedger
<1>3. CASE /\ Allocatable(r)
           /\ allocs' = [allocs EXCEPT ![r] = IF allocs[r] = 0 THEN ClawbackCredits(r)
                                              ELSE allocs[r]]
           /\ reversed' = IF Unposted(topups[p]) \/ reversed[r] # 0 THEN reversed
                          ELSE [reversed EXCEPT ![r] = allocs'[r]]
  <2>1. r \in Refunds => p = PaymentOf[r]
    BY DEF WorkersOK, WorkOK, EventOK
  <2> HIDE DEF r, p
  <2>2. /\ RefundsFit(allocs, reversed)
        /\ allocs \in [Refunds -> Nat] /\ reversed \in [Refunds -> Nat]
        /\ \A o \in Refunds : reversed[o] = 0 \/ reversed[o] = allocs[o]
    BY DEF LedgerOK, RefundsFit
  <2>3. CASE r \notin Refunds
    <3>1. allocs' = allocs /\ reversed' = reversed
      BY <1>3, <2>2, <2>3
    <3> QED BY <1>2, <3>1
  <2>4. CASE r \in Refunds
    <3>1. Allocates(r, allocs')
      BY <1>3 DEF Allocates
    <3>2. /\ allocs' \in [Refunds -> Nat] /\ allocs'[r] > 0
          /\ \A o \in Refunds : o # r => allocs'[o] = allocs[o]
          /\ allocs[r] # 0 => allocs' = allocs
          /\ \A q \in Pays : SumOver(allocs', RefundsOf(q)) <= TopupCredits(q)
          /\ SumOver(allocs', RefundsOf(p) \ {r}) + allocs'[r] <= TopupCredits(p)
          /\ SumOver(allocs', RefundsOf(p) \ {r}) \in Nat
      BY <1>3, <2>1, <2>2, <2>4, <3>1, AllocateFits
    <3>3. CASE reversed' = reversed
      <4>1. \A o \in Refunds : reversed[o] = 0 \/ reversed[o] = allocs'[o]
        BY <2>2, <2>4, <3>2
      <4>2. RefundsFit(allocs', reversed')
        BY <2>2, <3>2, <3>3, <4>1 DEF RefundsFit
      <4>3. LedgerOK'
        BY <1>1, <4>2, LedgerNext DEF LedgerOK
      <4> QED BY <1>1, <3>3, <4>3 DEF ledger
    <3>4. CASE /\ topups[p] = "posted" /\ reversed[r] = 0
               /\ reversed' = [reversed EXCEPT ![r] = allocs'[r]]
      <4>1. /\ reversed' \in [Refunds -> Nat]
            /\ \A o \in Refunds : reversed'[o] = 0 \/ reversed'[o] = allocs'[o]
        BY <2>2, <2>4, <3>2, <3>4
      <4>2. RefundsFit(allocs', reversed')
        BY <3>2, <4>1 DEF RefundsFit
      <4>3. LedgerOK'
        BY <1>1, <4>2, LedgerNext DEF LedgerOK
      <4>4. p \in Pays /\ credited[p] = 1 /\ p = PaymentOf[r]
        BY <2>1, <2>4, <3>4, BillingConstants DEF LedgerOK, PostedOnce
      <4>5. SumOver(reversed, RefundsOf(p)) <= SumOver(allocs', RefundsOf(p) \ {r})
            /\ SumOver(reversed, RefundsOf(p)) \in Nat
        <5>1. r \in RefundsOf(p) /\ IsFiniteSet(RefundsOf(p)) /\ IsFiniteSet(RefundsOf(p) \ {r})
          BY <2>4, <4>4, RefundsFinite DEF RefundsOf
        <5>2. \A o \in RefundsOf(p) : reversed[o] \in Nat
          BY <2>2 DEF RefundsOf
        <5>3. SumOver(reversed, RefundsOf(p)) = reversed[r] + SumOver(reversed, RefundsOf(p) \ {r})
          BY <5>1, <5>2, SumOverTake
        <5>4. \A o \in RefundsOf(p) \ {r} :
                reversed[o] \in Nat /\ allocs'[o] \in Nat /\ reversed[o] <= allocs'[o]
          BY <2>2, <3>2 DEF RefundsOf
        <5>5. /\ SumOver(reversed, RefundsOf(p) \ {r}) \in Nat
              /\ SumOver(reversed, RefundsOf(p) \ {r}) <= SumOver(allocs', RefundsOf(p) \ {r})
          BY <5>1, <5>4, SumOverAtMost
        <5> QED BY <3>4, <5>3, <5>5
      <4>6. allocs'[r] \in 1..(TopupCredits(p) - Settles!TakenBack(p))
        <5>1. Settles!TakenBack(p) = SumOver(reversed, RefundsOf(p))
          BY TakenBackParts
        <5>2. allocs'[r] \in Nat /\ TopupCredits(p) \in Nat
          BY <2>4, <3>2, <4>4, CreditsNat
        <5> QED BY <3>2, <4>5, <5>1, <5>2
      <4>7. [q \in Pays |-> TopupCredits(q)][PaymentOf[r]] = TopupCredits(p)
        BY <4>4
      <4>8. Settles!ReverseRefund(r)
        <5>1. credited[PaymentOf[r]] = 1 /\ reversed[r] = 0 /\ UNCHANGED <<credited, granted>>
          BY <1>1, <3>4, <4>4
        <5>2. \E c \in 1..([q \in Pays |-> TopupCredits(q)][PaymentOf[r]]
                              - Settles!TakenBack(PaymentOf[r])) :
                 reversed' = [reversed EXCEPT ![r] = c]
          BY <3>4, <4>4, <4>6, <4>7
        <5> QED BY <5>1, <5>2 DEF Settles!ReverseRefund
      <4> QED BY <2>4, <4>3, <4>8 DEF Settles!Next
    <3> QED BY <1>3, <3>3, <3>4 DEF Unposted
  <2> QED BY <2>3, <2>4
<1> QED BY <1>2, <1>3 DEF PostRefund

-----------------------------------------------------------------------------
(* The inductive invariant and the theorems *)

BillingInv ==
  /\ inbox \in Inboxes
  /\ WorkersOK
  /\ SubsOK
  /\ AccessEnds
  /\ LedgerOK

\* The sum of zeros is zero.
LEMMA SumOverZeros ==
  ASSUME NEW f, NEW S, IsFiniteSet(S), \A x \in S : f[x] = 0
  PROVE  SumOver(f, S) = 0
<1> DEFINE B == {T \in SUBSET S : SumOver(f, T) # 0}
<1> SUFFICES ASSUME B # {} PROVE FALSE
  OBVIOUS
<1>1. PICK U \in B : \A V \in B : V \subseteq U => V = U
  <2>1. B \subseteq SUBSET S
    OBVIOUS
  <2> HIDE DEF B
  <2> QED BY <2>1, SmallestSet
<1>2. U \subseteq S /\ IsFiniteSet(U)
  BY FS_Subset
<1>3. SumOver(f, U) = IF U = {} THEN 0 ELSE f[First(U)] + SumOver(f, Rest(U))
  BY <1>2, SumOverStep
<1>4. U # {}
  BY <1>1, <1>3
<1>5. First(U) \in S /\ Rest(U) \in SUBSET S /\ Rest(U) \subseteq U /\ Rest(U) # U
  BY <1>2, <1>4, RestParts
<1>6. SumOver(f, Rest(U)) = 0
  BY <1>1, <1>5
<1> QED BY <1>1, <1>3, <1>4, <1>5, <1>6

LEMMA BillingStarts ==
  ASSUME BillingInit
  PROVE  BillingInv /\ Settles!Init
<1>1. inbox \in Inboxes
  BY DEF BillingInit
<1>2. WorkersOK
  <2>1. work = [w \in Workers |-> Idle]
    BY DEF BillingInit
  <2> QED BY <2>1, IdleOK DEF WorkersOK
<1>3. SubsOK /\ AccessEnds
  <2>1. subs = [s \in Subs |-> NoRow]
    BY DEF BillingInit
  <2>2. AccessEnds
    BY <2>1, NoRowOK DEF AccessEnds, Ended, None
  <2> QED BY <2>1, <2>2, NoRowOK DEF SubsOK
<1>4. LedgerOK
  <2>1. PostedOnce(topups, credited, Pays)
    BY DEF BillingInit, PostedOnce, None
  <2>2. PostedOnce(cycles, granted, EventIds)
    BY DEF BillingInit, PostedOnce, None
  <2>3. allocs = [r \in Refunds |-> 0] /\ reversed = [r \in Refunds |-> 0]
    BY DEF BillingInit
  <2>4. ASSUME NEW p \in Pays PROVE SumOver(allocs, RefundsOf(p)) <= TopupCredits(p)
    <3>1. \A r \in RefundsOf(p) : allocs[r] = 0
      BY <2>3 DEF RefundsOf
    <3>2. SumOver(allocs, RefundsOf(p)) = 0
      <4>1. IsFiniteSet(RefundsOf(p))
        BY RefundsFinite
      <4> QED BY <3>1, <4>1, SumOverZeros
    <3> QED BY <3>2, CreditsNat
  <2>5. RefundsFit(allocs, reversed)
    BY <2>3, <2>4 DEF RefundsFit
  <2> QED BY <2>1, <2>2, <2>5 DEF LedgerOK
<1>5. Settles!Init
  BY DEF BillingInit, Settles!Init
<1> QED BY <1>1, <1>2, <1>3, <1>4, <1>5 DEF BillingInv

\* What a step does to the plan and to the ledger, one step per action.
LEMMA BillingStep ==
  ASSUME BillingInv, BillingNext
  PROVE  BillingInv' /\ [Settles!Next]_ledger
<1>0. inbox \in Inboxes /\ WorkersOK /\ SubsOK /\ AccessEnds /\ LedgerOK
  BY DEF BillingInv
<1>1. ASSUME UNCHANGED grants PROVE LedgerOK' /\ [Settles!Next]_ledger
  BY <1>0, <1>1, UnchangedLedger
<1>2. ASSUME NEW w \in Workers, Advance(w) \/ Crash(w) \/ CallFails(w)
      PROVE  /\ inbox' = inbox /\ SubsOK' /\ AccessEnds'
             /\ LedgerOK' /\ [Settles!Next]_ledger
  <2>1. CASE Resolve(w)
    <3>1. inbox' = inbox /\ UNCHANGED <<subs, plan>> /\ UNCHANGED grants
      BY <2>1 DEF Resolve, outside, contract
    <3> QED BY <1>0, <1>1, <3>1, UnchangedSubs
  <2>2. CASE UpsertCustomer(w)
    <3>1. inbox' = inbox /\ UNCHANGED <<subs, plan>> /\ UNCHANGED grants
      BY <2>2 DEF UpsertCustomer, outside
    <3> QED BY <1>0, <1>1, <3>1, UnchangedSubs
  <2>3. CASE ReadSubscription(w)
    <3>1. inbox' = inbox /\ UNCHANGED <<subs, plan>> /\ UNCHANGED grants
      BY <2>3 DEF ReadSubscription, outside, contract
    <3> QED BY <1>0, <1>1, <3>1, UnchangedSubs
  <2>4. CASE CheckConflict(w)
    <3>1. inbox' = inbox /\ UNCHANGED <<subs, plan>> /\ UNCHANGED grants
      BY <2>4 DEF CheckConflict, outside
    <3> QED BY <1>0, <1>1, <3>1, UnchangedSubs
  <2>5. CASE UpsertSubscription(w)
    <3>1. inbox' = inbox /\ UNCHANGED grants
      BY <2>5 DEF UpsertSubscription, outside
    <3> QED BY <1>0, <1>1, <2>5, <3>1, UpsertAccess
  <2>6. CASE Reconcile(w)
    <3>1. inbox' = inbox /\ UNCHANGED grants
      BY <2>6 DEF Reconcile, outside
    <3> QED BY <1>0, <1>1, <2>6, <3>1, ReconcileAccess
  <2>7. CASE ApplyChange(w)
    <3>1. inbox' = inbox /\ UNCHANGED <<subs, plan>> /\ UNCHANGED grants
      BY <2>7 DEF ApplyChange, outside
    <3> QED BY <1>0, <1>1, <3>1, UnchangedSubs
  <2>8. CASE GraceOfEvent(w)
    <3>1. inbox' = inbox /\ UNCHANGED grants
      BY <2>8 DEF GraceOfEvent, outside
    <3>2. UNCHANGED <<subs, plan>> \/ ExpirePastDue(work[w].ev.sub, Wanted(w).grace)
      BY <2>8 DEF GraceOfEvent
    <3> QED BY <1>0, <1>1, <3>1, <3>2, UnchangedSubs, ExpireAccess
  <2>9. CASE CreateCycleGrant(w) \/ CreateTopupGrant(w)
    <3>1. inbox' = inbox /\ UNCHANGED <<subs, plan>>
      BY <2>9 DEF CreateCycleGrant, CreateTopupGrant, outside, contract
    <3> QED BY <1>0, <2>9, <3>1, UnchangedSubs, CreateLedger
  <2>10. CASE PostCycleGrant(w)
    <3>1. inbox' = inbox /\ UNCHANGED <<subs, plan>>
      BY <2>10 DEF PostCycleGrant, outside, contract
    <3> QED BY <1>0, <2>10, <3>1, UnchangedSubs, CycleSettles
  <2>11. CASE CloseIntent(w)
    <3>1. inbox' = inbox /\ UNCHANGED <<subs, plan>> /\ UNCHANGED grants
      BY <2>11 DEF CloseIntent, outside, contract
    <3> QED BY <1>0, <1>1, <3>1, UnchangedSubs
  <2>12. CASE UpsertPayment(w)
    <3>1. inbox' = inbox /\ UNCHANGED <<subs, plan>> /\ UNCHANGED grants
      BY <2>12 DEF UpsertPayment, outside, contract
    <3> QED BY <1>0, <1>1, <3>1, UnchangedSubs
  <2>13. CASE PostTopupGrant(w)
    <3>1. inbox' = inbox /\ UNCHANGED <<subs, plan>>
      BY <2>13 DEF PostTopupGrant, outside, contract
    <3> QED BY <1>0, <2>13, <3>1, UnchangedSubs, TopupSettles
  <2>14. CASE UpsertRefund(w)
    <3>1. inbox' = inbox /\ UNCHANGED <<subs, plan>> /\ UNCHANGED grants
      BY <2>14 DEF UpsertRefund, outside, contract
    <3> QED BY <1>0, <1>1, <3>1, UnchangedSubs
  <2>15. CASE PostRefund(w)
    <3>1. inbox' = inbox /\ UNCHANGED <<subs, plan>>
      BY <2>15 DEF PostRefund, outside, contract
    <3> QED BY <1>0, <2>15, <3>1, UnchangedSubs, RefundSettles
  <2>16. CASE UpsertDocument(w)
    <3>1. inbox' = inbox /\ UNCHANGED <<subs, plan>> /\ UNCHANGED grants
      BY <2>16 DEF UpsertDocument, outside, contract
    <3> QED BY <1>0, <1>1, <3>1, UnchangedSubs
  <2>17. CASE CompleteBillingEvent(w) \/ FailBillingEvent(w)
    <3>1. inbox' = inbox /\ UNCHANGED <<subs, plan>> /\ UNCHANGED grants
      BY <2>17 DEF CompleteBillingEvent, FailBillingEvent, EndClaim, outside, contract
    <3> QED BY <1>0, <1>1, <3>1, UnchangedSubs
  <2>18. CASE Crash(w) \/ CallFails(w)
    <3>1. inbox' = inbox /\ UNCHANGED <<subs, plan>> /\ UNCHANGED grants
      BY <2>18 DEF Crash, CallFails, contract
    <3> QED BY <1>0, <1>1, <3>1, UnchangedSubs
  <2> QED BY <1>2, <2>1, <2>2, <2>3, <2>4, <2>5, <2>6, <2>7, <2>8, <2>9, <2>10, <2>11, <2>12,
             <2>13, <2>14, <2>15, <2>16, <2>17, <2>18 DEF Advance
<1>3. ASSUME NEW w \in Workers, Advance(w) \/ Crash(w) \/ CallFails(w)
      PROVE  BillingInv' /\ [Settles!Next]_ledger
  <2>1. WorkersOK'
    BY <1>0, <1>3, AdvanceWork
  <2> QED BY <1>0, <1>2, <1>3, <2>1 DEF BillingInv
<1>4. ASSUME NEW w \in Workers, NEW h \in inbox, Receive(w, h)
      PROVE  BillingInv' /\ [Settles!Next]_ledger
  <2>1. h \in UNION Inboxes
    BY <1>0
  <2>2. WorkersOK'
    BY <1>0, <1>4, <2>1, ReceiveWork
  <2>3. inbox' = inbox /\ UNCHANGED <<subs, plan>> /\ UNCHANGED grants
    BY <1>4 DEF Receive, outside, contract
  <2>4. SubsOK' /\ AccessEnds'
    BY <1>0, <2>3, UnchangedSubs
  <2> QED BY <1>0, <1>1, <2>2, <2>3, <2>4 DEF BillingInv
<1>5. ASSUME work' = work, inbox' = inbox, SubsOK', AccessEnds', UNCHANGED grants
      PROVE  BillingInv' /\ [Settles!Next]_ledger
  <2>1. WorkersOK'
    BY <1>0, <1>5 DEF WorkersOK
  <2> QED BY <1>0, <1>1, <1>5, <2>1 DEF BillingInv
<1>6. ASSUME NEW e \in EventIds, LeaseLapses(e)
      PROVE  BillingInv' /\ [Settles!Next]_ledger
  <2>1. work' = work /\ inbox' = inbox /\ UNCHANGED <<subs, plan>> /\ UNCHANGED grants
    BY <1>6 DEF LeaseLapses, contract
  <2> QED BY <1>0, <1>5, <2>1, UnchangedSubs
<1>7. ASSUME NEW s \in Subs, SweepGrace(s)
      PROVE  BillingInv' /\ [Settles!Next]_ledger
  <2>1. work' = work /\ inbox' = inbox /\ UNCHANGED grants /\ ExpirePastDue(s, subs[s].grace)
    BY <1>7 DEF SweepGrace, outside
  <2> QED BY <1>0, <1>5, <2>1, ExpireAccess
<1>8. ASSUME NEW s \in Subs, ProviderChanges(s)
      PROVE  BillingInv' /\ [Settles!Next]_ledger
  <2>1. work' = work /\ inbox' = inbox /\ UNCHANGED <<subs, plan>> /\ UNCHANGED grants
    BY <1>8 DEF ProviderChanges, contract
  <2> QED BY <1>0, <1>5, <2>1, UnchangedSubs
<1>9. ASSUME NEW t \in GraceStarts, GraceEnds(t)
      PROVE  BillingInv' /\ [Settles!Next]_ledger
  <2>1. work' = work /\ inbox' = inbox /\ UNCHANGED <<subs, plan>> /\ UNCHANGED grants
    BY <1>9 DEF GraceEnds, contract
  <2> QED BY <1>0, <1>5, <2>1, UnchangedSubs
<1> QED BY <1>3, <1>4, <1>6, <1>7, <1>8, <1>9 DEF BillingNext

LEMMA BillingStutters ==
  ASSUME BillingInv, UNCHANGED vars
  PROVE  BillingInv' /\ UNCHANGED ledger
<1>0. inbox \in Inboxes /\ WorkersOK /\ SubsOK /\ AccessEnds /\ LedgerOK
  BY DEF BillingInv
<1>1. inbox' = inbox /\ work' = work /\ UNCHANGED <<subs, plan>> /\ UNCHANGED grants
  BY DEF vars, outside, contract
<1>2. WorkersOK'
  BY <1>0, <1>1 DEF WorkersOK
<1>3. SubsOK' /\ AccessEnds' /\ LedgerOK' /\ UNCHANGED ledger
  BY <1>0, <1>1, UnchangedSubs, UnchangedLedger
<1> QED BY <1>0, <1>1, <1>2, <1>3 DEF BillingInv

\* Whatever the order in which versions of a subscription are stored, reconciled and swept,
\* one that was reconciled as ended, or whose grace period was expired, is not the source of
\* the account's plan (upsert_billing_subscription, reconcile_subscription_entitlement,
\* expire_subscription_grace_period).
THEOREM BillingEndsAccess == BillingSpec => []AccessEnds
<1>1. BillingInit => BillingInv
  BY BillingStarts
<1>2. BillingInv /\ [BillingNext]_vars => BillingInv'
  BY BillingStep, BillingStutters
<1>3. BillingInv => AccessEnds
  BY DEF BillingInv
<1> QED BY <1>1, <1>2, <1>3, PTL DEF BillingSpec

\* The processor implements Settlement: a payment is credited and a renewal granted at most
\* once, and a refund takes back at most once, after its payment was credited, and together
\* with the payment's other refunds no more than was credited (grant_billing_credit,
\* post_billing_refund).
THEOREM BillingSettles == BillingSpec => RefinesSettlement
<1>1. BillingInit => BillingInv /\ Settles!Init
  BY BillingStarts
<1>2. BillingInv /\ [BillingNext]_vars => BillingInv' /\ [Settles!Next]_ledger
  BY BillingStep, BillingStutters
<1>3. BillingInv /\ [BillingNext]_vars =>
        BillingInv' /\ [Settles!Next]_<<credited, granted, reversed>>
  BY <1>2 DEF ledger
<1> QED BY <1>1, <1>3, PTL DEF BillingSpec, RefinesSettlement, Settles!Spec
=============================================================================
