-------------------------- MODULE PlanChangeProofs --------------------------
(***************************************************************************)
(* One account's subscription never has two open plan changes, and a       *)
(* cancellation survives every plan change that failed, for any number of  *)
(* callers, keys, offers and webhooks.                                     *)
(***************************************************************************)
EXTENDS PlanChange, FiniteSetTheorems, TLAPS

Steps == {"idle", "cancel", "cancelall", "reactivate", "quoted", "open", "keep", "change",
          "restore", "fail", "unschedule", "unscheduled"}

Whens == {"immediate", "renewal"}

States == OpenStates \cup {"applied", "failed", "canceled"}

ChangeRows ==
  [from : OfferKeys, to : OfferKeys, when : Whens, at : Nat, state : States]

CallRows ==
  [pc : Steps, key : {None} \cup Keys \cup ({"all"} \X Keys), to : {None} \cup OfferKeys \cup Keys,
   when : {None} \cup Whens, at : {None} \cup Nat \cup (OfferKeys \X OfferKeys \X Nat),
   cancel : BOOLEAN, kept : BOOLEAN]

Statuses == Cancellable \cup {"canceled", "incomplete_expired", "expired"}

Truths == [offer : OfferKeys, status : Statuses, cancel : BOOLEAN,
           next : {None} \cup [to : OfferKeys, when : Whens], period : Nat, version : Nat]

RowType == [offer : OfferKeys, status : Statuses, cancel : BOOLEAN, version : Nat]

Snapshots == [offer : OfferKeys, status : Statuses, cancel : BOOLEAN, version : Nat,
              changed : BOOLEAN]

\* The provider's subscription and what its webhooks say.
ProviderTyped == truth \in Truths /\ log \in Seq(Snapshots)

\* What Bursar keeps.
RowsTyped == row \in RowType /\ changes \in [Keys -> {None} \cup ChangeRows]

CallsTyped == call \in [Callers -> CallRows] /\ hook \in [Hooks -> {None} \cup OfferKeys]

\* A command that speaks of a change speaks of one that was recorded.
NamesChange(d, rows) ==
  /\ d.pc \in {"quoted", "open"} => d.key \in Keys /\ d.to \in OfferKeys
  /\ d.pc = "open" => d.when \in Whens /\ d.at \in Nat
  /\ d.pc \in {"keep", "change", "restore", "fail"} =>
        d.key \in Keys /\ rows[d.key] \in ChangeRows
  /\ d.pc \in {"keep", "change"} => d.to \in OfferKeys /\ d.when \in Whens
  /\ d.pc = "cancelall" => d.key \in Keys
  /\ d.pc \in {"unschedule", "unscheduled"} => d.to \in Keys /\ rows[d.to] \in ChangeRows

\* The types of the state, and what each step of a command knows.
PlanChangeTyped ==
  /\ ProviderTyped /\ RowsTyped /\ CallsTyped
  /\ wanted \in BOOLEAN /\ faults \in Nat
  /\ \A c \in Callers : NamesChange(call[c], changes)

OpenAlone == \A j, k \in OpenKeys : j = k

-----------------------------------------------------------------------------
(* Operators *)

LEMMA IdleTyped == Idle \in CallRows
  BY DEF Idle, CallRows, Steps

LEMMA BecomesTyped ==
  ASSUME ProviderTyped, NEW t \in Truths, Becomes(t)
  PROVE  ProviderTyped' /\ truth'.cancel = t.cancel /\ truth'.status = t.status
<1> DEFINE n == truth.version + 1
           ch == t.offer # truth.offer
<1>1. n \in Nat
  BY DEF ProviderTyped, Truths
<1>2. ch \in BOOLEAN
  OBVIOUS
<1>3. truth' = [t EXCEPT !.version = n]
  BY DEF Becomes
<1>4. log' = Append(log, Snapshot(truth', ch))
  BY DEF Becomes
<1> HIDE DEF n, ch
<1>5. truth' \in Truths /\ truth'.cancel = t.cancel /\ truth'.status = t.status
  BY <1>1, <1>3 DEF Truths
<1>6. Snapshot(truth', ch) \in Snapshots
  BY <1>2, <1>5 DEF Snapshot, Snapshots, Truths
<1> QED
  BY <1>4, <1>5, <1>6 DEF ProviderTyped

\* A request is executed once: the first time the subscription becomes t.
LEMMA ExecutesOnce ==
  ASSUME ProviderTyped, NEW t \in Truths, NEW request, Executes(request, t)
  PROVE  /\ ProviderTyped'
         /\ done' = done \cup {request}
         /\ request \in done => truth' = truth
         /\ request \notin done => truth'.cancel = t.cancel /\ truth'.status = t.status
<1>1. CASE request \in done \/ t = truth
  BY <1>1 DEF Executes, ProviderTyped
<1>2. CASE ~(request \in done \/ t = truth)
  BY <1>2, BecomesTyped DEF Executes
<1> QED
  BY <1>1, <1>2

LEMMA SetCancelOnce ==
  ASSUME ProviderTyped, NEW request, NEW cancel \in BOOLEAN, SetCancel(request, cancel)
  PROVE  /\ ProviderTyped'
         /\ done' = done \cup {request}
         /\ request \in done => truth' = truth
         /\ request \notin done => truth'.cancel = cancel /\ truth'.status = "active"
<1>1. [truth EXCEPT !.cancel = cancel] \in Truths
  BY DEF ProviderTyped, Truths
<1>2. /\ [truth EXCEPT !.cancel = cancel].cancel = cancel
      /\ [truth EXCEPT !.cancel = cancel].status = truth.status
  BY DEF ProviderTyped, Truths
<1> QED
  BY <1>1, <1>2, ExecutesOnce DEF SetCancel

\* A caller moves and every other stays where it is.
Moves(c) ==
  /\ call' \in [Callers -> CallRows]
  /\ \A b \in Callers \ {c} : call'[b] = call[b]

LEMMA GoesMoves ==
  ASSUME CallsTyped, NEW c \in Callers, NEW s \in Steps, Goes(c, s)
  PROVE  Moves(c) /\ call'[c] = [call[c] EXCEPT !.pc = s]
BY DEF CallsTyped, Goes, Moves, CallRows

LEMMA ReturnsMoves ==
  ASSUME CallsTyped, NEW c \in Callers, Returns(c)
  PROVE  Moves(c) /\ call'[c] = Idle /\ call'[c].pc = "idle" /\ ~call'[c].kept
BY IdleTyped DEF CallsTyped, Returns, Moves, Idle

LEMMA BeginsMoves ==
  ASSUME CallsTyped, NEW c \in Callers, NEW d \in CallRows, Begins(c, d)
  PROVE  Moves(c) /\ call'[c] = d
BY DEF CallsTyped, Begins, Moves

\* A row of a change that was recorded stays one.
ChangesKept == \A k \in Keys : changes[k] \in ChangeRows => changes'[k] \in ChangeRows

LEMMA NamesKept ==
  ASSUME NEW d \in CallRows, NEW before, NEW after, NamesChange(d, before),
         \A k \in Keys : before[k] \in ChangeRows => after[k] \in ChangeRows
  PROVE  NamesChange(d, after)
BY DEF NamesChange

\* What a step of one caller must keep for the types to hold.
LEMMA TypedByParts ==
  ASSUME PlanChangeTyped, NEW c \in Callers, Moves(c), ChangesKept,
         ProviderTyped', RowsTyped', hook' = hook, wanted' \in BOOLEAN, faults' \in Nat,
         NamesChange(call'[c], changes')
  PROVE  PlanChangeTyped'
<1>1. CallsTyped'
  BY DEF PlanChangeTyped, CallsTyped, Moves
<1>2. ASSUME NEW b \in Callers PROVE NamesChange(call'[b], changes')
  <2>1. CASE b = c
    BY <2>1
  <2>2. CASE b # c
    <3>1. call'[b] = call[b] /\ call[b] \in CallRows /\ NamesChange(call[b], changes)
      BY <2>2 DEF Moves, PlanChangeTyped, CallsTyped
    <3> QED
      BY <3>1, NamesKept DEF ChangesKept
  <2> QED
    BY <2>1, <2>2
<1> QED
  BY <1>1, <1>2 DEF PlanChangeTyped

\* A step that leaves the provider and the rows alone.
LEMMA TypedCallOnly ==
  ASSUME PlanChangeTyped, NEW c \in Callers, Moves(c), UNCHANGED <<truth, log, row, changes>>,
         hook' = hook, wanted' \in BOOLEAN, faults' \in Nat,
         NamesChange(call'[c], changes)
  PROVE  PlanChangeTyped'
<1>1. ProviderTyped' /\ RowsTyped' /\ ChangesKept
  BY DEF PlanChangeTyped, ProviderTyped, RowsTyped, ChangesKept
<1> QED
  BY <1>1, TypedByParts

\* Advance moves one open change, and the subscription to its target if applied.
LEMMA AdvanceMoves ==
  ASSUME RowsTyped, NEW k \in Keys, changes[k] \in ChangeRows,
         NEW to \in {"applied", "failed", "canceled"}, Advance(k, to)
  PROVE  /\ RowsTyped' /\ ChangesKept
         /\ changes'[k] \in ChangeRows /\ changes'[k].state = to
         /\ \A j \in Keys \ {k} : changes'[j] = changes[j]
<1>1. changes' = [changes EXCEPT ![k] = [changes[k] EXCEPT !.state = to]]
  BY DEF Advance, RowsTyped
<1>2. [changes[k] EXCEPT !.state = to] \in ChangeRows
  BY DEF ChangeRows, States
<1>3. changes'[k] = [changes[k] EXCEPT !.state = to]
  BY <1>1 DEF RowsTyped
<1>4. row' \in RowType
  BY DEF Advance, RowsTyped, RowType, ChangeRows
<1>5. changes' \in [Keys -> {None} \cup ChangeRows]
  BY <1>1, <1>2 DEF RowsTyped
<1>6. changes'[k].state = to
  BY <1>3 DEF ChangeRows
<1>7. \A j \in Keys \ {k} : changes'[j] = changes[j]
  BY <1>1 DEF RowsTyped
<1> QED
  BY <1>2, <1>3, <1>4, <1>5, <1>6, <1>7 DEF RowsTyped, ChangesKept

-----------------------------------------------------------------------------
(* Types *)

LEMMA TypedInit == Init => PlanChangeTyped
<1> SUFFICES ASSUME Init PROVE PlanChangeTyped
  OBVIOUS
<1>1. row \in SubscriptionRows /\ row.status = "active" /\ row.version = 0
  BY DEF Init
<1>2. row \in RowType
  BY <1>1, PlanChangeAssumption DEF SubscriptionRows, RowType, Statuses
<1>3. ProviderTyped
  BY <1>2 DEF Init, ProviderTyped, Truths, RowType, Statuses, Cancellable, Current
<1>4. RowsTyped /\ CallsTyped
  BY <1>2, IdleTyped DEF Init, RowsTyped, CallsTyped
<1>5. \A c \in Callers : call[c].pc = "idle"
  BY DEF Init, Idle
<1> QED
  BY <1>2, <1>3, <1>4, <1>5 DEF Init, PlanChangeTyped, NamesChange, RowType

\* The steps of a command, apart from those that write a change's row.
LEMMA TypedCommand ==
  ASSUME PlanChangeTyped, NEW c \in Callers,
         NEW name \in {"cancel", "reactivate"}, NEW cancel \in BOOLEAN, Command(c, name, cancel)
  PROVE  PlanChangeTyped'
<1>1. Moves(c) /\ call'[c].pc = "idle"
  BY ReturnsMoves DEF Command, PlanChangeTyped
<1>2. ProviderTyped' /\ wanted' \in BOOLEAN
  <2>1. CASE truth.status = "active"
    <3>1. SetCancel(<<name, call[c].key>>, cancel)
      BY <2>1 DEF Command
    <3>2. wanted' \in BOOLEAN
      BY <2>1 DEF Command, PlanChangeTyped
    <3> QED
      BY <3>1, <3>2, SetCancelOnce DEF PlanChangeTyped
  <2>2. CASE truth.status # "active"
    BY <2>2 DEF Command, PlanChangeTyped, ProviderTyped, provider
  <2> QED
    BY <2>1, <2>2
<1>3. RowsTyped' /\ ChangesKept /\ hook' = hook /\ faults' \in Nat
  BY DEF Command, PlanChangeTyped, RowsTyped, ChangesKept
<1> QED
  BY <1>1, <1>2, <1>3, TypedByParts DEF NamesChange

LEMMA TypedBegins ==
  ASSUME PlanChangeTyped, NEW c \in Callers, NEW d \in CallRows, Begins(c, d),
         NamesChange(d, changes)
  PROVE  PlanChangeTyped'
<1>1. Moves(c) /\ call'[c] = d
  BY BeginsMoves DEF PlanChangeTyped
<1> QED
  BY <1>1, TypedCallOnly DEF Begins, provider, PlanChangeTyped

LEMMA QuoteTyped ==
  ASSUME ProviderTyped, NEW to \in OfferKeys
  PROVE  Quote(to) \in OfferKeys \X OfferKeys \X Nat
BY DEF Quote, ProviderTyped, Truths

LEMMA TypedStarts ==
  ASSUME PlanChangeTyped, NEW c \in Callers, NEW k \in Keys,
         \/ StartCancel(c, k) \/ StartReactivate(c, k) \/ StartCancelAll(c, k)
         \/ \E o \in OfferKeys : StartPreview(c, k, o)
         \/ StartUnschedule(c, k)
  PROVE  PlanChangeTyped'
<1>1. ASSUME NEW s \in {"cancel", "cancelall", "reactivate"},
             Begins(c, [Idle EXCEPT !.pc = s, !.key = k])
      PROVE  PlanChangeTyped'
  <2>1. [Idle EXCEPT !.pc = s, !.key = k] \in CallRows
    BY DEF Idle, CallRows, Steps
  <2>2. NamesChange([Idle EXCEPT !.pc = s, !.key = k], changes)
    BY DEF Idle, NamesChange
  <2> QED
    BY <1>1, <2>1, <2>2, TypedBegins
<1>2. ASSUME NEW o \in OfferKeys, StartPreview(c, k, o) PROVE PlanChangeTyped'
  <2> DEFINE q == Quote(o)
             d == [Idle EXCEPT !.pc = "quoted", !.key = k, !.to = o, !.at = q]
  <2>1. q \in OfferKeys \X OfferKeys \X Nat
    BY QuoteTyped DEF PlanChangeTyped
  <2>2. Begins(c, d)
    BY <1>2 DEF StartPreview
  <2> HIDE DEF q
  <2>3. d \in CallRows
    BY <2>1 DEF Idle, CallRows, Steps
  <2>4. NamesChange(d, changes)
    BY DEF Idle, NamesChange
  <2> QED
    BY <2>2, <2>3, <2>4, TypedBegins
<1>3. ASSUME StartUnschedule(c, k) PROVE PlanChangeTyped'
  <2>1. PICK x \in OpenKeys : Begins(c, [Idle EXCEPT !.pc = "unschedule", !.key = k, !.to = x])
    BY <1>3 DEF StartUnschedule
  <2>2. x \in Keys /\ changes[x] \in ChangeRows
    BY DEF OpenKeys, PlanChangeTyped, RowsTyped
  <2>3. [Idle EXCEPT !.pc = "unschedule", !.key = k, !.to = x] \in CallRows
    BY <2>2 DEF Idle, CallRows, Steps
  <2>4. NamesChange([Idle EXCEPT !.pc = "unschedule", !.key = k, !.to = x], changes)
    BY <2>2 DEF Idle, NamesChange
  <2> QED
    BY <2>1, <2>3, <2>4, TypedBegins
<1> QED
  BY <1>1, <1>2, <1>3 DEF StartCancel, StartReactivate, StartCancelAll

LEMMA TypedCancelListed ==
  ASSUME PlanChangeTyped, NEW c \in Callers, CancelListed(c)
  PROVE  PlanChangeTyped'
<1>1. call[c] \in CallRows /\ call[c].key \in Keys
  BY DEF PlanChangeTyped, CallsTyped, CancelListed, NamesChange
<1>2. Moves(c) /\ call'[c].pc \in {"cancel", "idle"}
  <2>1. CASE Returns(c)
    BY <2>1, ReturnsMoves DEF PlanChangeTyped
  <2>2. CASE ~Returns(c)
    <3> DEFINE d == [call[c] EXCEPT !.pc = "cancel", !.key = <<"all", call[c].key>>]
    <3>1. call' = [call EXCEPT ![c] = d]
      BY <2>2, <1>1 DEF CancelListed, PlanChangeTyped, CallsTyped, CallRows
    <3>2. d \in CallRows /\ d.pc = "cancel"
      BY <1>1 DEF CallRows, Steps
    <3> QED
      BY <3>1, <3>2 DEF Moves, PlanChangeTyped, CallsTyped
  <2> QED
    BY <2>1, <2>2
<1> QED
  BY <1>2, TypedCallOnly DEF CancelListed, provider, PlanChangeTyped, NamesChange

LEMMA TypedConfirm ==
  ASSUME PlanChangeTyped, NEW c \in Callers, Confirm(c)
  PROVE  PlanChangeTyped'
<1>1. call[c] \in CallRows /\ call[c].key \in Keys /\ call[c].to \in OfferKeys
  BY DEF PlanChangeTyped, CallsTyped, Confirm, NamesChange
<1>2. CASE Returns(c)
  BY <1>2, ReturnsMoves, TypedCallOnly DEF Confirm, provider, PlanChangeTyped, NamesChange
<1>3. CASE ~Returns(c)
  <2> DEFINE e == Effective(row.offer, call[c].to)
             d == [call[c] EXCEPT !.pc = "open", !.when = e, !.at = truth.period,
                                  !.cancel = row.cancel]
  <2>1. call' = [call EXCEPT ![c] = d] /\ Classify(row.offer, call[c].to) # "unchanged"
    BY <1>3 DEF Confirm
  <2>2. e \in Whens /\ truth.period \in Nat /\ row.cancel \in BOOLEAN
    BY <1>1, <2>1, PoliciesAssumption
    DEF PlanChangeTyped, RowsTyped, RowType, ProviderTyped, Truths, Whens
  <2> HIDE DEF e
  <2>3. d \in CallRows
    BY <1>1, <2>2 DEF CallRows, Steps
  <2>4. NamesChange(d, changes)
    BY <1>1, <2>2 DEF CallRows, NamesChange
  <2>5. Moves(c) /\ call'[c] = d
    BY <2>1, <2>3 DEF Moves, PlanChangeTyped, CallsTyped
  <2> QED
    BY <2>4, <2>5, TypedCallOnly DEF Confirm, provider, PlanChangeTyped
<1> QED
  BY <1>2, <1>3

\* The row of a new change of call d.
NewChange(d) ==
  [from |-> row.offer, to |-> d.to, when |-> d.when, at |-> d.at,
   state |-> IF d.when = "renewal" THEN "scheduled" ELSE "awaiting_payment"]

\* The three things an opening may come to.
GivesUp(c) == Returns(c) /\ changes' = changes

Resumes(c) ==
  /\ changes[call[c].key] # None /\ changes' = changes
  /\ Goes(c, "keep") \/ Goes(c, "change")

Opens(c) ==
  /\ NoOpenChange
  /\ changes' = [changes EXCEPT ![call[c].key] = NewChange(call[c])]
  /\ Goes(c, "keep") \/ Goes(c, "change")

LEMMA OpenChangeCases ==
  ASSUME PlanChangeTyped, NEW c \in Callers, OpenChange(c)
  PROVE  /\ call[c].pc = "open"
         /\ UNCHANGED <<truth, done, log, row, hook, wanted, calls, faults>>
         /\ GivesUp(c) \/ Resumes(c) \/ Opens(c)
<1>1. call[c].pc = "open" /\ UNCHANGED <<truth, done, log, row, hook, wanted, calls, faults>>
  BY DEF OpenChange
<1>2. CASE row.offer = call[c].to
  BY <1>2 DEF OpenChange, GivesUp
<1>3. CASE row.offer # call[c].to /\ changes[call[c].key] # None
  BY <1>3 DEF OpenChange, GivesUp, Resumes
<1>4. CASE row.offer # call[c].to /\ changes[call[c].key] = None
  <2>1. CASE ~NoOpenChange
    BY <1>4, <2>1 DEF OpenChange, GivesUp
  <2>2. CASE NoOpenChange
    BY <1>4, <2>2 DEF OpenChange, Opens, NewChange
  <2> QED
    BY <2>1, <2>2
<1> QED
  BY <1>1, <1>2, <1>3, <1>4

LEMMA OpensRow ==
  ASSUME PlanChangeTyped, NEW c \in Callers, call[c].pc = "open", Opens(c)
  PROVE  /\ call[c].key \in Keys
         /\ changes'[call[c].key] \in ChangeRows
         /\ \A k \in Keys \ {call[c].key} : changes'[k] = changes[k]
         /\ changes' \in [Keys -> {None} \cup ChangeRows]
<1>1. /\ call[c].key \in Keys /\ call[c].to \in OfferKeys
      /\ call[c].when \in Whens /\ call[c].at \in Nat
  BY DEF PlanChangeTyped, NamesChange
<1>2. row.offer \in OfferKeys
  BY DEF PlanChangeTyped, RowsTyped, RowType
<1>3. NewChange(call[c]) \in ChangeRows
  <2> DEFINE st == IF call[c].when = "renewal" THEN "scheduled" ELSE "awaiting_payment"
  <2>1. st \in States
    BY DEF States, OpenStates
  <2>2. NewChange(call[c]) = [from |-> row.offer, to |-> call[c].to, when |-> call[c].when,
                              at |-> call[c].at, state |-> st]
    BY DEF NewChange
  <2> HIDE DEF st
  <2> QED
    BY <1>1, <1>2, <2>1, <2>2 DEF ChangeRows
<1> QED
  BY <1>1, <1>3 DEF Opens, PlanChangeTyped, RowsTyped

LEMMA TypedOpenChange ==
  ASSUME PlanChangeTyped, NEW c \in Callers, OpenChange(c)
  PROVE  PlanChangeTyped'
<1>0. /\ call[c].pc = "open"
      /\ UNCHANGED <<truth, done, log, row, hook, wanted, calls, faults>>
      /\ GivesUp(c) \/ Resumes(c) \/ Opens(c)
  BY OpenChangeCases
<1>1. /\ call[c] \in CallRows /\ call[c].key \in Keys /\ call[c].to \in OfferKeys
      /\ call[c].when \in Whens
  BY <1>0 DEF PlanChangeTyped, CallsTyped, NamesChange
<1>2. CASE GivesUp(c)
  BY <1>0, <1>2, ReturnsMoves, TypedCallOnly DEF GivesUp, PlanChangeTyped, NamesChange
<1>3. CASE Resumes(c) \/ Opens(c)
  <2>1. PICK s \in {"keep", "change"} : Goes(c, s)
    BY <1>3 DEF Resumes, Opens
  <2>2. Moves(c) /\ call'[c] = [call[c] EXCEPT !.pc = s]
    BY <2>1, GoesMoves DEF PlanChangeTyped, Steps
  <2>3. /\ changes' \in [Keys -> {None} \cup ChangeRows] /\ ChangesKept
        /\ changes'[call[c].key] \in ChangeRows
    <3>1. CASE Resumes(c)
      BY <1>1, <3>1 DEF Resumes, PlanChangeTyped, RowsTyped, ChangesKept
    <3>2. CASE Opens(c)
      BY <1>0, <3>2, OpensRow DEF ChangesKept
    <3> QED
      BY <1>3, <3>1, <3>2
  <2>4. ProviderTyped' /\ RowsTyped'
    BY <1>0, <2>3 DEF PlanChangeTyped, ProviderTyped, RowsTyped
  <2>5. NamesChange(call'[c], changes')
    BY <1>1, <2>2, <2>3 DEF NamesChange, CallRows
  <2> QED
    BY <1>0, <2>2, <2>3, <2>4, <2>5, TypedByParts DEF PlanChangeTyped
<1> QED
  BY <1>0, <1>2, <1>3

\* What a caller keeps as it goes from one step of its change to the next.
LEMMA TypedGoesOn ==
  ASSUME PlanChangeTyped, NEW c \in Callers, Moves(c), ProviderTyped', UNCHANGED <<row, changes>>,
         hook' = hook, wanted' \in BOOLEAN, faults' \in Nat,
         call[c].pc \in {"keep", "change", "restore"},
         \/ call'[c].pc = "idle"
         \/ call'[c].pc = "change" /\ call[c].pc = "keep"
         \/ call'[c].pc \in {"restore", "fail"},
         call'[c].pc # "idle" => /\ call'[c].key = call[c].key /\ call'[c].to = call[c].to
                                 /\ call'[c].when = call[c].when
  PROVE  PlanChangeTyped'
<1>1. NamesChange(call'[c], changes')
  BY DEF PlanChangeTyped, NamesChange
<1>2. RowsTyped' /\ ChangesKept
  BY DEF PlanChangeTyped, RowsTyped, ChangesKept
<1> QED
  BY <1>1, <1>2, TypedByParts

LEMMA KeepCases ==
  ASSUME PlanChangeTyped, NEW c \in Callers, KeepSubscription(c)
  PROVE  /\ call[c].pc = "keep" /\ Moves(c) /\ ProviderTyped'
         /\ UNCHANGED <<row, changes, hook, wanted, calls, faults>>
         /\ call'[c].key = call[c].key /\ call'[c].to = call[c].to /\ call'[c].when = call[c].when
         /\ \/ /\ SetCancel(<<"keep", call[c].key>>, FALSE)
               /\ call'[c].pc = "change" /\ call'[c].kept
            \/ /\ UNCHANGED <<truth, done>>
               /\ call'[c].pc = "fail" /\ call'[c].kept = call[c].kept
<1>1. /\ call[c].pc = "keep" /\ UNCHANGED <<row, changes, hook, wanted, calls, faults>>
      /\ call[c] \in CallRows /\ call \in [Callers -> CallRows]
  BY DEF KeepSubscription, PlanChangeTyped, CallsTyped
<1>2. CASE truth.status = "active"
  <2>1. /\ SetCancel(<<"keep", call[c].key>>, FALSE)
        /\ call' = [call EXCEPT ![c] = [call[c] EXCEPT !.pc = "change", !.kept = TRUE]]
    BY <1>1, <1>2 DEF KeepSubscription, CallRows
  <2>2. [call[c] EXCEPT !.pc = "change", !.kept = TRUE] \in CallRows
    BY <1>1 DEF CallRows, Steps
  <2>3. Moves(c) /\ call'[c] = [call[c] EXCEPT !.pc = "change", !.kept = TRUE]
    BY <1>1, <2>1, <2>2 DEF Moves
  <2>4. ProviderTyped'
    BY <2>1, SetCancelOnce DEF PlanChangeTyped
  <2> QED
    BY <1>1, <2>1, <2>3, <2>4 DEF CallRows
<1>3. CASE truth.status # "active"
  <2>1. Goes(c, "fail") /\ UNCHANGED provider
    BY <1>3 DEF KeepSubscription
  <2>2. Moves(c) /\ call'[c] = [call[c] EXCEPT !.pc = "fail"]
    BY <2>1, GoesMoves DEF PlanChangeTyped, Steps
  <2>3. ProviderTyped'
    BY <2>1 DEF PlanChangeTyped, ProviderTyped, provider
  <2> QED
    BY <1>1, <2>1, <2>2, <2>3 DEF CallRows, provider
<1> QED
  BY <1>2, <1>3

LEMMA ChangePlanCases ==
  ASSUME PlanChangeTyped, NEW c \in Callers, NEW outcome \in {"ok", "refused", "lost"},
         ChangePlan(c, outcome)
  PROVE  /\ call[c].pc = "change" /\ Moves(c) /\ ProviderTyped'
         /\ UNCHANGED <<row, changes, hook, calls>>
         /\ \/ done' = done
            \/ done' = done \cup {<<"change", call[c].key>>}
         /\ truth'.cancel = truth.cancel /\ truth'.status = truth.status
         /\ outcome = "ok" => call'[c].pc = "idle"
         /\ outcome = "ok" => ~call'[c].kept
         /\ outcome # "ok" => /\ call'[c].pc = IF call[c].kept THEN "restore" ELSE "fail"
                              /\ call'[c].key = call[c].key /\ call'[c].to = call[c].to
                              /\ call'[c].when = call[c].when /\ call'[c].kept = call[c].kept
         /\ wanted' = IF outcome = "ok" /\ call[c].kept THEN FALSE ELSE wanted
         /\ faults' = IF outcome = "lost" THEN faults + 1 ELSE faults
<1>1. /\ call[c].pc = "change" /\ UNCHANGED <<row, changes, hook, calls>>
      /\ call[c] \in CallRows /\ call \in [Callers -> CallRows]
      /\ call[c].to \in OfferKeys /\ call[c].when \in Whens
  BY DEF ChangePlan, PlanChangeTyped, CallsTyped, NamesChange
<1>2. faults' = IF outcome = "lost" THEN faults + 1 ELSE faults
  BY DEF ChangePlan, Fault
<1>3. wanted' = IF outcome = "ok" /\ call[c].kept THEN FALSE ELSE wanted
  BY DEF ChangePlan
<1>4. /\ ProviderTyped'
      /\ done' = done \/ done' = done \cup {<<"change", call[c].key>>}
      /\ truth'.cancel = truth.cancel /\ truth'.status = truth.status
  <2>1. CASE outcome = "refused"
    BY <2>1 DEF ChangePlan, provider, PlanChangeTyped, ProviderTyped
  <2>2. CASE outcome # "refused"
    <3> DEFINE t == [truth EXCEPT !.next = Requested(call[c])]
    <3>1. Executes(<<"change", call[c].key>>, t)
      BY <2>2 DEF ChangePlan
    <3>2. Requested(call[c]) \in [to : OfferKeys, when : Whens]
      BY <1>1 DEF Requested
    <3>3. t \in Truths /\ t.cancel = truth.cancel /\ t.status = truth.status
      BY <3>2 DEF PlanChangeTyped, ProviderTyped, Truths
    <3> QED
      BY <3>1, <3>3, ExecutesOnce DEF PlanChangeTyped
  <2> QED
    BY <2>1, <2>2
<1>5. CASE outcome = "ok"
  <2>1. Returns(c)
    BY <1>5 DEF ChangePlan
  <2> QED
    BY <1>1, <1>2, <1>3, <1>4, <1>5, <2>1, ReturnsMoves DEF PlanChangeTyped
<1>6. CASE outcome # "ok"
  <2> DEFINE s == IF call[c].kept THEN "restore" ELSE "fail"
  <2>1. Goes(c, s)
    BY <1>6 DEF ChangePlan, AfterFailure
  <2>2. s \in Steps
    BY DEF Steps
  <2> HIDE DEF s
  <2>3. Moves(c) /\ call'[c] = [call[c] EXCEPT !.pc = s]
    BY <2>1, <2>2, GoesMoves DEF PlanChangeTyped
  <2>4. /\ call'[c].pc = s /\ call'[c].key = call[c].key /\ call'[c].to = call[c].to
        /\ call'[c].when = call[c].when /\ call'[c].kept = call[c].kept
    BY <1>1, <2>3 DEF CallRows
  <2> QED
    BY <1>1, <1>2, <1>3, <1>4, <1>6, <2>3, <2>4 DEF s
<1> QED
  BY <1>5, <1>6

LEMMA RestoreCases ==
  ASSUME PlanChangeTyped, NEW c \in Callers, RestoreCancellation(c)
  PROVE  /\ call[c].pc = "restore" /\ Moves(c) /\ ProviderTyped'
         /\ UNCHANGED <<row, changes, hook, wanted, calls, faults>>
         /\ call'[c].key = call[c].key /\ call'[c].to = call[c].to /\ call'[c].when = call[c].when
         /\ call'[c].pc = "fail" /\ call'[c].kept = call[c].kept
         /\ \/ SetCancel(<<"restore", call[c].key>>, TRUE)
            \/ truth.status # "active" /\ UNCHANGED <<truth, done>>
<1>1. /\ call[c].pc = "restore" /\ UNCHANGED <<row, changes, hook, wanted, calls, faults>>
      /\ call[c] \in CallRows /\ Goes(c, "fail")
  BY DEF RestoreCancellation, PlanChangeTyped, CallsTyped
<1>2. Moves(c) /\ call'[c] = [call[c] EXCEPT !.pc = "fail"]
  BY <1>1, GoesMoves DEF PlanChangeTyped, Steps
<1>3. /\ call'[c].key = call[c].key /\ call'[c].to = call[c].to /\ call'[c].when = call[c].when
      /\ call'[c].pc = "fail" /\ call'[c].kept = call[c].kept
  BY <1>1, <1>2 DEF CallRows
<1>4. CASE truth.status = "active"
  <2>1. SetCancel(<<"restore", call[c].key>>, TRUE)
    BY <1>4 DEF RestoreCancellation
  <2> QED
    BY <1>1, <1>2, <1>3, <2>1, SetCancelOnce DEF PlanChangeTyped
<1>5. CASE truth.status # "active"
  <2>1. UNCHANGED provider
    BY <1>5 DEF RestoreCancellation
  <2> QED
    BY <1>1, <1>2, <1>3, <1>5, <2>1 DEF PlanChangeTyped, ProviderTyped, provider
<1> QED
  BY <1>4, <1>5

\* A change that is marked, or found marked already, opens none.
LEMMA AdvanceOrLeave ==
  ASSUME RowsTyped, NEW k \in Keys, changes[k] \in ChangeRows,
         NEW to \in {"applied", "failed", "canceled"},
         Advance(k, to) \/ UNCHANGED <<changes, row>>
  PROVE  RowsTyped' /\ ChangesKept /\ OpenKeys' \subseteq OpenKeys
<1>1. CASE Advance(k, to)
  <2>1. /\ RowsTyped' /\ ChangesKept
        /\ changes'[k].state = to
        /\ \A j \in Keys \ {k} : changes'[j] = changes[j]
    BY <1>1, AdvanceMoves
  <2>2. OpenKeys' = {j \in Keys : changes'[j] # None /\ changes'[j].state \in OpenStates}
    BY DEF OpenKeys
  <2>3. k \notin OpenKeys'
    BY <2>1, <2>2 DEF OpenStates
  <2> QED
    BY <2>1, <2>2, <2>3 DEF OpenKeys
<1>2. CASE UNCHANGED <<changes, row>>
  BY <1>2 DEF RowsTyped, ChangesKept, OpenKeys
<1> QED
  BY <1>1, <1>2

LEMMA FailCases ==
  ASSUME PlanChangeTyped, NEW c \in Callers, FailChange(c) \/ RecordUnscheduled(c)
  PROVE  /\ call[c].pc \in {"fail", "unscheduled"} /\ Moves(c) /\ call'[c].pc = "idle"
         /\ ~call'[c].kept
         /\ RowsTyped' /\ ChangesKept /\ OpenKeys' \subseteq OpenKeys
         /\ UNCHANGED <<provider, hook, wanted, calls, faults>>
<1>1. CASE FailChange(c)
  <2>1. call[c].key \in Keys /\ changes[call[c].key] \in ChangeRows
    BY <1>1 DEF FailChange, PlanChangeTyped, NamesChange
  <2>2. Advance(call[c].key, "failed") \/ UNCHANGED <<changes, row>>
    BY <1>1 DEF FailChange
  <2> QED
    BY <1>1, <2>1, <2>2, AdvanceOrLeave, ReturnsMoves DEF FailChange, PlanChangeTyped
<1>2. CASE RecordUnscheduled(c)
  <2>1. call[c].to \in Keys /\ changes[call[c].to] \in ChangeRows
    BY <1>2 DEF RecordUnscheduled, PlanChangeTyped, NamesChange
  <2>2. Advance(call[c].to, "canceled") \/ UNCHANGED <<changes, row>>
    BY <1>2 DEF RecordUnscheduled
  <2> QED
    BY <1>2, <2>1, <2>2, AdvanceOrLeave, ReturnsMoves DEF RecordUnscheduled, PlanChangeTyped
<1> QED
  BY <1>1, <1>2

LEMMA UnscheduleCases ==
  ASSUME PlanChangeTyped, NEW c \in Callers, Unschedule(c)
  PROVE  /\ call[c].pc = "unschedule" /\ Moves(c) /\ ProviderTyped'
         /\ UNCHANGED <<row, changes, hook, wanted, calls, faults>>
         /\ \/ call'[c] = Idle
            \/ call'[c].pc = "unscheduled" /\ call'[c].to = call[c].to /\ call'[c].kept = call[c].kept
         /\ \/ done' = done
            \/ done' = done \cup {<<"unschedule", call[c].key>>}
         /\ truth'.cancel = truth.cancel /\ truth'.status = truth.status
<1>1. /\ call[c].pc = "unschedule" /\ UNCHANGED <<row, changes, hook, wanted, calls, faults>>
      /\ call[c] \in CallRows
  BY DEF Unschedule, PlanChangeTyped, CallsTyped
<1> DEFINE t == [truth EXCEPT !.next = None]
<1>2. \/ Executes(<<"unschedule", call[c].key>>, t) /\ Goes(c, "unscheduled")
      \/ Returns(c) /\ UNCHANGED provider
  BY DEF Unschedule
<1>3. CASE Executes(<<"unschedule", call[c].key>>, t) /\ Goes(c, "unscheduled")
  <2>1. t \in Truths /\ t.cancel = truth.cancel /\ t.status = truth.status
    BY DEF PlanChangeTyped, ProviderTyped, Truths
  <2>2. Moves(c) /\ call'[c] = [call[c] EXCEPT !.pc = "unscheduled"]
    BY <1>3, GoesMoves DEF PlanChangeTyped, Steps
  <2>3. call'[c].pc = "unscheduled" /\ call'[c].to = call[c].to /\ call'[c].kept = call[c].kept
    BY <1>1, <2>2 DEF CallRows
  <2>4. /\ ProviderTyped' /\ done' = done \cup {<<"unschedule", call[c].key>>}
        /\ truth'.cancel = truth.cancel /\ truth'.status = truth.status
    BY <1>3, <2>1, ExecutesOnce DEF PlanChangeTyped
  <2> QED
    BY <1>1, <2>2, <2>3, <2>4
<1>4. CASE Returns(c) /\ UNCHANGED provider
  BY <1>1, <1>4, ReturnsMoves DEF PlanChangeTyped, ProviderTyped, provider
<1> QED
  BY <1>2, <1>3, <1>4

\* What the provider does by itself: it ends only what was to end.
LEMMA ProviderCases ==
  ASSUME PlanChangeTyped, Settle(TRUE) \/ Settle(FALSE) \/ Renew
                          \/ \E o \in OfferKeys : PortalChange(o)
  PROVE  /\ ProviderTyped' /\ truth'.cancel = truth.cancel
         /\ truth'.status = truth.status \/ truth.cancel
         /\ UNCHANGED <<done, row, changes, call, hook, wanted, calls, faults>>
<1>0. truth \in Truths
  BY DEF PlanChangeTyped, ProviderTyped
<1>1. ASSUME NEW paid \in BOOLEAN, Settle(paid)
      PROVE  /\ ProviderTyped' /\ truth'.cancel = truth.cancel
             /\ truth'.status = truth.status
             /\ UNCHANGED <<done, row, changes, call, hook, wanted, calls, faults>>
  <2> DEFINE o == IF paid THEN truth.next.to ELSE truth.offer
             t == [truth EXCEPT !.offer = o, !.next = None]
  <2>1. o \in OfferKeys
    BY <1>0, <1>1 DEF Settle, Truths
  <2>2. Becomes(t)
    BY <1>0, <1>1 DEF Settle, Truths
  <2> HIDE DEF o
  <2>3. t \in Truths /\ t.cancel = truth.cancel /\ t.status = truth.status
    BY <1>0, <2>1 DEF Truths
  <2> QED
    BY <1>1, <2>2, <2>3, BecomesTyped DEF Settle, PlanChangeTyped
<1>2. ASSUME Renew
      PROVE  /\ ProviderTyped' /\ truth'.cancel = truth.cancel
             /\ truth'.status = truth.status \/ truth.cancel
             /\ UNCHANGED <<done, row, changes, call, hook, wanted, calls, faults>>
  <2>1. CASE truth.cancel
    <3> DEFINE t == [truth EXCEPT !.status = "canceled", !.next = None]
    <3>1. Becomes(t)
      BY <1>2, <2>1 DEF Renew
    <3>2. t \in Truths /\ t.cancel = truth.cancel
      BY <1>0 DEF Truths, Statuses
    <3> QED
      BY <1>2, <2>1, <3>1, <3>2, BecomesTyped DEF Renew, PlanChangeTyped
  <2>2. CASE ~truth.cancel
    <3> DEFINE scheduled == truth.next # None /\ truth.next.when = "renewal"
               o == IF scheduled THEN truth.next.to ELSE truth.offer
               n == IF scheduled THEN None ELSE truth.next
               p == truth.period + 1
               t == [truth EXCEPT !.period = p, !.offer = o, !.next = n]
    <3>1. /\ o \in OfferKeys /\ n \in {None} \cup [to : OfferKeys, when : Whens]
          /\ p \in Nat
      BY <1>0 DEF Truths
    <3>2. Becomes([truth EXCEPT !.period = @ + 1,
                                !.offer = IF scheduled THEN truth.next.to ELSE @,
                                !.next = IF scheduled THEN None ELSE @])
      BY <1>2, <2>2 DEF Renew
    <3>3. t = [truth EXCEPT !.period = @ + 1,
                            !.offer = IF scheduled THEN truth.next.to ELSE @,
                            !.next = IF scheduled THEN None ELSE @]
      BY <1>0 DEF Truths
    <3>4. Becomes(t)
      BY <3>2, <3>3
    <3> HIDE DEF o, n, p
    <3>5. t \in Truths /\ t.cancel = truth.cancel /\ t.status = truth.status
      BY <1>0, <3>1 DEF Truths
    <3> QED
      BY <1>2, <3>4, <3>5, BecomesTyped DEF Renew, PlanChangeTyped
  <2> QED
    BY <2>1, <2>2
<1>3. ASSUME NEW o \in OfferKeys, PortalChange(o)
      PROVE  /\ ProviderTyped' /\ truth'.cancel = truth.cancel
             /\ truth'.status = truth.status
             /\ UNCHANGED <<done, row, changes, call, hook, wanted, calls, faults>>
  <2> DEFINE t == [truth EXCEPT !.offer = o]
  <2>1. Becomes(t)
    BY <1>3 DEF PortalChange
  <2>2. t \in Truths /\ t.cancel = truth.cancel /\ t.status = truth.status
    BY <1>0 DEF Truths
  <2> QED
    BY <1>3, <2>1, <2>2, BecomesTyped DEF PortalChange, PlanChangeTyped
<1> QED
  BY <1>1, <1>2, <1>3

LEMMA HookCases ==
  ASSUME PlanChangeTyped, NEW h \in Hooks,
         (\E i \in DOMAIN log : Reconcile(h, log[i])) \/ ApplyChange(h)
  PROVE  /\ RowsTyped' /\ ChangesKept /\ OpenKeys' \subseteq OpenKeys
         /\ hook' \in [Hooks -> {None} \cup OfferKeys]
         /\ UNCHANGED <<provider, call, wanted, calls, faults>>
<1>1. ASSUME NEW i \in DOMAIN log, Reconcile(h, log[i])
      PROVE  /\ RowsTyped' /\ ChangesKept /\ OpenKeys' \subseteq OpenKeys
             /\ hook' \in [Hooks -> {None} \cup OfferKeys]
             /\ UNCHANGED <<provider, call, wanted, calls, faults>>
  <2> DEFINE e == log[i]
             o == IF e.changed THEN e.offer ELSE None
  <2>1. e \in Snapshots
    BY DEF PlanChangeTyped, ProviderTyped
  <2>2. row' \in RowType
    BY <1>1, <2>1 DEF Reconcile, RowType, Snapshots
  <2>3. o \in {None} \cup OfferKeys /\ hook' = [hook EXCEPT ![h] = o]
    BY <1>1, <2>1 DEF Reconcile, Snapshots
  <2>4. changes' = changes /\ UNCHANGED <<provider, call, wanted, calls, faults>>
    BY <1>1 DEF Reconcile
  <2> HIDE DEF o
  <2> QED
    BY <2>2, <2>3, <2>4 DEF PlanChangeTyped, RowsTyped, ChangesKept, CallsTyped, OpenKeys
<1>2. ASSUME ApplyChange(h)
      PROVE  /\ RowsTyped' /\ ChangesKept /\ OpenKeys' \subseteq OpenKeys
             /\ hook' \in [Hooks -> {None} \cup OfferKeys]
             /\ UNCHANGED <<provider, call, wanted, calls, faults>>
  <2>1. (\E k \in OpenKeys : Advance(k, "applied")) \/ UNCHANGED <<changes, row>>
    BY <1>2 DEF ApplyChange
  <2>2. \A k \in OpenKeys : k \in Keys /\ changes[k] \in ChangeRows
    BY DEF OpenKeys, PlanChangeTyped, RowsTyped
  <2>3. RowsTyped' /\ ChangesKept /\ OpenKeys' \subseteq OpenKeys
    <3>1. CASE UNCHANGED <<changes, row>>
      BY <3>1 DEF PlanChangeTyped, RowsTyped, ChangesKept, OpenKeys
    <3>2. ASSUME NEW k \in OpenKeys, Advance(k, "applied")
          PROVE  RowsTyped' /\ ChangesKept /\ OpenKeys' \subseteq OpenKeys
      BY <3>2, <2>2, AdvanceOrLeave DEF PlanChangeTyped
    <3> QED
      BY <2>1, <3>1, <3>2
  <2> QED
    BY <1>2, <2>3 DEF ApplyChange, PlanChangeTyped, CallsTyped
<1> QED
  BY <1>1, <1>2

LEMMA TypedStep ==
  ASSUME PlanChangeTyped, [Next]_vars
  PROVE  PlanChangeTyped'
<1>1. ASSUME NEW c \in Callers, KeepSubscription(c) PROVE PlanChangeTyped'
  BY <1>1, KeepCases, TypedGoesOn DEF PlanChangeTyped
<1>2. ASSUME NEW c \in Callers, NEW outcome \in {"ok", "refused", "lost"}, ChangePlan(c, outcome)
      PROVE  PlanChangeTyped'
  <2>1. /\ wanted' = IF outcome = "ok" /\ call[c].kept THEN FALSE ELSE wanted
        /\ faults' = IF outcome = "lost" THEN faults + 1 ELSE faults
    BY <1>2, ChangePlanCases
  <2>2. wanted \in BOOLEAN /\ faults \in Nat
    BY DEF PlanChangeTyped
  <2>3. wanted' \in BOOLEAN
    BY <2>1, <2>2, Zenon
  <2>4. faults' \in Nat
    BY <2>1, <2>2
  <2> QED
    BY <1>2, <2>3, <2>4, ChangePlanCases, TypedGoesOn
<1>3. ASSUME NEW c \in Callers, RestoreCancellation(c) PROVE PlanChangeTyped'
  BY <1>3, RestoreCases, TypedGoesOn DEF PlanChangeTyped
<1>4. ASSUME NEW c \in Callers, FailChange(c) \/ RecordUnscheduled(c) PROVE PlanChangeTyped'
  <2>1. /\ Moves(c) /\ call'[c].pc = "idle" /\ RowsTyped' /\ ChangesKept
        /\ UNCHANGED <<provider, hook, wanted, calls, faults>>
    BY <1>4, FailCases
  <2>2. ProviderTyped' /\ NamesChange(call'[c], changes')
    BY <2>1 DEF PlanChangeTyped, ProviderTyped, provider, NamesChange
  <2> QED
    BY <2>1, <2>2, TypedByParts DEF PlanChangeTyped
<1>5. ASSUME NEW c \in Callers, Unschedule(c) PROVE PlanChangeTyped'
  <2>1. /\ call[c].pc = "unschedule" /\ Moves(c) /\ ProviderTyped'
        /\ UNCHANGED <<row, changes, hook, wanted, calls, faults>>
        /\ \/ call'[c] = Idle
           \/ call'[c].pc = "unscheduled" /\ call'[c].to = call[c].to
    BY <1>5, UnscheduleCases
  <2>2. RowsTyped' /\ ChangesKept /\ NamesChange(call'[c], changes')
    BY <2>1 DEF PlanChangeTyped, RowsTyped, ChangesKept, NamesChange, Idle
  <2> QED
    BY <2>1, <2>2, TypedByParts DEF PlanChangeTyped
<1>6. ASSUME NEW c \in Callers, Dies(c) PROVE PlanChangeTyped'
  <2>1. Moves(c) /\ call'[c].pc = "idle"
    BY <1>6, ReturnsMoves DEF Dies, PlanChangeTyped
  <2>2. faults' \in Nat /\ UNCHANGED <<truth, log, row, changes, hook, wanted>>
    BY <1>6 DEF Dies, Fault, provider, PlanChangeTyped
  <2> QED
    BY <2>1, <2>2, TypedCallOnly DEF PlanChangeTyped, NamesChange
<1>7. ASSUME Settle(TRUE) \/ Settle(FALSE) \/ Renew \/ \E o \in OfferKeys : PortalChange(o)
      PROVE  PlanChangeTyped'
  BY <1>7, ProviderCases DEF PlanChangeTyped, RowsTyped, CallsTyped, NamesChange
<1>8. ASSUME NEW h \in Hooks, (\E i \in DOMAIN log : Reconcile(h, log[i])) \/ ApplyChange(h)
      PROVE  PlanChangeTyped'
  <2>1. /\ RowsTyped' /\ ChangesKept /\ hook' \in [Hooks -> {None} \cup OfferKeys]
        /\ UNCHANGED <<provider, call, wanted, calls, faults>>
    BY <1>8, HookCases
  <2>2. \A c \in Callers : NamesChange(call[c], changes')
    BY <2>1, NamesKept DEF PlanChangeTyped, CallsTyped, ChangesKept
  <2> QED
    BY <2>1, <2>2 DEF PlanChangeTyped, ProviderTyped, CallsTyped, provider
<1>9. CASE UNCHANGED vars
  BY <1>9 DEF vars, provider, PlanChangeTyped, ProviderTyped, RowsTyped, CallsTyped, NamesChange
<1> QED
  BY <1>1, <1>2, <1>3, <1>4, <1>5, <1>6, <1>7, <1>8, <1>9, TypedStarts, TypedCommand,
     TypedCancelListed, TypedConfirm, TypedOpenChange DEF Next

-----------------------------------------------------------------------------
(* One open change *)

\* Only OpenChange opens a change, and only where none is open.
LEMMA OpenAloneStep ==
  ASSUME PlanChangeTyped, OpenAlone, [Next]_vars
  PROVE  OpenAlone'
<1>1. CASE OpenKeys' \subseteq OpenKeys
  BY <1>1 DEF OpenAlone
<1>2. CASE changes' = changes
  BY <1>1, <1>2 DEF OpenKeys
<1>3. ASSUME NEW c \in Callers, OpenChange(c) PROVE OpenAlone'
  <2>1. CASE Opens(c)
    <3>1. call[c].pc = "open"
      BY <1>3 DEF OpenChange
    <3>2. \A k \in Keys \ {call[c].key} : changes'[k] = changes[k]
      BY <2>1, <3>1, OpensRow
    <3>3. OpenKeys = {}
      BY <2>1 DEF Opens, NoOpenChange
    <3>4. OpenKeys' \subseteq {call[c].key}
      BY <3>2, <3>3 DEF OpenKeys
    <3> QED
      BY <3>4 DEF OpenAlone
  <2>2. CASE ~Opens(c)
    BY <1>2, <1>3, <2>2, OpenChangeCases DEF GivesUp, Resumes
  <2> QED
    BY <2>1, <2>2
<1>4. ASSUME NEW c \in Callers, FailChange(c) \/ RecordUnscheduled(c) PROVE OpenAlone'
  BY <1>1, <1>4, FailCases
<1>5. ASSUME NEW h \in Hooks, (\E i \in DOMAIN log : Reconcile(h, log[i])) \/ ApplyChange(h)
      PROVE  OpenAlone'
  BY <1>1, <1>5, HookCases
<1>6. ASSUME NEW c \in Callers, NEW k \in Keys,
             \/ StartCancel(c, k) \/ StartReactivate(c, k) \/ StartCancelAll(c, k)
             \/ \E o \in OfferKeys : StartPreview(c, k, o)
             \/ StartUnschedule(c, k)
      PROVE  changes' = changes
  BY <1>6 DEF StartCancel, StartReactivate, StartCancelAll, StartPreview, StartUnschedule, Begins
<1>7. ASSUME NEW c \in Callers,
             \/ Command(c, "cancel", TRUE) \/ Command(c, "reactivate", FALSE)
             \/ CancelListed(c) \/ Confirm(c) \/ KeepSubscription(c)
             \/ \E outcome \in {"ok", "refused", "lost"} : ChangePlan(c, outcome)
             \/ RestoreCancellation(c) \/ Unschedule(c) \/ Dies(c)
      PROVE  changes' = changes
  BY <1>7 DEF Command, CancelListed, Confirm, KeepSubscription, ChangePlan, RestoreCancellation,
              Unschedule, Dies
<1>8. ASSUME Settle(TRUE) \/ Settle(FALSE) \/ Renew \/ \E o \in OfferKeys : PortalChange(o)
      PROVE  changes' = changes
  BY <1>8 DEF Settle, Renew, PortalChange
<1>9. CASE UNCHANGED vars
  BY <1>2, <1>9 DEF vars
<1> QED
  BY <1>2, <1>3, <1>4, <1>5, <1>6, <1>7, <1>8, <1>9 DEF Next

\* A set whose members are equal has at most one.
LEMMA OpenAloneCounts == OpenAlone => OneOpenChange
<1> SUFFICES ASSUME OpenAlone PROVE OneOpenChange
  OBVIOUS
<1>1. CASE OpenKeys = {}
  BY <1>1, FS_EmptySet DEF OneOpenChange
<1>2. CASE OpenKeys # {}
  <2>1. PICK k \in OpenKeys : OpenKeys = {k}
    BY <1>2 DEF OpenAlone
  <2> QED
    BY <2>1, FS_Singleton DEF OneOpenChange
<1> QED
  BY <1>1, <1>2

-----------------------------------------------------------------------------
(* Cancellations *)

\* A caller that lifted a cancellation and has still to end its plan change, well
\* or badly, with a restoring request the provider has not seen.
OwesCancellation(c) ==
  /\ call[c].kept
  /\ call[c].pc \in {"change", "restore"}
  /\ <<"restore", call[c].key>> \notin done

\* Who kept a subscription asked for it, and nobody restores what was not kept.
KeptAsked ==
  /\ \A c \in Callers : call[c].kept =>
        call[c].pc \in {"change", "restore", "fail"} /\ <<"keep", call[c].key>> \in done
  /\ \A c \in Callers : call[c].pc = "restore" => call[c].kept
  /\ \A k \in Keys : <<"restore", k>> \in done => <<"keep", k>> \in done

EndsIfCancelled == truth.status # "active" => truth.cancel

SomebodyOwes ==
  faults = 0 /\ wanted /\ ~truth.cancel => \E c \in Callers : OwesCancellation(c)

CancellationInv == KeptAsked /\ EndsIfCancelled /\ SomebodyOwes

LEMMA CancellationInit == Init => CancellationInv
<1> SUFFICES ASSUME Init PROVE CancellationInv
  OBVIOUS
<1>1. \A c \in Callers : ~call[c].kept /\ call[c].pc = "idle"
  BY DEF Init, Idle
<1>2. truth.cancel = wanted /\ truth.status = "active" /\ done = {}
  BY DEF Init
<1>3. KeptAsked
  BY <1>1, <1>2 DEF KeptAsked
<1>4. EndsIfCancelled
  BY <1>2 DEF EndsIfCancelled
<1>5. SomebodyOwes
  BY <1>2, Zenon DEF SomebodyOwes
<1> QED
  BY <1>3, <1>4, <1>5 DEF CancellationInv

\* A step that asks the provider for nothing and owes what it owed.
LEMMA CancellationCallOnly ==
  ASSUME PlanChangeTyped, CancellationInv, NEW c \in Callers, Moves(c), UNCHANGED <<truth, done, wanted>>,
         faults' = faults, call[c].pc \notin {"change", "restore"}, ~call'[c].kept,
         call'[c].pc # "restore"
  PROVE  CancellationInv'
<1>1. KeptAsked'
  BY DEF CancellationInv, KeptAsked, Moves
<1>2. EndsIfCancelled'
  BY DEF CancellationInv, EndsIfCancelled
<1>3. \A b \in Callers : OwesCancellation(b) => OwesCancellation(b)'
  BY DEF OwesCancellation, Moves
<1>4. SomebodyOwes'
  BY <1>3 DEF CancellationInv, SomebodyOwes
<1> QED
  BY <1>1, <1>2, <1>4 DEF CancellationInv

LEMMA CancellationStarts ==
  ASSUME PlanChangeTyped, CancellationInv, NEW c \in Callers, NEW k \in Keys,
         \/ StartCancel(c, k) \/ StartReactivate(c, k) \/ StartCancelAll(c, k)
         \/ \E o \in OfferKeys : StartPreview(c, k, o)
         \/ StartUnschedule(c, k)
  PROVE  CancellationInv'
<1>1. ASSUME NEW d, Begins(c, d), ~d.kept, d.pc # "restore" PROVE CancellationInv'
  <2>1. /\ call[c].pc = "idle" /\ call' = [call EXCEPT ![c] = d]
        /\ UNCHANGED <<truth, done, wanted, faults>>
    BY <1>1 DEF Begins, provider
  <2>2. call'[c] = d /\ \A b \in Callers \ {c} : call'[b] = call[b]
    BY <2>1 DEF PlanChangeTyped, CallsTyped
  <2>3. call' \in [Callers -> CallRows]
    BY TypedStarts DEF PlanChangeTyped, CallsTyped
  <2> QED
    BY <1>1, <2>1, <2>2, <2>3, CancellationCallOnly DEF Moves
<1>2. ASSUME NEW s \in {"cancel", "cancelall", "reactivate"},
             Begins(c, [Idle EXCEPT !.pc = s, !.key = k])
      PROVE  CancellationInv'
  <2> DEFINE d == [Idle EXCEPT !.pc = s, !.key = k]
  <2>1. ~d.kept /\ d.pc # "restore"
    BY DEF Idle
  <2> QED
    BY <1>1, <1>2, <2>1
<1>3. ASSUME NEW o \in OfferKeys, StartPreview(c, k, o) PROVE CancellationInv'
  <2> DEFINE d == [Idle EXCEPT !.pc = "quoted", !.key = k, !.to = o, !.at = Quote(o)]
  <2>1. ~d.kept /\ d.pc # "restore"
    BY DEF Idle
  <2>2. Begins(c, d)
    BY <1>3 DEF StartPreview
  <2> QED
    BY <1>1, <2>1, <2>2
<1>4. ASSUME StartUnschedule(c, k) PROVE CancellationInv'
  <2>1. PICK x \in OpenKeys : Begins(c, [Idle EXCEPT !.pc = "unschedule", !.key = k, !.to = x])
    BY <1>4 DEF StartUnschedule
  <2> DEFINE d == [Idle EXCEPT !.pc = "unschedule", !.key = k, !.to = x]
  <2>2. ~d.kept /\ d.pc # "restore"
    BY DEF Idle
  <2> QED
    BY <1>1, <2>1, <2>2
<1> QED
  BY <1>2, <1>3, <1>4 DEF StartCancel, StartReactivate, StartCancelAll

\* The owner's own command: what it executes becomes the owner's wish.
LEMMA CancellationCommand ==
  ASSUME PlanChangeTyped, CancellationInv, NEW c \in Callers,
         NEW name \in {"cancel", "reactivate"}, NEW cancel \in BOOLEAN, Command(c, name, cancel)
  PROVE  CancellationInv'
<1> DEFINE request == <<name, call[c].key>>
<1>1. /\ call[c].pc = name /\ Moves(c) /\ ~call'[c].kept /\ call'[c].pc = "idle"
      /\ faults' = faults
  BY ReturnsMoves DEF Command, PlanChangeTyped
<1>2. CASE UNCHANGED <<truth, wanted>> /\ done' = done \cup {request}
  <2>1. KeptAsked'
    BY <1>1, <1>2 DEF CancellationInv, KeptAsked, Moves
  <2>2. EndsIfCancelled'
    BY <1>2 DEF CancellationInv, EndsIfCancelled
  <2>3. \A b \in Callers : OwesCancellation(b) => OwesCancellation(b)'
    BY <1>1, <1>2 DEF OwesCancellation, Moves
  <2>4. SomebodyOwes'
    BY <1>1, <1>2, <2>3 DEF CancellationInv, SomebodyOwes
  <2> QED
    BY <2>1, <2>2, <2>4 DEF CancellationInv
<1>3. CASE truth.status # "active"
  <2>1. UNCHANGED <<truth, done, wanted>>
    BY <1>3 DEF Command, provider
  <2> QED
    BY <1>1, <2>1, CancellationCallOnly
<1>4. CASE truth.status = "active"
  <2>1. SetCancel(request, cancel) /\ wanted' = IF request \in done THEN wanted ELSE cancel
    BY <1>4 DEF Command
  <2>2. /\ done' = done \cup {request}
        /\ request \in done => truth' = truth
        /\ request \notin done => truth'.cancel = cancel /\ truth'.status = "active"
    BY <2>1, SetCancelOnce DEF PlanChangeTyped
  <2>3. CASE request \in done
    BY <1>2, <2>1, <2>2, <2>3
  <2>4. CASE request \notin done
    <3>1. KeptAsked'
      BY <1>1, <2>2 DEF CancellationInv, KeptAsked, Moves
    <3>2. EndsIfCancelled'
      BY <2>2, <2>4 DEF EndsIfCancelled
    <3>3. truth'.cancel = wanted'
      BY <2>1, <2>2, <2>4
    <3>4. SomebodyOwes'
      BY <3>3, Zenon DEF SomebodyOwes
    <3> QED
      BY <3>1, <3>2, <3>4 DEF CancellationInv
  <2> QED
    BY <2>3, <2>4
<1> QED
  BY <1>3, <1>4

\* A caller goes on with its plan change, at one request more, and the cancellation
\* stays what it was.
LEMMA CancellationKept ==
  ASSUME PlanChangeTyped, CancellationInv, NEW c \in Callers, Moves(c),
         done \subseteq done', \A k \in Keys : <<"restore", k>> \in done' => <<"restore", k>> \in done,
         truth'.cancel = truth.cancel, truth'.status = truth.status,
         faults' = faults, wanted' => wanted,
         call'[c].kept => call[c].kept /\ call'[c].key = call[c].key
                          /\ call'[c].pc \in {"change", "restore"},
         call'[c].pc = "restore" => call'[c].kept,
         wanted' => (OwesCancellation(c) => call'[c].kept)
  PROVE  CancellationInv'
<1>1. KeptAsked'
  BY DEF CancellationInv, KeptAsked, Moves
<1>2. EndsIfCancelled'
  BY DEF CancellationInv, EndsIfCancelled
<1>3. ASSUME wanted', NEW b \in Callers, OwesCancellation(b) PROVE OwesCancellation(b)'
  <2>1. call[b].key \in Keys
    BY <1>3 DEF OwesCancellation, PlanChangeTyped, NamesChange
  <2> QED
    BY <1>3, <2>1 DEF OwesCancellation, Moves
<1>4. SomebodyOwes'
  BY <1>3 DEF CancellationInv, SomebodyOwes
<1> QED
  BY <1>1, <1>2, <1>4 DEF CancellationInv

\* A cancellation is lifted by a caller that then owes it.
LEMMA CancellationLifted ==
  ASSUME PlanChangeTyped, CancellationInv, NEW c \in Callers, KeepSubscription(c),
         SetCancel(<<"keep", call[c].key>>, FALSE), call'[c].pc = "change", call'[c].kept
  PROVE  CancellationInv'
<1> DEFINE k == call[c].key
<1>1. /\ call[c].pc = "keep" /\ Moves(c) /\ call'[c].key = k
      /\ wanted' = wanted /\ faults' = faults
  BY KeepCases
<1>2. k \in Keys
  BY <1>1 DEF PlanChangeTyped, NamesChange
<1>3. /\ done' = done \cup {<<"keep", k>>}
      /\ <<"keep", k>> \in done => truth' = truth
      /\ <<"keep", k>> \notin done => truth'.status = "active"
  BY SetCancelOnce DEF PlanChangeTyped
<1>4. KeptAsked'
  BY <1>1, <1>3 DEF CancellationInv, KeptAsked, Moves
<1>5. EndsIfCancelled'
  BY <1>3 DEF CancellationInv, EndsIfCancelled
<1>6. CASE <<"keep", k>> \in done
  <2>1. \A b \in Callers : OwesCancellation(b) => OwesCancellation(b)'
    BY <1>1, <1>3 DEF OwesCancellation, Moves
  <2>2. SomebodyOwes'
    BY <1>1, <1>3, <1>6, <2>1 DEF CancellationInv, SomebodyOwes
  <2> QED
    BY <1>4, <1>5, <2>2 DEF CancellationInv
<1>7. CASE <<"keep", k>> \notin done
  <2>1. <<"restore", k>> \notin done
    BY <1>2, <1>7 DEF CancellationInv, KeptAsked
  <2>2. OwesCancellation(c)'
    BY <1>1, <1>3, <2>1 DEF OwesCancellation
  <2>3. SomebodyOwes'
    BY <2>2 DEF SomebodyOwes
  <2> QED
    BY <1>4, <1>5, <2>3 DEF CancellationInv
<1> QED
  BY <1>6, <1>7

\* A cancellation is restored, or was, or the subscription has ended with it.
LEMMA CancellationRestored ==
  ASSUME PlanChangeTyped, CancellationInv, NEW c \in Callers, RestoreCancellation(c)
  PROVE  CancellationInv'
<1> DEFINE k == call[c].key
<1>1. /\ call[c].pc = "restore" /\ Moves(c) /\ call'[c].key = k
      /\ call'[c].pc = "fail" /\ call'[c].kept = call[c].kept
      /\ wanted' = wanted /\ faults' = faults
      /\ \/ SetCancel(<<"restore", k>>, TRUE)
         \/ truth.status # "active" /\ UNCHANGED <<truth, done>>
  BY RestoreCases
<1>2. k \in Keys /\ call[c].kept /\ <<"keep", k>> \in done
  BY <1>1 DEF PlanChangeTyped, NamesChange, CancellationInv, KeptAsked
<1>3. CASE truth.status # "active" /\ UNCHANGED <<truth, done>>
  <2>1. truth'.cancel
    BY <1>3 DEF CancellationInv, EndsIfCancelled
  <2>2. KeptAsked'
    BY <1>1, <1>2, <1>3 DEF CancellationInv, KeptAsked, Moves
  <2> QED
    BY <2>1, <2>2 DEF CancellationInv, EndsIfCancelled, SomebodyOwes
<1>4. CASE SetCancel(<<"restore", k>>, TRUE)
  <2>1. /\ done' = done \cup {<<"restore", k>>}
        /\ <<"restore", k>> \in done => truth' = truth
        /\ <<"restore", k>> \notin done => truth'.cancel = TRUE
    BY <1>4, SetCancelOnce DEF PlanChangeTyped
  <2>2. KeptAsked'
    BY <1>1, <1>2, <2>1 DEF CancellationInv, KeptAsked, Moves
  <2>3. CASE <<"restore", k>> \notin done
    BY <2>1, <2>2, <2>3 DEF CancellationInv, EndsIfCancelled, SomebodyOwes
  <2>4. CASE <<"restore", k>> \in done
    <3>1. \A b \in Callers : OwesCancellation(b) => OwesCancellation(b)'
      BY <1>1, <2>1, <2>4 DEF OwesCancellation, Moves
    <3>2. SomebodyOwes'
      BY <1>1, <2>1, <2>4, <3>1 DEF CancellationInv, SomebodyOwes
    <3> QED
      BY <2>1, <2>2, <2>4, <3>2 DEF CancellationInv, EndsIfCancelled
  <2> QED
    BY <2>3, <2>4
<1> QED
  BY <1>1, <1>3, <1>4

LEMMA CancellationChangePlan ==
  ASSUME PlanChangeTyped, CancellationInv, NEW c \in Callers,
         NEW outcome \in {"ok", "refused", "lost"}, ChangePlan(c, outcome)
  PROVE  CancellationInv'
<1> DEFINE request == <<"change", call[c].key>>
<1>1. /\ call[c].pc = "change" /\ Moves(c)
      /\ done' = done \/ done' = done \cup {request}
      /\ truth'.cancel = truth.cancel /\ truth'.status = truth.status
      /\ outcome = "ok" => call'[c].pc = "idle"
      /\ outcome = "ok" => ~call'[c].kept
      /\ outcome # "ok" => /\ call'[c].pc = IF call[c].kept THEN "restore" ELSE "fail"
                           /\ call'[c].key = call[c].key /\ call'[c].kept = call[c].kept
      /\ wanted' = IF outcome = "ok" /\ call[c].kept THEN FALSE ELSE wanted
      /\ faults' = IF outcome = "lost" THEN faults + 1 ELSE faults
  BY ChangePlanCases
<1>2. call[c].key \in Keys
  BY <1>1 DEF PlanChangeTyped, NamesChange
<1>3. wanted' => wanted /\ ~(outcome = "ok" /\ call[c].kept)
  BY <1>1, Zenon
<1>4. CASE outcome = "lost"
  <2>1. faults' # 0
    BY <1>1, <1>4 DEF PlanChangeTyped
  <2>2. KeptAsked'
    BY <1>1, <1>4 DEF CancellationInv, KeptAsked, Moves
  <2> QED
    BY <1>1, <2>1, <2>2 DEF CancellationInv, EndsIfCancelled, SomebodyOwes
<1>5. CASE outcome # "lost"
  <2>1. faults' = faults
    BY <1>1, <1>5
  <2>2. call'[c].kept => call[c].kept /\ call'[c].key = call[c].key /\ call'[c].pc = "restore"
    BY <1>1
  <2>3. call'[c].pc = "restore" => call'[c].kept
    BY <1>1
  <2>4. wanted' => (OwesCancellation(c) => call'[c].kept)
    BY <1>1, <1>3 DEF OwesCancellation
  <2>5. done \subseteq done' /\ \A k \in Keys : <<"restore", k>> \in done' => <<"restore", k>> \in done
    BY <1>1
  <2> QED
    BY <1>1, <1>3, <2>1, <2>2, <2>3, <2>4, <2>5, CancellationKept
<1> QED
  BY <1>4, <1>5

\* A step that leaves the commands alone.
LEMMA CancellationUntouched ==
  ASSUME CancellationInv, UNCHANGED <<done, call, wanted, faults>>,
         truth'.cancel = truth.cancel, truth'.status = truth.status \/ truth.cancel
  PROVE  CancellationInv'
<1>1. KeptAsked'
  BY DEF CancellationInv, KeptAsked
<1>2. EndsIfCancelled'
  BY DEF CancellationInv, EndsIfCancelled
<1>3. SomebodyOwes'
  BY DEF CancellationInv, SomebodyOwes, OwesCancellation
<1> QED
  BY <1>1, <1>2, <1>3 DEF CancellationInv

LEMMA CancellationStep ==
  ASSUME PlanChangeTyped, CancellationInv, [Next]_vars
  PROVE  CancellationInv'
<1>1. ASSUME NEW c \in Callers, CancelListed(c) \/ Confirm(c) PROVE CancellationInv'
  <2>1. /\ call[c].pc \in {"cancelall", "quoted"}
        /\ UNCHANGED <<truth, done, wanted, faults>>
    BY <1>1 DEF CancelListed, Confirm, provider
  <2>2. ~call[c].kept /\ call[c] \in CallRows /\ call \in [Callers -> CallRows]
    BY <2>1 DEF CancellationInv, KeptAsked, PlanChangeTyped, CallsTyped
  <2>3. call' \in [Callers -> CallRows]
    BY <1>1, TypedCancelListed, TypedConfirm DEF PlanChangeTyped, CallsTyped
  <2>4. /\ \A b \in Callers \ {c} : call'[b] = call[b]
        /\ call'[c].pc # "restore" /\ ~call'[c].kept
    <3>1. CASE Returns(c)
      BY <3>1, ReturnsMoves DEF PlanChangeTyped, Moves
    <3>2. CASE CancelListed(c) /\ ~Returns(c)
      <4> DEFINE d == [call[c] EXCEPT !.pc = "cancel", !.key = <<"all", call[c].key>>]
      <4>1. call' = [call EXCEPT ![c] = d]
        BY <3>2, <2>2 DEF CancelListed, CallRows
      <4>2. d.pc = "cancel" /\ ~d.kept
        BY <2>2 DEF CallRows
      <4> QED
        BY <2>2, <4>1, <4>2
    <3>3. CASE Confirm(c) /\ ~Returns(c)
      <4> DEFINE e == Effective(row.offer, call[c].to)
                 d == [call[c] EXCEPT !.pc = "open", !.when = e, !.at = truth.period,
                                      !.cancel = row.cancel]
      <4>1. call' = [call EXCEPT ![c] = d]
        BY <3>3 DEF Confirm
      <4> HIDE DEF e
      <4>2. d.pc = "open" /\ ~d.kept
        BY <2>2 DEF CallRows
      <4> QED
        BY <2>2, <4>1, <4>2
    <3> QED
      BY <1>1, <3>1, <3>2, <3>3
  <2> QED
    BY <2>1, <2>3, <2>4, CancellationCallOnly DEF Moves
<1>2. ASSUME NEW c \in Callers, OpenChange(c) PROVE CancellationInv'
  <2>1. /\ call[c].pc = "open" /\ UNCHANGED <<truth, done, wanted, faults>>
        /\ GivesUp(c) \/ Resumes(c) \/ Opens(c)
    BY <1>2, OpenChangeCases
  <2>2. ~call[c].kept /\ call[c] \in CallRows
    BY <2>1 DEF CancellationInv, KeptAsked, PlanChangeTyped, CallsTyped
  <2>3. CASE GivesUp(c)
    BY <2>1, <2>3, ReturnsMoves, CancellationCallOnly DEF GivesUp, PlanChangeTyped
  <2>4. ASSUME NEW s \in {"keep", "change"}, Goes(c, s) PROVE CancellationInv'
    <3>1. Moves(c) /\ call'[c] = [call[c] EXCEPT !.pc = s]
      BY <2>4, GoesMoves DEF PlanChangeTyped, Steps
    <3>2. call'[c].pc = s /\ ~call'[c].kept
      BY <2>2, <3>1 DEF CallRows
    <3> QED
      BY <2>1, <3>1, <3>2, CancellationCallOnly
  <2> QED
    BY <2>1, <2>3, <2>4 DEF Resumes, Opens
<1>3. ASSUME NEW c \in Callers, KeepSubscription(c) PROVE CancellationInv'
  <2>1. CASE SetCancel(<<"keep", call[c].key>>, FALSE) /\ call'[c].pc = "change" /\ call'[c].kept
    BY <1>3, <2>1, CancellationLifted
  <2>2. CASE ~(SetCancel(<<"keep", call[c].key>>, FALSE) /\ call'[c].pc = "change" /\ call'[c].kept)
    <3>1. /\ call[c].pc = "keep" /\ Moves(c) /\ UNCHANGED <<truth, done, wanted, faults>>
          /\ call'[c].pc = "fail" /\ call'[c].kept = call[c].kept
      BY <1>3, <2>2, KeepCases
    <3>2. ~call[c].kept
      BY <3>1 DEF CancellationInv, KeptAsked
    <3> QED
      BY <3>1, <3>2, CancellationCallOnly
  <2> QED
    BY <2>1, <2>2
<1>4. ASSUME NEW c \in Callers, FailChange(c) \/ RecordUnscheduled(c) PROVE CancellationInv'
  <2>1. /\ call[c].pc \in {"fail", "unscheduled"} /\ Moves(c) /\ call'[c].pc = "idle"
        /\ ~call'[c].kept /\ UNCHANGED <<truth, done, wanted, faults>>
    BY <1>4, FailCases DEF provider
  <2> QED
    BY <2>1, CancellationCallOnly
<1>5. ASSUME NEW c \in Callers, Unschedule(c) PROVE CancellationInv'
  <2> DEFINE request == <<"unschedule", call[c].key>>
  <2>1. /\ call[c].pc = "unschedule" /\ Moves(c) /\ UNCHANGED <<wanted, faults>>
        /\ \/ call'[c] = Idle
           \/ call'[c].pc = "unscheduled" /\ call'[c].kept = call[c].kept
        /\ done' = done \/ done' = done \cup {request}
        /\ truth'.cancel = truth.cancel /\ truth'.status = truth.status
    BY <1>5, UnscheduleCases
  <2>2. ~call[c].kept
    BY <2>1 DEF CancellationInv, KeptAsked
  <2>3. ~call'[c].kept /\ call'[c].pc # "restore"
    BY <2>1, <2>2 DEF Idle
  <2>4. done \subseteq done' /\ \A k \in Keys : <<"restore", k>> \in done' => <<"restore", k>> \in done
    BY <2>1
  <2>5. ~OwesCancellation(c)
    BY <2>2 DEF OwesCancellation
  <2> QED
    BY <2>1, <2>3, <2>4, <2>5, CancellationKept
<1>6. ASSUME NEW c \in Callers, Dies(c) PROVE CancellationInv'
  <2>1. Moves(c) /\ ~call'[c].kept /\ call'[c].pc = "idle"
    BY <1>6, ReturnsMoves DEF Dies, PlanChangeTyped
  <2>2. faults' # 0 /\ UNCHANGED <<truth, done, wanted>>
    BY <1>6 DEF Dies, Fault, provider, PlanChangeTyped
  <2>3. KeptAsked'
    BY <2>1, <2>2 DEF CancellationInv, KeptAsked, Moves
  <2> QED
    BY <2>2, <2>3 DEF CancellationInv, EndsIfCancelled, SomebodyOwes
<1>7. ASSUME Settle(TRUE) \/ Settle(FALSE) \/ Renew \/ \E o \in OfferKeys : PortalChange(o)
      PROVE  CancellationInv'
  BY <1>7, ProviderCases, CancellationUntouched
<1>8. ASSUME NEW h \in Hooks, (\E i \in DOMAIN log : Reconcile(h, log[i])) \/ ApplyChange(h)
      PROVE  CancellationInv'
  <2>1. UNCHANGED <<provider, call, wanted, faults>>
    BY <1>8, HookCases
  <2> QED
    BY <2>1, CancellationUntouched DEF provider
<1>9. CASE UNCHANGED vars
  BY <1>9, CancellationUntouched DEF vars, provider
<1> QED
  BY <1>1, <1>2, <1>3, <1>4, <1>5, <1>6, <1>7, <1>8, <1>9, CancellationStarts,
     CancellationCommand, CancellationChangePlan, CancellationRestored DEF Next

LEMMA CancellationInvSuffices == CancellationInv => CancellationSurvives
BY DEF CancellationInv, SomebodyOwes, OwesCancellation, CancellationSurvives

-----------------------------------------------------------------------------
(* Theorems *)

PlanChangeInv == PlanChangeTyped /\ OpenAlone /\ CancellationInv

\* The inductive invariant of the commands: their types, what each step knows, no
\* two open changes, and a caller that owes every cancellation that is missing.
LEMMA PlanChangeInvariant == PlanChangeSpec => []PlanChangeInv
<1>1. Init => PlanChangeInv
  <2>1. Init => OpenAlone
    BY DEF Init, OpenAlone, OpenKeys
  <2> QED
    BY <2>1, TypedInit, CancellationInit DEF PlanChangeInv
<1>2. PlanChangeInv /\ [Next]_vars => PlanChangeInv'
  BY TypedStep, OpenAloneStep, CancellationStep DEF PlanChangeInv
<1> QED
  BY <1>1, <1>2, PTL DEF PlanChangeSpec

\* However many calls found no change open, a subscription never has two
\* (the unique index behind open_subscription_change).
THEOREM OneChangeOpen == PlanChangeSpec => []OneOpenChange
<1>1. PlanChangeInv => OneOpenChange
  BY OpenAloneCounts DEF PlanChangeInv
<1> QED
  BY <1>1, PlanChangeInvariant, PTL

\* A plan change that fails gives a cancelled subscription its cancellation back,
\* whatever other commands, replays and provider steps run between (ConfirmPlanChange).
THEOREM CancellationKeptThroughChange == PlanChangeSpec => []CancellationSurvives
<1>1. PlanChangeInv => CancellationSurvives
  BY CancellationInvSuffices DEF PlanChangeInv
<1> QED
  BY <1>1, PlanChangeInvariant, PTL

=============================================================================
