--------------------------- MODULE CheckoutProofs ---------------------------
(***************************************************************************)
(* One operation key never has two sessions at a provider, and a caller is *)
(* sent only to the session of its own request, attached to its intent,    *)
(* for any number of callers, keys, requests, providers and faults.        *)
(***************************************************************************)
EXTENDS Checkout, FiniteSetTheorems, TLAPS

PCs == {"idle", "select", "get", "load", "wait", "intent", "poll", "close", "session", "customer",
        "attach", "done"}

Closed == {"completed", "expired", "failed"}

Kinds == {"none", "create", "status"}

Thens == {"none", "intent", "poll"}

Tos == {"none", "open"} \cup Closed

Answers == {"none", "error", "session", "pending"} \cup Closed

CallRows ==
  [pc : PCs, kind : Kinds, key : {None} \cup Keys,
   req : {None} \cup Requests, provider : {None} \cup Providers, since : Nat,
   on : {None} \cup Callers, inst : {None} \cup Nat, then : Thens,
   seen : {None} \cup Ids, to : Tos,
   answer : Answers]

SessionRows ==
  [state : {"open", "paid", "unpaid", "failed", "expired"},
   for : {RequestDigest(r) : r \in Requests}, asked : Requests]

RegistryTyped ==
  /\ cache \in [Providers -> {None} \cup Nat]
  /\ loading \in [Providers -> {None} \cup Callers]
  /\ generation \in Nat

RowsTyped ==
  /\ intents \in [Ids -> {None} \cup IntentRows]
  /\ sessions \in [Ids -> {None} \cup SessionRows]
  /\ made \in [Ids -> Nat]

CallsTyped == call \in [Callers -> CallRows]

-----------------------------------------------------------------------------
(* What a call knows *)

IdOf(d) == <<d.provider, d.key>>

\* The intent of call d is there and bound to its request.
Matched(d, rows) ==
  /\ IdOf(d) \in Ids /\ d.req \in Requests
  /\ rows[IdOf(d)] \in IntentRows
  /\ rows[IdOf(d)].digest = RequestDigest(d.req)

\* The intent of call d names the session the provider made for it.
Attached(d, rows, count) ==
  /\ IdOf(d) \in Ids
  /\ rows[IdOf(d)] \in IntentRows
  /\ rows[IdOf(d)].session = IdOf(d)
  /\ count[IdOf(d)] > 0

\* Call d is on its way to step s, by way of the registry or there already.
Toward(d, s) == d.pc = s \/ (d.pc \in {"get", "load", "wait"} /\ d.then = s)

\* What each step of a call may rely on.
Knows(d, rows, count) ==
  /\ d.pc = "select" => d.key \in Keys /\ d.req \in Requests /\ d.kind = "create"
  /\ d.pc \in {"get", "load", "wait"} =>
        d.then \in {"intent", "poll"} /\ IdOf(d) \in Ids
  /\ Toward(d, "intent") => IdOf(d) \in Ids /\ d.req \in Requests /\ d.kind = "create"
  /\ Toward(d, "poll") => /\ Attached(d, rows, count) /\ d.seen = IdOf(d)
                          /\ d.kind = "create" => Matched(d, rows)
  /\ d.pc \in {"session", "customer", "attach"} => Matched(d, rows)
  /\ d.pc \in {"customer", "attach"} => d.seen = IdOf(d) /\ count[IdOf(d)] > 0
  /\ d.pc = "close" => IdOf(d) \in Ids /\ d.to \in Closed
  /\ d.pc # "done" => d.answer = "none"
  /\ d.answer = "session" => Matched(d, rows) /\ Attached(d, rows, count)

\* A session is for the request its intent is bound to, and an intent names only
\* the session of its own id.
SessionsBound ==
  \A id \in Ids :
    /\ made[id] > 0 => /\ sessions[id] \in SessionRows /\ intents[id] \in IntentRows
                       /\ sessions[id].for = intents[id].digest
    /\ intents[id] \in IntentRows /\ intents[id].session # None =>
         intents[id].session = id /\ made[id] > 0

\* A key whose session was made is remembered, or its intent is past its time and
\* nobody is about to ask for another.
KeyHeld(id) ==
  /\ id \in memory => made[id] > 0
  /\ \/ made[id] = 0
     \/ /\ made[id] = 1
        /\ \/ id \in memory
           \/ /\ id \in late
              /\ \A c \in Callers : call[c].pc = "session" => Id(c) # id

CheckoutInv ==
  /\ RegistryTyped /\ RowsTyped /\ CallsTyped
  /\ \A c \in Callers : Knows(call[c], intents, made)
  /\ SessionsBound
  /\ \A id \in Ids : KeyHeld(id)

-----------------------------------------------------------------------------
(* Operators *)

\* The names a call's fields may have.
LEMMA Names ==
  /\ {"idle", "select", "get", "load", "wait", "intent", "poll"} \subseteq PCs
  /\ {"close", "session", "customer", "attach", "done"} \subseteq PCs
  /\ {"none", "create", "status"} \subseteq Kinds
  /\ {"none", "intent", "poll"} \subseteq Thens
  /\ {"none", "open", "completed", "expired", "failed"} \subseteq Tos
  /\ {"none", "error", "session", "pending", "completed", "expired", "failed"} \subseteq Answers
BY DEF PCs, Kinds, Thens, Tos, Answers, Closed

LEMMA NoCallTyped == NoCall \in CallRows
BY Names DEF NoCall, CallRows

LEMMA NoCallKnows == \A rows, count : Knows(NoCall, rows, count)
<1>1. NoCall.pc = "idle" /\ NoCall.answer = "none"
  BY DEF NoCall
<1> QED
  BY <1>1 DEF Knows, Toward

LEMMA AnsweredTyped ==
  ASSUME NEW d \in CallRows, NEW a \in Answers
  PROVE  [d EXCEPT !.pc = "done", !.answer = a] \in CallRows
<1>1. "done" \in PCs
  BY Names
<1> QED
  BY <1>1 DEF CallRows

LEMMA ReturnedTyped ==
  ASSUME NEW d \in CallRows, NEW a \in Answers \ {"none"}
  PROVE  /\ Returned(d, a) \in CallRows
         /\ Returned(d, a).pc = "done" /\ Returned(d, a).answer = a
         /\ a = "session" => /\ IdOf(Returned(d, a)) = IdOf(d)
                             /\ Returned(d, a).req = d.req
<1>1. CASE a = "session"
  <2>1. Returned(d, a) = [NoCall EXCEPT !.pc = "done", !.key = d.key, !.req = d.req,
                                        !.provider = d.provider, !.answer = a]
    BY <1>1 DEF Returned
  <2>2. d.key \in {None} \cup Keys /\ d.req \in {None} \cup Requests
        /\ d.provider \in {None} \cup Providers
    BY DEF CallRows
  <2>3. Returned(d, a) \in CallRows
    BY <2>1, <2>2, NoCallTyped, Names DEF CallRows
  <2>4. /\ Returned(d, a).pc = "done" /\ Returned(d, a).answer = a
        /\ Returned(d, a).key = d.key /\ Returned(d, a).req = d.req
        /\ Returned(d, a).provider = d.provider
    BY <2>1 DEF NoCall
  <2> QED
    BY <2>3, <2>4 DEF IdOf
<1>2. CASE a # "session"
  <2>1. Returned(d, a) = [NoCall EXCEPT !.pc = "done", !.answer = a]
    BY <1>2 DEF Returned
  <2>2. a \in Answers
    OBVIOUS
  <2>3. Returned(d, a) \in CallRows
    BY <2>1, <2>2, NoCallTyped, AnsweredTyped
  <2>4. Returned(d, a).pc = "done" /\ Returned(d, a).answer = a
    BY <2>1, NoCallTyped DEF CallRows
  <2> QED
    BY <1>2, <2>3, <2>4
<1> QED
  BY <1>1, <1>2

\* A call that returned without a session has nothing left to rely on.
LEMMA ReturnedKnows ==
  ASSUME NEW d \in CallRows, NEW rows, NEW count,
         NEW a \in Answers \ {"none"},
         a = "session" => Matched(d, rows) /\ Attached(d, rows, count)
  PROVE  Knows(Returned(d, a), rows, count)
<1> DEFINE e == Returned(d, a)
<1>1. e.pc = "done" /\ e.answer = a
  BY ReturnedTyped
<1>2. a = "session" => IdOf(e) = IdOf(d) /\ e.req = d.req
  BY ReturnedTyped
<1> HIDE DEF e
<1>3. a = "session" => Matched(e, rows) /\ Attached(e, rows, count)
  BY <1>2 DEF Matched, Attached
<1>4. Knows(e, rows, count)
  BY <1>1, <1>3 DEF Knows, Toward
<1> QED
  BY <1>4 DEF e

\* Rows and counts move on without undoing what a call relies on.
Keeps(rows, count, rows2, count2) ==
  \A id \in Ids :
    /\ rows[id] \in IntentRows => /\ rows2[id] \in IntentRows
                                  /\ rows2[id].digest = rows[id].digest
                                  /\ rows[id].session = id => rows2[id].session = id
    /\ count[id] > 0 => count2[id] > 0

LEMMA KnowsKept ==
  ASSUME NEW d \in CallRows, NEW rows, NEW count, NEW rows2, NEW count2,
         Knows(d, rows, count), Keeps(rows, count, rows2, count2)
  PROVE  Knows(d, rows2, count2)
<1>1. Matched(d, rows) => Matched(d, rows2)
  BY DEF Matched, Keeps
<1>2. Attached(d, rows, count) => Attached(d, rows2, count2)
  BY DEF Attached, Keeps
<1>3. IdOf(d) \in Ids /\ count[IdOf(d)] > 0 => count2[IdOf(d)] > 0
  BY DEF Keeps
<1>4. d.pc \in {"customer", "attach"} => d.seen = IdOf(d) /\ count2[IdOf(d)] > 0
  BY <1>3 DEF Knows, Matched
<1> QED
  BY <1>1, <1>2, <1>4 DEF Knows

\* A caller moves and every other stays where it is.
Moves(c) ==
  /\ call' \in [Callers -> CallRows]
  /\ \A b \in Callers \ {c} : call'[b] = call[b]

LEMMA GoesMoves ==
  ASSUME CallsTyped, NEW c \in Callers, NEW d \in CallRows, Goes(c, d)
  PROVE  Moves(c) /\ call'[c] = d
BY DEF CallsTyped, Goes, Moves

LEMMA ReturnsMoves ==
  ASSUME CallsTyped, NEW c \in Callers, NEW a \in Answers \ {"none"}, Returns(c, a)
  PROVE  Moves(c) /\ call'[c] = Returned(call[c], a) /\ call'[c].pc = "done"
<1>1. call[c] \in CallRows /\ call' = [call EXCEPT ![c] = Returned(call[c], a)]
  BY DEF CallsTyped, Returns
<1>2. Returned(call[c], a) \in CallRows /\ Returned(call[c], a).pc = "done"
  BY <1>1, ReturnedTyped
<1> QED
  BY <1>1, <1>2 DEF CallsTyped, Moves

-----------------------------------------------------------------------------
(* Preservation, part by part *)

LEMMA HeldByCall ==
  ASSUME CheckoutInv, NEW c \in Callers, Moves(c), UNCHANGED <<made, memory, late>>,
         call'[c].pc = "session" => IdOf(call'[c]) \notin late
  PROVE  \A id \in Ids : KeyHeld(id)'
BY DEF CheckoutInv, KeyHeld, Moves, Id, IdOf

LEMMA InvByParts ==
  ASSUME CheckoutInv, NEW c \in Callers, Moves(c), Keeps(intents, made, intents', made'),
         RegistryTyped', RowsTyped', SessionsBound', Knows(call'[c], intents', made'),
         \A id \in Ids : KeyHeld(id)'
  PROVE  CheckoutInv'
<1>1. ASSUME NEW b \in Callers PROVE Knows(call'[b], intents', made')
  <2>1. CASE b = c
    BY <2>1
  <2>2. CASE b # c
    <3>1. call'[b] = call[b] /\ call[b] \in CallRows /\ Knows(call[b], intents, made)
      BY <2>2 DEF Moves, CheckoutInv, CallsTyped
    <3> QED
      BY <3>1, KnowsKept
  <2> QED
    BY <2>1, <2>2
<1> QED
  BY <1>1 DEF CheckoutInv, CallsTyped, Moves

\* A step of one call that writes no row and asks the provider for nothing.
LEMMA InvCallOnly ==
  ASSUME CheckoutInv, NEW c \in Callers, Moves(c), UNCHANGED <<intents, sessions, made, memory, late>>,
         RegistryTyped', Knows(call'[c], intents, made),
         call'[c].pc = "session" => IdOf(call'[c]) \notin late
  PROVE  CheckoutInv'
<1>1. Keeps(intents, made, intents', made')
  BY DEF Keeps
<1>2. RowsTyped' /\ SessionsBound'
  BY DEF CheckoutInv, RowsTyped, SessionsBound
<1>3. \A id \in Ids : KeyHeld(id)'
  BY HeldByCall
<1> QED
  BY <1>1, <1>2, <1>3, InvByParts

LEMMA RegistryKept ==
  ASSUME CheckoutInv, UNCHANGED registry
  PROVE  RegistryTyped'
BY DEF CheckoutInv, RegistryTyped, registry

\* A call that returns without a session, nothing else changed.
LEMMA InvReturns ==
  ASSUME CheckoutInv, NEW c \in Callers, NEW a \in Answers \ {"none", "session"}, Returns(c, a),
         UNCHANGED <<registry, intents, sessions, made, memory, late>>
  PROVE  CheckoutInv'
<1>1. Moves(c) /\ call'[c] = Returned(call[c], a) /\ call'[c].pc = "done"
  BY ReturnsMoves DEF CheckoutInv
<1>2. call[c] \in CallRows
  BY DEF CheckoutInv, CallsTyped
<1>3. Knows(call'[c], intents, made)
  BY <1>1, <1>2, ReturnedKnows
<1> QED
  BY <1>1, <1>3, RegistryKept, InvCallOnly

\* An intent moves on: its digest stays, and its session if it has one.
LEMMA RowMoves ==
  ASSUME CheckoutInv, NEW id \in Ids, NEW to \in {"open"} \cup Closed, NEW session \in {None, id},
         MayAdvance(intents[id], to, session), session = id => made[id] > 0,
         intents' = [intents EXCEPT ![id] = Advanced(intents[id], to, session)],
         UNCHANGED <<sessions, made>>
  PROVE  /\ RowsTyped' /\ SessionsBound' /\ Keeps(intents, made, intents', made')
         /\ intents'[id] \in IntentRows
         /\ session = id => intents'[id].session = id
<1> DEFINE row == intents[id]
           s == IF session # None THEN session ELSE row.session
<1>1. row \in IntentRows /\ intents \in [Ids -> {None} \cup IntentRows]
  BY DEF CheckoutInv, RowsTyped, MayAdvance
<1>2. s \in {None} \cup Ids
  BY <1>1 DEF IntentRows
<1>3. Advanced(row, to, session) = [row EXCEPT !.status = to, !.session = s]
  BY <1>1 DEF Advanced, IntentRows
<1>4. session = id => s = id
  BY NoneAssumption
<1>5. row.session # None => row.session = id /\ made[id] > 0
  BY <1>1 DEF CheckoutInv, SessionsBound
<1>6. row.session = id => s = id
  BY <1>4
<1>7. s # None => s = id /\ made[id] > 0
  BY <1>4, <1>5
<1> HIDE DEF s
<1>8. to \in {"open", "completed", "expired", "failed"}
  BY DEF Closed
<1>9. /\ [row EXCEPT !.status = to, !.session = s] \in IntentRows
      /\ [row EXCEPT !.status = to, !.session = s].digest = row.digest
      /\ [row EXCEPT !.status = to, !.session = s].session = s
  BY <1>1, <1>2, <1>8 DEF IntentRows
<1>10. /\ intents'[id] \in IntentRows /\ intents'[id].digest = row.digest
       /\ intents'[id].session = s
       /\ \A j \in Ids \ {id} : intents'[j] = intents[j]
       /\ intents' \in [Ids -> {None} \cup IntentRows]
  BY <1>1, <1>3, <1>9
<1> HIDE DEF row
<1>11. RowsTyped'
  BY <1>10 DEF CheckoutInv, RowsTyped
<1>12. Keeps(intents, made, intents', made')
  BY <1>6, <1>10 DEF Keeps, row
<1>13. SessionsBound'
  <2> SUFFICES ASSUME NEW j \in Ids
               PROVE  /\ made[j] > 0 => /\ sessions[j] \in SessionRows /\ intents'[j] \in IntentRows
                                        /\ sessions[j].for = intents'[j].digest
                      /\ intents'[j] \in IntentRows /\ intents'[j].session # None =>
                           intents'[j].session = j /\ made[j] > 0
    BY DEF SessionsBound
  <2>1. CASE j = id
    BY <1>7, <1>10, <2>1 DEF CheckoutInv, SessionsBound, row
  <2>2. CASE j # id
    BY <1>10, <2>2 DEF CheckoutInv, SessionsBound
  <2> QED
    BY <2>1, <2>2
<1> QED
  BY <1>4, <1>10, <1>11, <1>12, <1>13

-----------------------------------------------------------------------------
(* Steps of a call *)

LEMMA StartCheckoutKeeps ==
  ASSUME CheckoutInv, NEW c \in Callers, NEW k \in Keys, NEW r \in Requests, StartCheckout(c, k, r)
  PROVE  CheckoutInv'
<1> DEFINE begun == [NoCall EXCEPT !.pc = "select", !.kind = "create", !.key = k, !.req = r]
           e == IF CheckoutQuantity(r.offer, r.quantity) = None THEN Returned(begun, "error")
                ELSE begun
<1>1. /\ call' = [call EXCEPT ![c] = e]
      /\ UNCHANGED <<registry, intents, sessions, made, memory, late>>
  BY DEF StartCheckout, remote
<1>2. begun \in CallRows
  BY NoCallTyped, Names DEF CallRows
<1>3. begun.pc = "select" /\ begun.kind = "create" /\ begun.key = k /\ begun.req = r
  BY NoCallTyped DEF CallRows
<1>4. begun.answer = "none"
  BY DEF NoCall
<1> HIDE DEF begun
<1>5. Knows(begun, intents, made)
  BY <1>3, <1>4 DEF Knows, Toward
<1>6. Returned(begun, "error") \in CallRows /\ Returned(begun, "error").pc = "done"
  BY <1>2, ReturnedTyped, Names
<1>7. Knows(Returned(begun, "error"), intents, made)
  BY <1>2, ReturnedKnows, Names
<1>8. e \in CallRows /\ Knows(e, intents, made) /\ e.pc # "session"
  BY <1>2, <1>3, <1>5, <1>6, <1>7
<1> HIDE DEF e
<1>9. Moves(c) /\ call'[c] = e
  BY <1>1, <1>8 DEF CheckoutInv, CallsTyped, Moves
<1> QED
  BY <1>1, <1>8, <1>9, RegistryKept, InvCallOnly

\* Select answers a compatible provider or none.
LEMMA SelectCompatible ==
  ASSUME NEW requested, NEW fallback, NEW compatible
  PROVE  Select(requested, fallback, compatible) \in compatible \cup {None}
<1> DEFINE named == IF requested # None THEN requested ELSE fallback
<1>1. CASE named # None
  BY <1>1 DEF Select
<1>2. CASE named = None /\ Cardinality(compatible) = 1
  <2>1. compatible # {}
    BY <1>2, FS_EmptySet
  <2>2. (CHOOSE p \in compatible : TRUE) \in compatible
    BY <2>1
  <2> QED
    BY <1>2, <2>2 DEF Select
<1>3. CASE named = None /\ Cardinality(compatible) # 1
  BY <1>3 DEF Select
<1> QED
  BY <1>1, <1>2, <1>3

LEMMA SelectProviderKeeps ==
  ASSUME CheckoutInv, NEW c \in Callers, SelectProvider(c)
  PROVE  CheckoutInv'
<1> DEFINE o == Offers[call[c].req.offer]
           p == Select(call[c].req.provider, Fallback, o.providers)
           d == [call[c] EXCEPT !.pc = "get", !.provider = p, !.then = "intent"]
<1>1. /\ call[c].pc = "select" /\ UNCHANGED <<registry, intents, sessions, made, memory, late>>
      /\ \/ Returns(c, "error")
         \/ p # None /\ Goes(c, d)
  BY DEF SelectProvider, remote
<1>2. /\ call[c] \in CallRows /\ call[c].key \in Keys /\ call[c].req \in Requests
      /\ call[c].kind = "create" /\ call[c].answer = "none"
  BY <1>1 DEF CheckoutInv, CallsTyped, Knows
<1>3. CASE Returns(c, "error")
  BY <1>1, <1>3, Names, InvReturns
<1>4. CASE p # None /\ Goes(c, d)
  <2>1. p \in o.providers
    BY <1>4, SelectCompatible
  <2>2. p \in Providers
    BY <1>2, <2>1, CheckoutAssumption DEF Providers
  <2> HIDE DEF p
  <2>3. d \in CallRows
    BY <1>2, <2>2, Names DEF CallRows
  <2>4. /\ d.pc = "get" /\ d.then = "intent" /\ d.provider = p /\ d.key = call[c].key
        /\ d.req = call[c].req /\ d.kind = call[c].kind /\ d.answer = call[c].answer
    BY <1>2 DEF CallRows
  <2>5. IdOf(d) \in Ids
    BY <1>2, <2>2, <2>4 DEF IdOf, Ids
  <2> HIDE DEF d
  <2>6. Knows(d, intents, made)
    BY <1>2, <2>4, <2>5 DEF Knows, Toward
  <2>7. Moves(c) /\ call'[c] = d
    BY <1>4, <2>3, GoesMoves DEF CheckoutInv
  <2> QED
    BY <1>1, <2>4, <2>6, <2>7, RegistryKept, InvCallOnly
<1> QED
  BY <1>1, <1>3, <1>4

\* A call on its way through the registry keeps what it knows.
LEMMA KnowsOnTheWay ==
  ASSUME NEW d \in CallRows, NEW e \in CallRows, NEW rows, NEW count, Knows(d, rows, count),
         d.pc \in {"get", "load", "wait"}, e.pc \in {d.then, "load", "wait"},
         e.then = d.then, e.provider = d.provider, e.key = d.key, e.req = d.req,
         e.kind = d.kind, e.seen = d.seen, e.answer = d.answer
  PROVE  Knows(e, rows, count) /\ e.pc # "session"
<1>1. d.then \in {"intent", "poll"} /\ d.answer = "none"
  BY DEF Knows
<1>2. IdOf(e) = IdOf(d)
  BY DEF IdOf
<1>3. Toward(e, "intent") => Toward(d, "intent")
  BY <1>1 DEF Toward
<1>4. Toward(e, "poll") => Toward(d, "poll")
  BY <1>1 DEF Toward
<1>5. Matched(d, rows) => Matched(e, rows)
  BY <1>2 DEF Matched
<1>6. Attached(d, rows, count) => Attached(e, rows, count)
  BY <1>2 DEF Attached
<1>7. Toward(e, "poll") => /\ Attached(e, rows, count) /\ e.seen = IdOf(e)
                           /\ e.kind = "create" => Matched(e, rows)
  BY <1>2, <1>4, <1>5, <1>6 DEF Knows
<1>8. Toward(e, "intent") => IdOf(e) \in Ids /\ e.req \in Requests /\ e.kind = "create"
  BY <1>2, <1>3 DEF Knows
<1>9. IdOf(e) \in Ids
  BY <1>2 DEF Knows
<1>10. e.pc \in {"intent", "poll", "load", "wait"} /\ e.then \in {"intent", "poll"} /\ e.answer = "none"
  BY <1>1
<1>11. Knows(e, rows, count)
  BY <1>7, <1>8, <1>9, <1>10 DEF Knows
<1> QED
  BY <1>10, <1>11

LEMMA GetKeeps ==
  ASSUME CheckoutInv, NEW c \in Callers, Get(c)
  PROVE  CheckoutInv'
<1> DEFINE p == call[c].provider
           now == [call[c] EXCEPT !.since = generation, !.inst = None, !.on = None]
<1>1. /\ call[c].pc = "get" /\ UNCHANGED <<cache, generation, intents, sessions, made, memory, late>>
      /\ \/ /\ Goes(c, [now EXCEPT !.pc = call[c].then, !.inst = cache[p]])
            /\ loading' = loading
         \/ /\ Goes(c, [now EXCEPT !.pc = "wait", !.on = loading[p]])
            /\ loading' = loading
         \/ /\ Goes(c, [now EXCEPT !.pc = "load"])
            /\ loading' = [loading EXCEPT ![p] = c]
  BY DEF Get, remote
<1>2. /\ call[c] \in CallRows /\ Knows(call[c], intents, made) /\ generation \in Nat
      /\ loading \in [Providers -> {None} \cup Callers]
  BY DEF CheckoutInv, CallsTyped, RegistryTyped
<1>3. p \in Providers /\ call[c].then \in {"intent", "poll"}
  BY <1>1, <1>2 DEF Knows, IdOf, Ids
<1>4. cache[p] \in {None} \cup Nat /\ loading[p] \in {None} \cup Callers
  BY <1>3 DEF CheckoutInv, RegistryTyped
<1>5. now \in CallRows
  BY <1>2 DEF CallRows
<1>6. /\ now.then = call[c].then /\ now.provider = p /\ now.key = call[c].key
      /\ now.req = call[c].req /\ now.kind = call[c].kind /\ now.seen = call[c].seen
      /\ now.answer = call[c].answer
  BY <1>2 DEF CallRows
<1> HIDE DEF now
<1>7. RegistryTyped'
  BY <1>1, <1>2, <1>3 DEF CheckoutInv, RegistryTyped
<1>8. ASSUME NEW s \in {call[c].then, "wait", "load"}, NEW i \in {None} \cup Nat,
             NEW w \in {None} \cup Callers,
             Goes(c, [now EXCEPT !.pc = s, !.inst = i, !.on = w])
      PROVE  CheckoutInv'
  <2> DEFINE e == [now EXCEPT !.pc = s, !.inst = i, !.on = w]
  <2>1. s \in PCs
    BY <1>3, Names
  <2>2. e \in CallRows
    BY <1>5, <2>1 DEF CallRows
  <2>3. /\ e.pc = s /\ e.then = now.then /\ e.provider = now.provider /\ e.key = now.key
        /\ e.req = now.req /\ e.kind = now.kind /\ e.seen = now.seen /\ e.answer = now.answer
    BY <1>5 DEF CallRows
  <2>4. Moves(c) /\ call'[c] = e
    BY <1>8, <2>2, GoesMoves DEF CheckoutInv
  <2> HIDE DEF e
  <2>5. Knows(e, intents, made) /\ e.pc # "session"
    BY <1>1, <1>2, <1>6, <2>2, <2>3, KnowsOnTheWay
  <2> QED
    BY <1>1, <1>7, <2>4, <2>5, InvCallOnly
<1>9. CASE Goes(c, [now EXCEPT !.pc = call[c].then, !.inst = cache[p]])
  <2>1. [now EXCEPT !.pc = call[c].then, !.inst = cache[p]]
        = [now EXCEPT !.pc = call[c].then, !.inst = cache[p], !.on = now.on]
    BY <1>5 DEF CallRows
  <2>2. now.on \in {None} \cup Callers
    BY <1>5 DEF CallRows
  <2> QED
    BY <1>4, <1>8, <1>9, <2>1, <2>2
<1>10. CASE Goes(c, [now EXCEPT !.pc = "wait", !.on = loading[p]])
  <2>1. [now EXCEPT !.pc = "wait", !.on = loading[p]]
        = [now EXCEPT !.pc = "wait", !.inst = now.inst, !.on = loading[p]]
    BY <1>5 DEF CallRows
  <2>2. now.inst \in {None} \cup Nat
    BY <1>5 DEF CallRows
  <2> QED
    BY <1>4, <1>8, <1>10, <2>1, <2>2
<1>11. CASE Goes(c, [now EXCEPT !.pc = "load"])
  <2>1. [now EXCEPT !.pc = "load"] = [now EXCEPT !.pc = "load", !.inst = now.inst, !.on = now.on]
    BY <1>5 DEF CallRows
  <2>2. now.inst \in {None} \cup Nat /\ now.on \in {None} \cup Callers
    BY <1>5 DEF CallRows
  <2> QED
    BY <1>8, <1>11, <2>1, <2>2
<1> QED
  BY <1>1, <1>9, <1>10, <1>11

\* The callers a factory's result is for: the one that called it and those that wait.
LEMMA FinishLoadKeeps ==
  ASSUME CheckoutInv, NEW c \in Callers, NEW ok \in BOOLEAN, FinishLoad(c, ok)
  PROVE  CheckoutInv'
<1> DEFINE p == call[c].provider
           result(d) == IF ok THEN [call[d] EXCEPT !.pc = call[d].then, !.inst = call[c].since]
                        ELSE Returned(call[d], "error")
           gets(d) == d = c \/ (call[d].pc = "wait" /\ call[d].on = c)
<1>1. /\ call[c].pc = "load" /\ UNCHANGED <<generation, intents, sessions, made, memory, late>>
      /\ call' = [d \in Callers |-> IF gets(d) THEN result(d) ELSE call[d]]
      /\ loading' = [loading EXCEPT ![p] = IF @ = c /\ Unloaded(c, ok) THEN None ELSE @]
      /\ cache' = [cache EXCEPT ![p] = IF ok /\ Cacheable(c) THEN call[c].since ELSE @]
  BY DEF FinishLoad, remote
<1>2. /\ \A d \in Callers : call[d] \in CallRows /\ Knows(call[d], intents, made)
      /\ cache \in [Providers -> {None} \cup Nat]
      /\ loading \in [Providers -> {None} \cup Callers]
      /\ generation \in Nat
  BY DEF CheckoutInv, CallsTyped, RegistryTyped
<1>3. p \in Providers /\ call[c].since \in Nat
  BY <1>1, <1>2 DEF Knows, IdOf, Ids, CallRows
<1>4. RegistryTyped'
  <2>1. loading' \in [Providers -> {None} \cup Callers]
    BY <1>1, <1>2, <1>3
  <2>2. cache' \in [Providers -> {None} \cup Nat]
    <3> DEFINE v == IF ok /\ Cacheable(c) THEN call[c].since ELSE cache[p]
    <3>1. v \in {None} \cup Nat
      BY <1>2, <1>3
    <3>2. cache' = [cache EXCEPT ![p] = v]
      BY <1>1
    <3> HIDE DEF v
    <3> QED
      BY <1>2, <3>1, <3>2
  <2> QED
    BY <1>1, <1>2, <2>1, <2>2 DEF RegistryTyped
<1>5. ASSUME NEW d \in Callers, gets(d)
      PROVE  result(d) \in CallRows /\ Knows(result(d), intents, made) /\ result(d).pc # "session"
  <2>1. call[d] \in CallRows /\ call[d].pc \in {"load", "wait"} /\ Knows(call[d], intents, made)
    BY <1>1, <1>2, <1>5
  <2>2. CASE ~ok
    <3>1. result(d) = Returned(call[d], "error")
      BY <2>2
    <3>2. "error" \in Answers \ {"none"}
      BY Names
    <3>3. /\ Returned(call[d], "error") \in CallRows
          /\ Returned(call[d], "error").pc = "done"
      BY <2>1, <3>2, ReturnedTyped
    <3>4. Knows(Returned(call[d], "error"), intents, made)
      BY <2>1, <3>2, ReturnedKnows
    <3> QED
      BY <3>1, <3>3, <3>4, Zenon
  <2>3. CASE ok
    <3> DEFINE e == [call[d] EXCEPT !.pc = call[d].then, !.inst = call[c].since]
    <3>1. call[d].then \in {"intent", "poll"} /\ call[d].then \in PCs
      BY <2>1, Names DEF Knows
    <3>2. e \in CallRows
      BY <1>3, <2>1, <3>1 DEF CallRows
    <3>3. /\ e.pc = call[d].then /\ e.then = call[d].then /\ e.provider = call[d].provider
          /\ e.key = call[d].key /\ e.req = call[d].req /\ e.kind = call[d].kind
          /\ e.seen = call[d].seen /\ e.answer = call[d].answer
      BY <2>1 DEF CallRows
    <3>4. Knows(e, intents, made) /\ e.pc # "session"
      <4> HIDE DEF e
      <4> QED
        BY <2>1, <3>2, <3>3, KnowsOnTheWay
    <3> QED
      BY <2>3, <3>2, <3>4
  <2> QED
    BY <2>2, <2>3
<1> HIDE DEF result, gets
<1>6. \A d \in Callers : call'[d] = call[d] \/ (call'[d] = result(d) /\ gets(d))
  BY <1>1
<1>7. ASSUME NEW d \in Callers
      PROVE  /\ call'[d] \in CallRows /\ Knows(call'[d], intents, made)
             /\ call'[d].pc = "session" => call'[d] = call[d]
  BY <1>2, <1>5, <1>6
<1>8. call' \in [Callers -> CallRows]
  BY <1>1, <1>7
<1>9. \A id \in Ids : KeyHeld(id)'
  <2>1. UNCHANGED <<made, memory, late>>
    BY <1>1
  <2> QED
    BY <1>7, <2>1 DEF CheckoutInv, KeyHeld, Id
<1> QED
  BY <1>1, <1>4, <1>7, <1>8, <1>9 DEF CheckoutInv, CallsTyped, RowsTyped, SessionsBound

LEMMA CreateIntentKeeps ==
  ASSUME CheckoutInv, NEW c \in Callers, CreateIntent(c)
  PROVE  CheckoutInv'
<1> DEFINE id == Id(c)
           row == CreateOrGet(c)
<1>1. /\ call[c].pc = "intent" /\ UNCHANGED <<registry, sessions, made, memory, late>>
      /\ intents' = [intents EXCEPT ![id] = row]
      /\ \/ Returns(c, "error")
         \/ Goes(c, [call[c] EXCEPT !.pc = "close", !.to = "expired"])
         \/ /\ SameRequest(c, row) /\ row.session # None
            /\ Goes(c, [call[c] EXCEPT !.pc = "get", !.then = "poll", !.seen = row.session])
         \/ /\ SameRequest(c, row) /\ ~Lapsed(id)
            /\ Goes(c, [call[c] EXCEPT !.pc = "session", !.seen = None])
  BY DEF CreateIntent, remote
<1>2. /\ call[c] \in CallRows /\ id = IdOf(call[c]) /\ id \in Ids /\ call[c].req \in Requests
      /\ call[c].kind = "create" /\ call[c].answer = "none"
      /\ intents \in [Ids -> {None} \cup IntentRows] /\ made \in [Ids -> Nat]
  BY <1>1 DEF CheckoutInv, CallsTyped, RowsTyped, Knows, Toward, Id, IdOf
<1>3. /\ row \in IntentRows
      /\ intents[id] # None => row = intents[id]
      /\ intents[id] = None => row.session = None
  <2>1. [status |-> "open", digest |-> Digest(c), session |-> None] \in IntentRows
    BY <1>2 DEF IntentRows, Digest
  <2> QED
    BY <1>2, <2>1 DEF CreateOrGet
<1> HIDE DEF row
<1>4. /\ intents' \in [Ids -> {None} \cup IntentRows] /\ intents'[id] = row
      /\ \A j \in Ids \ {id} : intents'[j] = intents[j]
  BY <1>1, <1>2, <1>3
<1>5. intents[id] \in IntentRows => row = intents[id]
  BY <1>3, NoneAssumption
<1>6. Keeps(intents, made, intents', made')
  BY <1>1, <1>4, <1>5 DEF Keeps
<1>7. RowsTyped'
  BY <1>1, <1>4 DEF CheckoutInv, RowsTyped
<1>8. row.session # None => row.session = id /\ made[id] > 0
  BY <1>2, <1>3 DEF CheckoutInv, SessionsBound
<1> HIDE DEF id
<1>9. SessionsBound'
  <2> SUFFICES ASSUME NEW j \in Ids
               PROVE  /\ made[j] > 0 => /\ sessions[j] \in SessionRows /\ intents'[j] \in IntentRows
                                        /\ sessions[j].for = intents'[j].digest
                      /\ intents'[j] \in IntentRows /\ intents'[j].session # None =>
                           intents'[j].session = j /\ made[j] > 0
    BY <1>1 DEF SessionsBound
  <2>1. CASE j = id
    BY <1>3, <1>4, <1>5, <1>8, <2>1 DEF CheckoutInv, SessionsBound
  <2>2. CASE j # id
    BY <1>4, <2>2 DEF CheckoutInv, SessionsBound
  <2> QED
    BY <2>1, <2>2
<1>10. ASSUME NEW e \in CallRows, Goes(c, e), Knows(e, intents', made),
              e.pc = "session" => IdOf(e) \notin late
       PROVE  CheckoutInv'
  <2>1. Moves(c) /\ call'[c] = e
    BY <1>10, GoesMoves DEF CheckoutInv
  <2>2. \A j \in Ids : KeyHeld(j)'
    BY <1>1, <1>10, <2>1, HeldByCall
  <2> QED
    BY <1>1, <1>6, <1>7, <1>9, <1>10, <2>1, <2>2, RegistryKept, InvByParts
<1>11. ASSUME SameRequest(c, row) PROVE row.digest = RequestDigest(call[c].req)
  BY <1>11 DEF SameRequest, Digest
<1>12. CASE Returns(c, "error")
  <2>1. Returned(call[c], "error") \in CallRows /\ Returned(call[c], "error").pc = "done"
    BY <1>2, ReturnedTyped, Names
  <2>2. Knows(Returned(call[c], "error"), intents', made)
    BY <1>2, ReturnedKnows, Names
  <2>3. Goes(c, Returned(call[c], "error"))
    BY <1>12 DEF Returns, Goes
  <2> QED
    BY <1>10, <2>1, <2>2, <2>3
<1>13. CASE Goes(c, [call[c] EXCEPT !.pc = "close", !.to = "expired"])
  <2> DEFINE e == [call[c] EXCEPT !.pc = "close", !.to = "expired"]
  <2>1. e \in CallRows
    BY <1>2, Names DEF CallRows
  <2>2. e.pc = "close" /\ e.to = "expired" /\ IdOf(e) = IdOf(call[c]) /\ e.answer = call[c].answer
    BY <1>2 DEF CallRows, IdOf
  <2> HIDE DEF e
  <2>3. Knows(e, intents', made)
    BY <1>2, <2>2 DEF Knows, Toward, Closed
  <2> QED
    BY <1>10, <1>13, <2>1, <2>2, <2>3 DEF e
<1>14. CASE /\ SameRequest(c, row) /\ row.session # None
            /\ Goes(c, [call[c] EXCEPT !.pc = "get", !.then = "poll", !.seen = row.session])
  <2> DEFINE e == [call[c] EXCEPT !.pc = "get", !.then = "poll", !.seen = row.session]
  <2>0. row.session \in {None} \cup Ids
    BY <1>2, <1>8, <1>14
  <2>1. e \in CallRows
    BY <1>2, <2>0, Names DEF CallRows
  <2>2. /\ e.pc = "get" /\ e.then = "poll" /\ e.seen = row.session /\ IdOf(e) = IdOf(call[c])
        /\ e.req = call[c].req /\ e.answer = call[c].answer
    BY <1>2 DEF CallRows, IdOf
  <2> HIDE DEF e
  <2>3. Matched(e, intents')
    BY <1>2, <1>3, <1>4, <1>11, <1>14, <2>2 DEF Matched
  <2>4. Attached(e, intents', made) /\ e.seen = IdOf(e)
    BY <1>2, <1>3, <1>4, <1>8, <1>14, <2>2 DEF Attached
  <2>5. Knows(e, intents', made)
    BY <1>2, <2>2, <2>3, <2>4 DEF Knows, Toward
  <2> QED
    BY <1>10, <1>14, <2>1, <2>2, <2>5 DEF e
<1>15. CASE /\ SameRequest(c, row) /\ ~Lapsed(id)
            /\ Goes(c, [call[c] EXCEPT !.pc = "session", !.seen = None])
  <2> DEFINE e == [call[c] EXCEPT !.pc = "session", !.seen = None]
  <2>1. e \in CallRows
    BY <1>2, Names DEF CallRows
  <2>2. /\ e.pc = "session" /\ IdOf(e) = IdOf(call[c])
        /\ e.req = call[c].req /\ e.answer = call[c].answer
    BY <1>2 DEF CallRows, IdOf
  <2> HIDE DEF e
  <2>3. Matched(e, intents')
    BY <1>2, <1>3, <1>4, <1>11, <1>15, <2>2 DEF Matched
  <2>4. Knows(e, intents', made)
    BY <1>2, <2>2, <2>3 DEF Knows, Toward
  <2>5. IdOf(e) \notin late
    BY <1>2, <1>15, <2>2 DEF Lapsed
  <2> QED
    BY <1>10, <1>15, <2>1, <2>4, <2>5 DEF e
<1> QED
  BY <1>1, <1>12, <1>13, <1>14, <1>15

LEMMA StartStatusKeeps ==
  ASSUME CheckoutInv, NEW c \in Callers, NEW id \in Ids, StartStatus(c, id)
  PROVE  CheckoutInv'
<1> DEFINE row == intents[id]
           first == [NoCall EXCEPT !.kind = "status", !.provider = id[1], !.key = id[2]]
           closing == [first EXCEPT !.pc = "close", !.to = "expired"]
           polling == [first EXCEPT !.pc = "get", !.then = "poll", !.seen = row.session]
<1>1. /\ UNCHANGED <<registry, intents, sessions, made, memory, late>>
      /\ \/ row.status # "open" /\ Goes(c, Returned(first, row.status))
         \/ Goes(c, closing)
         \/ Goes(c, Returned(first, "pending"))
         \/ row.session # None /\ Goes(c, polling)
  BY DEF StartStatus, remote, Goes
<1>2. row \in IntentRows
  BY DEF StartStatus, CheckoutInv, RowsTyped
<1>3. id[1] \in Providers /\ id[2] \in Keys /\ id = <<id[1], id[2]>>
  BY DEF Ids
<1>4. first \in CallRows
  BY <1>3, NoCallTyped, Names DEF CallRows
<1>5. /\ first.provider = id[1] /\ first.key = id[2] /\ first.kind = "status"
      /\ first.answer = "none"
  <2>1. NoCall.answer = "none"
    BY DEF NoCall
  <2> QED
    BY <2>1, NoCallTyped DEF CallRows
<1> HIDE DEF first
<1>6. row.session # None => row.session = id /\ made[id] > 0
  BY <1>2 DEF CheckoutInv, SessionsBound
<1>7. row.session \in {None} \cup Ids /\ row.status \in {"open", "completed", "expired", "failed"}
  BY <1>2 DEF IntentRows
<1>8. ASSUME NEW e \in CallRows, Goes(c, e), Knows(e, intents, made), e.pc # "session"
      PROVE  CheckoutInv'
  BY <1>1, <1>8, GoesMoves, RegistryKept, InvCallOnly DEF CheckoutInv
<1>9. ASSUME NEW a \in Answers \ {"none", "session"}, Goes(c, Returned(first, a)) PROVE CheckoutInv'
  <2>1. Returned(first, a) \in CallRows /\ Returned(first, a).pc = "done"
    BY <1>4, ReturnedTyped
  <2>2. Knows(Returned(first, a), intents, made)
    BY <1>4, ReturnedKnows
  <2> QED
    BY <1>8, <1>9, <2>1, <2>2
<1>10. CASE row.status # "open" /\ Goes(c, Returned(first, row.status))
  <2>1. row.status \in Answers \ {"none", "session"}
    BY <1>7, <1>10, Names
  <2> QED
    BY <1>9, <1>10, <2>1
<1>11. CASE Goes(c, Returned(first, "pending"))
  <2>1. "pending" \in Answers \ {"none", "session"}
    BY Names
  <2> QED
    BY <1>9, <1>11, <2>1
<1>12. CASE Goes(c, closing)
  <2>1. closing \in CallRows
    BY <1>4, Names DEF CallRows
  <2>2. /\ closing.pc = "close" /\ closing.to = "expired" /\ IdOf(closing) = id
        /\ closing.answer = "none"
    BY <1>3, <1>4, <1>5 DEF CallRows, IdOf
  <2> HIDE DEF closing
  <2>3. Knows(closing, intents, made)
    BY <2>2 DEF Knows, Toward, Closed
  <2> QED
    BY <1>8, <1>12, <2>1, <2>2, <2>3
<1>13. CASE row.session # None /\ Goes(c, polling)
  <2>1. polling \in CallRows
    BY <1>4, <1>7, Names DEF CallRows
  <2>2. /\ polling.pc = "get" /\ polling.then = "poll" /\ polling.seen = row.session
        /\ IdOf(polling) = id /\ polling.kind = "status" /\ polling.answer = "none"
    BY <1>3, <1>4, <1>5 DEF CallRows, IdOf
  <2> HIDE DEF polling
  <2>3. Attached(polling, intents, made)
    BY <1>2, <1>6, <1>13, <2>2 DEF Attached
  <2>4. Knows(polling, intents, made)
    BY <1>6, <1>13, <2>2, <2>3 DEF Knows, Toward
  <2> QED
    BY <1>8, <1>13, <2>1, <2>2, <2>4
<1> QED
  BY <1>1, <1>10, <1>11, <1>12, <1>13

LEMMA PollKeeps ==
  ASSUME CheckoutInv, NEW c \in Callers, Poll(c)
  PROVE  CheckoutInv'
<1> DEFINE s == sessions[call[c].seen]
           to == DurableStatus(IF call[c].provider = "stripe" THEN StripeStatus(s)
                               ELSE DodoStatus(s))
           closing == [call[c] EXCEPT !.pc = "close", !.to = to]
<1>1. /\ call[c].pc = "poll" /\ UNCHANGED <<registry, intents, sessions, made, memory, late>>
      /\ \/ call[c].kind = "create" /\ Returns(c, "session")
         \/ Returns(c, "pending")
         \/ to # "open" /\ Goes(c, closing)
  BY DEF Poll, remote
<1>2. to \in {"open", "completed", "expired", "failed"}
  BY DEF DurableStatus
<1>3. /\ call[c] \in CallRows /\ Attached(call[c], intents, made)
      /\ call[c].kind = "create" => Matched(call[c], intents)
      /\ call[c].answer = "none"
  BY <1>1 DEF CheckoutInv, CallsTyped, Knows, Toward
<1> HIDE DEF to
<1>4. CASE call[c].kind = "create" /\ Returns(c, "session")
  <2>1. "session" \in Answers \ {"none"}
    BY Names
  <2>2. Moves(c) /\ call'[c] = Returned(call[c], "session") /\ call'[c].pc = "done"
    BY <1>4, <2>1, ReturnsMoves DEF CheckoutInv
  <2>3. Knows(Returned(call[c], "session"), intents, made)
    BY <1>3, <1>4, <2>1, ReturnedKnows
  <2> QED
    BY <1>1, <2>2, <2>3, RegistryKept, InvCallOnly
<1>5. CASE Returns(c, "pending")
  BY <1>1, <1>5, Names, InvReturns
<1>6. CASE to # "open" /\ Goes(c, closing)
  <2>1. to \in Tos /\ to \in Closed
    BY <1>2, <1>6, Names DEF Closed
  <2>2. closing \in CallRows
    BY <1>3, <2>1, Names DEF CallRows
  <2>3. closing.pc = "close" /\ closing.to = to /\ IdOf(closing) = IdOf(call[c]) /\ closing.answer = "none"
    BY <1>3 DEF CallRows, IdOf
  <2>4. Moves(c) /\ call'[c] = closing
    BY <1>6, <2>2, GoesMoves DEF CheckoutInv
  <2> HIDE DEF closing
  <2>5. Knows(closing, intents, made)
    BY <1>3, <2>1, <2>3 DEF Knows, Toward, Attached
  <2> QED
    BY <1>1, <2>3, <2>4, <2>5, RegistryKept, InvCallOnly
<1> QED
  BY <1>1, <1>4, <1>5, <1>6

\* A call returns as it writes the intent of its id.
LEMMA InvReturnsRow ==
  ASSUME CheckoutInv, NEW c \in Callers, NEW a \in Answers \ {"none"}, Returns(c, a),
         UNCHANGED <<registry, made, memory, late>>,
         Keeps(intents, made, intents', made'), RowsTyped', SessionsBound',
         a = "session" => Matched(call[c], intents') /\ Attached(call[c], intents', made)
  PROVE  CheckoutInv'
<1>1. Moves(c) /\ call'[c] = Returned(call[c], a) /\ call'[c].pc = "done"
  BY ReturnsMoves DEF CheckoutInv
<1>2. call[c] \in CallRows
  BY DEF CheckoutInv, CallsTyped
<1>3. Knows(call'[c], intents', made')
  BY <1>1, <1>2, ReturnedKnows
<1>4. \A id \in Ids : KeyHeld(id)'
  BY <1>1, HeldByCall
<1> QED
  BY <1>1, <1>3, <1>4, RegistryKept, InvByParts

LEMMA CloseIntentKeeps ==
  ASSUME CheckoutInv, NEW c \in Callers, CloseIntent(c)
  PROVE  CheckoutInv'
<1> DEFINE id == Id(c)
           to == call[c].to
           a == IF call[c].kind = "create" THEN "error" ELSE to
<1>1. /\ call[c].pc = "close" /\ UNCHANGED <<registry, sessions, made, memory, late>>
      /\ \/ /\ MayAdvance(intents[id], to, None)
            /\ intents' = [intents EXCEPT ![id] = Advanced(intents[id], to, None)]
            /\ Returns(c, a)
         \/ Returns(c, "error") /\ UNCHANGED intents
  BY DEF CloseIntent, remote
<1>2. id \in Ids /\ to \in Closed
  BY <1>1 DEF CheckoutInv, Knows, Id, IdOf
<1>3. "error" \in Answers \ {"none", "session"} /\ a \in Answers \ {"none", "session"}
  BY <1>2, Names DEF Closed
<1> HIDE DEF a, id, to
<1>4. CASE Returns(c, "error") /\ UNCHANGED intents
  BY <1>1, <1>3, <1>4, InvReturns
<1>5. CASE /\ MayAdvance(intents[id], to, None)
           /\ intents' = [intents EXCEPT ![id] = Advanced(intents[id], to, None)]
           /\ Returns(c, a)
  <2>1. RowsTyped' /\ SessionsBound' /\ Keeps(intents, made, intents', made')
    BY <1>1, <1>2, <1>5, NoneAssumption, RowMoves
  <2> QED
    BY <1>1, <1>3, <1>5, <2>1, InvReturnsRow
<1> QED
  BY <1>1, <1>4, <1>5

LEMMA AttachSessionKeeps ==
  ASSUME CheckoutInv, NEW c \in Callers, AttachSession(c)
  PROVE  CheckoutInv'
<1> DEFINE id == Id(c)
<1>1. /\ call[c].pc = "attach" /\ UNCHANGED <<registry, sessions, made, memory, late>>
      /\ \/ /\ MayAdvance(intents[id], "open", call[c].seen)
            /\ intents' = [intents EXCEPT ![id] = Advanced(intents[id], "open", call[c].seen)]
            /\ Returns(c, "session")
         \/ Returns(c, "error") /\ UNCHANGED intents
  BY DEF AttachSession, remote
<1>2. /\ id = IdOf(call[c]) /\ id \in Ids /\ call[c].seen = id /\ made[id] > 0
      /\ Matched(call[c], intents) /\ made' = made
  BY <1>1 DEF CheckoutInv, Knows, Matched, Id, IdOf
<1> HIDE DEF id
<1>3. "error" \in Answers \ {"none", "session"} /\ "session" \in Answers \ {"none"}
  BY Names
<1>4. CASE Returns(c, "error") /\ UNCHANGED intents
  BY <1>1, <1>3, <1>4, InvReturns
<1>5. CASE /\ MayAdvance(intents[id], "open", call[c].seen)
           /\ intents' = [intents EXCEPT ![id] = Advanced(intents[id], "open", call[c].seen)]
           /\ Returns(c, "session")
  <2>1. /\ RowsTyped' /\ SessionsBound' /\ Keeps(intents, made, intents', made')
        /\ intents'[id] \in IntentRows /\ intents'[id].session = id
    BY <1>1, <1>2, <1>5, RowMoves
  <2>2. Matched(call[c], intents')
    BY <1>2, <2>1 DEF Matched, Keeps
  <2>3. Attached(call[c], intents', made)
    BY <1>2, <2>1 DEF Attached
  <2> QED
    BY <1>1, <1>3, <1>5, <2>1, <2>2, <2>3, InvReturnsRow
<1> QED
  BY <1>1, <1>4, <1>5

\* A request for a session: the provider answers with the one it remembers, or
\* makes the only one there will be.
LEMMA SessionMade ==
  ASSUME CheckoutInv, NEW c \in Callers, NEW replied \in BOOLEAN, CreateSession(c, replied)
  PROVE  /\ RowsTyped' /\ SessionsBound' /\ intents' = intents /\ late' = late
         /\ Keeps(intents, made, intents', made')
         /\ made'[Id(c)] = 1 /\ Id(c) \in memory'
         /\ \A id \in Ids \ {Id(c)} : made'[id] = made[id] /\ (id \in memory' <=> id \in memory)
<1> DEFINE id == Id(c)
           new == [state |-> "open", for |-> Digest(c), asked |-> call[c].req]
<1>1. /\ call[c].pc = "session" /\ UNCHANGED <<intents, late>>
      /\ \/ id \in memory /\ UNCHANGED <<sessions, made, memory>>
         \/ /\ id \notin memory
            /\ sessions' = [sessions EXCEPT ![id] = new]
            /\ made' = [made EXCEPT ![id] = @ + 1]
            /\ memory' = memory \cup {id}
  BY DEF CreateSession, Remembers, remote
<1>2. /\ id = IdOf(call[c]) /\ id \in Ids /\ call[c].req \in Requests
      /\ intents[id] \in IntentRows /\ intents[id].digest = RequestDigest(call[c].req)
  BY <1>1 DEF CheckoutInv, Knows, Matched, Id, IdOf
<1>3. KeyHeld(id) /\ made \in [Ids -> Nat] /\ sessions \in [Ids -> {None} \cup SessionRows]
  BY <1>2 DEF CheckoutInv, RowsTyped
<1>4. Digest(c) = RequestDigest(call[c].req)
  BY DEF Digest
<1>5. new \in SessionRows /\ new.for = intents[id].digest
  BY <1>2, <1>4 DEF SessionRows
<1> HIDE DEF new
<1>6. CASE id \in memory /\ UNCHANGED <<sessions, made, memory>>
  <2>1. made[id] = 1
    BY <1>3, <1>6 DEF KeyHeld
  <2>2. RowsTyped' /\ SessionsBound' /\ Keeps(intents, made, intents', made')
    BY <1>1, <1>6 DEF CheckoutInv, RowsTyped, SessionsBound, Keeps
  <2> QED
    BY <1>1, <1>2, <1>6, <2>1, <2>2
<1>7. CASE /\ id \notin memory
           /\ sessions' = [sessions EXCEPT ![id] = new]
           /\ made' = [made EXCEPT ![id] = @ + 1]
           /\ memory' = memory \cup {id}
  <2>1. made[id] = 0
    BY <1>1, <1>3, <1>7 DEF KeyHeld
  <2>2. /\ made' \in [Ids -> Nat] /\ made'[id] = 1
        /\ \A j \in Ids \ {id} : made'[j] = made[j]
    BY <1>2, <1>3, <1>7, <2>1
  <2>3. /\ sessions' \in [Ids -> {None} \cup SessionRows] /\ sessions'[id] = new
        /\ \A j \in Ids \ {id} : sessions'[j] = sessions[j]
    BY <1>2, <1>3, <1>5, <1>7
  <2> HIDE DEF id
  <2>4. RowsTyped'
    BY <1>1, <2>2, <2>3 DEF CheckoutInv, RowsTyped
  <2>5. Keeps(intents, made, intents', made')
    BY <1>1, <2>1, <2>2 DEF Keeps
  <2>6. SessionsBound'
    <3> SUFFICES ASSUME NEW j \in Ids
                 PROVE  /\ made'[j] > 0 => /\ sessions'[j] \in SessionRows /\ intents[j] \in IntentRows
                                           /\ sessions'[j].for = intents[j].digest
                        /\ intents[j] \in IntentRows /\ intents[j].session # None =>
                             intents[j].session = j /\ made'[j] > 0
      BY <1>1 DEF SessionsBound
    <3>1. CASE j = id
      BY <1>2, <1>5, <2>2, <2>3, <3>1 DEF CheckoutInv, SessionsBound
    <3>2. CASE j # id
      BY <2>2, <2>3, <3>2 DEF CheckoutInv, SessionsBound
    <3> QED
      BY <3>1, <3>2
  <2> QED
    BY <1>1, <1>7, <2>2, <2>4, <2>5, <2>6 DEF id
<1> QED
  BY <1>1, <1>6, <1>7

LEMMA CreateSessionKeeps ==
  ASSUME CheckoutInv, NEW c \in Callers, NEW replied \in BOOLEAN, CreateSession(c, replied)
  PROVE  CheckoutInv'
<1> DEFINE id == Id(c)
           e == [call[c] EXCEPT !.pc = "customer", !.seen = id]
<1>1. /\ RowsTyped' /\ SessionsBound' /\ intents' = intents /\ late' = late
      /\ Keeps(intents, made, intents', made')
      /\ made'[id] = 1 /\ id \in memory'
      /\ \A j \in Ids \ {id} : made'[j] = made[j] /\ (j \in memory' <=> j \in memory)
  BY SessionMade
<1>2. /\ call[c].pc = "session" /\ UNCHANGED registry
      /\ \/ Goes(c, e)
         \/ Returns(c, "error")
  BY DEF CreateSession
<1>3. /\ call[c] \in CallRows /\ id = IdOf(call[c]) /\ id \in Ids
      /\ Matched(call[c], intents) /\ call[c].answer = "none"
  BY <1>2 DEF CheckoutInv, CallsTyped, Knows, Matched, Id, IdOf
<1> HIDE DEF id
<1>4. ASSUME Moves(c), call'[c].pc # "session" PROVE \A j \in Ids : KeyHeld(j)'
  <2> SUFFICES ASSUME NEW j \in Ids PROVE KeyHeld(j)'
    OBVIOUS
  <2>1. CASE j = id
    BY <1>1, <2>1 DEF KeyHeld
  <2>2. CASE j # id
    <3>1. made'[j] = made[j] /\ (j \in memory' <=> j \in memory) /\ late' = late
      BY <1>1, <2>2
    <3>2. KeyHeld(j)
      BY DEF CheckoutInv
    <3> QED
      BY <1>4, <3>1, <3>2 DEF KeyHeld, Moves, Id
  <2> QED
    BY <2>1, <2>2
<1>5. CASE Returns(c, "error")
  <2>1. "error" \in Answers \ {"none"}
    BY Names
  <2>2. Moves(c) /\ call'[c] = Returned(call[c], "error") /\ call'[c].pc = "done"
    BY <1>5, <2>1, ReturnsMoves DEF CheckoutInv
  <2>3. Knows(call'[c], intents', made')
    BY <1>3, <2>1, <2>2, ReturnedKnows
  <2> QED
    BY <1>1, <1>2, <1>4, <2>2, <2>3, RegistryKept, InvByParts
<1>6. CASE Goes(c, e)
  <2>1. e \in CallRows
    BY <1>3, Names DEF CallRows
  <2>2. /\ e.pc = "customer" /\ e.seen = id /\ IdOf(e) = IdOf(call[c]) /\ e.req = call[c].req
        /\ e.answer = "none"
    BY <1>3 DEF CallRows, IdOf
  <2>3. Moves(c) /\ call'[c] = e
    BY <1>6, <2>1, GoesMoves DEF CheckoutInv
  <2> HIDE DEF e
  <2>4. Matched(e, intents')
    BY <1>1, <1>3, <2>2 DEF Matched
  <2>5. Knows(e, intents', made')
    BY <1>1, <1>3, <2>2, <2>4 DEF Knows, Toward
  <2> QED
    BY <1>1, <1>2, <1>4, <2>2, <2>3, <2>5, RegistryKept, InvByParts
<1> QED
  BY <1>2, <1>5, <1>6

LEMMA UpsertCustomerKeeps ==
  ASSUME CheckoutInv, NEW c \in Callers, NEW returned \in BOOLEAN, UpsertCustomer(c, returned)
  PROVE  CheckoutInv'
<1> DEFINE e == [call[c] EXCEPT !.pc = "attach", !.to = "open"]
<1>1. /\ call[c].pc = "customer" /\ Goes(c, e)
      /\ UNCHANGED <<registry, intents, sessions, made, memory, late>>
  BY DEF UpsertCustomer, remote
<1>2. /\ call[c] \in CallRows /\ Matched(call[c], intents) /\ call[c].answer = "none"
      /\ call[c].seen = IdOf(call[c]) /\ made[IdOf(call[c])] > 0
  BY <1>1 DEF CheckoutInv, CallsTyped, Knows
<1>3. e \in CallRows
  BY <1>2, Names DEF CallRows
<1>4. /\ e.pc = "attach" /\ e.seen = call[c].seen /\ IdOf(e) = IdOf(call[c])
      /\ e.req = call[c].req /\ e.answer = "none"
  BY <1>2 DEF CallRows, IdOf
<1>5. Moves(c) /\ call'[c] = e
  BY <1>1, <1>3, GoesMoves DEF CheckoutInv
<1> HIDE DEF e
<1>6. Matched(e, intents)
  BY <1>2, <1>4 DEF Matched
<1>7. Knows(e, intents, made)
  BY <1>2, <1>4, <1>6 DEF Knows, Toward
<1> QED
  BY <1>1, <1>4, <1>5, <1>7, RegistryKept, InvCallOnly

-----------------------------------------------------------------------------
(* Time, faults and the provider *)

\* A step that moves no call.
LEMMA InvNoCall ==
  ASSUME CheckoutInv, call' = call, Keeps(intents, made, intents', made'),
         RegistryTyped', RowsTyped', SessionsBound', \A id \in Ids : KeyHeld(id)'
  PROVE  CheckoutInv'
<1>1. \A c \in Callers : Knows(call[c], intents', made')
  BY KnowsKept DEF CheckoutInv, CallsTyped
<1> QED
  BY <1>1 DEF CheckoutInv, CallsTyped

LEMMA CancelledKeeps ==
  ASSUME CheckoutInv, NEW c \in Callers, Cancelled(c)
  PROVE  CheckoutInv'
<1>1. Returns(c, "error") /\ UNCHANGED <<registry, intents, sessions, made, memory, late>>
  BY DEF Cancelled, remote
<1> QED
  BY <1>1, Names, InvReturns

LEMMA ClearKeeps ==
  ASSUME CheckoutInv, Clear
  PROVE  CheckoutInv'
<1>1. RegistryTyped'
  <2>1. generation' = generation + 1 /\ generation \in Nat
    BY DEF Clear, CheckoutInv, RegistryTyped
  <2>2. /\ cache' \in [Providers -> {None} \cup Nat]
        /\ loading' \in [Providers -> {None} \cup Callers]
    BY DEF Clear
  <2> QED
    BY <2>1, <2>2 DEF RegistryTyped
<1>2. UNCHANGED <<call, intents, late, sessions, made, memory>>
  BY DEF Clear, remote
<1> QED
  BY <1>1, <1>2 DEF CheckoutInv, CallsTyped, RowsTyped, SessionsBound, KeyHeld, Id

LEMMA RestartKeeps ==
  ASSUME CheckoutInv, Restart
  PROVE  CheckoutInv'
<1>1. /\ call' = [c \in Callers |-> NoCall]
      /\ UNCHANGED <<generation, intents, late, sessions, made, memory>>
  BY DEF Restart, remote
<1>2. RegistryTyped'
  <2>1. generation' = generation /\ generation \in Nat
    BY DEF Restart, CheckoutInv, RegistryTyped
  <2>2. /\ cache' \in [Providers -> {None} \cup Nat]
        /\ loading' \in [Providers -> {None} \cup Callers]
    BY DEF Restart
  <2> QED
    BY <2>1, <2>2 DEF RegistryTyped
<1>3. CallsTyped'
  BY <1>1, NoCallTyped DEF CallsTyped
<1>4. \A c \in Callers : Knows(call'[c], intents', made') /\ call'[c].pc = "idle"
  <2>1. NoCall.pc = "idle"
    BY DEF NoCall
  <2> QED
    BY <1>1, <2>1, NoCallKnows
<1>5. \A id \in Ids : KeyHeld(id)'
  BY <1>1, <1>4 DEF CheckoutInv, KeyHeld
<1>6. RowsTyped' /\ SessionsBound'
  BY <1>1 DEF CheckoutInv, RowsTyped, SessionsBound
<1> QED
  BY <1>2, <1>3, <1>4, <1>5, <1>6 DEF CheckoutInv

LEMMA LapseKeeps ==
  ASSUME CheckoutInv, NEW id \in Ids, Lapse(id)
  PROVE  CheckoutInv'
<1>1. late' = late \cup {id} /\ UNCHANGED <<call, registry, intents, sessions, made, memory>>
  BY DEF Lapse, remote
<1>2. \A j \in Ids : KeyHeld(j)'
  BY <1>1 DEF CheckoutInv, KeyHeld, Id
<1>3. RowsTyped' /\ SessionsBound' /\ Keeps(intents, made, intents', made')
  BY <1>1 DEF CheckoutInv, RowsTyped, SessionsBound, Keeps
<1> QED
  BY <1>1, <1>2, <1>3, RegistryKept, InvNoCall

LEMMA ForgetKeeps ==
  ASSUME CheckoutInv, NEW id \in Ids, Forget(id)
  PROVE  CheckoutInv'
<1>1. /\ memory' = memory \ {id} /\ id \in late
      /\ \A c \in Callers : call[c].pc = "session" => Id(c) # id
      /\ UNCHANGED <<call, registry, intents, sessions, made, late>>
  BY DEF Forget
<1>2. \A j \in Ids : KeyHeld(j)'
  BY <1>1 DEF CheckoutInv, KeyHeld, Id
<1>3. RowsTyped' /\ SessionsBound' /\ Keeps(intents, made, intents', made')
  BY <1>1 DEF CheckoutInv, RowsTyped, SessionsBound, Keeps
<1> QED
  BY <1>1, <1>2, <1>3, RegistryKept, InvNoCall

LEMMA SessionMovesKeeps ==
  ASSUME CheckoutInv, NEW id \in Ids, NEW to \in {"paid", "unpaid", "failed", "expired"},
         SessionMoves(id, to)
  PROVE  CheckoutInv'
<1> DEFINE s == [sessions[id] EXCEPT !.state = to]
<1>1. UNCHANGED <<call, registry, intents, late, made, memory>>
  BY DEF SessionMoves
<1>2. sessions \in [Ids -> {None} \cup SessionRows] /\ sessions[id] \in SessionRows
  BY DEF SessionMoves, CheckoutInv, RowsTyped
<1>3. sessions' = [sessions EXCEPT ![id] = s]
  BY DEF SessionMoves
<1>4. s \in SessionRows /\ s.for = sessions[id].for
  BY <1>2 DEF SessionRows
<1> HIDE DEF s
<1>5. /\ sessions' \in [Ids -> {None} \cup SessionRows] /\ sessions'[id] = s
      /\ \A j \in Ids \ {id} : sessions'[j] = sessions[j]
  BY <1>2, <1>3, <1>4
<1>6. RowsTyped' /\ Keeps(intents, made, intents', made')
  BY <1>1, <1>5 DEF CheckoutInv, RowsTyped, Keeps
<1>7. SessionsBound'
  <2> SUFFICES ASSUME NEW j \in Ids, made[j] > 0
               PROVE  /\ sessions'[j] \in SessionRows /\ intents[j] \in IntentRows
                      /\ sessions'[j].for = intents[j].digest
    BY <1>1 DEF CheckoutInv, SessionsBound
  <2>1. CASE j = id
    BY <1>4, <1>5, <2>1 DEF CheckoutInv, SessionsBound
  <2>2. CASE j # id
    BY <1>5, <2>2 DEF CheckoutInv, SessionsBound
  <2> QED
    BY <2>1, <2>2
<1>8. \A j \in Ids : KeyHeld(j)'
  BY <1>1 DEF CheckoutInv, KeyHeld, Id
<1> QED
  BY <1>1, <1>6, <1>7, <1>8, RegistryKept, InvNoCall

LEMMA WebhookKeeps ==
  ASSUME CheckoutInv, NEW id \in Ids, Webhook(id)
  PROVE  CheckoutInv'
<1> DEFINE st == sessions[id].state
           to == IF st = "paid" THEN "completed" ELSE st
<1>1. /\ UNCHANGED <<call, registry, late, sessions, made, memory>>
      /\ st \in {"paid", "failed", "expired"}
      /\ intents' = IF MayAdvance(intents[id], to, None)
                    THEN [intents EXCEPT ![id] = Advanced(@, to, None)] ELSE intents
  BY DEF Webhook, remote
<1>2. to \in {"open"} \cup Closed
  BY <1>1 DEF Closed
<1> HIDE DEF to
<1>3. \A j \in Ids : KeyHeld(j)'
  BY <1>1 DEF CheckoutInv, KeyHeld, Id
<1>4. RowsTyped' /\ SessionsBound' /\ Keeps(intents, made, intents', made')
  <2>1. CASE MayAdvance(intents[id], to, None)
    <3>1. intents' = [intents EXCEPT ![id] = Advanced(intents[id], to, None)]
      BY <1>1, <2>1
    <3> QED
      BY <1>1, <1>2, <2>1, <3>1, NoneAssumption, RowMoves
  <2>2. CASE ~MayAdvance(intents[id], to, None)
    BY <1>1, <2>2 DEF CheckoutInv, RowsTyped, SessionsBound, Keeps
  <2> QED
    BY <2>1, <2>2
<1> QED
  BY <1>1, <1>3, <1>4, RegistryKept, InvNoCall

-----------------------------------------------------------------------------
(* Theorems *)

LEMMA CheckoutInit == Init => CheckoutInv
<1> SUFFICES ASSUME Init PROVE CheckoutInv
  OBVIOUS
<1>1. RegistryTyped /\ RowsTyped
  BY DEF Init, RegistryTyped, RowsTyped
<1>2. CallsTyped
  BY NoCallTyped DEF Init, CallsTyped
<1>3. \A c \in Callers : Knows(call[c], intents, made)
  BY NoCallKnows DEF Init
<1>4. SessionsBound
  BY NoneAssumption DEF Init, SessionsBound
<1>5. \A id \in Ids : KeyHeld(id)
  BY DEF Init, KeyHeld
<1> QED
  BY <1>1, <1>2, <1>3, <1>4, <1>5 DEF CheckoutInv

LEMMA CheckoutStep == CheckoutInv /\ [Next]_vars => CheckoutInv'
<1> SUFFICES ASSUME CheckoutInv, [Next]_vars PROVE CheckoutInv'
  OBVIOUS
<1>1. CASE UNCHANGED vars
  BY <1>1 DEF vars, registry, remote, CheckoutInv, RegistryTyped, CallsTyped, RowsTyped,
              SessionsBound, KeyHeld, Id
<1>2. ASSUME NEW c \in Callers, CallStep(c) PROVE CheckoutInv'
  BY <1>2, SelectProviderKeeps, GetKeeps, FinishLoadKeeps, CreateIntentKeeps, PollKeeps,
     CloseIntentKeeps, CreateSessionKeeps, UpsertCustomerKeeps, AttachSessionKeeps DEF CallStep
<1> QED
  BY <1>1, <1>2, StartCheckoutKeeps, StartStatusKeeps, CancelledKeeps, RestartKeeps, ClearKeeps,
     LapseKeeps, ForgetKeeps, SessionMovesKeeps, WebhookKeeps DEF Next

LEMMA CheckoutInvariant == CheckoutSpec => []CheckoutInv
<1> QED
  BY CheckoutInit, CheckoutStep, PTL DEF CheckoutSpec

\* However often a checkout is retried, by however many callers, and whenever the
\* provider forgets the key, it makes one session for it (CreateCheckout).
THEOREM OneSession == CheckoutSpec => []OneSessionPerIntent
<1>1. CheckoutInv => OneSessionPerIntent
  BY DEF CheckoutInv, KeyHeld, OneSessionPerIntent
<1> QED
  BY <1>1, CheckoutInvariant, PTL

\* A caller is sent only to the session of its own request, and only to one that the
\* intent of its key names (the digest comparison and the attaching update).
THEOREM SessionsMatch == CheckoutSpec => []SessionMatches
<1>1. CheckoutInv => SessionMatches
  <2> SUFFICES ASSUME CheckoutInv, NEW c \in Callers, call[c].answer = "session"
               PROVE  /\ sessions[Id(c)].for = Digest(c)
                      /\ intents[Id(c)] # None /\ intents[Id(c)].session = Id(c)
    BY DEF SessionMatches, SessionIsWhatWasAsked, SessionIsAttached
  <2>1. Matched(call[c], intents) /\ Attached(call[c], intents, made) /\ Id(c) = IdOf(call[c])
    BY DEF CheckoutInv, Knows, Id, IdOf
  <2>2. sessions[Id(c)].for = intents[Id(c)].digest
    BY <2>1 DEF Attached, CheckoutInv, SessionsBound
  <2> QED
    BY <2>1, <2>2, NoneAssumption DEF Matched, Attached, Digest
<1> QED
  BY <1>1, CheckoutInvariant, PTL

=============================================================================
