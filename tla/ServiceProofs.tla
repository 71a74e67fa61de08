--------------------------- MODULE ServiceProofs ---------------------------
(***************************************************************************)
(* Proofs about the two services that act for an account from outside the  *)
(* database: auto-recharge (Recharge), and the work billed through leases  *)
(* (BilledOperations).  They share no state, only this module.             *)
(*                                                                         *)
(* Auto-recharge never has two attempts open, two payments of one attempt, *)
(* a second payment before the credits of the first, or more purchases in  *)
(* a window than the policy allows, for any number of callers, calls and   *)
(* crashes and for calendar and rolling windows; and a profile that waits  *)
(* disarmed is below its line.                                             *)
(*                                                                         *)
(* Billed work is charged at most once and only if it completed, and the   *)
(* session's list loses none of it, for any number of jobs and branches.   *)
(***************************************************************************)
EXTENDS Recharge, BilledOperations, FiniteSetTheorems, TLAPS

PCs == {"idle", "evaluate", "rearm", "claim", "charge", "record"}
Answers == {"none", "error", "invalid", "processing", "action", "succeeded", "failed"}
CallRec == [pc : PCs, key : Nat, attempt : Nat, answer : Answers]
PaymentRec == [state : {"none", "processing", "action", "succeeded", "failed"}, attempt : Keys]

\* What RechargeTypeOK says, and the types of what it leaves out.
Typed ==
  /\ profile \in ProfileRows
  /\ attempts \in [Keys -> AttemptRows]
  /\ payments \in [Keys -> PaymentRec]
  /\ events \in [Keys -> {"none", "sent", "granted", "done"}]
  /\ fresh \in 0..MaxCalls
  /\ calls \in [Callers -> CallRec]
  /\ balance \in Int /\ now \in Nat

\* A key is used by one call, and names no attempt before that call claims it.
KeysFresh ==
  /\ \A k \in Keys : k > fresh => attempts[k].state = "none"
  /\ \A c \in Callers : calls[c].pc = "claim" =>
        calls[c].key \in 1..fresh /\ attempts[calls[c].key].state = "none"
  /\ \A c, d \in Callers : calls[c].pc = "claim" /\ calls[d].pc = "claim"
        /\ calls[c].key = calls[d].key => c = d

\* A caller charges, and records, for an attempt that was claimed; an answer that
\* says "failed" is the provider's last word.
CallsNameAttempts ==
  \A c \in Callers :
    /\ calls[c].pc \in {"charge", "record"} =>
         calls[c].attempt \in Keys /\ attempts[calls[c].attempt].state # "none"
    /\ calls[c].pc = "record" /\ calls[c].answer = "failed" =>
         payments[calls[c].attempt].state = "failed"

\* The payment of a key is that of the attempt of the key, which exists.
PaymentsNameAttempts ==
  \A k \in Keys : /\ payments[k].attempt = k
                  /\ payments[k].state # "none" => attempts[k].state # "none"

\* An event tells of a payment that has ended, and credits one that succeeded.
EventsTell ==
  \A k \in Keys : /\ events[k] # "none" => payments[k].state \in FinalStates
                  /\ events[k] = "granted" => payments[k].state = "succeeded"

\* An attempt ends as its payment did, and not before the credits are granted.
EndsFollowPayments ==
  \A k \in Keys :
    /\ attempts[k].state = "failed" => payments[k].state = "failed"
    /\ attempts[k].state = "succeeded" => payments[k].state = "succeeded" /\ events[k] = "done"

OpenAlone == \A j, k \in Open : j = k

ExclusionInv ==
  /\ KeysFresh /\ CallsNameAttempts /\ PaymentsNameAttempts
  /\ EventsTell /\ EndsFollowPayments /\ OpenAlone

-----------------------------------------------------------------------------
(* Operators *)

\* An update is accepted from an open state only, and never leads back to "none".
LEMMA AcceptedFromOpen ==
  ASSUME NEW from \in AttemptStates, NEW to, Accepted(from, to)
  PROVE  from \in OpenStates /\ to \in OpenStates \cup FinalStates
<1> DEFINE path == Path(from, to)
<1>1. CASE from \in FinalStates \cup {"none"}
  <2>1. path = <<to>>
    BY <1>1 DEF Path, FinalStates
  <2>2. <<from, to>> \in Legal
    BY <2>1 DEF Accepted
  <2> QED
    BY <1>1, <2>2 DEF Legal, FinalStates
<1>2. CASE from \in OpenStates
  <2>1. CASE from = "claimed" /\ to = "action_required"
    BY <2>1 DEF OpenStates
  <2>2. CASE from = "claimed" /\ to = "processing"
    BY <2>2 DEF OpenStates
  <2>3. CASE from = "claimed" /\ to = "submitted"
    BY <2>3 DEF OpenStates
  <2>4. CASE from = "claimed" /\ to \notin {"action_required", "submitted", "processing"}
    <3>1. path = <<"submitted", "processing", to>>
      BY <2>4 DEF Path
    <3>2. <<"processing", to>> \in Legal
      BY <3>1 DEF Accepted
    <3> QED
      BY <1>2, <3>2 DEF Legal, OpenStates, FinalStates
  <2>5. CASE from = "submitted" /\ to \in {"succeeded", "failed", "unknown"}
    BY <2>5 DEF OpenStates, FinalStates
  <2>6. CASE from # "claimed" /\ ~(from = "submitted" /\ to \in {"succeeded", "failed", "unknown"})
    <3>1. path = <<to>>
      BY <2>6 DEF Path
    <3>2. <<from, to>> \in Legal
      BY <3>1 DEF Accepted
    <3> QED
      BY <1>2, <3>2 DEF Legal, OpenStates, FinalStates
  <2> QED
    BY <1>2, <2>1, <2>2, <2>3, <2>4, <2>5, <2>6
<1> QED
  BY <1>1, <1>2 DEF AttemptStates

\* The outcome of an attempt, a balance movement and an upsert keep the profile a profile.
LEMMA OutcomeKept ==
  ASSUME profile \in ProfileRows, NEW st
  PROVE  AfterOutcome(profile, st) \in ProfileRows
<1>1. CASE profile.state \notin {"active", "paused"}
  BY <1>1 DEF AfterOutcome
<1>2. CASE profile.state \in {"active", "paused"} /\ st = "action_required"
  BY <1>2 DEF AfterOutcome, ProfileRows
<1>3. CASE profile.state \in {"active", "paused"} /\ st = "failed"
  <2> DEFINE n == profile.failures + 1
             out == n >= MaxFailures
             s == IF out THEN "paused" ELSE profile.state
  <2>1. n \in Nat /\ out \in BOOLEAN /\ s \in {"active", "paused"}
    BY <1>3 DEF ProfileRows
  <2>2. AfterOutcome(profile, st) = [profile EXCEPT !.failures = n, !.armed = ~out, !.state = s]
    BY <1>3 DEF AfterOutcome, ProfileRows
  <2> HIDE DEF n, out, s
  <2> QED
    BY <2>1, <2>2 DEF ProfileRows
<1>4. CASE profile.state \in {"active", "paused"} /\ st = "succeeded"
  <2>1. CASE profile.armed \/ balance >= RearmAbove
    BY <1>4, <2>1 DEF AfterOutcome, ProfileRows
  <2>2. CASE ~(profile.armed \/ balance >= RearmAbove)
    BY <1>4, <2>2 DEF AfterOutcome, ProfileRows
  <2> QED
    BY <2>1, <2>2
<1>5. CASE profile.state \in {"active", "paused"} /\ st \notin {"action_required", "failed", "succeeded"}
  BY <1>5 DEF AfterOutcome
<1> QED
  BY <1>1, <1>2, <1>3, <1>4, <1>5

LEMMA RearmedKept ==
  ASSUME profile \in ProfileRows, NEW b \in Int
  PROVE  Rearmed(profile, b) \in ProfileRows
BY DEF Rearmed, ProfileRows

LEMMA ArmedKept ==
  ASSUME profile \in ProfileRows, NEW r \in BOOLEAN
  PROVE  Armed(r) \in ProfileRows
<1> DEFINE l == IF r THEN -Cooldown ELSE profile.last
<1>1. l \in Int
  BY RechargeConstants DEF ProfileRows
<1>2. Armed(r) = [profile EXCEPT !.state = "active", !.armed = TRUE, !.last = l]
  BY DEF Armed, ProfileRows
<1> HIDE DEF l
<1> QED
  BY <1>1, <1>2 DEF ProfileRows

LEMMA TargetIsState ==
  ASSUME NEW a \in Answers
  PROVE  Target(a) \in {"unknown", "action_required", "failed", "processing"}
BY DEF Target

\* An update moves one attempt, from an open state, or nothing.
LEMMA UpdateMoves ==
  ASSUME Typed, NEW k \in Keys, NEW to, NEW known \in BOOLEAN, Update(k, to, known)
  PROVE  /\ profile' \in ProfileRows
         /\ attempts' \in [Keys -> AttemptRows]
         /\ \A j \in Keys : attempts'[j].created = attempts[j].created
         /\ \A j \in Keys \ {k} : attempts'[j] = attempts[j]
         /\ \/ attempts' = attempts
            \/ /\ attempts[k].state \in OpenStates
               /\ attempts'[k].state = to
               /\ to \in OpenStates \cup FinalStates
<1>1. CASE attempts[k].state = to
  BY <1>1 DEF Update, store, Typed
<1>2. CASE attempts[k].state # to
  <2>1. /\ Accepted(attempts[k].state, to)
        /\ attempts' = [attempts EXCEPT ![k].state = to, ![k].known = @ \/ known]
        /\ profile' = AfterOutcome(profile, to)
    BY <1>2 DEF Update
  <2>2. attempts[k].state \in AttemptStates /\ attempts[k].known \in BOOLEAN
    BY DEF Typed, AttemptRows
  <2>3. attempts[k].state \in OpenStates /\ to \in OpenStates \cup FinalStates
    BY <2>1, <2>2, AcceptedFromOpen
  <2>4. profile' \in ProfileRows
    BY <2>1, OutcomeKept DEF Typed
  <2> DEFINE b == attempts[k].known \/ known
             a == [attempts[k] EXCEPT !.state = to, !.known = b]
  <2>5. b \in BOOLEAN
    OBVIOUS
  <2>6. attempts' = [attempts EXCEPT ![k] = a]
    BY <2>1 DEF Typed, AttemptRows
  <2> HIDE DEF b
  <2>7. a \in AttemptRows /\ a.created = attempts[k].created /\ a.state = to
    BY <2>3, <2>5 DEF Typed, AttemptRows, AttemptStates
  <2> HIDE DEF a
  <2> QED
    BY <2>3, <2>4, <2>6, <2>7 DEF Typed
<1> QED
  BY <1>1, <1>2

-----------------------------------------------------------------------------
(* Types *)

LEMMA TypedInit == RechargeInit => Typed
<1> SUFFICES ASSUME RechargeInit PROVE Typed
  OBVIOUS
<1>1. profile \in ProfileRows
  <2> DEFINE l == -Cooldown
  <2>1. l \in Int
    BY RechargeConstants
  <2>2. profile = [state |-> "none", armed |-> TRUE, failures |-> 0, last |-> l]
    BY DEF RechargeInit
  <2> HIDE DEF l
  <2> QED
    BY <2>1, <2>2 DEF ProfileRows
<1>2. attempts \in [Keys -> AttemptRows]
  BY DEF RechargeInit, AttemptRows, AttemptStates
<1>3. calls \in [Callers -> CallRec]
  BY DEF RechargeInit, Idle, CallRec, PCs, Answers
<1>4. payments \in [Keys -> PaymentRec]
  BY DEF RechargeInit, PaymentRec
<1> QED
  BY <1>1, <1>2, <1>3, <1>4, RechargeConstants DEF RechargeInit, Typed

\* The call record of one caller is replaced.
LEMMA GotoTyped ==
  ASSUME Typed, NEW c \in Callers, NEW r \in CallRec, Goto(c, r)
  PROVE  calls' \in [Callers -> CallRec]
BY DEF Typed, Goto

LEMMA IdleTyped == Idle \in CallRec
BY DEF Idle, CallRec, PCs, Answers

\* The three things a claim may come to.
Claims(c) ==
  /\ MayClaim /\ balance < Threshold
  /\ attempts' = [attempts EXCEPT ![calls[c].key] =
         [state |-> "claimed", known |-> FALSE, created |-> now]]
  /\ profile' = [profile EXCEPT !.armed = FALSE, !.last = now]
  /\ Goto(c, [calls[c] EXCEPT !.pc = "charge", !.attempt = calls[c].key])

Resumes(c) ==
  /\ UNCHANGED store
  /\ \E k \in Open : Goto(c, [calls[c] EXCEPT !.pc = "charge", !.attempt = k])

GivesUp(c) == UNCHANGED store /\ Goto(c, Idle)

LEMMA ClaimCases ==
  ASSUME Typed, NEW c \in Callers, Claim(c)
  PROVE  /\ calls[c].pc = "claim"
         /\ UNCHANGED <<payments, events, fresh, balance, now>>
         /\ Claims(c) \/ Resumes(c) \/ GivesUp(c)
<1> DEFINE denied == profile.state # "active" \/ ~profile.armed \/ balance >= Threshold
<1>1. calls[c].pc = "claim" /\ UNCHANGED <<payments, events, fresh, balance, now>>
  BY DEF Claim, world
<1>2. IF denied THEN Goto(c, Idle) /\ UNCHANGED store
      ELSE \/ /\ MayClaim
              /\ attempts' = [attempts EXCEPT ![calls[c].key] =
                    [state |-> "claimed", known |-> FALSE, created |-> now]]
              /\ profile' = [profile EXCEPT !.armed = FALSE, !.last = now]
              /\ Goto(c, [calls[c] EXCEPT !.pc = "charge", !.attempt = calls[c].key])
           \/ /\ UNCHANGED store
              /\ \/ \E k \in Open : Goto(c, [calls[c] EXCEPT !.pc = "charge", !.attempt = k])
                 \/ Goto(c, Idle)
  BY Zenon DEF Claim
<1>3. ~denied => balance < Threshold
  BY RechargeConstants DEF Typed
<1> HIDE DEF denied
<1> QED
  BY <1>1, <1>2, <1>3, Zenon DEF Claims, Resumes, GivesUp

\* What a charge may come to: the payment of the attempt, new or not, and an answer.
LEMMA ChargeCases ==
  ASSUME Typed, CallsNameAttempts, NEW c \in Callers, Charge(c)
  PROVE  /\ calls[c].pc = "charge" /\ calls[c].attempt \in Keys
         /\ UNCHANGED <<profile, attempts, fresh, balance, now>>
         /\ payments' \in [Keys -> PaymentRec]
         /\ events' \in [Keys -> {"none", "sent", "granted", "done"}]
         /\ \A k \in Keys \ {calls[c].attempt} : payments'[k] = payments[k] /\ events'[k] = events[k]
         /\ LET k == calls[c].attempt IN
              \/ payments[k].state # "none" /\ UNCHANGED <<payments, events>>
              \/ /\ payments[k].state = "none"
                 /\ payments'[k].attempt = k
                 /\ events'[k] = IF payments'[k].state \in FinalStates THEN "sent" ELSE events[k]
         /\ \E a \in Answers :
              /\ Goto(c, [calls[c] EXCEPT !.pc = "record", !.answer = a])
              /\ a = "failed" => payments'[calls[c].attempt].state = "failed"
<1> DEFINE k == calls[c].attempt
<1>1. calls[c].pc = "charge" /\ k \in Keys
  BY DEF Charge, CallsNameAttempts
<1>2. UNCHANGED <<profile, attempts, fresh, balance, now>>
  BY DEF Charge, store, world
<1>3. /\ payments' \in [Keys -> PaymentRec]
      /\ events' \in [Keys -> {"none", "sent", "granted", "done"}]
      /\ \A j \in Keys \ {k} : payments'[j] = payments[j] /\ events'[j] = events[j]
      /\ \/ payments[k].state # "none" /\ UNCHANGED <<payments, events>>
         \/ /\ payments[k].state = "none"
            /\ payments'[k].attempt = k
            /\ events'[k] = IF payments'[k].state \in FinalStates THEN "sent" ELSE events[k]
  <2>1. CASE payments[k].state # "none"
    BY <2>1 DEF Charge, ChargeKey, Typed
  <2>2. CASE payments[k].state = "none"
    <3>1. PICK st \in {"none", "processing", "action", "succeeded", "failed"} :
            /\ payments' = [payments EXCEPT ![k] = [state |-> st, attempt |-> k]]
            /\ events' = IF st \in FinalStates THEN [events EXCEPT ![k] = "sent"] ELSE events
      BY <2>2 DEF Charge, ChargeKey
    <3> QED
      BY <1>1, <2>2, <3>1 DEF Typed, PaymentRec
  <2> QED
    BY <2>1, <2>2
<1>4. \E a \in Answers : /\ Goto(c, [calls[c] EXCEPT !.pc = "record", !.answer = a])
                         /\ a = "failed" => payments'[k].state = "failed"
  <2>1. payments'[k].state \in {"none", "processing", "action", "succeeded", "failed"}
    BY <1>1, <1>3 DEF PaymentRec
  <2>2. PICK a \in {"error", "invalid", ChargeAnswer(payments'[k].state)} \ {"none"} :
          Goto(c, [calls[c] EXCEPT !.pc = "record", !.answer = a])
    BY DEF Charge, ChargeKey
  <2>3. a \in Answers /\ (a = "failed" => payments'[k].state = "failed")
    BY <2>1, <2>2 DEF ChargeAnswer, StripeAnswer, DodoAnswer, Answers
  <2> QED
    BY <2>2, <2>3
<1> QED
  BY <1>1, <1>2, <1>3, <1>4

\* What a payment's event does to the attempt it names.
LEMMA SettleCases ==
  ASSUME Typed, PaymentsNameAttempts, NEW k \in Keys, SettleAttempt(k)
  PROVE  /\ profile' \in ProfileRows
         /\ attempts' \in [Keys -> AttemptRows]
         /\ \A j \in Keys : attempts'[j].created = attempts[j].created
         /\ \A j \in Keys \ {k} : attempts'[j] = attempts[j]
         /\ events' = [events EXCEPT ![k] = "done"]
         /\ UNCHANGED <<calls, payments, fresh, balance, now>>
         /\ \/ attempts' = attempts
            \/ /\ attempts[k].state \in OpenStates
               /\ attempts'[k].state = "succeeded" /\ events[k] = "granted"
            \/ /\ attempts[k].state \in OpenStates
               /\ attempts'[k].state = "failed" /\ payments[k].state = "failed"
         /\ events[k] = "granted" \/ payments[k].state = "failed"
<1>1. payments[k].attempt = k
  BY DEF PaymentsNameAttempts
<1>2. PICK to \in {"succeeded", "failed"} :
        /\ to = "succeeded" => events[k] = "granted"
        /\ to = "failed" => payments[k].state = "failed"
        /\ UNCHANGED store \/ Update(k, to, TRUE)
  BY <1>1 DEF SettleAttempt, Settle
<1>3. /\ events' = [events EXCEPT ![k] = "done"]
      /\ UNCHANGED <<calls, payments, fresh, balance, now>>
  BY DEF SettleAttempt, world
<1>4. CASE UNCHANGED store
  BY <1>2, <1>3, <1>4 DEF store, Typed
<1>5. CASE Update(k, to, TRUE)
  BY <1>2, <1>3, <1>5, UpdateMoves
<1> QED
  BY <1>2, <1>4, <1>5

LEMMA TypedStep ==
  ASSUME Typed, ExclusionInv, [RechargeNext]_vars
  PROVE  Typed'
<1> USE DEF ExclusionInv
<1> USE IdleTyped
<1>1. ASSUME NEW c \in Callers, ProcessIfNeeded(c) PROVE Typed'
  <2>1. CASE fresh' = fresh
    <3>1. \E r \in CallRec : Goto(c, r)
      BY <1>1, <2>1, RechargeConstants DEF ProcessIfNeeded, Evaluated, Typed
    <3> QED
      BY <1>1, <2>1, <3>1, GotoTyped DEF ProcessIfNeeded, Typed, world
  <2>2. CASE fresh' # fresh
    <3> DEFINE n == fresh + 1
               r == [Idle EXCEPT !.pc = "claim", !.key = n]
    <3>1. fresh' = n /\ n \in 0..MaxCalls /\ Goto(c, r)
      BY <1>1, <2>2, RechargeConstants DEF ProcessIfNeeded, Evaluated, Typed
    <3>2. r \in CallRec
      <4>1. n \in Nat
        BY DEF Typed
      <4> HIDE DEF n
      <4> QED
        BY <4>1 DEF Idle, CallRec, PCs, Answers
    <3> HIDE DEF r, n
    <3> QED
      BY <1>1, <3>1, <3>2, GotoTyped DEF ProcessIfNeeded, Typed, world
  <2> QED
    BY <2>1, <2>2
<1>2. ASSUME NEW c \in Callers, Enable(c) PROVE Typed'
  <2>1. [Idle EXCEPT !.pc = "evaluate"] \in CallRec
    BY DEF Idle, CallRec, PCs, Answers
  <2> QED
    BY <1>2, <2>1, GotoTyped, ArmedKept DEF Enable, Typed, world
<1>3. ASSUME NEW c \in Callers, Retry(c) PROVE Typed'
  <2>1. [Idle EXCEPT !.pc = "rearm"] \in CallRec
    BY DEF Idle, CallRec, PCs, Answers
  <2> QED
    BY <1>3, <2>1, GotoTyped DEF Retry, Typed, store, world
<1>4. ASSUME NEW c \in Callers, RetryUpsert(c) PROVE Typed'
  <2>1. [Idle EXCEPT !.pc = "evaluate"] \in CallRec
    BY DEF Idle, CallRec, PCs, Answers
  <2> QED
    BY <1>4, <2>1, GotoTyped, ArmedKept DEF RetryUpsert, Typed, world
<1>5. ASSUME NEW c \in Callers, Claim(c) PROVE Typed'
  <2>1. UNCHANGED <<payments, events, fresh, balance, now>>
    BY <1>5, ClaimCases
  <2>2. ASSUME NEW k \in Nat PROVE [calls[c] EXCEPT !.pc = "charge", !.attempt = k] \in CallRec
    BY DEF Typed, CallRec, PCs
  <2>3. CASE Claims(c)
    <3>1. calls[c].key \in Nat
      BY DEF Typed, CallRec
    <3>2. calls' \in [Callers -> CallRec]
      BY <2>2, <2>3, <3>1, GotoTyped DEF Claims
    <3>3. attempts' \in [Keys -> AttemptRows]
      <4>1. [state |-> "claimed", known |-> FALSE, created |-> now] \in AttemptRows
        BY DEF Typed, AttemptRows, AttemptStates, OpenStates
      <4> QED
        BY <2>3, <4>1 DEF Claims, Typed
    <3>4. profile' \in ProfileRows
      <4>1. now \in Int
        BY DEF Typed
      <4> QED
        BY <2>3, <4>1 DEF Claims, Typed, ProfileRows
    <3> QED
      BY <2>1, <3>2, <3>3, <3>4 DEF Typed
  <2>4. CASE Resumes(c)
    <3>1. Open \subseteq Nat
      BY DEF Open, Keys
    <3> QED
      BY <2>1, <2>2, <2>4, <3>1, GotoTyped DEF Resumes, Typed, store
  <2>5. CASE GivesUp(c)
    BY <2>1, <2>5, GotoTyped DEF GivesUp, Typed, store
  <2> QED
    BY <1>5, <2>3, <2>4, <2>5, ClaimCases
<1>6. ASSUME NEW c \in Callers, Charge(c) PROVE Typed'
  <2>1. PICK a \in Answers : Goto(c, [calls[c] EXCEPT !.pc = "record", !.answer = a])
    BY <1>6, ChargeCases
  <2>2. [calls[c] EXCEPT !.pc = "record", !.answer = a] \in CallRec
    BY DEF Typed, CallRec, PCs
  <2> QED
    BY <1>6, <2>1, <2>2, ChargeCases, GotoTyped DEF Typed
<1>7. ASSUME NEW c \in Callers, Record(c) PROVE Typed'
  <2> DEFINE k == calls[c].attempt
             a == calls[c].answer
  <2>1. k \in Keys /\ (UNCHANGED store \/ Update(k, Target(a), a # "error"))
    BY <1>7 DEF Record, CallsNameAttempts
  <2>2. profile' \in ProfileRows /\ attempts' \in [Keys -> AttemptRows]
    BY <2>1, UpdateMoves DEF Typed, store
  <2> QED
    BY <1>7, <2>2, GotoTyped DEF Record, Typed, world
<1>8. ASSUME NEW c \in Callers, Crash(c) PROVE Typed'
  BY <1>8, GotoTyped DEF Crash, Typed, store
<1>9. ASSUME NEW k \in Keys, PaymentSettles(k) PROVE Typed'
  <2>1. PICK st \in FinalStates : payments' = [payments EXCEPT ![k].state = st]
    BY <1>9 DEF PaymentSettles
  <2>2. payments' \in [Keys -> PaymentRec]
    BY <2>1 DEF Typed, PaymentRec, FinalStates
  <2> QED
    BY <1>9, <2>2 DEF PaymentSettles, Typed, store, world
<1>10. ASSUME NEW k \in Keys, GrantTopup(k) PROVE Typed'
  <2>1. balance + Credits \in Int
    BY RechargeConstants DEF Typed
  <2>2. Rearmed(profile, balance + Credits) \in ProfileRows
    BY <2>1, RearmedKept DEF Typed
  <2> QED
    BY <1>10, <2>1, <2>2 DEF GrantTopup, Credit, Typed
<1>11. ASSUME NEW k \in Keys, SettleAttempt(k) PROVE Typed'
  <2>1. profile' \in ProfileRows /\ attempts' \in [Keys -> AttemptRows]
    BY <1>11, SettleCases
  <2> QED
    BY <1>11, <2>1 DEF SettleAttempt, Typed, world
<1>12. CASE Disable
  BY <1>12 DEF Disable, Typed, ProfileRows, world
<1>13. CASE Spend
  BY <1>13 DEF Spend, Typed, store
<1>14. CASE Deposit
  <2>1. balance + 1 \in Int
    BY DEF Typed
  <2>2. Rearmed(profile, balance + 1) \in ProfileRows
    BY <2>1, RearmedKept DEF Typed
  <2> QED
    BY <1>14, <2>1, <2>2 DEF Deposit, Credit, Typed
<1>15. CASE Environment
  BY <1>15 DEF Environment, Typed, store
<1>16. CASE Tick
  BY <1>16 DEF Tick, Typed, store
<1>17. CASE UNCHANGED vars
  BY <1>17 DEF vars, Typed
<1> QED
  BY <1>1, <1>2, <1>3, <1>4, <1>5, <1>6, <1>7, <1>8, <1>9, <1>10, <1>11, <1>12, <1>13, <1>14,
     <1>15, <1>16, <1>17 DEF RechargeNext, CallerStep, Webhook

-----------------------------------------------------------------------------
(* Exclusion *)

LEMMA ExclusionInit == RechargeInit => ExclusionInv
BY RechargeConstants
   DEF RechargeInit, ExclusionInv, KeysFresh, CallsNameAttempts, PaymentsNameAttempts,
       EventsTell, EndsFollowPayments, OpenAlone, Open, OpenStates, FinalStates, Keys, Idle

\* The key a caller claims with is one of the keys, and no attempt has it.
LEMMA ClaimKey ==
  ASSUME Typed, KeysFresh, NEW c \in Callers, calls[c].pc = "claim"
  PROVE  /\ calls[c].key \in Keys /\ calls[c].key \in 1..fresh
         /\ attempts[calls[c].key].state = "none"
<1>1. calls[c].key \in 1..fresh /\ attempts[calls[c].key].state = "none"
  BY DEF KeysFresh
<1>2. fresh \in 0..MaxCalls
  BY DEF Typed
<1> QED
  BY <1>1, <1>2, RechargeConstants DEF Keys

\* A step that leaves attempts, payments and events alone, and takes no caller to a
\* step that says something about them.
LEMMA ExclusionUntouched ==
  ASSUME Typed, ExclusionInv, UNCHANGED <<attempts, payments, events>>,
         fresh' = fresh,
         \A c \in Callers : calls'[c] = calls[c] \/ calls'[c].pc \in {"idle", "evaluate", "rearm"}
  PROVE  ExclusionInv'
<1>1. KeysFresh'
  BY DEF ExclusionInv, KeysFresh
<1>2. CallsNameAttempts'
  BY DEF ExclusionInv, CallsNameAttempts
<1> QED
  BY <1>1, <1>2
     DEF ExclusionInv, PaymentsNameAttempts, EventsTell, EndsFollowPayments, OpenAlone, Open

\* One attempt moves from an open state to another state that is not "none".
LEMMA ExclusionMoves ==
  ASSUME Typed, ExclusionInv, NEW k \in Keys, UNCHANGED <<payments, fresh>>,
         \A j \in Keys \ {k} : attempts'[j] = attempts[j] /\ events'[j] = events[j],
         attempts[k].state \in OpenStates,
         attempts'[k].state \in OpenStates \cup FinalStates,
         attempts'[k].state = "failed" => payments[k].state = "failed",
         attempts'[k].state = "succeeded" => payments[k].state = "succeeded" /\ events'[k] = "done",
         events'[k] = events[k] \/ (events'[k] = "done" /\ events[k] # "none"),
         \A c \in Callers : calls'[c] = calls[c] \/ calls'[c].pc \in {"idle", "evaluate", "rearm"}
  PROVE  ExclusionInv'
<1>1. KeysFresh'
  <2>1. \A j \in Keys : j > fresh' => attempts'[j].state = "none"
    BY DEF ExclusionInv, KeysFresh, OpenStates
  <2>2. ASSUME NEW c \in Callers, calls'[c].pc = "claim"
        PROVE  /\ calls'[c].key \in 1..fresh' /\ attempts'[calls'[c].key].state = "none"
               /\ calls'[c] = calls[c]
    <3>1. calls'[c] = calls[c]
      BY <2>2
    <3>2. calls[c].key \in Keys \ {k} /\ calls[c].key \in 1..fresh
      BY <2>2, <3>1, ClaimKey DEF ExclusionInv, OpenStates
    <3> QED
      BY <2>2, <3>1, <3>2, ClaimKey DEF ExclusionInv
  <2> QED
    BY <2>1, <2>2 DEF ExclusionInv, KeysFresh
<1>2. CallsNameAttempts'
  BY DEF ExclusionInv, CallsNameAttempts, OpenStates, FinalStates
<1>3. PaymentsNameAttempts'
  BY DEF ExclusionInv, PaymentsNameAttempts, OpenStates, FinalStates
<1>4. EventsTell'
  BY DEF ExclusionInv, EventsTell
<1>5. EndsFollowPayments'
  BY DEF ExclusionInv, EndsFollowPayments
<1>6. OpenAlone'
  <2>1. Open' \subseteq Open
    BY DEF Open
  <2> QED
    BY <2>1 DEF ExclusionInv, OpenAlone
<1> QED
  BY <1>1, <1>2, <1>3, <1>4, <1>5, <1>6 DEF ExclusionInv

LEMMA ExclusionStep ==
  ASSUME Typed, Typed', ExclusionInv, [RechargeNext]_vars
  PROVE  ExclusionInv'
<1>1. ASSUME NEW c \in Callers, ProcessIfNeeded(c) PROVE ExclusionInv'
  <2>0. UNCHANGED <<attempts, payments, events>>
    BY <1>1 DEF ProcessIfNeeded
  <2>1. CASE fresh' = fresh
    <3>1. Goto(c, Idle)
      BY <1>1, <2>1 DEF ProcessIfNeeded, Evaluated, Typed
    <3> QED
      BY <2>0, <2>1, <3>1, ExclusionUntouched DEF Goto, Typed, Idle
  <2>2. CASE fresh' # fresh
    <3>1. /\ fresh' = fresh + 1 /\ fresh < MaxCalls
          /\ Goto(c, [Idle EXCEPT !.pc = "claim", !.key = fresh + 1])
      BY <1>1, <2>2 DEF ProcessIfNeeded, Evaluated
    <3>2. /\ calls'[c].pc = "claim" /\ calls'[c].key = fresh + 1
          /\ \A d \in Callers \ {c} : calls'[d] = calls[d]
      BY <3>1 DEF Goto, Typed, Idle
    <3>3. KeysFresh'
      <4>1. \A k \in Keys : k > fresh' => attempts'[k].state = "none"
        BY <2>0, <3>1 DEF ExclusionInv, KeysFresh, Keys, Typed
      <4>2. ASSUME NEW d \in Callers, calls'[d].pc = "claim"
            PROVE  calls'[d].key \in 1..fresh' /\ attempts'[calls'[d].key].state = "none"
        <5>1. CASE d = c
          BY <2>0, <3>1, <3>2, <5>1 DEF ExclusionInv, KeysFresh, Keys, Typed
        <5>2. CASE d # c
          BY <2>0, <3>1, <3>2, <4>2, <5>2 DEF ExclusionInv, KeysFresh, Keys, Typed
        <5> QED
          BY <5>1, <5>2
      <4>3. ASSUME NEW d \in Callers, NEW e \in Callers, calls'[d].pc = "claim",
                   calls'[e].pc = "claim", calls'[d].key = calls'[e].key
            PROVE  d = e
        <5>1. \A x \in Callers \ {c} : calls'[x].pc = "claim" => calls'[x].key <= fresh
          BY <3>2 DEF ExclusionInv, KeysFresh, Typed
        <5> QED
          BY <3>1, <3>2, <4>3, <5>1 DEF ExclusionInv, KeysFresh, Typed
      <4> QED
        BY <4>1, <4>2, <4>3 DEF KeysFresh
    <3>4. CallsNameAttempts'
      BY <2>0, <3>2 DEF ExclusionInv, CallsNameAttempts
    <3> QED
      BY <2>0, <3>3, <3>4
         DEF ExclusionInv, PaymentsNameAttempts, EventsTell, EndsFollowPayments, OpenAlone, Open
  <2> QED
    BY <2>1, <2>2
<1>2. ASSUME NEW c \in Callers, Enable(c) PROVE ExclusionInv'
  BY <1>2, ExclusionUntouched DEF Enable, Goto, Typed, Idle
<1>3. ASSUME NEW c \in Callers, Retry(c) PROVE ExclusionInv'
  BY <1>3, ExclusionUntouched DEF Retry, Goto, Typed, Idle, store
<1>4. ASSUME NEW c \in Callers, RetryUpsert(c) PROVE ExclusionInv'
  <2>1. Goto(c, [Idle EXCEPT !.pc = "evaluate"]) \/ Goto(c, Idle)
    BY <1>4 DEF RetryUpsert
  <2>2. \A d \in Callers : calls'[d] = calls[d] \/ calls'[d].pc \in {"idle", "evaluate", "rearm"}
    BY <2>1 DEF Goto, Typed, Idle
  <2> QED
    BY <1>4, <2>2, ExclusionUntouched DEF RetryUpsert
<1>5. ASSUME NEW c \in Callers, Claim(c) PROVE ExclusionInv'
  <2>1. /\ calls[c].pc = "claim" /\ UNCHANGED <<payments, events, fresh>>
        /\ Claims(c) \/ Resumes(c) \/ GivesUp(c)
    BY <1>5, ClaimCases
  <2>2. CASE Claims(c)
    <3> DEFINE k == calls[c].key
    <3>1. k \in Keys /\ k <= fresh /\ attempts[k].state = "none"
      BY <2>1, ClaimKey DEF ExclusionInv, Typed
    <3>2. /\ attempts'[k].state = "claimed"
          /\ \A j \in Keys \ {k} : attempts'[j] = attempts[j]
      BY <2>2, <3>1 DEF Claims, Typed
    <3>3. /\ calls'[c].pc = "charge" /\ calls'[c].attempt = k
          /\ \A d \in Callers \ {c} : calls'[d] = calls[d]
      BY <2>2 DEF Claims, Goto, Typed, CallRec
    <3>4. payments[k].state = "none" /\ Open = {}
      BY <2>2, <3>1 DEF ExclusionInv, PaymentsNameAttempts, Claims, MayClaim
    <3> HIDE DEF k
    <3>5. KeysFresh'
      <4>1. \A j \in Keys : j > fresh' => attempts'[j].state = "none"
        BY <2>1, <3>1, <3>2 DEF ExclusionInv, KeysFresh, Keys, Typed
      <4>2. ASSUME NEW d \in Callers, calls'[d].pc = "claim"
            PROVE  calls'[d].key \in 1..fresh' /\ attempts'[calls'[d].key].state = "none"
        <5>1. d # c /\ calls'[d] = calls[d] /\ calls[d].key # k
          BY <2>1, <3>3, <4>2 DEF ExclusionInv, KeysFresh, k
        <5>2. calls[d].key \in Keys \ {k}
          BY <4>2, <5>1, ClaimKey DEF ExclusionInv
        <5> QED
          BY <2>1, <3>2, <4>2, <5>1, <5>2 DEF ExclusionInv, KeysFresh
      <4>3. ASSUME NEW d \in Callers, NEW e \in Callers, calls'[d].pc = "claim",
                   calls'[e].pc = "claim", calls'[d].key = calls'[e].key
            PROVE  d = e
        BY <3>3, <4>3 DEF ExclusionInv, KeysFresh
      <4> QED
        BY <4>1, <4>2, <4>3 DEF KeysFresh
    <3>6. CallsNameAttempts'
      BY <2>1, <3>1, <3>2, <3>3 DEF ExclusionInv, CallsNameAttempts
    <3>7. PaymentsNameAttempts' /\ EventsTell'
      BY <2>1, <3>2, <3>4 DEF ExclusionInv, PaymentsNameAttempts, EventsTell
    <3>8. EndsFollowPayments'
      BY <2>1, <3>2 DEF ExclusionInv, EndsFollowPayments
    <3>9. OpenAlone'
      BY <3>2, <3>4 DEF OpenAlone, Open
    <3> QED
      BY <3>5, <3>6, <3>7, <3>8, <3>9 DEF ExclusionInv
  <2>3. CASE Resumes(c)
    <3>1. PICK k \in Open : Goto(c, [calls[c] EXCEPT !.pc = "charge", !.attempt = k])
      BY <2>3 DEF Resumes
    <3>2. /\ calls'[c].pc = "charge" /\ calls'[c].attempt = k
          /\ \A d \in Callers \ {c} : calls'[d] = calls[d]
      BY <3>1 DEF Goto, Typed, CallRec
    <3>3. UNCHANGED attempts
      BY <2>3 DEF Resumes, store
    <3>4. KeysFresh'
      BY <2>1, <3>2, <3>3 DEF ExclusionInv, KeysFresh
    <3>5. CallsNameAttempts'
      BY <2>1, <3>2, <3>3 DEF ExclusionInv, CallsNameAttempts, Open, OpenStates
    <3> QED
      BY <2>1, <3>3, <3>4, <3>5
         DEF ExclusionInv, PaymentsNameAttempts, EventsTell, EndsFollowPayments, OpenAlone, Open
  <2>4. CASE GivesUp(c)
    BY <2>1, <2>4, ExclusionUntouched DEF GivesUp, Goto, Typed, Idle, store
  <2> QED
    BY <2>1, <2>2, <2>3, <2>4
<1>6. ASSUME NEW c \in Callers, Charge(c) PROVE ExclusionInv'
  <2> DEFINE k == calls[c].attempt
  <2>1. k \in Keys /\ UNCHANGED <<attempts, fresh>>
    BY <1>6, ChargeCases DEF ExclusionInv
  <2>2. PICK a \in Answers :
          /\ Goto(c, [calls[c] EXCEPT !.pc = "record", !.answer = a])
          /\ a = "failed" => payments'[k].state = "failed"
    BY <1>6, ChargeCases DEF ExclusionInv
  <2>3. /\ calls[c].pc = "charge"
        /\ calls'[c].pc = "record" /\ calls'[c].attempt = k /\ calls'[c].answer = a
        /\ \A d \in Callers \ {c} : calls'[d] = calls[d]
    BY <1>6, <2>2, ChargeCases DEF ExclusionInv, Goto, Typed, CallRec
  <2>4. \A j \in Keys \ {k} : payments'[j] = payments[j] /\ events'[j] = events[j]
    BY <1>6, ChargeCases DEF ExclusionInv
  <2>5. /\ payments'[k].attempt = k
        /\ \/ payments'[k] = payments[k] /\ events'[k] = events[k]
           \/ /\ payments[k].state = "none"
              /\ events'[k] = IF payments'[k].state \in FinalStates THEN "sent" ELSE events[k]
    BY <1>6, <2>1, ChargeCases DEF ExclusionInv, PaymentsNameAttempts
  <2>6. attempts[k].state # "none"
    BY <2>3 DEF ExclusionInv, CallsNameAttempts
  <2> HIDE DEF k
  <2>7. KeysFresh'
    BY <2>1, <2>3 DEF ExclusionInv, KeysFresh
  <2>8. CallsNameAttempts'
    <3>1. \A j \in Keys : payments[j].state = "failed" => payments'[j].state = "failed"
      BY <2>4, <2>5
    <3> QED
      BY <2>1, <2>2, <2>3, <2>6, <3>1 DEF ExclusionInv, CallsNameAttempts
  <2>9. PaymentsNameAttempts'
    BY <2>1, <2>4, <2>5, <2>6 DEF ExclusionInv, PaymentsNameAttempts
  <2>10. EventsTell'
    BY <2>1, <2>4, <2>5 DEF ExclusionInv, EventsTell, FinalStates
  <2>11. EndsFollowPayments'
    BY <2>1, <2>4, <2>5 DEF ExclusionInv, EndsFollowPayments
  <2>12. OpenAlone'
    BY <2>1 DEF ExclusionInv, OpenAlone, Open
  <2> QED
    BY <2>7, <2>8, <2>9, <2>10, <2>11, <2>12 DEF ExclusionInv
<1>7. ASSUME NEW c \in Callers, Record(c) PROVE ExclusionInv'
  <2> DEFINE k == calls[c].attempt
             a == calls[c].answer
  <2>1. /\ calls[c].pc = "record" /\ k \in Keys /\ a \in Answers
        /\ UNCHANGED <<payments, events, fresh>>
        /\ UNCHANGED store \/ Update(k, Target(a), a # "error")
    BY <1>7 DEF Record, ExclusionInv, CallsNameAttempts, Typed, CallRec
  <2>2. \A d \in Callers : calls'[d] = calls[d] \/ calls'[d].pc \in {"idle", "evaluate", "rearm"}
    BY <1>7 DEF Record, Goto, Idle, Typed
  <2>3. CASE attempts' = attempts
    BY <2>1, <2>2, <2>3, ExclusionUntouched
  <2>4. CASE attempts' # attempts
    <3>1. Update(k, Target(a), a # "error")
      BY <2>1, <2>4 DEF store
    <3>2. /\ \A j \in Keys \ {k} : attempts'[j] = attempts[j]
          /\ attempts[k].state \in OpenStates
          /\ attempts'[k].state = Target(a)
          /\ Target(a) \in OpenStates \cup FinalStates
      BY <2>1, <2>4, <3>1, UpdateMoves
    <3>3. Target(a) # "succeeded" /\ (Target(a) = "failed" => a = "failed")
      BY <2>1, TargetIsState DEF Target, Answers
    <3>4. a = "failed" => payments[k].state = "failed"
      BY <2>1 DEF ExclusionInv, CallsNameAttempts
    <3> HIDE DEF k, a
    <3> QED
      BY <2>1, <2>2, <3>2, <3>3, <3>4, ExclusionMoves
  <2> QED
    BY <2>3, <2>4
<1>8. ASSUME NEW c \in Callers, Crash(c) PROVE ExclusionInv'
  BY <1>8, ExclusionUntouched DEF Crash, Goto, Typed, Idle, store
<1>9. ASSUME NEW k \in Keys, PaymentSettles(k) PROVE ExclusionInv'
  <2>1. PICK st \in FinalStates : payments' = [payments EXCEPT ![k].state = st]
    BY <1>9 DEF PaymentSettles
  <2>2. /\ payments[k].state \in {"processing", "action"}
        /\ events' = [events EXCEPT ![k] = "sent"]
        /\ UNCHANGED <<attempts, calls, fresh>>
    BY <1>9 DEF PaymentSettles, store
  <2>3. /\ payments'[k].state = st /\ payments'[k].attempt = payments[k].attempt
        /\ events'[k] = "sent"
        /\ \A j \in Keys \ {k} : payments'[j] = payments[j] /\ events'[j] = events[j]
    BY <2>1, <2>2 DEF Typed, PaymentRec
  <2>4. KeysFresh' /\ OpenAlone'
    BY <2>2 DEF ExclusionInv, KeysFresh, OpenAlone, Open
  <2>5. CallsNameAttempts'
    BY <2>2, <2>3 DEF ExclusionInv, CallsNameAttempts
  <2>6. PaymentsNameAttempts' /\ EventsTell'
    BY <2>2, <2>3 DEF ExclusionInv, PaymentsNameAttempts, EventsTell
  <2>7. EndsFollowPayments'
    BY <2>2, <2>3 DEF ExclusionInv, EndsFollowPayments
  <2> QED
    BY <2>4, <2>5, <2>6, <2>7 DEF ExclusionInv
<1>10. ASSUME NEW k \in Keys, GrantTopup(k) PROVE ExclusionInv'
  <2>1. /\ events[k] = "sent" /\ payments[k].state = "succeeded"
        /\ events' = [events EXCEPT ![k] = "granted"]
        /\ UNCHANGED <<attempts, payments, calls, fresh>>
    BY <1>10 DEF GrantTopup
  <2>2. KeysFresh' /\ OpenAlone' /\ CallsNameAttempts' /\ PaymentsNameAttempts'
    BY <2>1 DEF ExclusionInv, KeysFresh, OpenAlone, Open, CallsNameAttempts, PaymentsNameAttempts
  <2>3. EventsTell' /\ EndsFollowPayments'
    BY <2>1 DEF ExclusionInv, EventsTell, EndsFollowPayments, Typed
  <2> QED
    BY <2>2, <2>3 DEF ExclusionInv
<1>11. ASSUME NEW k \in Keys, SettleAttempt(k) PROVE ExclusionInv'
  <2>1. /\ \A j \in Keys \ {k} : attempts'[j] = attempts[j]
        /\ events' = [events EXCEPT ![k] = "done"]
        /\ UNCHANGED <<calls, payments, fresh>>
        /\ \/ attempts' = attempts
           \/ /\ attempts[k].state \in OpenStates
              /\ attempts'[k].state = "succeeded" /\ events[k] = "granted"
           \/ /\ attempts[k].state \in OpenStates
              /\ attempts'[k].state = "failed" /\ payments[k].state = "failed"
        /\ events[k] # "none"
    BY <1>11, SettleCases DEF ExclusionInv, SettleAttempt
  <2>2. events'[k] = "done" /\ \A j \in Keys \ {k} : events'[j] = events[j]
    BY <2>1 DEF Typed
  <2>3. CASE attempts' = attempts
    <3>1. KeysFresh' /\ OpenAlone' /\ CallsNameAttempts' /\ PaymentsNameAttempts'
      BY <2>1, <2>3 DEF ExclusionInv, KeysFresh, OpenAlone, Open, CallsNameAttempts,
                        PaymentsNameAttempts
    <3>2. EventsTell' /\ EndsFollowPayments'
      BY <2>1, <2>2, <2>3 DEF ExclusionInv, EventsTell, EndsFollowPayments
    <3> QED
      BY <3>1, <3>2 DEF ExclusionInv
  <2>4. CASE attempts' # attempts
    <3>1. events[k] = "granted" => payments[k].state = "succeeded"
      BY DEF ExclusionInv, EventsTell
    <3> QED
      BY <2>1, <2>2, <2>4, <3>1, ExclusionMoves DEF FinalStates
  <2> QED
    BY <2>3, <2>4
<1>12. CASE Disable
  BY <1>12, ExclusionUntouched DEF Disable
<1>13. CASE Spend
  BY <1>13, ExclusionUntouched DEF Spend, store
<1>14. CASE Deposit
  BY <1>14, ExclusionUntouched DEF Deposit
<1>15. CASE Environment
  BY <1>15, ExclusionUntouched DEF Environment, store
<1>16. CASE Tick
  BY <1>16, ExclusionUntouched DEF Tick, store
<1>17. CASE UNCHANGED vars
  BY <1>17, ExclusionUntouched DEF vars
<1> QED
  BY <1>1, <1>2, <1>3, <1>4, <1>5, <1>6, <1>7, <1>8, <1>9, <1>10, <1>11, <1>12, <1>13, <1>14,
     <1>15, <1>16, <1>17 DEF RechargeNext, CallerStep, Webhook

-----------------------------------------------------------------------------
(* Windows *)

\* The attempts created in a window that took a payment or still may.
Bought(w) == {k \in Keys : /\ attempts[k].state \notin {"none", "failed"}
                           /\ w.start <= attempts[k].created
                           /\ attempts[k].created < w.end}

CreatedBefore == \A k \in Keys : attempts[k].state # "none" => attempts[k].created <= now

WindowInv ==
  /\ CreatedBefore
  /\ \A t \in 0..now : Cardinality(Bought(RechargeWindow(t))) <= MaxPurchases

\* floorDivide rounds toward minus infinity.
LEMMA FloorDivideBounds ==
  ASSUME NEW a \in Int, NEW b \in Nat \ {0}
  PROVE  /\ FloorDivide(a, b) \in Int
         /\ b * FloorDivide(a, b) <= a
         /\ a < b * FloorDivide(a, b) + b
<1>1. ASSUME NEW n \in Nat
      PROVE  n \div b \in Nat /\ b * (n \div b) <= n /\ n < b * (n \div b) + b
  OBVIOUS
<1> QED
  BY <1>1 DEF FloorDivide, Quotient

\* The calendar window of an instant holds it and is that of all it holds.
LEMMA CalendarWindows ==
  ASSUME NEW s \in Int, NEW t \in Int
  PROVE  /\ CalendarStart(t) \in Int
         /\ CalendarStart(t) <= t /\ t < CalendarStart(t) + WindowLength
         /\ CalendarStart(t) <= s /\ s < CalendarStart(t) + WindowLength
              => CalendarStart(s) = CalendarStart(t)
<1> DEFINE q == FloorDivide(t - Anchor, WindowLength)
           r == FloorDivide(s - Anchor, WindowLength)
<1>1. /\ WindowLength \in Nat \ {0} /\ Anchor \in Int
      /\ s - Anchor \in Int /\ t - Anchor \in Int
  BY RechargeConstants
<1>2. /\ q \in Int /\ WindowLength * q <= t - Anchor /\ t - Anchor < WindowLength * q + WindowLength
      /\ r \in Int /\ WindowLength * r <= s - Anchor /\ s - Anchor < WindowLength * r + WindowLength
  BY <1>1, FloorDivideBounds
<1>3. CalendarStart(t) = Anchor + q * WindowLength /\ CalendarStart(s) = Anchor + r * WindowLength
  BY DEF CalendarStart
<1> HIDE DEF q, r
<1>4. q * WindowLength = WindowLength * q /\ r * WindowLength = WindowLength * r
  BY <1>1, <1>2
<1>5. ASSUME WindowLength * q <= s - Anchor, s - Anchor < WindowLength * q + WindowLength
      PROVE  q = r
  <2>1. ASSUME q < r PROVE FALSE
    <3>1. WindowLength * q + WindowLength <= WindowLength * r
      BY <1>1, <1>2, <2>1
    <3> QED
      BY <1>1, <1>2, <1>5, <3>1
  <2>2. ASSUME r < q PROVE FALSE
    <3>1. WindowLength * r + WindowLength <= WindowLength * q
      BY <1>1, <1>2, <2>2
    <3> QED
      BY <1>1, <1>2, <1>5, <3>1
  <2> QED
    BY <1>2, <2>1, <2>2
<1> QED
  BY <1>1, <1>2, <1>3, <1>4, <1>5

\* A window that was current at t and holds a later s is the window at s.
LEMMA WindowsAgree ==
  ASSUME NEW s \in Int, NEW t \in Int, t <= s
  PROVE  /\ RechargeWindow(t).start \in Int /\ RechargeWindow(t).end \in Int
         /\ t < RechargeWindow(t).end
         /\ RechargeWindow(t).start <= s /\ s < RechargeWindow(t).end
              => RechargeWindow(t) = RechargeWindow(s)
<1>1. CASE Rolling
  BY <1>1, RechargeConstants DEF RechargeWindow
<1>2. CASE ~Rolling
  BY <1>2, RechargeConstants, CalendarWindows DEF RechargeWindow
<1> QED
  BY <1>1, <1>2

\* What was created by now and is in the next instant's window is in this one's.
LEMMA WindowsMoveOn ==
  ASSUME NEW c \in Int, NEW t \in Int, c <= t, RechargeWindow(t + 1).start <= c
  PROVE  RechargeWindow(t).start <= c /\ c < RechargeWindow(t).end
<1>1. CASE Rolling
  BY <1>1, RechargeConstants DEF RechargeWindow
<1>2. CASE ~Rolling
  <2>1. /\ t + 1 \in Int
        /\ CalendarStart(t + 1) \in Int /\ CalendarStart(t) \in Int
        /\ CalendarStart(t + 1) <= t + 1 /\ t + 1 < CalendarStart(t + 1) + WindowLength
        /\ CalendarStart(t) <= t /\ t < CalendarStart(t) + WindowLength
    BY CalendarWindows
  <2>2. CalendarStart(t + 1) <= c
    BY <1>2 DEF RechargeWindow
  <2>3. CalendarStart(t) = CalendarStart(t + 1)
    BY <2>1, <2>2, CalendarWindows, RechargeConstants
  <2> QED
    BY <1>2, <2>1, <2>2, <2>3, RechargeConstants DEF RechargeWindow
<1> QED
  BY <1>1, <1>2

LEMMA BoughtFinite ==
  ASSUME NEW w
  PROVE  /\ IsFiniteSet(Keys) /\ IsFiniteSet(Bought(w))
         /\ Cardinality(Bought(w)) \in Nat
<1>1. IsFiniteSet(Keys)
  BY FS_Interval, RechargeConstants DEF Keys
<1>2. Bought(w) \subseteq Keys
  BY DEF Bought
<1> QED
  BY <1>1, <1>2, FS_Subset, FS_CardinalityType

\* Attempts that move between states, and time that stands still.
LEMMA WindowUntouched ==
  ASSUME Typed, Typed', WindowInv, now' = now,
         \A k \in Keys : /\ attempts'[k].created = attempts[k].created
                         /\ attempts[k].state \in {"none", "failed"} =>
                              attempts'[k].state = attempts[k].state
  PROVE  WindowInv'
<1>1. CreatedBefore'
  BY DEF WindowInv, CreatedBefore
<1>2. ASSUME NEW t \in 0..now PROVE Cardinality(Bought(RechargeWindow(t))') <= MaxPurchases
  <2> DEFINE w == RechargeWindow(t)
  <2>1. Bought(w)' \subseteq Bought(w)
    BY DEF Bought, RechargeWindow, CalendarStart
  <2>2. Cardinality(Bought(w)') <= Cardinality(Bought(w)) /\ Cardinality(Bought(w)') \in Nat
    BY <2>1, BoughtFinite, FS_Subset, FS_CardinalityType
  <2> QED
    BY <2>2, BoughtFinite, RechargeConstants DEF WindowInv
<1> QED
  BY <1>1, <1>2 DEF WindowInv

LEMMA WindowInit == RechargeInit => WindowInv
<1> SUFFICES ASSUME RechargeInit PROVE WindowInv
  OBVIOUS
<1>1. CreatedBefore
  BY DEF RechargeInit, CreatedBefore
<1>2. ASSUME NEW t \in 0..now PROVE Cardinality(Bought(RechargeWindow(t))) <= MaxPurchases
  <2>1. Bought(RechargeWindow(t)) = {}
    BY DEF RechargeInit, Bought
  <2> QED
    BY <2>1, FS_EmptySet, RechargeConstants
<1> QED
  BY <1>1, <1>2 DEF WindowInv

LEMMA WindowStep ==
  ASSUME Typed, Typed', ExclusionInv, WindowInv, [RechargeNext]_vars
  PROVE  WindowInv'
<1>1. CASE now' = now /\ attempts' = attempts
  BY <1>1, WindowUntouched
<1>2. ASSUME NEW c \in Callers, Claim(c), attempts' # attempts PROVE WindowInv'
  <2> DEFINE k == calls[c].key
             w == RechargeWindow(now)
  <2>1. Claims(c) /\ now' = now /\ calls[c].pc = "claim"
    BY <1>2, ClaimCases DEF Resumes, GivesUp, store
  <2>2. k \in Keys /\ attempts[k].state = "none"
    BY <2>1, ClaimKey DEF ExclusionInv
  <2>3. /\ attempts'[k].state = "claimed" /\ attempts'[k].created = now
        /\ \A j \in Keys \ {k} : attempts'[j] = attempts[j]
    BY <2>1, <2>2 DEF Claims, Typed
  <2>4. Open = {} /\ Cardinality(Counted(w)) < MaxPurchases
    BY <2>1 DEF Claims, MayClaim
  <2>5. now \in Nat
    BY DEF Typed
  <2> HIDE DEF k
  <2>6. CreatedBefore'
    BY <2>1, <2>3, <2>5 DEF WindowInv, CreatedBefore
  <2>7. ASSUME NEW t \in 0..now PROVE Cardinality(Bought(RechargeWindow(t))') <= MaxPurchases
    <3> DEFINE v == RechargeWindow(t)
    <3>1. v.start \in Int /\ v.end \in Int /\ (v.start <= now /\ now < v.end => v = w)
      BY <2>5, WindowsAgree
    <3>2. v' = v
      BY DEF RechargeWindow, CalendarStart
    <3>3. CASE v.start <= now /\ now < v.end
      <4>1. v = w
        BY <3>1, <3>3
      <4> HIDE DEF v, w
      <4>2. Bought(w) \subseteq Counted(w)
        <5>1. ASSUME NEW j \in Keys, attempts[j].state \notin {"none", "failed"}
              PROVE  attempts[j].state = "succeeded"
          <6>1. attempts[j].state \in AttemptStates /\ attempts[j].state \notin OpenStates
            BY <2>4 DEF Open, Typed, AttemptRows
          <6> QED
            BY <5>1, <6>1 DEF AttemptStates, FinalStates
        <5> QED
          BY <5>1 DEF Bought, Counted
      <4>3. Bought(v)' \subseteq Bought(w) \cup {k}
        BY <2>3, <3>2, <4>1 DEF Bought
      <4>4. IsFiniteSet(Counted(w)) /\ Cardinality(Counted(w)) \in Nat
        <5>1. Counted(w) \subseteq Keys
          BY DEF Counted
        <5> QED
          BY <5>1, BoughtFinite, FS_Subset, FS_CardinalityType
      <4>5. /\ IsFiniteSet(Counted(w) \cup {k})
            /\ \/ Cardinality(Counted(w) \cup {k}) = Cardinality(Counted(w))
               \/ Cardinality(Counted(w) \cup {k}) = Cardinality(Counted(w)) + 1
        BY <4>4, FS_AddElement, Zenon
      <4>6. /\ Cardinality(Bought(v)') <= Cardinality(Counted(w) \cup {k})
            /\ Cardinality(Bought(v)') \in Nat
            /\ Cardinality(Counted(w) \cup {k}) \in Nat
        <5>1. Bought(v)' \subseteq Counted(w) \cup {k}
          BY <4>2, <4>3
        <5> QED
          BY <4>5, <5>1, FS_Subset, FS_CardinalityType
      <4> QED
        BY <2>4, <4>4, <4>5, <4>6, RechargeConstants DEF v
    <3>4. CASE ~(v.start <= now /\ now < v.end)
      <4> HIDE DEF v
      <4>1. Bought(v)' \subseteq Bought(v)
        BY <2>3, <3>2, <3>4 DEF Bought
      <4>2. Cardinality(Bought(v)') <= Cardinality(Bought(v)) /\ Cardinality(Bought(v)') \in Nat
        BY <4>1, BoughtFinite, FS_Subset, FS_CardinalityType
      <4> QED
        BY <4>2, BoughtFinite, RechargeConstants DEF WindowInv, v
    <3> QED
      BY <3>3, <3>4
  <2> QED
    BY <2>1, <2>6, <2>7 DEF WindowInv
<1>3. ASSUME NEW c \in Callers, Record(c) PROVE WindowInv'
  <2> DEFINE k == calls[c].attempt
  <2>1. /\ k \in Keys /\ now' = now
        /\ UNCHANGED store \/ \E to : \E known \in BOOLEAN : Update(k, to, known)
    BY <1>3 DEF Record, ExclusionInv, CallsNameAttempts, world
  <2>2. CASE UNCHANGED store
    BY <2>1, <2>2, WindowUntouched DEF store
  <2>3. ASSUME NEW to, NEW known \in BOOLEAN, Update(k, to, known) PROVE WindowInv'
    BY <2>1, <2>3, UpdateMoves, WindowUntouched DEF OpenStates
  <2> QED
    BY <2>1, <2>2, <2>3
<1>4. ASSUME NEW k \in Keys, SettleAttempt(k) PROVE WindowInv'
  BY <1>4, SettleCases, WindowUntouched DEF ExclusionInv, OpenStates
<1>5. CASE Tick
  <2>1. now' = now + 1 /\ attempts' = attempts /\ now \in Nat
    BY <1>5 DEF Tick, store, Typed
  <2>2. CreatedBefore'
    BY <2>1 DEF WindowInv, CreatedBefore, Typed, AttemptRows
  <2>3. ASSUME NEW t \in 0..(now + 1)
        PROVE  Cardinality(Bought(RechargeWindow(t))) <= MaxPurchases
    <3>1. CASE t \in 0..now
      BY <3>1 DEF WindowInv
    <3>2. CASE t = now + 1
      <4> DEFINE v == RechargeWindow(now + 1)
                 w == RechargeWindow(now)
      <4>1. ASSUME NEW k \in Bought(v) PROVE k \in Bought(w)
        <5>1. /\ k \in Keys /\ attempts[k].created \in Int
              /\ attempts[k].created <= now /\ v.start <= attempts[k].created
              /\ attempts[k].state \notin {"none", "failed"}
          BY DEF Bought, Typed, AttemptRows, WindowInv, CreatedBefore
        <5>2. w.start <= attempts[k].created /\ attempts[k].created < w.end
          BY <2>1, <5>1, WindowsMoveOn
        <5> QED
          BY <5>1, <5>2 DEF Bought
      <4> HIDE DEF v, w
      <4>2. Cardinality(Bought(v)) <= Cardinality(Bought(w))
        <5>1. Bought(v) \subseteq Bought(w)
          BY <4>1
        <5> QED
          BY <5>1, BoughtFinite, FS_Subset
      <4>3. Cardinality(Bought(w)) <= MaxPurchases
        BY <2>1 DEF WindowInv, w
      <4> QED
        BY <3>2, <4>2, <4>3, BoughtFinite, RechargeConstants DEF v
    <3> QED
      BY <2>1, <3>1, <3>2
  <2>4. \A t : Bought(RechargeWindow(t))' = Bought(RechargeWindow(t))
    BY <2>1 DEF Bought, RechargeWindow, CalendarStart
  <2> QED
    BY <2>1, <2>2, <2>3, <2>4 DEF WindowInv
<1>6. \/ now' = now /\ attempts' = attempts
      \/ \E c \in Callers : (Claim(c) /\ attempts' # attempts) \/ Record(c)
      \/ \E k \in Keys : SettleAttempt(k)
      \/ Tick
  BY DEF RechargeNext, CallerStep, Webhook, ProcessIfNeeded, Enable, Retry, RetryUpsert, Claim,
         Charge, Crash, PaymentSettles, GrantTopup, Disable, Spend, Deposit, Environment, store,
         world, vars
<1> QED
  BY <1>1, <1>2, <1>3, <1>4, <1>5, <1>6

-----------------------------------------------------------------------------
(* Rearming *)

LEMMA RearmedInit == RechargeInit => RearmedAboveLine
BY DEF RechargeInit, RearmedAboveLine

LEMMA RearmedStep ==
  ASSUME Typed, Typed', ExclusionInv, RearmedAboveLine, [RechargeNext]_vars
  PROVE  RearmedAboveLine'
<1>1. CASE profile' = profile /\ balance' <= balance
  BY <1>1, RechargeConstants DEF RearmedAboveLine, Typed
<1>2. ASSUME NEW r \in BOOLEAN, profile' = Armed(r) PROVE RearmedAboveLine'
  BY <1>2 DEF Armed, RearmedAboveLine, Typed, ProfileRows
<1>3. ASSUME profile' = Rearmed(profile, balance') PROVE RearmedAboveLine'
  <2>1. CASE profile.state = "active" /\ balance' >= RearmAbove
    <3>1. profile'.armed
      BY <1>3, <2>1 DEF Rearmed, Typed, ProfileRows
    <3> QED
      BY <3>1 DEF RearmedAboveLine
  <2>2. CASE profile.state # "active"
    BY <1>3, <2>2 DEF Rearmed, RearmedAboveLine
  <2>3. CASE ~(balance' >= RearmAbove)
    BY <2>3, RechargeConstants DEF RearmedAboveLine, Typed
  <2> QED
    BY <2>1, <2>2, <2>3
<1>4. ASSUME NEW c \in Callers, Claim(c) PROVE RearmedAboveLine'
  <2>1. balance' = balance /\ (profile' = profile \/ balance < Threshold)
    BY <1>4, ClaimCases DEF Claims, Resumes, GivesUp, store
  <2>2. CASE profile' = profile
    BY <2>1, <2>2 DEF RearmedAboveLine
  <2>3. CASE balance < Threshold
    BY <2>1, <2>3, RechargeConstants DEF RearmedAboveLine, Typed
  <2> QED
    BY <2>1, <2>2, <2>3
<1>5. ASSUME NEW st, profile' = AfterOutcome(profile, st), balance' = balance
      PROVE  RearmedAboveLine'
  <2>1. CASE profile' = profile
    BY <1>5, <2>1 DEF RearmedAboveLine
  <2>2. CASE st = "action_required" /\ profile.state \in {"active", "paused"}
    BY <1>5, <2>2 DEF AfterOutcome, RearmedAboveLine, Typed, ProfileRows
  <2>3. CASE st = "failed" /\ profile.state \in {"active", "paused"}
    <3> DEFINE n == profile.failures + 1
               out == n >= MaxFailures
               s == IF out THEN "paused" ELSE profile.state
    <3>1. profile' = [profile EXCEPT !.failures = n, !.armed = ~out, !.state = s]
      BY <1>5, <2>3 DEF AfterOutcome, Typed, ProfileRows
    <3>2. out \in BOOLEAN /\ (out => s = "paused")
      OBVIOUS
    <3> HIDE DEF n, out, s
    <3>3. profile'.armed = ~out /\ profile'.state = s
      BY <3>1 DEF Typed, ProfileRows
    <3> QED
      BY <3>2, <3>3 DEF RearmedAboveLine
  <2>4. CASE st = "succeeded" /\ profile.state \in {"active", "paused"}
    <3> DEFINE b == profile.armed \/ balance >= RearmAbove
    <3>1. profile' = [profile EXCEPT !.failures = 0, !.state = "active", !.armed = b]
      BY <1>5, <2>4 DEF AfterOutcome, Typed, ProfileRows
    <3>2. ~b => balance < RearmAbove
      BY RechargeConstants DEF Typed
    <3> HIDE DEF b
    <3>3. profile'.armed = b
      BY <3>1 DEF Typed, ProfileRows
    <3> QED
      BY <1>5, <3>2, <3>3 DEF RearmedAboveLine
  <2> QED
    BY <1>5, <2>1, <2>2, <2>3, <2>4 DEF AfterOutcome
<1>6. ASSUME NEW c \in Callers, Record(c) PROVE RearmedAboveLine'
  <2>1. balance' = balance /\ (profile' = profile \/ \E st : profile' = AfterOutcome(profile, st))
    BY <1>6 DEF Record, Update, store, world
  <2> QED
    BY <1>5, <2>1 DEF RearmedAboveLine
<1>7. ASSUME NEW k \in Keys, SettleAttempt(k) PROVE RearmedAboveLine'
  <2>1. balance' = balance /\ (profile' = profile \/ \E st : profile' = AfterOutcome(profile, st))
    BY <1>7 DEF SettleAttempt, Settle, Update, store, world
  <2> QED
    BY <1>5, <2>1 DEF RearmedAboveLine
<1>8. CASE Disable
  BY <1>8 DEF Disable, RearmedAboveLine, Typed, ProfileRows
<1>9. \/ profile' = profile /\ balance' = balance
      \/ \E r \in BOOLEAN : profile' = Armed(r)
      \/ profile' = Rearmed(profile, balance')
      \/ \E c \in Callers : Claim(c) \/ Record(c)
      \/ \E k \in Keys : SettleAttempt(k)
      \/ Disable
      \/ Spend
  BY DEF RechargeNext, CallerStep, Webhook, ProcessIfNeeded, Enable, Retry, RetryUpsert,
         Charge, Crash, PaymentSettles, GrantTopup, Deposit, Credit, Environment, Tick,
         store, world, vars
<1>10. CASE Spend
  BY <1>1, <1>10 DEF Spend, store, Typed
<1> QED
  BY <1>1, <1>2, <1>3, <1>4, <1>6, <1>7, <1>8, <1>9, <1>10 DEF Typed

-----------------------------------------------------------------------------
(* Theorems *)

RechargeInv == Typed /\ ExclusionInv /\ WindowInv /\ RearmedAboveLine

LEMMA RechargeInductive == RechargeSpec => []RechargeInv
<1>1. RechargeInit => RechargeInv
  BY TypedInit, ExclusionInit, WindowInit, RearmedInit DEF RechargeInv
<1>2. RechargeInv /\ [RechargeNext]_vars => RechargeInv'
  BY TypedStep, ExclusionStep, WindowStep, RearmedStep DEF RechargeInv
<1> QED
  BY <1>1, <1>2, PTL DEF RechargeSpec

\* A set in which any two elements are equal has at most one.
LEMMA AtMostOne ==
  ASSUME NEW S, \A x, y \in S : x = y
  PROVE  Cardinality(S) <= 1
<1>1. CASE S = {}
  BY <1>1, FS_EmptySet
<1>2. CASE S # {}
  <2>1. PICK x \in S : S = {x}
    BY <1>2
  <2> QED
    BY <2>1, FS_Singleton
<1> QED
  BY <1>1, <1>2

\* The rows of profile, attempts, payments and events keep their types, in
\* particular every attempt is in a state that advance_auto_recharge_attempt knows.
THEOREM RechargeTyped == RechargeSpec => []RechargeTypeOK
<1>1. RechargeInv => RechargeTypeOK
  BY RechargeConstants DEF RechargeInv, Typed, RechargeTypeOK, PaymentRec
<1> QED
  BY <1>1, RechargeInductive, PTL

\* Attempts exclude one another: whatever callers race, crash and resume, one attempt
\* is open and the provider holds one payment of each (claim_auto_recharge_attempt,
\* ProcessIfNeeded).
THEOREM RechargeExcludes == RechargeSpec => []AttemptsExclusive
<1>1. RechargeInv => AttemptsExclusive
  <2> SUFFICES ASSUME RechargeInv PROVE AttemptsExclusive
    OBVIOUS
  <2>1. OneOpenAttempt
    BY AtMostOne DEF RechargeInv, ExclusionInv, OpenAlone, OneOpenAttempt
  <2>2. OnePaymentPerAttempt
    BY DEF RechargeInv, ExclusionInv, PaymentsNameAttempts, OnePaymentPerAttempt
  <2> QED
    BY <2>1, <2>2 DEF AttemptsExclusive
<1> QED
  BY <1>1, RechargeInductive, PTL

\* No second payment is taken while the credits of one are to come: the payment's
\* attempt is open until they are granted (paymentSucceeded).
THEOREM RechargeAwaitsGrant == RechargeSpec => []OneUngrantedPayment
<1>1. RechargeInv => OneUngrantedPayment
  <2> SUFFICES ASSUME RechargeInv PROVE OneUngrantedPayment
    OBVIOUS
  <2> DEFINE S == {k \in Keys : /\ payments[k].state \in {"processing", "action", "succeeded"}
                                /\ events[k] \in {"none", "sent"}}
  <2>1. ASSUME NEW k \in S PROVE k \in Open
    <3>1. /\ attempts[k].state \in AttemptStates /\ attempts[k].state # "none"
          /\ attempts[k].state \notin FinalStates
      BY DEF RechargeInv, Typed, AttemptRows, ExclusionInv, PaymentsNameAttempts,
             EndsFollowPayments, FinalStates
    <3> QED
      BY <3>1 DEF AttemptStates, Open
  <2>2. \A j, k \in S : j = k
    BY <2>1 DEF RechargeInv, ExclusionInv, OpenAlone
  <2> HIDE DEF S
  <2>3. Cardinality(S) <= 1
    BY <2>2, AtMostOne
  <2> QED
    BY <2>3 DEF S, OneUngrantedPayment
<1> QED
  BY <1>1, RechargeInductive, PTL

\* No window of the policy, calendar or rolling, ever holds more paid attempts than
\* max_purchases, and no status reports more (claim_auto_recharge_attempt, GetStatus).
THEOREM RechargeWithinLimits == RechargeSpec => []PurchasesBounded
<1>1. RechargeInv => PurchasesBounded
  <2> SUFFICES ASSUME RechargeInv PROVE PurchasesBounded
    OBVIOUS
  <2>1. now \in Nat
    BY DEF RechargeInv, Typed
  <2>2. GetStatus.recharges <= MaxPurchases
    <3> DEFINE w == RechargeWindow(now)
               S == Counted([w EXCEPT !.end = now + 1])
    <3>1. now < w.end /\ w.end \in Int /\ w.start \in Int
      BY <2>1, WindowsAgree
    <3>2. [w EXCEPT !.end = now + 1].start = w.start
      BY DEF RechargeWindow
    <3>3. S \subseteq Bought(w)
      BY <2>1, <3>1, <3>2 DEF Counted, Bought, RechargeInv, WindowInv, CreatedBefore, Typed,
                              AttemptRows
    <3>4. Cardinality(Bought(w)) <= MaxPurchases
      BY <2>1 DEF RechargeInv, WindowInv
    <3>5. GetStatus.recharges = Cardinality(S)
      BY DEF GetStatus
    <3> HIDE DEF S, w
    <3> QED
      BY <3>3, <3>4, <3>5, BoughtFinite, FS_Subset, FS_CardinalityType, RechargeConstants
  <2>3. ASSUME NEW t \in 0..now
        PROVE  LET w == RechargeWindow(t) IN
               Cardinality({k \in Keys : /\ payments[k].state = "succeeded"
                                         /\ w.start <= attempts[payments[k].attempt].created
                                         /\ attempts[payments[k].attempt].created < w.end})
                 <= MaxPurchases
    <3> DEFINE w == RechargeWindow(t)
               S == {k \in Keys : /\ payments[k].state = "succeeded"
                                  /\ w.start <= attempts[payments[k].attempt].created
                                  /\ attempts[payments[k].attempt].created < w.end}
    <3>1. S \subseteq Bought(w)
      BY DEF Bought, RechargeInv, ExclusionInv, PaymentsNameAttempts, EndsFollowPayments
    <3>2. Cardinality(Bought(w)) <= MaxPurchases
      BY DEF RechargeInv, WindowInv
    <3> HIDE DEF S, w
    <3>3. Cardinality(S) <= MaxPurchases
      BY <3>1, <3>2, BoughtFinite, FS_Subset, FS_CardinalityType, RechargeConstants
    <3> QED
      BY <3>3 DEF S, w
  <2> QED
    BY <2>2, <2>3 DEF PurchasesBounded
<1> QED
  BY <1>1, RechargeInductive, PTL

\* An active profile that is disarmed has a balance below rearm_above
\* (rearm_auto_recharge_profile, advance_auto_recharge_attempt).
THEOREM RechargeRearms == RechargeSpec => []RearmedAboveLine
<1>1. RechargeInv => RearmedAboveLine
  BY DEF RechargeInv
<1> QED
  BY <1>1, RechargeInductive, PTL

-----------------------------------------------------------------------------
(* Billed operations: leases as RunBilled and the agent plug-in see them, from outside.          *)
(* What is claimed of calls in flight and of saved usage is not inductive: a branch may write    *)
(* back a copy of the session's list that it loaded several steps ago.  BilledInv says what      *)
(* makes that copy good: its reader holds the mutex, so the list has not changed since, and it   *)
(* dropped only entries whose leases are over.                                                   *)

ActorSet ==
  [pc : {"idle", "settle", "snapshot", "clear", "running", "release", "begin", "register",
         "append", "flying", "complete", "failed"},
   for : {"none", "beforeRun", "beforeModel", "afterRun", "complete", "onModelError"},
   keys : SUBSET Invocations, key : Invocations \cup {None}, copy : SUBSET Entries,
   left : SUBSET Ops, snapshot : SUBSET Ops, op : Ops \cup {None}, tries : Nat]

JobSet ==
  [pc : {"idle", "work", "settle", "release"}, tries : Nat, calls : Nat,
   result : {"none", "ok", "error"}]

\* The lease of o was reserved.
Began(o) == lease[o] # "none"

\* The lease of o has ended, or the store has refused to end it.
Over(o) == lease[o] \notin {"none", "active"} \/ o \in refused

\* A lease is charged when it is settled, for work that was done.
StoreOK ==
  /\ lease \in [Ops -> Statuses] /\ charged \in [Ops -> Nat]
  /\ \A o \in Ops : charged[o] = IF lease[o] = "settled" THEN 1 ELSE 0
  /\ \A o \in Ops : lease[o] = "settled" => o \in finished

\* A RunBilled call settles work that was done, and succeeds with a settled lease.
JobOK(j) ==
  /\ job[j] \in JobSet
  /\ job[j].pc = "settle" => j \in finished
  /\ job[j].result = "ok" => lease[j] = "settled"

JobsOK == DOMAIN job = Jobs /\ \A j \in Jobs : JobOK(j)

\* Entries are of reserved leases; an entry with metrics was recorded by complete().
SessionOK ==
  /\ entries \in [Invocations -> SUBSET Entries]
  /\ lock \in [Invocations -> Actors \cup {None}]
  /\ active \in [Branches -> Ops \cup {None}]
  /\ recorded \subseteq finished /\ recorded \subseteq spent /\ recorded \subseteq Ops
  /\ \A k \in Invocations : \A e \in entries[k] :
       Began(e.op) /\ (e.kind = "ready" => e.op \in recorded)

\* Who has loaded a state key holds its mutex, and has dropped from its copy only entries whose
\* leases are over.
ActorOK(a) ==
  /\ at[a] \in ActorSet
  /\ at[a].key # None =>
       /\ lock[at[a].key] = a
       /\ at[a].pc \in {"settle", "release"}
       /\ at[a].pc = "settle" => at[a].key \in at[a].keys
       /\ at[a].copy \subseteq entries[at[a].key]
       /\ \A e \in entries[at[a].key] \ at[a].copy : Over(e.op)
       /\ \A o \in at[a].left : Began(o)

ActorsOK == DOMAIN at = Actors /\ \A a \in Actors : ActorOK(a)

\* A branch acts within a run of its invocation; from its reservation on, its operation has a
\* lease, and from its registration on the operation is the active one of the branch.
BranchOK(b) ==
  /\ at[b].pc # "idle" => at[InvocationOf[b]].pc = "running"
  /\ at[b].op # None => at[b].op \in spent /\ at[b].op \notin recorded
  /\ at[b].for = "beforeModel" => at[b].op # None
  /\ at[b].pc \in {"begin", "register", "append", "flying", "complete", "failed"} =>
       at[b].op # None
  /\ at[b].pc \in {"register", "append", "flying", "complete", "failed"} => Began(at[b].op)
  /\ at[b].pc \in {"append", "flying", "complete", "failed"} => active[b] = at[b].op
  /\ at[b].pc = "complete" => at[b].op \in finished
  /\ at[b].pc = "flying" =>
       [op |-> at[b].op, kind |-> "open"] \in entries[InvocationOf[b]] \/ Over(at[b].op)

BranchesOK == \A b \in Branches : BranchOK(b)

\* Operation keys are drawn once.
OpsDiffer ==
  \A b, c \in Branches : at[b].op # None /\ at[b].op = at[c].op => b = c

\* What complete() saved is in the session until its lease is over.
Retained ==
  \A o \in recorded :
    (\E k \in Invocations : [op |-> o, kind |-> "ready"] \in entries[k]) \/ Over(o)

BilledInv ==
  StoreOK /\ JobsOK /\ SessionOK /\ ActorsOK /\ BranchesOK /\ OpsDiffer /\ Retained

-----------------------------------------------------------------------------
(* The store's transactions *)

\* No lease comes back: what was reserved stays reserved, what has ended stays so, and a charge
\* is not undone.
LeaseMoves ==
  \A o \in Ops :
    /\ lease[o] # "none" => lease'[o] # "none"
    /\ lease[o] \notin {"none", "active"} => lease'[o] \notin {"none", "active"}
    /\ lease[o] = "settled" => lease'[o] = "settled"

LEMMA StoreStays ==
  ASSUME StoreOK, UNCHANGED storeVars, finished \subseteq finished'
  PROVE  StoreOK' /\ LeaseMoves
BY DEF StoreOK, LeaseMoves, storeVars

LEMMA SettleTxOK ==
  ASSUME StoreOK, NEW o \in Ops, SettleTx(o), o \in finished, finished \subseteq finished'
  PROVE  /\ StoreOK' /\ LeaseMoves
         /\ lease[o] # "none" => lease'[o] \notin {"none", "active"}
         /\ Settles(lease[o]) => lease'[o] = "settled"
<1>1. lease' = [lease EXCEPT ![o] = SettledStatus(lease[o])]
      /\ charged' = [charged EXCEPT ![o] = IF Posts(lease[o]) THEN charged[o] + 1 ELSE charged[o]]
  BY DEF SettleTx
<1>2. lease'[o] = SettledStatus(lease[o]) /\ \A p \in Ops : p # o => lease'[p] = lease[p]
  BY <1>1 DEF StoreOK
<1>3. charged'[o] = IF lease'[o] = "settled" THEN 1 ELSE 0
  BY <1>1, <1>2 DEF StoreOK, SettledStatus, Posts, Statuses
<1>4. \A p \in Ops : p # o => charged'[p] = charged[p]
  BY <1>1 DEF StoreOK
<1>5. lease' \in [Ops -> Statuses] /\ charged' \in [Ops -> Nat]
  BY <1>1 DEF StoreOK, SettledStatus, Statuses
<1>6. StoreOK'
  BY <1>2, <1>3, <1>4, <1>5 DEF StoreOK
<1>7. LeaseMoves
  BY <1>2 DEF LeaseMoves, SettledStatus
<1> QED BY <1>2, <1>6, <1>7 DEF StoreOK, SettledStatus, Settles, Statuses

LEMMA ReleaseTxOK ==
  ASSUME StoreOK, NEW o \in Ops, ReleaseTx(o), finished \subseteq finished'
  PROVE  /\ StoreOK' /\ LeaseMoves
         /\ lease[o] # "none" => lease'[o] \notin {"none", "active"}
<1>1. lease' = [lease EXCEPT ![o] = ReleasedStatus(lease[o])] /\ charged' = charged
  BY DEF ReleaseTx
<1>2. lease'[o] = ReleasedStatus(lease[o]) /\ \A p \in Ops : p # o => lease'[p] = lease[p]
  BY <1>1 DEF StoreOK
<1>3. lease' \in [Ops -> Statuses]
  BY <1>1 DEF StoreOK, ReleasedStatus, Statuses
<1>4. \A p \in Ops : lease'[p] = "settled" <=> lease[p] = "settled"
  BY <1>2 DEF ReleasedStatus
<1>5. StoreOK'
  BY <1>1, <1>3, <1>4 DEF StoreOK
<1> QED BY <1>2, <1>5 DEF LeaseMoves, ReleasedStatus

LEMMA ReserveTxOK ==
  ASSUME StoreOK, NEW o \in Ops, ReserveTx(o), finished \subseteq finished'
  PROVE  StoreOK' /\ LeaseMoves /\ lease'[o] # "none"
<1>1. lease' = [lease EXCEPT ![o] = Reserved(lease[o])] /\ charged' = charged
  BY DEF ReserveTx
<1>2. lease'[o] = Reserved(lease[o]) /\ \A p \in Ops : p # o => lease'[p] = lease[p]
  BY <1>1 DEF StoreOK
<1>3. lease' \in [Ops -> Statuses]
  BY <1>1 DEF StoreOK, Reserved, Statuses
<1>4. \A p \in Ops : lease'[p] = "settled" <=> lease[p] = "settled"
  BY <1>2 DEF Reserved
<1>5. StoreOK'
  BY <1>1, <1>3, <1>4 DEF StoreOK
<1> QED BY <1>2, <1>5 DEF LeaseMoves, Reserved

LEMMA ExpireOK ==
  ASSUME StoreOK, NEW o \in Ops, Expire(o)
  PROVE  StoreOK' /\ LeaseMoves
<1>1. lease[o] = "active" /\ lease' = [lease EXCEPT ![o] = "expired"] /\ charged' = charged
      /\ finished' = finished
  BY DEF Expire, historyVars
<1>2. lease'[o] = "expired" /\ \A p \in Ops : p # o => lease'[p] = lease[p]
  BY <1>1 DEF StoreOK
<1>3. lease' \in [Ops -> Statuses]
  BY <1>1 DEF StoreOK, Statuses
<1>4. StoreOK'
  BY <1>1, <1>2, <1>3 DEF StoreOK
<1> QED BY <1>1, <1>2, <1>4 DEF LeaseMoves

-----------------------------------------------------------------------------
(* What a step leaves to the others *)

\* What the leases and the history of a step may do.
Forward ==
  /\ StoreOK' /\ LeaseMoves
  /\ refused \subseteq refused' /\ finished \subseteq finished' /\ spent \subseteq spent'

LEMMA OverStays ==
  ASSUME Forward, NEW o \in Ops
  PROVE  (Over(o) => Over(o)') /\ (Began(o) => Began(o)')
BY DEF Forward, LeaseMoves, Over, Began

LEMMA JobsStay ==
  ASSUME JobsOK, Forward, job' = job, Jobs \subseteq Ops
  PROVE  JobsOK'
BY DEF JobsOK, JobOK, Forward, LeaseMoves

\* The session keeps the entries of calls in flight and of recorded usage.
Flying(o) == \E b \in Branches : at[b].pc = "flying" /\ at[b].op = o

SessionMoves ==
  \A k \in Invocations : \A e \in entries[k] :
    e.kind = "ready" \/ (e.kind = "open" /\ Flying(e.op)) => e \in entries'[k] \/ Over(e.op)'

\* What is said of an open or a ready entry stays true.
LEMMA EntryStays ==
  ASSUME Forward, SessionMoves, NEW o \in Ops, NEW k \in Invocations,
         NEW kind, kind = "ready" \/ (kind = "open" /\ Flying(o)),
         [op |-> o, kind |-> kind] \in entries[k] \/ Over(o)
  PROVE  [op |-> o, kind |-> kind] \in entries'[k] \/ Over(o)'
<1>1. CASE Over(o)
  BY <1>1, OverStays
<1>2. CASE [op |-> o, kind |-> kind] \in entries[k]
  BY <1>2 DEF SessionMoves
<1> QED BY <1>1, <1>2

LEMMA RetainedStays ==
  ASSUME Retained, SessionOK, Forward, SessionMoves,
         \A o \in recorded' :
           o \in recorded \/ \E k \in Invocations : [op |-> o, kind |-> "ready"] \in entries'[k]
  PROVE  Retained'
<1> SUFFICES ASSUME NEW o \in recorded
             PROVE  (\E k \in Invocations : [op |-> o, kind |-> "ready"] \in entries'[k]) \/ Over(o)'
  BY DEF Retained
<1>1. o \in Ops
  BY DEF SessionOK
<1>2. CASE Over(o)
  BY <1>1, <1>2, OverStays
<1>3. ASSUME NEW k \in Invocations, [op |-> o, kind |-> "ready"] \in entries[k]
      PROVE  [op |-> o, kind |-> "ready"] \in entries'[k] \/ Over(o)'
  BY <1>1, <1>3, EntryStays
<1> QED BY <1>2, <1>3 DEF Retained

\* An actor that does not move, and whose state key nobody else has written.
LEMMA ActorStays ==
  ASSUME BilledInv, Forward, NEW c \in Actors, at'[c] = at[c],
         at[c].key # None =>
           lock'[at[c].key] = c /\ entries'[at[c].key] = entries[at[c].key]
  PROVE  ActorOK(c)'
<1>1. ActorOK(c) /\ at[c] \in ActorSet
  BY DEF BilledInv, ActorsOK, ActorOK
<1>2. CASE at[c].key = None
  BY <1>1, <1>2 DEF ActorOK
<1>3. CASE at[c].key # None
  <2> DEFINE k == at[c].key
  <2>1. k \in Invocations /\ entries[k] \subseteq Entries /\ at[c].left \subseteq Ops
    BY <1>1, <1>3 DEF ActorSet, BilledInv, SessionOK
  <2>2. \A e \in entries[k] : e.op \in Ops
    BY <2>1 DEF Entries
  <2>3. \A e \in entries[k] \ at[c].copy : Over(e.op)'
    <3>1. \A e \in entries[k] \ at[c].copy : Over(e.op) /\ e.op \in Ops
      BY <1>1, <1>3, <2>2 DEF ActorOK
    <3> QED BY <3>1, OverStays
  <2>4. \A o \in at[c].left : Began(o)'
    <3>1. \A o \in at[c].left : Began(o) /\ o \in Ops
      BY <1>1, <1>3, <2>1 DEF ActorOK
    <3> QED BY <3>1, OverStays
  <2> QED BY <1>1, <1>3, <2>3, <2>4 DEF ActorOK
<1> QED BY <1>2, <1>3

\* A branch that does not move.
LEMMA BranchStays ==
  ASSUME BilledInv, Forward, SessionMoves, NEW c \in Branches, at'[c] = at[c],
         at[c].pc # "idle" => active'[c] = active[c] /\ at'[InvocationOf[c]].pc = "running",
         at[c].op # None => at[c].op \notin recorded'
  PROVE  BranchOK(c)'
<1>1. BranchOK(c) /\ at[c] \in ActorSet /\ InvocationOf[c] \in Invocations
  BY BilledAssumption DEF BilledInv, BranchesOK, ActorsOK, ActorOK, Actors
<1>2. at[c].op # None => at[c].op \in Ops
  BY <1>1 DEF ActorSet
<1>3. at[c].pc \in {"register", "append", "flying", "complete", "failed"} => Began(at[c].op)'
  <2>1. at[c].pc \in {"register", "append", "flying", "complete", "failed"} =>
          at[c].op \in Ops /\ Began(at[c].op)
    BY <1>1, <1>2 DEF BranchOK
  <2> QED BY <2>1, OverStays
<1>4. ASSUME at[c].pc = "flying"
      PROVE  [op |-> at[c].op, kind |-> "open"] \in entries'[InvocationOf[c]] \/ Over(at[c].op)'
  <2>1. PICK o \in Ops : o = at[c].op
    BY <1>1, <1>2, <1>4 DEF BranchOK
  <2>2. [op |-> o, kind |-> "open"] \in entries[InvocationOf[c]] \/ Over(o)
    BY <1>1, <1>4, <2>1 DEF BranchOK
  <2>3. [op |-> o, kind |-> "open"] \in entries'[InvocationOf[c]] \/ Over(o)'
    <3>1. Flying(o)
      BY <1>4, <2>1 DEF Flying
    <3> QED BY <1>1, <2>2, <3>1, EntryStays
  <2> QED BY <2>1, <2>3
<1>5. at[c].op # None => at[c].op \in spent'
  BY <1>1 DEF BranchOK, Forward
<1>6. at[c].pc = "complete" => at[c].op \in finished'
  BY <1>1 DEF BranchOK, Forward
<1> QED BY <1>1, <1>3, <1>4, <1>5, <1>6 DEF BranchOK

\* What the step of an actor leaves alone: the other actors, the state keys they hold, and what
\* their branches are in flight with.
Moves(a) ==
  /\ DOMAIN at' = Actors
  /\ \A c \in Actors \ {a} : at'[c] = at[c]
  /\ \A k \in Invocations :
       lock[k] \in {None, a} \/ (lock'[k] = lock[k] /\ entries'[k] = entries[k])
  /\ \A c \in Branches \ {a} : at[c].pc # "idle" => active'[c] = active[c]
  /\ \A c \in Branches \ {a} : at[c].op # None => at[c].op \notin recorded'
  /\ a \in Branches => at'[a].op \in {None, at[a].op} \/ at'[a].op \notin spent
  /\ a \in Invocations =>
       at'[a].pc = "running" \/ \A b \in Branches : InvocationOf[b] = a => at[b].pc = "idle"

LEMMA MovesKeepActors ==
  ASSUME BilledInv, Forward, NEW a \in Actors, Moves(a), ActorOK(a)'
  PROVE  ActorsOK'
<1>1. ASSUME NEW c \in Actors, c # a
      PROVE  ActorOK(c)'
  <2>1. at'[c] = at[c] /\ ActorOK(c) /\ at[c] \in ActorSet
    BY <1>1 DEF Moves, BilledInv, ActorsOK, ActorOK
  <2>2. at[c].key # None => at[c].key \in Invocations /\ lock[at[c].key] = c
    BY <2>1 DEF ActorOK, ActorSet
  <2>3. c # None
    BY BilledAssumption
  <2>4. at[c].key # None => lock'[at[c].key] = c /\ entries'[at[c].key] = entries[at[c].key]
    BY <1>1, <2>2, <2>3 DEF Moves
  <2> QED BY <2>1, <2>4, ActorStays
<1> QED BY <1>1 DEF ActorsOK, Moves

LEMMA MovesKeepBranches ==
  ASSUME BilledInv, Forward, SessionMoves, NEW a \in Actors, Moves(a),
         a \in Branches => BranchOK(a)'
  PROVE  BranchesOK'
<1>1. ASSUME NEW c \in Branches, c # a
      PROVE  BranchOK(c)'
  <2>1. c \in Actors /\ InvocationOf[c] \in Invocations /\ InvocationOf[c] \in Actors
        /\ BranchOK(c)
    BY BilledAssumption DEF Actors, BilledInv, BranchesOK
  <2>2. at'[c] = at[c] /\ (at[c].pc # "idle" => active'[c] = active[c])
        /\ (at[c].op # None => at[c].op \notin recorded')
    BY <1>1, <2>1 DEF Moves
  <2>3. ASSUME at[c].pc # "idle"
        PROVE  at'[InvocationOf[c]].pc = "running"
    <3>1. at[InvocationOf[c]].pc = "running"
      BY <2>1, <2>3 DEF BranchOK
    <3>2. CASE InvocationOf[c] # a
      BY <2>1, <3>1, <3>2 DEF Moves
    <3>3. CASE InvocationOf[c] = a
      BY <2>1, <2>3, <3>3 DEF Moves
    <3> QED BY <3>2, <3>3
  <2> QED BY <2>2, <2>3, BranchStays
<1> QED BY <1>1 DEF BranchesOK

LEMMA MovesKeepOps ==
  ASSUME BilledInv, NEW a \in Actors, Moves(a)
  PROVE  OpsDiffer'
<1>1. \A c \in Branches : c # a => at'[c] = at[c]
  BY DEF Moves, Actors
<1>2. \A c \in Branches : at[c].op # None => at[c].op \in spent
  BY DEF BilledInv, BranchesOK, BranchOK
<1>3. \A c \in Branches : c # a /\ a \in Branches /\ at[c].op # None => at'[a].op # at[c].op
  BY <1>2 DEF Moves, BilledInv, OpsDiffer
<1> SUFFICES ASSUME NEW b \in Branches, NEW c \in Branches, at'[b].op # None,
                    at'[b].op = at'[c].op, b # c
             PROVE  FALSE
  BY DEF OpsDiffer
<1>4. CASE b = a
  BY <1>1, <1>3, <1>4
<1>5. CASE c = a
  BY <1>1, <1>3, <1>5
<1>6. CASE b # a /\ c # a
  BY <1>1, <1>6 DEF BilledInv, OpsDiffer
<1> QED BY <1>4, <1>5, <1>6

\* The step of an actor.
LEMMA ActorStep ==
  ASSUME BilledInv, Forward, SessionOK', SessionMoves, job' = job, Retained',
         NEW a \in Actors, Moves(a), ActorOK(a)', a \in Branches => BranchOK(a)'
  PROVE  BilledInv'
<1>1. JobsOK' /\ StoreOK'
  BY JobsStay DEF BilledInv, Ops, Forward
<1> QED BY <1>1, MovesKeepActors, MovesKeepBranches, MovesKeepOps DEF BilledInv

\* Only a moves.
Steps(a) ==
  /\ DOMAIN at' = Actors
  /\ \A c \in Actors \ {a} : at'[c] = at[c]

LEMMA GoSteps ==
  ASSUME BilledInv, NEW a \in Actors, NEW x, at' = [at EXCEPT ![a] = x]
  PROVE  Steps(a) /\ at'[a] = x
BY DEF Steps, BilledInv, ActorsOK

\* A runner between its callbacks has branches; inside one it has none.
RunnerOK(a) ==
  a \in Invocations =>
    at'[a].pc = "running" \/ \A b \in Branches : InvocationOf[b] = a => at[b].pc = "idle"

LEMMA RunnerAlone ==
  ASSUME BilledInv, NEW a \in Actors, at[a].pc # "running"
  PROVE  RunnerOK(a)
BY DEF BilledInv, BranchesOK, BranchOK, RunnerOK

LEMMA QuietSession ==
  ASSUME BilledInv, Forward, entries' = entries, recorded' = recorded,
         lock' \in [Invocations -> Actors \cup {None}],
         active' \in [Branches -> Ops \cup {None}]
  PROVE  SessionOK' /\ SessionMoves /\ Retained'
<1>1. SessionMoves
  BY DEF SessionMoves
<1>2. \A k \in Invocations : \A e \in entries[k] : e.op \in Ops /\ Began(e.op)
  BY DEF BilledInv, SessionOK, Entries
<1>3. \A k \in Invocations : \A e \in entries[k] : Began(e.op)'
  BY <1>2, OverStays
<1>4. SessionOK'
  BY <1>3 DEF BilledInv, SessionOK, Forward
<1> QED BY <1>1, <1>4, RetainedStays DEF BilledInv

\* The step of an actor that leaves session, locks and leases alone.
LEMMA PlainStep ==
  ASSUME BilledInv, NEW a \in Actors, Steps(a), RunnerOK(a), spent \subseteq spent',
         UNCHANGED <<storeVars, entries, lock, active, job, finished, recorded, refused>>,
         ActorOK(a)', a \in Branches => BranchOK(a)',
         a \in Branches => at'[a].op \in {None, at[a].op} \/ at'[a].op \notin spent
  PROVE  BilledInv'
<1>1. Forward
  BY StoreStays DEF Forward, BilledInv
<1>2. lock' \in [Invocations -> Actors \cup {None}] /\ active' \in [Branches -> Ops \cup {None}]
  BY DEF BilledInv, SessionOK
<1>3. SessionOK' /\ SessionMoves /\ Retained'
  BY <1>1, <1>2, QuietSession
<1>4. Moves(a)
  <2>1. \A c \in Branches : at[c].op # None => at[c].op \notin recorded'
    BY DEF BilledInv, BranchesOK, BranchOK
  <2> QED BY <2>1 DEF Moves, Steps, RunnerOK
<1> QED BY <1>1, <1>3, <1>4, ActorStep

LEMMA StillRunning ==
  ASSUME BilledInv, NEW b \in Branches, Steps(b)
  PROVE  /\ InvocationOf[b] \in Invocations
         /\ at'[InvocationOf[b]] = at[InvocationOf[b]]
         /\ at[b].pc # "idle" => at'[InvocationOf[b]].pc = "running"
<1>1. InvocationOf[b] \in Invocations /\ InvocationOf[b] # b /\ InvocationOf[b] \in Actors
  BY BilledAssumption DEF Actors
<1> QED BY <1>1 DEF Steps, BilledInv, BranchesOK, BranchOK

\* A branch inside a callback that has not begun its model call, or has left it.
LEMMA BranchEarly ==
  ASSUME BilledInv, NEW b \in Branches, Steps(b), at[b].pc # "idle", recorded' = recorded,
         spent \subseteq spent', at'[b].op \in {None, at[b].op},
         at'[b].for = "beforeModel" => at'[b].op # None,
         at'[b].pc = "begin" => at'[b].op # None,
         at'[b].pc \notin {"register", "append", "flying", "complete", "failed"}
  PROVE  BranchOK(b)'
<1>1. BranchOK(b) /\ at'[InvocationOf[b]].pc = "running"
  BY StillRunning DEF BilledInv, BranchesOK
<1>2. at'[b].op # None => at'[b].op \in spent' /\ at'[b].op \notin recorded'
  BY <1>1 DEF BranchOK
<1> QED BY <1>1, <1>2 DEF BranchOK

\* An actor that is idle, or inside no state key.
LEMMA KeylessOK ==
  ASSUME NEW a \in Actors, at'[a] \in ActorSet, at'[a].key = None
  PROVE  ActorOK(a)'
BY DEF ActorOK

LEMMA IdleOK ==
  ASSUME NEW a \in Actors, at'[a] = AtRest
  PROVE  ActorOK(a)' /\ (a \in Branches => BranchOK(a)') /\ at'[a].op = None
BY DEF ActorOK, BranchOK, AtRest, ActorSet

LEMMA ActorIn ==
  ASSUME BilledInv, NEW a \in Actors
  PROVE  at[a] \in ActorSet /\ ActorOK(a)
BY DEF BilledInv, ActorsOK, ActorOK

LEMMA BranchIn ==
  ASSUME BilledInv, NEW b \in Branches
  PROVE  BranchOK(b) /\ b \in Actors /\ b \notin Invocations /\ InvocationOf[b] \in Invocations
BY BilledAssumption DEF BilledInv, BranchesOK, Actors

-----------------------------------------------------------------------------
(* Steps within an actor *)

LEMMA SettlingOK ==
  ASSUME NEW why \in {"beforeRun", "beforeModel", "afterRun", "complete"},
         NEW keys \in SUBSET Invocations
  PROVE  LET x == Settling(why, keys)
         IN x \in ActorSet /\ x.key = None /\ x.op = None /\ x.pc = "settle" /\ x.for = why
<1>1. AtRest \in ActorSet
  BY DEF AtRest, ActorSet
<1> QED BY <1>1 DEF Settling, AtRest, ActorSet

LEMMA TriesOK ==
  ASSUME NEW x \in ActorSet, NEW n \in Nat
  PROVE  [x EXCEPT !.tries = n] \in ActorSet
BY DEF ActorSet

LEMMA BeforeRunStep ==
  ASSUME BilledInv, NEW i \in Invocations, BeforeRun(i)
  PROVE  BilledInv'
<1>1. i \in Actors /\ i \notin Branches
  BY BilledAssumption DEF Actors
<1>2. Steps(i) /\ at'[i] = Settling("beforeRun", Invocations)
  BY <1>1, GoSteps DEF BeforeRun, Go
<1>3. at'[i] \in ActorSet /\ at'[i].key = None
  BY <1>2, SettlingOK
<1>4. RunnerOK(i)
  BY DEF RunnerOK, BeforeRun
<1> QED BY <1>1, <1>2, <1>3, <1>4, KeylessOK, PlainStep DEF BeforeRun, historyVars

LEMMA AfterRunStep ==
  ASSUME BilledInv, NEW i \in Invocations, AfterRun(i)
  PROVE  BilledInv'
<1>1. i \in Actors /\ i \notin Branches
  BY BilledAssumption DEF Actors
<1>2. Steps(i) /\ at'[i] = Settling("afterRun", Invocations)
  BY <1>1, GoSteps DEF AfterRun, Go
<1>3. at'[i] \in ActorSet /\ at'[i].key = None
  BY <1>2, SettlingOK
<1>4. RunnerOK(i)
  BY DEF RunnerOK, AfterRun
<1> QED BY <1>1, <1>2, <1>3, <1>4, KeylessOK, PlainStep DEF AfterRun, historyVars

LEMMA BeforeModelStep ==
  ASSUME BilledInv, NEW b \in Branches, BeforeModel(b)
  PROVE  BilledInv'
<1>1. b \in Actors /\ b \notin Invocations /\ InvocationOf[b] \in Invocations
  BY BranchIn
<1>2. PICK o : /\ o \in Nonces \ spent /\ spent' = spent \cup {o}
               /\ Go(b, [Settling("beforeModel", Invocations) EXCEPT !.op = o])
  BY DEF BeforeModel
<1>3. Steps(b) /\ at'[b] = [Settling("beforeModel", Invocations) EXCEPT !.op = o]
  BY <1>1, <1>2, GoSteps DEF Go
<1>4. o \in Ops /\ o # None
  BY <1>2, BilledAssumption DEF Ops
<1>5. at'[b] \in ActorSet /\ at'[b].key = None /\ at'[b].op = o /\ at'[b].pc = "settle"
      /\ at'[b].for = "beforeModel"
  <2>1. Settling("beforeModel", Invocations) \in ActorSet
        /\ Settling("beforeModel", Invocations).key = None
        /\ Settling("beforeModel", Invocations).pc = "settle"
        /\ Settling("beforeModel", Invocations).for = "beforeModel"
    BY SettlingOK
  <2> QED BY <1>3, <1>4, <2>1 DEF ActorSet
<1>6. BranchOK(b)'
  <2>1. at'[InvocationOf[b]].pc = "running"
    BY <1>3, StillRunning DEF BeforeModel
  <2>2. o \in spent' /\ o \notin recorded'
    BY <1>2 DEF BeforeModel, historyVars, BilledInv, SessionOK
  <2> QED BY <1>4, <1>5, <2>1, <2>2 DEF BranchOK
<1>7. RunnerOK(b)
  BY <1>1 DEF RunnerOK
<1> QED BY <1>1, <1>2, <1>3, <1>5, <1>6, <1>7, KeylessOK, PlainStep DEF BeforeModel, historyVars

LEMMA SettleEndStep ==
  ASSUME BilledInv, NEW a \in Actors, SettleEnd(a)
  PROVE  BilledInv'
<1>1. Steps(a) /\ at'[a] = AfterSettling(a)
  BY GoSteps DEF SettleEnd, Go
<1>2. at[a] \in ActorSet /\ ActorOK(a) /\ at[a].pc = "settle" /\ at[a].keys = {}
  BY ActorIn DEF SettleEnd
<1>3. at[a].key = None
  BY <1>2 DEF ActorOK, ActorSet
<1>4. at'[a] \in ActorSet /\ at'[a].key = None /\ at'[a].op \in {None, at[a].op}
      /\ (at'[a].for = "beforeModel" => at'[a].op = at[a].op /\ at[a].for = "beforeModel")
      /\ at'[a].pc \in {"snapshot", "clear", "running", "idle"}
  BY <1>1, <1>2, <1>3 DEF AfterSettling, AtRest, ActorSet
<1>5. a \in Branches => BranchOK(a)'
  <2> SUFFICES ASSUME a \in Branches PROVE BranchOK(a)'
    OBVIOUS
  <2>1. at'[a].for = "beforeModel" => at'[a].op # None
    BY <1>4, BranchIn DEF BranchOK
  <2> QED BY <1>1, <1>2, <1>4, <2>1, BranchEarly DEF SettleEnd, historyVars
<1>6. RunnerOK(a)
  BY <1>2, RunnerAlone
<1> QED BY <1>1, <1>4, <1>5, <1>6, KeylessOK, PlainStep DEF SettleEnd, historyVars

LEMMA ReadActiveStep ==
  ASSUME BilledInv, NEW a \in Actors, ReadActive(a)
  PROVE  BilledInv'
<1>1. Steps(a)
      /\ at'[a] = [at[a] EXCEPT !.pc = "release", !.snapshot = ActiveOperations(Inv(a))]
  BY GoSteps DEF ReadActive, Go
<1>2. at[a] \in ActorSet /\ ActorOK(a) /\ at[a].pc = "snapshot"
  BY ActorIn DEF ReadActive
<1>3. at[a].key = None
  BY <1>2 DEF ActorOK
<1>4. ActiveOperations(Inv(a)) \subseteq Ops
  BY DEF ActiveOperations, BilledInv, SessionOK
<1>5. at'[a] \in ActorSet /\ at'[a].key = None /\ at'[a].op = at[a].op
      /\ at'[a].for = at[a].for /\ at'[a].pc = "release"
  BY <1>1, <1>2, <1>3, <1>4 DEF ActorSet
<1>6. a \in Branches => BranchOK(a)'
  <2> SUFFICES ASSUME a \in Branches PROVE BranchOK(a)'
    OBVIOUS
  <2>1. at'[a].for = "beforeModel" => at'[a].op # None
    BY <1>5, BranchIn DEF BranchOK
  <2> QED BY <1>1, <1>2, <1>5, <2>1, BranchEarly DEF ReadActive, historyVars
<1>7. RunnerOK(a)
  BY <1>2, RunnerAlone
<1> QED BY <1>1, <1>5, <1>6, <1>7, KeylessOK, PlainStep DEF ReadActive, historyVars

LEMMA AfterReleasingOK ==
  ASSUME BilledInv, NEW a \in Actors
  PROVE  LET x == AfterReleasing(a)
         IN /\ x \in ActorSet /\ x.key = None /\ x.op \in {None, at[a].op} /\ x.for = "none"
            /\ x.pc \in {"begin", "clear", "idle"}
            /\ x.pc = "begin" => at[a].for = "beforeModel" /\ x.op = at[a].op
BY ActorIn DEF AfterReleasing, AtRest, ActorSet

LEMMA StateFailsStep ==
  ASSUME BilledInv, NEW a \in Actors, StateFails(a)
  PROVE  BilledInv'
<1>1. at[a] \in ActorSet /\ ActorOK(a) /\ at[a].key = None
      /\ at[a].pc \in {"settle", "release", "complete", "failed"}
  BY ActorIn DEF StateFails
<1>2. RunnerOK(a)
  BY <1>1, RunnerAlone
<1>3. CASE at[a].pc = "settle"
  <2>1. PICK k \in at[a].keys : Go(a, [at[a] EXCEPT !.keys = @ \ {k}])
    BY <1>3 DEF StateFails
  <2>2. Steps(a) /\ at'[a] = [at[a] EXCEPT !.keys = at[a].keys \ {k}]
    BY <2>1, GoSteps DEF Go
  <2>3. at'[a] \in ActorSet /\ at'[a].key = None /\ at'[a].op = at[a].op
        /\ at'[a].for = at[a].for /\ at'[a].pc = "settle"
    BY <1>1, <1>3, <2>2 DEF ActorSet
  <2>4. a \in Branches => BranchOK(a)'
    <3> SUFFICES ASSUME a \in Branches PROVE BranchOK(a)'
      OBVIOUS
    <3>1. at'[a].for = "beforeModel" => at'[a].op # None
      BY <2>3, BranchIn DEF BranchOK
    <3> QED BY <1>3, <2>2, <2>3, <3>1, BranchEarly DEF StateFails, historyVars
  <2> QED BY <1>2, <2>2, <2>3, <2>4, KeylessOK, PlainStep DEF StateFails, historyVars
<1>4. CASE at[a].pc # "settle"
  <2>1. Steps(a) /\ at'[a] = AfterReleasing(a)
    BY <1>4, GoSteps DEF StateFails, Go
  <2>2. at'[a] \in ActorSet /\ at'[a].key = None /\ at'[a].op \in {None, at[a].op}
        /\ at'[a].for = "none" /\ at'[a].pc \in {"begin", "clear", "idle"}
        /\ (at'[a].pc = "begin" => at[a].for = "beforeModel" /\ at'[a].op = at[a].op)
    BY <2>1, AfterReleasingOK
  <2>3. a \in Branches => BranchOK(a)'
    <3> SUFFICES ASSUME a \in Branches PROVE BranchOK(a)'
      OBVIOUS
    <3>1. at'[a].pc = "begin" => at'[a].op # None
      BY <2>2, BranchIn DEF BranchOK
    <3> QED BY <1>1, <2>1, <2>2, <3>1, BranchEarly DEF StateFails, historyVars
  <2> QED BY <1>2, <2>1, <2>2, <2>3, KeylessOK, PlainStep DEF StateFails, historyVars
<1> QED BY <1>3, <1>4

LEMMA ModelErrorStep ==
  ASSUME BilledInv, NEW b \in Branches, ModelError(b)
  PROVE  BilledInv'
<1>1. b \in Actors /\ b \notin Invocations /\ BranchOK(b)
  BY BranchIn
<1>2. Steps(b) /\ at'[b] = [at[b] EXCEPT !.pc = "failed"]
  BY <1>1, GoSteps DEF ModelError, Go
<1>3. at[b] \in ActorSet /\ ActorOK(b) /\ at[b].pc = "flying"
  BY <1>1, ActorIn DEF ModelError
<1>4. at'[b] \in ActorSet /\ at'[b].key = None /\ at'[b].op = at[b].op
      /\ at'[b].for = at[b].for /\ at'[b].pc = "failed"
  BY <1>2, <1>3 DEF ActorSet, ActorOK
<1>5. BranchOK(b)'
  <2>1. at'[InvocationOf[b]].pc = "running"
    BY <1>2, <1>3, StillRunning
  <2>2. lease'[at[b].op] # "none"
    BY <1>1, <1>3, <1>4 DEF BranchOK, Began, ModelError, storeVars
  <2> QED BY <1>1, <1>3, <1>4, <2>1, <2>2 DEF BranchOK, Began, ModelError, historyVars
<1>6. RunnerOK(b)
  BY <1>1 DEF RunnerOK
<1> QED BY <1>1, <1>2, <1>4, <1>5, <1>6, KeylessOK, PlainStep DEF ModelError, historyVars

LEMMA AbandonStep ==
  ASSUME BilledInv, NEW b \in Branches, Abandon(b)
  PROVE  BilledInv'
<1>1. b \in Actors /\ b \notin Invocations
  BY BranchIn
<1>2. Steps(b) /\ at'[b] = AtRest
  BY <1>1, GoSteps DEF Abandon, Go
<1>3. RunnerOK(b)
  BY <1>1 DEF RunnerOK
<1> QED BY <1>1, <1>2, <1>3, IdleOK, PlainStep DEF Abandon, historyVars

-----------------------------------------------------------------------------
(* Steps that load a state key or change what is active *)

\* The step of an actor that leaves the session's entries alone.
LEMMA QuietStep ==
  ASSUME BilledInv, Forward, NEW a \in Actors, Steps(a), RunnerOK(a),
         entries' = entries, recorded' = recorded, job' = job,
         lock' \in [Invocations -> Actors \cup {None}],
         active' \in [Branches -> Ops \cup {None}],
         \A k \in Invocations : lock[k] \in {None, a} \/ lock'[k] = lock[k],
         \A c \in Branches \ {a} : at[c].pc # "idle" => active'[c] = active[c],
         ActorOK(a)', a \in Branches => BranchOK(a)',
         a \in Branches => at'[a].op \in {None, at[a].op}
  PROVE  BilledInv'
<1>1. SessionOK' /\ SessionMoves /\ Retained'
  BY QuietSession
<1>2. Moves(a)
  <2>1. \A c \in Branches : at[c].op # None => at[c].op \notin recorded'
    BY DEF BilledInv, BranchesOK, BranchOK
  <2> QED BY <2>1 DEF Moves, Steps, RunnerOK
<1> QED BY <1>1, <1>2, ActorStep

LEMMA ClearActiveStep ==
  ASSUME BilledInv, NEW a \in Actors, ClearActive(a)
  PROVE  BilledInv'
<1>1. at[a] \in ActorSet /\ ActorOK(a) /\ at[a].pc = "clear"
  BY ActorIn DEF ClearActive
<1>2. at[a].key = None
  BY <1>1 DEF ActorOK
<1>3. Steps(a) /\ at'[a] = IF a \in Branches THEN AtRest ELSE [at[a] EXCEPT !.pc = "snapshot"]
  BY GoSteps DEF ClearActive, Go
<1>4. RunnerOK(a)
  BY <1>1, RunnerAlone
<1>5. ActorOK(a)' /\ (a \in Branches => BranchOK(a)')
      /\ (a \in Branches => at'[a].op \in {None, at[a].op})
  <2>1. CASE a \in Branches
    BY <1>3, <2>1, IdleOK
  <2>2. CASE a \notin Branches
    <3>1. at'[a] \in ActorSet /\ at'[a].key = None
      BY <1>1, <1>2, <1>3, <2>2 DEF ActorSet
    <3> QED BY <2>2, <3>1, KeylessOK
  <2> QED BY <2>1, <2>2
<1>6. active' \in [Branches -> Ops \cup {None}]
  BY DEF ClearActive, BilledInv, SessionOK
<1>7. \A c \in Branches \ {a} : at[c].pc # "idle" => active'[c] = active[c]
  <2> SUFFICES ASSUME NEW c \in Branches, c # a, at[c].pc # "idle"
               PROVE  active'[c] = active[c]
    OBVIOUS
  <2>1. InvocationOf[c] # a
    BY <1>1, BranchIn DEF BranchOK
  <2> QED BY <2>1 DEF ClearActive
<1>8. Forward /\ lock' \in [Invocations -> Actors \cup {None}]
  BY StoreStays DEF Forward, BilledInv, SessionOK, ClearActive, historyVars
<1> QED BY <1>3, <1>4, <1>5, <1>6, <1>7, <1>8, QuietStep DEF ClearActive, historyVars

LEMMA RegisterStep ==
  ASSUME BilledInv, NEW b \in Branches, Register(b)
  PROVE  BilledInv'
<1>1. b \in Actors /\ b \notin Invocations /\ BranchOK(b)
  BY BranchIn
<1>2. Steps(b) /\ at'[b] = [at[b] EXCEPT !.pc = "append"]
  BY <1>1, GoSteps DEF Register, Go
<1>3. at[b] \in ActorSet /\ ActorOK(b) /\ at[b].pc = "register"
  BY <1>1, ActorIn DEF Register
<1>4. at'[b] \in ActorSet /\ at'[b].key = None /\ at'[b].op = at[b].op
      /\ at'[b].for = at[b].for /\ at'[b].pc = "append"
  BY <1>2, <1>3 DEF ActorSet, ActorOK
<1>5. active' \in [Branches -> Ops \cup {None}] /\ active'[b] = at[b].op
      /\ \A c \in Branches \ {b} : active'[c] = active[c]
  BY <1>3 DEF Register, BilledInv, SessionOK, ActorSet
<1>6. BranchOK(b)'
  <2>1. at'[InvocationOf[b]].pc = "running"
    BY <1>2, <1>3, StillRunning
  <2>2. lease'[at[b].op] # "none"
    BY <1>1, <1>3, <1>4 DEF BranchOK, Began, Register, storeVars
  <2> QED BY <1>1, <1>3, <1>4, <1>5, <2>1, <2>2 DEF BranchOK, Began, Register, historyVars
<1>7. RunnerOK(b)
  BY <1>1 DEF RunnerOK
<1>8. Forward /\ lock' \in [Invocations -> Actors \cup {None}]
  BY StoreStays DEF Forward, BilledInv, SessionOK, Register, historyVars
<1>9. ActorOK(b)'
  BY <1>1, <1>4, KeylessOK
<1> QED BY <1>1, <1>2, <1>4, <1>5, <1>6, <1>7, <1>8, <1>9, QuietStep DEF Register, historyVars

\* a takes the mutex of k and loads its entries.
LEMMA LoadOK ==
  ASSUME BilledInv, NEW a \in Actors, NEW k \in Invocations, Free(k),
         lock' = [lock EXCEPT ![k] = a], UNCHANGED <<storeVars, entries>>,
         at'[a] \in ActorSet, at'[a].key = k, at'[a].pc \in {"settle", "release"},
         at'[a].pc = "settle" => k \in at'[a].keys, at'[a].copy = entries[k],
         \A o \in at'[a].left : \E e \in entries[k] : o = e.op
  PROVE  /\ lock' \in [Invocations -> Actors \cup {None}]
         /\ \A m \in Invocations : lock[m] \in {None, a} \/ lock'[m] = lock[m]
         /\ ActorOK(a)'
<1>1. lock' \in [Invocations -> Actors \cup {None}] /\ lock'[k] = a
      /\ \A m \in Invocations : lock[m] = None \/ lock'[m] = lock[m]
  BY DEF BilledInv, SessionOK, Free
<1>2. \A o \in at'[a].left : lease'[o] # "none"
  BY DEF BilledInv, SessionOK, Began, storeVars
<1> QED BY <1>1, <1>2 DEF ActorOK, Began

LEMMA SettleLoadStep ==
  ASSUME BilledInv, NEW a \in Actors, SettleLoad(a)
  PROVE  BilledInv'
<1>1. at[a] \in ActorSet /\ ActorOK(a) /\ at[a].pc = "settle"
  BY ActorIn DEF SettleLoad
<1>2. PICK k \in at[a].keys :
        /\ Free(k) /\ lock' = [lock EXCEPT ![k] = a]
        /\ Go(a, [at[a] EXCEPT !.key = k, !.copy = entries[k],
                              !.left = {e.op : e \in {e \in entries[k] : e.kind # "open"}}])
  BY DEF SettleLoad
<1>3. k \in Invocations /\ entries[k] \subseteq Entries
  BY <1>1, <1>2 DEF ActorSet, BilledInv, SessionOK
<1> DEFINE ops == {e.op : e \in {e \in entries[k] : e.kind # "open"}}
<1>4. ops \subseteq Ops /\ \A o \in ops : \E e \in entries[k] : o = e.op
  BY <1>3 DEF Entries
<1>5. Steps(a) /\ at'[a] = [at[a] EXCEPT !.key = k, !.copy = entries[k], !.left = ops]
  BY <1>2, GoSteps DEF Go
<1> HIDE DEF ops
<1>6. at'[a] \in ActorSet /\ at'[a].key = k /\ at'[a].pc = "settle" /\ at'[a].keys = at[a].keys
      /\ at'[a].copy = entries[k] /\ at'[a].left = ops /\ at'[a].op = at[a].op
      /\ at'[a].for = at[a].for
  BY <1>1, <1>3, <1>4, <1>5 DEF ActorSet
<1>7. lock' \in [Invocations -> Actors \cup {None}] /\ ActorOK(a)'
      /\ \A m \in Invocations : lock[m] \in {None, a} \/ lock'[m] = lock[m]
  <2>1. k \in at'[a].keys
    BY <1>2, <1>6
  <2>2. UNCHANGED <<storeVars, entries>>
    BY DEF SettleLoad
  <2>3. \A o \in at'[a].left : \E e \in entries[k] : o = e.op
    BY <1>4, <1>6
  <2> QED BY <1>2, <1>3, <1>6, <2>1, <2>2, <2>3, LoadOK
<1>8. a \in Branches => BranchOK(a)'
  <2> SUFFICES ASSUME a \in Branches PROVE BranchOK(a)'
    OBVIOUS
  <2>1. at'[a].for = "beforeModel" => at'[a].op # None
    BY <1>6, BranchIn DEF BranchOK
  <2> QED BY <1>1, <1>5, <1>6, <2>1, BranchEarly DEF SettleLoad, historyVars
<1>9. Forward /\ active' \in [Branches -> Ops \cup {None}] /\ RunnerOK(a)
  BY <1>1, RunnerAlone, StoreStays DEF Forward, BilledInv, SessionOK, SettleLoad, historyVars
<1> QED BY <1>5, <1>6, <1>7, <1>8, <1>9, QuietStep DEF SettleLoad, historyVars

LEMMA ReleaseLoadStep ==
  ASSUME BilledInv, NEW a \in Actors, ReleaseLoad(a)
  PROVE  BilledInv'
<1> DEFINE k == Inv(a)
           orphans == {e \in entries[k] : e.kind # "ready" /\ e.op \notin at[a].snapshot}
           ops == {e.op : e \in orphans}
<1>1. at[a] \in ActorSet /\ ActorOK(a) /\ at[a].pc = "release"
  BY ActorIn DEF ReleaseLoad
<1>2. Free(k) /\ lock' = [lock EXCEPT ![k] = a]
      /\ Go(a, [at[a] EXCEPT !.key = k, !.copy = entries[k], !.left = ops])
  BY DEF ReleaseLoad
<1>3. k \in Invocations /\ entries[k] \subseteq Entries
  BY BranchIn DEF Inv, Actors, BilledInv, SessionOK
<1>4. ops \subseteq Ops /\ \A o \in ops : \E e \in entries[k] : o = e.op
  BY <1>3 DEF Entries
<1>5. Steps(a) /\ at'[a] = [at[a] EXCEPT !.key = k, !.copy = entries[k], !.left = ops]
  BY <1>2, GoSteps DEF Go
<1> HIDE DEF ops, k
<1>6. at'[a] \in ActorSet /\ at'[a].key = k /\ at'[a].pc = "release"
      /\ at'[a].copy = entries[k] /\ at'[a].left = ops /\ at'[a].op = at[a].op
      /\ at'[a].for = at[a].for
  BY <1>1, <1>3, <1>4, <1>5 DEF ActorSet
<1>7. lock' \in [Invocations -> Actors \cup {None}] /\ ActorOK(a)'
      /\ \A m \in Invocations : lock[m] \in {None, a} \/ lock'[m] = lock[m]
  <2>1. UNCHANGED <<storeVars, entries>>
    BY DEF ReleaseLoad
  <2>2. \A o \in at'[a].left : \E e \in entries[k] : o = e.op
    BY <1>4, <1>6
  <2> QED BY <1>2, <1>3, <1>6, <2>1, <2>2, LoadOK
<1>8. a \in Branches => BranchOK(a)'
  <2> SUFFICES ASSUME a \in Branches PROVE BranchOK(a)'
    OBVIOUS
  <2>1. at'[a].for = "beforeModel" => at'[a].op # None
    BY <1>6, BranchIn DEF BranchOK
  <2> QED BY <1>1, <1>5, <1>6, <2>1, BranchEarly DEF ReleaseLoad, historyVars
<1>9. Forward /\ active' \in [Branches -> Ops \cup {None}] /\ RunnerOK(a)
  BY <1>1, RunnerAlone, StoreStays DEF Forward, BilledInv, SessionOK, ReleaseLoad, historyVars
<1> QED BY <1>5, <1>6, <1>7, <1>8, <1>9, QuietStep DEF ReleaseLoad, historyVars

LEMMA ReleaseActiveStep ==
  ASSUME BilledInv, NEW b \in Branches, ReleaseActive(b)
  PROVE  BilledInv'
<1> DEFINE k == InvocationOf[b]
           mine == ActiveEntry(entries[k], active[b])
           ops == {e.op : e \in mine}
<1>1. b \in Actors /\ b \notin Invocations /\ at[b].pc = "failed"
  BY BranchIn DEF ReleaseActive
<1>2. Forward /\ active' \in [Branches -> Ops \cup {None}] /\ RunnerOK(b)
  BY <1>1, RunnerAlone, StoreStays DEF Forward, BilledInv, SessionOK, ReleaseActive, historyVars
<1>3. CASE mine = {}
  <2>1. Steps(b) /\ at'[b] = AtRest /\ lock' = lock
    BY <1>1, <1>3, GoSteps DEF ReleaseActive, Go
  <2> QED BY <1>1, <1>2, <2>1, IdleOK, PlainStep DEF ReleaseActive, historyVars
<1>4. CASE mine # {}
  <2>1. Free(k) /\ lock' = [lock EXCEPT ![k] = b]
        /\ Go(b, [AtRest EXCEPT !.pc = "release", !.for = "onModelError", !.key = k,
                              !.copy = entries[k], !.left = ops])
    BY <1>4 DEF ReleaseActive
  <2>2. k \in Invocations /\ entries[k] \subseteq Entries
    BY BranchIn DEF BilledInv, SessionOK
  <2>3. ops \subseteq Ops /\ \A o \in ops : \E e \in entries[k] : o = e.op
    BY <2>2 DEF Entries, ActiveEntry
  <2>4. Steps(b) /\ at'[b] = [AtRest EXCEPT !.pc = "release", !.for = "onModelError", !.key = k,
                                         !.copy = entries[k], !.left = ops]
    BY <1>1, <2>1, GoSteps DEF Go
  <2> HIDE DEF ops, k, mine
  <2>5. at'[b] \in ActorSet /\ at'[b].key = k /\ at'[b].pc = "release"
        /\ at'[b].copy = entries[k] /\ at'[b].left = ops /\ at'[b].op = None
        /\ at'[b].for = "onModelError"
    <3>1. AtRest \in ActorSet /\ AtRest.op = None
      BY DEF ActorSet, AtRest
    <3>2. at'[b] \in ActorSet
      BY <2>2, <2>3, <2>4, <3>1 DEF ActorSet
    <3>3. at'[b].key = k /\ at'[b].pc = "release" /\ at'[b].for = "onModelError"
      BY <2>4, <3>1 DEF ActorSet
    <3>4. at'[b].copy = entries[k] /\ at'[b].left = ops /\ at'[b].op = None
      BY <2>4, <3>1 DEF ActorSet
    <3> QED BY <3>2, <3>3, <3>4
  <2>6. lock' \in [Invocations -> Actors \cup {None}] /\ ActorOK(b)'
        /\ \A m \in Invocations : lock[m] \in {None, b} \/ lock'[m] = lock[m]
    <3>1. UNCHANGED <<storeVars, entries>>
      BY DEF ReleaseActive
    <3>2. \A o \in at'[b].left : \E e \in entries[k] : o = e.op
      BY <2>3, <2>5
    <3> QED BY <1>1, <2>1, <2>2, <2>5, <3>1, <3>2, LoadOK
  <2>7. BranchOK(b)'
    BY <1>1, <2>4, <2>5, BranchEarly DEF ReleaseActive, historyVars
  <2> QED BY <1>1, <1>2, <2>4, <2>5, <2>6, <2>7, QuietStep DEF ReleaseActive, historyVars
<1> QED BY <1>3, <1>4

-----------------------------------------------------------------------------
(* The model call *)

LEMMA AnswerStep ==
  ASSUME BilledInv, NEW b \in Branches, Answer(b)
  PROVE  BilledInv'
<1>1. b \in Actors /\ b \notin Invocations /\ BranchOK(b)
  BY BranchIn
<1>2. Steps(b) /\ at'[b] = [at[b] EXCEPT !.pc = "complete"]
  BY <1>1, GoSteps DEF Answer, Go
<1>3. at[b] \in ActorSet /\ ActorOK(b) /\ at[b].pc = "flying"
  BY <1>1, ActorIn DEF Answer
<1>4. at'[b] \in ActorSet /\ at'[b].key = None /\ at'[b].op = at[b].op
      /\ at'[b].for = at[b].for /\ at'[b].pc = "complete"
  BY <1>2, <1>3 DEF ActorSet, ActorOK
<1>5. BranchOK(b)'
  <2>1. at'[InvocationOf[b]].pc = "running"
    BY <1>2, <1>3, StillRunning
  <2>2. lease'[at[b].op] # "none"
    BY <1>1, <1>3 DEF BranchOK, Began, Answer, storeVars
  <2> QED BY <1>1, <1>3, <1>4, <2>1, <2>2 DEF BranchOK, Began, Answer
<1>6. RunnerOK(b)
  BY <1>1 DEF RunnerOK
<1>7. Forward /\ lock' \in [Invocations -> Actors \cup {None}]
      /\ active' \in [Branches -> Ops \cup {None}]
  BY StoreStays DEF Forward, BilledInv, SessionOK, Answer
<1>8. ActorOK(b)'
  BY <1>1, <1>4, KeylessOK
<1> QED BY <1>1, <1>2, <1>4, <1>5, <1>6, <1>7, <1>8, QuietStep DEF Answer

\* What a failed transaction may do, it may do when it succeeds, or it does nothing.
LEMMA BeginForward ==
  ASSUME BilledInv, NEW b \in Branches, Begin(b), at[b].op \in Ops
  PROVE  Forward /\ (at'[b].pc = "register" => lease'[at[b].op] # "none")
<1>1. UNCHANGED <<spent, finished, recorded, refused>> /\ finished \subseteq finished'
  BY DEF Begin, historyVars
<1>2. CASE ReserveTx(at[b].op)
  BY <1>1, <1>2, ReserveTxOK DEF Forward, BilledInv
<1>3. CASE UNCHANGED storeVars /\ at'[b].pc # "register"
  BY <1>1, <1>3, StoreStays DEF Forward, BilledInv
<1>4. ReserveTx(at[b].op) \/ (UNCHANGED storeVars /\ at'[b].pc # "register")
  <2>1. b \in Actors /\ at[b] \in ActorSet /\ at[b].pc = "begin"
    BY BranchIn, ActorIn DEF Begin
  <2>2. CASE ReserveTx(at[b].op)
    BY <2>2
  <2>3. CASE UNCHANGED storeVars /\ Go(b, AtRest)
    BY <2>1, <2>3, GoSteps DEF Go, AtRest
  <2>4. ASSUME NEW f \in Failures, UNCHANGED storeVars,
               Go(b, IF Again(f, at[b].tries) THEN [at[b] EXCEPT !.tries = @ + 1] ELSE AtRest)
        PROVE  at'[b].pc # "register"
    <3>1. at'[b] = IF Again(f, at[b].tries) THEN [at[b] EXCEPT !.tries = @ + 1] ELSE AtRest
      BY <2>1, <2>4, GoSteps DEF Go
    <3> QED BY <2>1, <3>1 DEF AtRest, ActorSet
  <2> QED BY <2>2, <2>3, <2>4 DEF Begin, Fails
<1> QED BY <1>2, <1>3, <1>4

LEMMA BeginStep ==
  ASSUME BilledInv, NEW b \in Branches, Begin(b)
  PROVE  BilledInv'
<1>1. b \in Actors /\ b \notin Invocations /\ BranchOK(b)
  BY BranchIn
<1>2. at[b] \in ActorSet /\ ActorOK(b) /\ at[b].pc = "begin"
  BY <1>1, ActorIn DEF Begin
<1>3. at[b].op \in Ops /\ at[b].op # None /\ at[b].key = None
  BY <1>1, <1>2 DEF BranchOK, ActorSet, ActorOK
<1>4. Forward /\ (at'[b].pc = "register" => lease'[at[b].op] # "none")
  BY <1>3, BeginForward
<1>5. \/ Go(b, [at[b] EXCEPT !.pc = "register", !.tries = 0])
      \/ Go(b, AtRest)
      \/ Go(b, [at[b] EXCEPT !.tries = @ + 1])
  BY DEF Begin
<1>6. Steps(b) /\ \/ at'[b] = [at[b] EXCEPT !.pc = "register", !.tries = 0]
                  \/ at'[b] = AtRest
                  \/ at'[b] = [at[b] EXCEPT !.tries = @ + 1]
  BY <1>1, <1>5, GoSteps DEF Go
<1>7. at'[b] \in ActorSet /\ at'[b].key = None
      /\ \/ at'[b] = AtRest
         \/ at'[b].op = at[b].op /\ at'[b].for = at[b].for /\ at'[b].pc \in {"begin", "register"}
  <2>1. CASE at'[b] = [at[b] EXCEPT !.pc = "register", !.tries = 0]
    <3>1. at'[b] \in ActorSet
      <4>1. [at[b] EXCEPT !.pc = "register"] \in ActorSet
        BY <1>2 DEF ActorSet
      <4>2. 0 \in Nat
        OBVIOUS
      <4> QED BY <1>2, <2>1, <4>1, <4>2, TriesOK
    <3>2. at'[b].key = at[b].key /\ at'[b].op = at[b].op /\ at'[b].for = at[b].for
          /\ at'[b].pc = "register"
      BY <1>2, <2>1 DEF ActorSet
    <3> QED BY <1>3, <3>1, <3>2
  <2>2. CASE at'[b] = AtRest
    BY <2>2 DEF ActorSet, AtRest
  <2>3. CASE at'[b] = [at[b] EXCEPT !.tries = @ + 1]
    <3>1. at'[b] \in ActorSet
      <4>1. at[b].tries + 1 \in Nat
        BY <1>2 DEF ActorSet
      <4> QED BY <1>2, <2>3, <4>1 DEF ActorSet
    <3>2. at'[b].key = at[b].key /\ at'[b].op = at[b].op /\ at'[b].for = at[b].for
          /\ at'[b].pc = at[b].pc
      BY <1>2, <2>3 DEF ActorSet
    <3> QED BY <1>2, <1>3, <3>1, <3>2
  <2> QED BY <1>6, <2>1, <2>2, <2>3
<1>8. BranchOK(b)' /\ at'[b].op \in {None, at[b].op}
  <2>1. CASE at'[b] = AtRest
    BY <1>1, <2>1, IdleOK
  <2>2. CASE at'[b].op = at[b].op /\ at'[b].for = at[b].for /\ at'[b].pc \in {"begin", "register"}
    <3>1. at'[InvocationOf[b]].pc = "running"
      BY <1>2, <1>6, StillRunning
    <3>2. at[b].op \in spent' /\ at[b].op \notin recorded'
      BY <1>1, <1>3 DEF BranchOK, Begin, historyVars
    <3> QED BY <1>3, <1>4, <2>2, <3>1, <3>2 DEF BranchOK, Began
  <2> QED BY <1>7, <2>1, <2>2
<1>9. RunnerOK(b) /\ lock' \in [Invocations -> Actors \cup {None}]
      /\ active' \in [Branches -> Ops \cup {None}]
  BY <1>1 DEF RunnerOK, Begin, BilledInv, SessionOK
<1>10. ActorOK(b)'
  BY <1>1, <1>7, KeylessOK
<1> QED BY <1>1, <1>4, <1>6, <1>8, <1>9, <1>10, QuietStep DEF Begin, historyVars

LEMMA AppendFailsStep ==
  ASSUME BilledInv, NEW b \in Branches, AppendFails(b)
  PROVE  BilledInv'
<1>1. b \in Actors /\ b \notin Invocations /\ BranchOK(b)
  BY BranchIn
<1>2. at[b] \in ActorSet /\ at[b].pc = "append"
  BY <1>1, ActorIn DEF AppendFails
<1>3. at[b].op \in Ops
  BY <1>1, <1>2 DEF BranchOK, ActorSet
<1>4. Steps(b) /\ at'[b] = AtRest
  BY <1>1, GoSteps DEF AppendFails, Go
<1>5. Forward
  <2>1. CASE ReleaseTx(at[b].op)
    BY <1>3, <2>1, ReleaseTxOK DEF Forward, AppendFails, historyVars, BilledInv
  <2>2. CASE UNCHANGED storeVars
    BY <2>2, StoreStays DEF Forward, AppendFails, historyVars, BilledInv
  <2> QED BY <2>1, <2>2 DEF AppendFails
<1>6. active' \in [Branches -> Ops \cup {None}] /\ \A c \in Branches \ {b} : active'[c] = active[c]
  BY DEF AppendFails, BilledInv, SessionOK
<1>7. RunnerOK(b) /\ lock' \in [Invocations -> Actors \cup {None}]
  BY <1>1 DEF RunnerOK, AppendFails, BilledInv, SessionOK
<1> QED BY <1>1, <1>4, <1>5, <1>6, <1>7, IdleOK, QuietStep DEF AppendFails, historyVars

-----------------------------------------------------------------------------
(* Attempts to settle or to release an entry of a loaded state key *)

LEMMA AttemptStep ==
  ASSUME BilledInv, Forward, NEW a \in Actors, NEW o \in at[a].left, NEW drop \in BOOLEAN,
         at[a].key # None, UNCHANGED <<entries, lock, active, job, recorded>>,
         drop => Over(o)',
         \/ Go(a, [at[a] EXCEPT !.tries = @ + 1])
         \/ Processed(a, o, drop)
  PROVE  BilledInv'
<1>1. at[a] \in ActorSet /\ ActorOK(a) /\ at[a].pc \in {"settle", "release"}
  BY ActorIn DEF ActorOK
<1>2. Steps(a)
      /\ at'[a] \in ActorSet
      /\ at'[a].pc = at[a].pc /\ at'[a].for = at[a].for /\ at'[a].key = at[a].key
      /\ at'[a].keys = at[a].keys /\ at'[a].op = at[a].op
      /\ at'[a].left \subseteq at[a].left /\ at'[a].copy \subseteq at[a].copy
      /\ \A e \in at[a].copy : e \in at'[a].copy \/ (drop /\ e.op = o)
  <2>1. CASE Go(a, [at[a] EXCEPT !.tries = @ + 1])
    <3>1. Steps(a) /\ at'[a] = [at[a] EXCEPT !.tries = at[a].tries + 1]
      BY <2>1, GoSteps DEF Go
    <3>2. at[a].tries + 1 \in Nat
      BY <1>1 DEF ActorSet
    <3>3. at'[a] \in ActorSet
      BY <1>1, <3>1, <3>2, TriesOK
    <3>4. at'[a].pc = at[a].pc /\ at'[a].for = at[a].for /\ at'[a].key = at[a].key
          /\ at'[a].keys = at[a].keys /\ at'[a].op = at[a].op
          /\ at'[a].left = at[a].left /\ at'[a].copy = at[a].copy
      BY <1>1, <3>1 DEF ActorSet
    <3> QED BY <3>1, <3>3, <3>4
  <2>2. CASE Processed(a, o, drop)
    <3> DEFINE left == at[a].left \ {o}
               copy == IF drop THEN {e \in at[a].copy : e.op # o} ELSE at[a].copy
    <3>1. Steps(a) /\ at'[a] = [at[a] EXCEPT !.left = left, !.tries = 0, !.copy = copy]
      BY <2>2, GoSteps DEF Go, Processed
    <3>2. copy \subseteq at[a].copy /\ left \subseteq at[a].left
          /\ \A e \in at[a].copy : e \in copy \/ (drop /\ e.op = o)
      OBVIOUS
    <3> HIDE DEF copy, left
    <3>3. left \in SUBSET Ops /\ copy \in SUBSET Entries
      BY <1>1, <3>2 DEF ActorSet
    <3>4. /\ at'[a] \in ActorSet
          /\ at'[a].pc = at[a].pc /\ at'[a].for = at[a].for /\ at'[a].key = at[a].key
          /\ at'[a].keys = at[a].keys /\ at'[a].op = at[a].op
          /\ at'[a].left = left /\ at'[a].copy = copy
      <4>1. [at[a] EXCEPT !.left = left, !.copy = copy] \in ActorSet /\ 0 \in Nat
        BY <1>1, <3>3 DEF ActorSet
      <4>2. at'[a] = [[at[a] EXCEPT !.left = left, !.copy = copy] EXCEPT !.tries = 0]
        BY <1>1, <3>1 DEF ActorSet
      <4>3. at'[a] \in ActorSet
        BY <4>1, <4>2, TriesOK
      <4>4. at'[a].pc = at[a].pc /\ at'[a].for = at[a].for /\ at'[a].key = at[a].key
            /\ at'[a].keys = at[a].keys /\ at'[a].op = at[a].op
            /\ at'[a].left = left /\ at'[a].copy = copy
        BY <1>1, <3>1 DEF ActorSet
      <4> QED BY <4>3, <4>4
    <3> QED BY <3>1, <3>2, <3>4
  <2> QED BY <2>1, <2>2
<1>3. at[a].key \in Invocations /\ at[a].left \subseteq Ops
  BY <1>1 DEF ActorSet
<1>4. \A e \in entries[at[a].key] : e.op \in Ops
  BY <1>3 DEF BilledInv, SessionOK, Entries
<1>5. \A p \in at'[a].left : Began(p)'
  <2>1. \A p \in at'[a].left : Began(p) /\ p \in Ops
    BY <1>1, <1>2, <1>3 DEF ActorOK
  <2> QED BY <2>1, OverStays
<1>6. ASSUME NEW e \in entries[at[a].key], e \notin at'[a].copy
      PROVE  Over(e.op)'
  <2>1. CASE e \in at[a].copy
    BY <1>2, <1>6, <2>1
  <2>2. CASE e \notin at[a].copy
    BY <1>1, <1>4, <2>2, OverStays DEF ActorOK
  <2> QED BY <2>1, <2>2
<1>7. ActorOK(a)'
  BY <1>1, <1>2, <1>5, <1>6 DEF ActorOK
<1>8. a \in Branches => BranchOK(a)'
  <2> SUFFICES ASSUME a \in Branches PROVE BranchOK(a)'
    OBVIOUS
  <2>1. at'[a].for = "beforeModel" => at'[a].op # None
    BY <1>2, BranchIn DEF BranchOK
  <2>2. spent \subseteq spent'
    BY DEF Forward
  <2> QED BY <1>1, <1>2, <2>1, <2>2, BranchEarly
<1>9. RunnerOK(a) /\ lock' \in [Invocations -> Actors \cup {None}]
      /\ active' \in [Branches -> Ops \cup {None}]
  BY <1>1, RunnerAlone DEF BilledInv, SessionOK
<1> QED BY <1>2, <1>7, <1>8, <1>9, QuietStep

LEMMA SettleAttemptStep ==
  ASSUME BilledInv, NEW a \in Actors, TrySettle(a)
  PROVE  BilledInv'
<1>1. at[a] \in ActorSet /\ ActorOK(a) /\ at[a].key # None
  BY ActorIn DEF TrySettle
<1>2. PICK o \in at[a].left :
        /\ [op |-> o, kind |-> "ready"] \in at[a].copy
        /\ \/ /\ SettleTx(o)
              /\ Processed(a, o, TRUE)
              /\ UNCHANGED <<faults, refused>>
           \/ \E f \in Failures :
                 /\ Fails(f, SettleTx(o))
                 /\ IF Again(f, at[a].tries)
                    THEN Go(a, [at[a] EXCEPT !.tries = @ + 1]) /\ UNCHANGED refused
                    ELSE /\ Processed(a, o, Drop(f))
                         /\ refused' = IF Retryable(f) THEN refused ELSE refused \cup {o}
  BY DEF TrySettle
<1>3. o \in Ops /\ lease[o] # "none" /\ o \in finished
  <2>1. o \in Ops /\ Began(o) /\ at[a].key \in Invocations
    BY <1>1 DEF ActorOK, ActorSet
  <2>2. [op |-> o, kind |-> "ready"] \in entries[at[a].key]
    BY <1>1, <1>2 DEF ActorOK
  <2>3. o \in recorded
    BY <2>1, <2>2 DEF BilledInv, SessionOK
  <2> QED BY <2>1, <2>3 DEF Began, BilledInv, SessionOK
<1>4. UNCHANGED <<spent, entries, lock, active, job, finished, recorded>>
      /\ finished \subseteq finished' /\ spent \subseteq spent'
  BY DEF TrySettle
<1>5. refused \subseteq refused'
  BY <1>2
<1>6. SettleTx(o) \/ UNCHANGED storeVars
  BY <1>2 DEF Fails
<1>7. Forward
  BY <1>3, <1>4, <1>5, <1>6, SettleTxOK, StoreStays DEF Forward, BilledInv
<1>8. CASE SettleTx(o) /\ Processed(a, o, TRUE)
  <2>1. Over(o)'
    BY <1>3, <1>4, <1>8, SettleTxOK DEF Over, BilledInv
  <2> QED BY <1>1, <1>4, <1>7, <1>8, <2>1, AttemptStep
<1>9. ASSUME NEW f \in Failures, Processed(a, o, Drop(f)),
             refused' = IF Retryable(f) THEN refused ELSE refused \cup {o}
      PROVE  BilledInv'
  <2>1. Drop(f) \in BOOLEAN /\ (Drop(f) => Over(o)')
    BY <1>9 DEF Drop, Retryable, Over
  <2> QED BY <1>1, <1>4, <1>7, <1>9, <2>1, AttemptStep
<1>10. CASE Go(a, [at[a] EXCEPT !.tries = @ + 1])
  BY <1>1, <1>4, <1>7, <1>10, AttemptStep
<1> QED BY <1>2, <1>8, <1>9, <1>10

LEMMA ReleaseAttemptStep ==
  ASSUME BilledInv, NEW a \in Actors, ReleaseAttempt(a)
  PROVE  BilledInv'
<1>1. at[a] \in ActorSet /\ ActorOK(a) /\ at[a].key # None
  BY ActorIn DEF ReleaseAttempt
<1>2. PICK o \in at[a].left :
        \/ /\ ReleaseTx(o)
           /\ Processed(a, o, TRUE)
           /\ UNCHANGED <<faults, refused>>
        \/ \E f \in Failures :
              /\ Fails(f, ReleaseTx(o))
              /\ IF Again(f, at[a].tries)
                 THEN Go(a, [at[a] EXCEPT !.tries = @ + 1]) /\ UNCHANGED refused
                 ELSE /\ Processed(a, o, ~Retryable(f))
                      /\ refused' = IF Retryable(f) THEN refused ELSE refused \cup {o}
  BY DEF ReleaseAttempt
<1>3. o \in Ops /\ lease[o] # "none"
  BY <1>1 DEF ActorOK, ActorSet, Began
<1>4. UNCHANGED <<spent, entries, lock, active, job, finished, recorded>>
      /\ finished \subseteq finished' /\ spent \subseteq spent'
  BY DEF ReleaseAttempt
<1>5. refused \subseteq refused'
  BY <1>2
<1>6. ReleaseTx(o) \/ UNCHANGED storeVars
  BY <1>2 DEF Fails
<1>7. Forward
  BY <1>3, <1>4, <1>5, <1>6, ReleaseTxOK, StoreStays DEF Forward, BilledInv
<1>8. CASE ReleaseTx(o) /\ Processed(a, o, TRUE)
  <2>1. Over(o)'
    BY <1>3, <1>4, <1>8, ReleaseTxOK DEF Over, BilledInv
  <2> QED BY <1>1, <1>4, <1>7, <1>8, <2>1, AttemptStep
<1>9. ASSUME NEW f \in Failures, Processed(a, o, ~Retryable(f)),
             refused' = IF Retryable(f) THEN refused ELSE refused \cup {o}
      PROVE  BilledInv'
  <2>1. (~Retryable(f)) \in BOOLEAN /\ (~Retryable(f) => Over(o)')
    BY <1>9 DEF Retryable, Over
  <2> QED BY <1>1, <1>4, <1>7, <1>9, <2>1, AttemptStep
<1>10. CASE Go(a, [at[a] EXCEPT !.tries = @ + 1])
  BY <1>1, <1>4, <1>7, <1>10, AttemptStep
<1> QED BY <1>2, <1>8, <1>9, <1>10

-----------------------------------------------------------------------------
(* Steps that write the session state *)

LEMMA WrittenOK ==
  ASSUME NEW es \in SUBSET Entries
  PROVE  /\ Written(es) \in SUBSET Entries
         /\ \A w \in Written(es) :
              \E e \in es : w.op = e.op /\ (w.kind = "ready" => e.kind = "ready")
         /\ \A e \in es : e.kind \in {"open", "ready"} => e \in Written(es)
<1>1. \A e \in es : e \in Entries
  OBVIOUS
<1>2. ASSUME NEW e \in es
      PROVE  LET w == [e EXCEPT !.kind = IF @ = "ready" THEN "ready" ELSE "open"]
             IN /\ w \in Entries /\ w.op = e.op /\ (w.kind = "ready" => e.kind = "ready")
                /\ (e.kind \in {"open", "ready"} => w = e)
  BY DEF Entries
<1> QED BY <1>2 DEF Written

\* What is written to k was there or is of a reserved lease, and has metrics only if recorded.
EntriesKnown(k) ==
  \A e \in entries'[k] :
    /\ (\E d \in entries[k] : d.op = e.op) \/ lease'[e.op] # "none"
    /\ e.kind = "ready" => e.op \in recorded'

EntriesKept(k) ==
  \A e \in entries[k] :
    e.kind = "ready" \/ (e.kind = "open" /\ Flying(e.op)) => e \in entries'[k] \/ Over(e.op)'

\* The step of an actor that writes the entries of k.
LEMMA WriteStep ==
  ASSUME BilledInv, Forward, NEW a \in Actors, Steps(a), RunnerOK(a), job' = job,
         NEW k \in Invocations, lock[k] \in {None, a},
         lock' \in [Invocations -> Actors \cup {None}],
         \A m \in Invocations \ {k} : lock'[m] = lock[m] /\ entries'[m] = entries[m],
         entries' \in [Invocations -> SUBSET Entries],
         EntriesKnown(k), EntriesKept(k),
         recorded \subseteq recorded', recorded' \subseteq finished', recorded' \subseteq spent',
         recorded' \subseteq Ops,
         \A o \in recorded' : o \in recorded \/ [op |-> o, kind |-> "ready"] \in entries'[k],
         active' \in [Branches -> Ops \cup {None}],
         \A c \in Branches \ {a} : active'[c] = active[c],
         \A c \in Branches \ {a} : at[c].op # None => at[c].op \notin recorded',
         ActorOK(a)', a \in Branches => BranchOK(a)',
         a \in Branches => at'[a].op \in {None, at[a].op}
  PROVE  BilledInv'
<1>1. SessionMoves
  BY DEF SessionMoves, EntriesKept
<1>2. Retained'
  BY <1>1, RetainedStays DEF BilledInv
<1>3. Moves(a)
  BY DEF Moves, Steps, RunnerOK
<1>4. SessionOK'
  <2>1. \A m \in Invocations : \A e \in entries[m] :
          e.op \in Ops /\ Began(e.op) /\ (e.kind = "ready" => e.op \in recorded)
    BY DEF BilledInv, SessionOK, Entries
  <2>2. \A m \in Invocations : \A e \in entries[m] : Began(e.op)'
    BY <2>1, OverStays
  <2>3. \A e \in entries'[k] : lease'[e.op] # "none" /\ (e.kind = "ready" => e.op \in recorded')
    <3>1. \A e \in entries[k] : lease'[e.op] # "none"
      BY <2>2 DEF Began
    <3> QED BY <3>1 DEF EntriesKnown
  <2>4. \A m \in Invocations : \A e \in entries'[m] :
          lease'[e.op] # "none" /\ (e.kind = "ready" => e.op \in recorded')
    <3> SUFFICES ASSUME NEW m \in Invocations, NEW e \in entries'[m]
                 PROVE  lease'[e.op] # "none" /\ (e.kind = "ready" => e.op \in recorded')
      OBVIOUS
    <3>1. CASE m = k
      BY <2>3, <3>1
    <3>2. CASE m # k
      BY <2>1, <2>2, <3>2 DEF Began
    <3> QED BY <3>1, <3>2
  <2> QED BY <2>4 DEF SessionOK, Began
<1> QED BY <1>1, <1>2, <1>3, <1>4, ActorStep

\* saveEntries of the copy that a has loaded, and unlock.
LEMMA SaveStep ==
  ASSUME BilledInv, NEW a \in Actors, Steps(a), at[a].key # None,
         SaveEntries(at[a].key, at[a].copy),
         UNCHANGED <<storeVars, spent, active, job, historyVars>>,
         at'[a] \in ActorSet, at'[a].key = None, a \in Branches => BranchOK(a)',
         a \in Branches => at'[a].op \in {None, at[a].op}
  PROVE  BilledInv'
<1> DEFINE k == at[a].key
<1>1. at[a] \in ActorSet /\ ActorOK(a) /\ at[a].pc # "running"
  BY ActorIn DEF ActorOK
<1>2. k \in Invocations /\ lock[k] = a /\ at[a].copy \subseteq entries[k]
      /\ \A e \in entries[k] \ at[a].copy : Over(e.op)
  BY <1>1 DEF ActorOK, ActorSet
<1>3. PICK m \in Invocations : m = k
  BY <1>2
<1>4. Forward
  BY StoreStays DEF Forward, BilledInv, historyVars
<1>5. entries \in [Invocations -> SUBSET Entries] /\ at[a].copy \in SUBSET Entries
  BY <1>1 DEF BilledInv, SessionOK, ActorSet
<1>6. entries' = entries \/ entries' = [entries EXCEPT ![m] = Written(at[a].copy)]
  BY <1>3 DEF SaveEntries
<1>7. lock' \in [Invocations -> Actors \cup {None}] /\ \A n \in Invocations \ {m} : lock'[n] = lock[n]
  BY <1>3 DEF SaveEntries, BilledInv, SessionOK
<1>8. entries' \in [Invocations -> SUBSET Entries] /\ \A n \in Invocations \ {m} : entries'[n] = entries[n]
  BY <1>5, <1>6, WrittenOK
<1>9. \A e \in entries[m] : e.op \in Ops /\ (e.kind = "ready" => e.op \in recorded)
  BY <1>5 DEF BilledInv, SessionOK, Entries
<1>10. entries'[m] = entries[m] \/ entries'[m] = Written(at[a].copy)
  BY <1>5, <1>6
<1>11. EntriesKnown(m)
  <2>1. recorded' = recorded
    BY DEF historyVars
  <2>2. CASE entries'[m] = entries[m]
    BY <1>9, <2>1, <2>2 DEF EntriesKnown
  <2>3. CASE entries'[m] = Written(at[a].copy)
    <3>1. \A w \in Written(at[a].copy) :
            \E e \in at[a].copy : w.op = e.op /\ (w.kind = "ready" => e.kind = "ready")
      BY <1>5, WrittenOK
    <3>2. at[a].copy \subseteq entries[m]
      BY <1>2, <1>3
    <3> QED BY <1>9, <2>1, <2>3, <3>1, <3>2 DEF EntriesKnown
  <2> QED BY <1>10, <2>2, <2>3
<1>12. \A e \in entries[m] :
         e.kind \in {"open", "ready"} => e \in entries'[m] \/ Over(e.op)'
  <2> SUFFICES ASSUME NEW e \in entries[m], e.kind \in {"open", "ready"}
               PROVE  e \in entries'[m] \/ Over(e.op)'
    OBVIOUS
  <2>1. CASE e \in at[a].copy
    <3>1. e \in Written(at[a].copy)
      BY <1>5, <2>1, WrittenOK
    <3> QED BY <1>10, <3>1
  <2>2. CASE e \notin at[a].copy
    <3>1. Over(e.op) /\ e.op \in Ops
      BY <1>2, <1>3, <1>9, <2>2
    <3> QED BY <1>4, <3>1, OverStays
  <2> QED BY <2>1, <2>2
<1>13. RunnerOK(a) /\ ActorOK(a)' /\ active' \in [Branches -> Ops \cup {None}]
  BY <1>1, RunnerAlone, KeylessOK DEF BilledInv, SessionOK
<1>14. recorded' = recorded /\ recorded' \subseteq finished' /\ recorded' \subseteq spent'
       /\ recorded' \subseteq Ops /\ \A c \in Branches : at[c].op # None => at[c].op \notin recorded'
  BY DEF BilledInv, SessionOK, BranchesOK, BranchOK, historyVars
<1>15. lock[m] \in {None, a} /\ job' = job
       /\ \A n \in Invocations \ {m} : lock'[n] = lock[n] /\ entries'[n] = entries[n]
  BY <1>2, <1>3, <1>7, <1>8
<1>16. EntriesKept(m)
  BY <1>12 DEF EntriesKept
<1>17. recorded \subseteq recorded' /\ \A c \in Branches \ {a} : active'[c] = active[c]
  BY <1>14
<1> QED BY <1>4, <1>7, <1>8, <1>11, <1>13, <1>14, <1>15, <1>16, <1>17, WriteStep

LEMMA SettleSaveStep ==
  ASSUME BilledInv, NEW a \in Actors, SettleSave(a)
  PROVE  BilledInv'
<1>1. at[a] \in ActorSet /\ ActorOK(a) /\ at[a].pc = "settle" /\ at[a].key # None
  BY ActorIn DEF SettleSave
<1>2. Steps(a) /\ at'[a] = [at[a] EXCEPT !.keys = @ \ {at[a].key}, !.key = None, !.copy = {}]
  BY GoSteps DEF SettleSave, Go
<1>3. at'[a] \in ActorSet /\ at'[a].key = None /\ at'[a].op = at[a].op
      /\ at'[a].for = at[a].for /\ at'[a].pc = "settle"
  <2>1. at'[a] \in ActorSet
    BY <1>1, <1>2 DEF ActorSet
  <2>2. at'[a].key = None /\ at'[a].op = at[a].op /\ at'[a].for = at[a].for /\ at'[a].pc = at[a].pc
    BY <1>1, <1>2 DEF ActorSet
  <2> QED BY <1>1, <2>1, <2>2
<1>4. a \in Branches => BranchOK(a)'
  <2> SUFFICES ASSUME a \in Branches PROVE BranchOK(a)'
    OBVIOUS
  <2>1. at'[a].for = "beforeModel" => at'[a].op # None
    BY <1>3, BranchIn DEF BranchOK
  <2> QED BY <1>1, <1>2, <1>3, <2>1, BranchEarly DEF SettleSave, historyVars
<1> QED BY <1>1, <1>2, <1>3, <1>4, SaveStep DEF SettleSave

LEMMA ReleaseSaveStep ==
  ASSUME BilledInv, NEW a \in Actors, ReleaseSave(a)
  PROVE  BilledInv'
<1>1. at[a] \in ActorSet /\ ActorOK(a) /\ at[a].pc = "release" /\ at[a].key # None
  BY ActorIn DEF ReleaseSave
<1>2. Steps(a) /\ at'[a] = AfterReleasing(a)
  BY GoSteps DEF ReleaseSave, Go
<1>3. at'[a] \in ActorSet /\ at'[a].key = None /\ at'[a].op \in {None, at[a].op}
      /\ at'[a].for = "none" /\ at'[a].pc \in {"begin", "clear", "idle"}
      /\ (at'[a].pc = "begin" => at[a].for = "beforeModel" /\ at'[a].op = at[a].op)
  BY <1>2, AfterReleasingOK
<1>4. a \in Branches => BranchOK(a)'
  <2> SUFFICES ASSUME a \in Branches PROVE BranchOK(a)'
    OBVIOUS
  <2>1. at'[a].pc = "begin" => at'[a].op # None
    BY <1>3, BranchIn DEF BranchOK
  <2> QED BY <1>1, <1>2, <1>3, <2>1, BranchEarly DEF ReleaseSave, historyVars
<1> QED BY <1>1, <1>2, <1>3, <1>4, SaveStep DEF ReleaseSave

LEMMA AppendEntryStep ==
  ASSUME BilledInv, NEW b \in Branches, AppendEntry(b)
  PROVE  BilledInv'
<1>1. b \in Actors /\ b \notin Invocations /\ BranchOK(b) /\ InvocationOf[b] \in Invocations
  BY BranchIn
<1>2. at[b] \in ActorSet /\ ActorOK(b) /\ at[b].pc = "append"
  BY <1>1, ActorIn DEF AppendEntry
<1>3. PICK k \in Invocations : k = InvocationOf[b]
  BY <1>1
<1>4. PICK o \in Ops : o = at[b].op
  BY <1>1, <1>2 DEF BranchOK, ActorSet
<1> DEFINE mine == [op |-> o, kind |-> "open"]
           es == entries[k] \cup {mine}
<1>5. Steps(b) /\ at'[b] = [at[b] EXCEPT !.pc = "flying"]
  BY <1>1, GoSteps DEF AppendEntry, Go
<1>6. at'[b] \in ActorSet /\ at'[b].key = None /\ at'[b].op = o
      /\ at'[b].for = at[b].for /\ at'[b].pc = "flying"
  BY <1>2, <1>4, <1>5 DEF ActorSet, ActorOK
<1>7. Forward /\ RunnerOK(b) /\ lock' \in [Invocations -> Actors \cup {None}]
      /\ active' \in [Branches -> Ops \cup {None}]
  BY <1>1, StoreStays DEF Forward, BilledInv, SessionOK, AppendEntry, historyVars, RunnerOK
<1>8. entries \in [Invocations -> SUBSET Entries] /\ es \in SUBSET Entries
      /\ mine \in es /\ mine.op = o /\ mine.kind = "open"
  BY DEF BilledInv, SessionOK, Entries
<1>9. entries' = [entries EXCEPT ![k] = Written(es)]
  BY <1>3, <1>4 DEF AppendEntry
<1>10. lease'[o] # "none" /\ o \in spent' /\ o \notin recorded'
  BY <1>1, <1>2, <1>4, BilledAssumption DEF BranchOK, Began, AppendEntry, historyVars, storeVars
<1> HIDE DEF mine, es
<1>11. entries' \in [Invocations -> SUBSET Entries] /\ entries'[k] = Written(es)
       /\ \A m \in Invocations \ {k} : lock'[m] = lock[m] /\ entries'[m] = entries[m]
  <2>1. Written(es) \in SUBSET Entries
    BY <1>8, WrittenOK
  <2>2. lock' = lock
    BY DEF AppendEntry
  <2> QED BY <1>8, <1>9, <2>1, <2>2
<1>12. \A w \in Written(es) : \E e \in es : w.op = e.op /\ (w.kind = "ready" => e.kind = "ready")
  BY <1>8, WrittenOK
<1>13. \A e \in es : e.kind \in {"open", "ready"} => e \in Written(es)
  BY <1>8, WrittenOK
<1>14. recorded' = recorded /\ \A e \in entries[k] : e.kind = "ready" => e.op \in recorded
  BY DEF BilledInv, SessionOK, AppendEntry, historyVars
<1>15. EntriesKnown(k)
  <2>0. es = entries[k] \cup {mine}
    BY DEF es
  <2> SUFFICES ASSUME NEW w \in Written(es)
               PROVE  /\ (\E d \in entries[k] : d.op = w.op) \/ lease'[w.op] # "none"
                      /\ w.kind = "ready" => w.op \in recorded'
    BY <1>11 DEF EntriesKnown
  <2>1. PICK e \in es : w.op = e.op /\ (w.kind = "ready" => e.kind = "ready")
    BY <1>12
  <2>2. CASE e \in entries[k]
    BY <1>14, <2>1, <2>2
  <2>3. CASE e = mine
    BY <1>8, <1>10, <2>1, <2>3
  <2> QED BY <2>0, <2>2, <2>3
<1>16. EntriesKept(k)
  BY <1>11, <1>13 DEF EntriesKept, es
<1>17. BranchOK(b)'
  <2>1. at'[InvocationOf[b]].pc = "running"
    BY <1>2, <1>5, StillRunning
  <2>2. mine \in entries'[k] /\ active'[b] = o /\ o # None
    BY <1>1, <1>2, <1>4, <1>8, <1>11, <1>13 DEF BranchOK, AppendEntry
  <2>3. [op |-> o, kind |-> "open"] \in entries'[InvocationOf[b]]
    BY <1>3, <2>2 DEF mine
  <2> QED BY <1>6, <1>10, <2>1, <2>2, <2>3 DEF BranchOK, Began
<1>18. ActorOK(b)'
  BY <1>1, <1>6, KeylessOK
<1>19. lock[k] \in {None, b} /\ job' = job /\ active' = active
  BY <1>3 DEF AppendEntry, Free
<1>20. recorded \subseteq recorded' /\ recorded' \subseteq finished' /\ recorded' \subseteq spent'
       /\ recorded' \subseteq Ops /\ \A c \in Branches : at[c].op # None => at[c].op \notin recorded'
  BY DEF BilledInv, SessionOK, BranchesOK, BranchOK, AppendEntry, historyVars
<1> QED BY <1>1, <1>4, <1>5, <1>6, <1>7, <1>11, <1>14, <1>15, <1>16, <1>17, <1>18, <1>19, <1>20,
           WriteStep

LEMMA CompleteStep ==
  ASSUME BilledInv, NEW b \in Branches, Complete(b)
  PROVE  BilledInv'
<1>1. b \in Actors /\ b \notin Invocations /\ BranchOK(b) /\ InvocationOf[b] \in Invocations
  BY BranchIn
<1>2. at[b] \in ActorSet /\ at[b].pc = "complete" /\ lock[InvocationOf[b]] = None
  BY <1>1, ActorIn DEF Complete, Free
<1>3. PICK k \in Invocations : k = InvocationOf[b]
  BY <1>1
<1>4. PICK o \in Ops : o = at[b].op
  BY <1>1, <1>2 DEF BranchOK, ActorSet
<1>5. active[b] = o /\ o \in finished /\ o \in spent /\ o \notin recorded /\ o # None
  BY <1>1, <1>2, <1>4 DEF BranchOK
<1>6. Forward /\ RunnerOK(b) /\ lock' \in [Invocations -> Actors \cup {None}]
      /\ UNCHANGED <<storeVars, spent, lock, job, finished, refused>>
  BY <1>1, StoreStays DEF Forward, BilledInv, SessionOK, Complete, RunnerOK
<1>7. CASE ActiveEntry(entries[k], o) = {}
  <2>1. Go(b, AtRest) /\ UNCHANGED <<entries, active, recorded>>
    BY <1>3, <1>5, <1>7 DEF Complete
  <2>2. Steps(b) /\ at'[b] = AtRest
    BY <1>1, <2>1, GoSteps DEF Go
  <2> QED BY <1>1, <1>6, <2>1, <2>2, IdleOK, PlainStep
<1>8. CASE ActiveEntry(entries[k], o) # {}
  <2>1. PICK e \in ActiveEntry(entries[k], o), kind \in {"ready", "invalid"} :
          /\ entries' = [entries EXCEPT ![k] = Written(@ \ {e}) \cup {[e EXCEPT !.kind = kind]}]
          /\ recorded' = IF kind = "ready" THEN recorded \cup {e.op} ELSE recorded
          /\ active' = [active EXCEPT ![b] = None]
          /\ Go(b, Settling("complete", {k}))
    BY <1>3, <1>5, <1>8 DEF Complete
  <2>2. e \in entries[k] /\ e.op = o
    BY DEF ActiveEntry
  <2>3. entries \in [Invocations -> SUBSET Entries]
        /\ \A d \in entries[k] : d.kind = "ready" => d.op \in recorded
    BY DEF BilledInv, SessionOK
  <2> DEFINE es == entries[k] \ {e}
             new == [op |-> o, kind |-> kind]
  <2>4. [e EXCEPT !.kind = kind] = new /\ new \in Entries /\ new.op = o /\ new.kind = kind
    BY <2>2, <2>3 DEF Entries
  <2>5. es \in SUBSET Entries
    BY <2>3
  <2>6. \A d \in entries[k] : d # e => d \in es
    OBVIOUS
  <2>7. es \subseteq entries[k] /\ entries' = [entries EXCEPT ![k] = Written(es) \cup {new}]
    BY <2>1, <2>4
  <2> HIDE DEF es, new
  <2>8. entries' \in [Invocations -> SUBSET Entries] /\ entries'[k] = Written(es) \cup {new}
        /\ \A m \in Invocations \ {k} : entries'[m] = entries[m]
    <3>1. Written(es) \cup {new} \in SUBSET Entries
      BY <2>4, <2>5, WrittenOK
    <3> QED BY <2>3, <2>7, <3>1
  <2>9. recorded \subseteq recorded' /\ recorded' \subseteq recorded \cup {o}
        /\ (kind = "ready" => o \in recorded') /\ (o \in recorded' => kind = "ready")
    BY <1>5, <2>1, <2>2
  <2>10. EntriesKnown(k)
    <3>1. \A w \in Written(es) : \E d \in es : w.op = d.op /\ (w.kind = "ready" => d.kind = "ready")
      BY <2>5, WrittenOK
    <3>2. \A w \in Written(es) :
            (\E d \in entries[k] : d.op = w.op) /\ (w.kind = "ready" => w.op \in recorded')
      BY <2>3, <2>7, <2>9, <3>1
    <3> QED BY <2>2, <2>4, <2>8, <2>9, <3>2 DEF EntriesKnown
  <2>11. ~ Flying(o) /\ e.kind # "ready"
    <3>1. \A c \in Branches : at[c].op = o => c = b
      BY <1>4, <1>5 DEF BilledInv, OpsDiffer
    <3> QED BY <1>2, <1>5, <2>2, <2>3, <3>1 DEF Flying
  <2>12. EntriesKept(k)
    <3>1. \A d \in es : d.kind \in {"open", "ready"} => d \in Written(es)
      BY <2>5, WrittenOK
    <3> QED BY <2>2, <2>6, <2>8, <2>11, <3>1 DEF EntriesKept
  <2>13. \A p \in recorded' : p \in recorded \/ [op |-> p, kind |-> "ready"] \in entries'[k]
    <3>1. new \in entries'[k]
      BY <2>8
    <3> QED BY <2>9, <3>1 DEF new
  <2>14. recorded' \subseteq finished' /\ recorded' \subseteq spent' /\ recorded' \subseteq Ops
    BY <1>5, <1>6, <2>9 DEF BilledInv, SessionOK
  <2>15. \A c \in Branches \ {b} : at[c].op # None => at[c].op \notin recorded'
    <3>1. \A c \in Branches : at[c].op = o => c = b
      BY <1>4, <1>5 DEF BilledInv, OpsDiffer
    <3> QED BY <2>9, <3>1 DEF BilledInv, BranchesOK, BranchOK
  <2>16. active' \in [Branches -> Ops \cup {None}] /\ \A c \in Branches \ {b} : active'[c] = active[c]
    BY <2>1 DEF BilledInv, SessionOK
  <2>17. Steps(b) /\ at'[b] = Settling("complete", {k})
    BY <1>1, <2>1, GoSteps DEF Go
  <2>18. at'[b] \in ActorSet /\ at'[b].key = None /\ at'[b].op = None /\ at'[b].pc = "settle"
         /\ at'[b].for = "complete"
    BY <2>17, SettlingOK
  <2>19. BranchOK(b)' /\ ActorOK(b)'
    <3>1. at'[InvocationOf[b]].pc = "running"
      BY <1>2, <2>17, StillRunning
    <3> QED BY <1>1, <2>18, <3>1, KeylessOK DEF BranchOK
  <2>20. lock[k] \in {None, b} /\ job' = job
         /\ \A m \in Invocations \ {k} : lock'[m] = lock[m] /\ entries'[m] = entries[m]
    BY <1>2, <1>3, <1>6, <2>8
  <2> QED BY <1>1, <1>6, <2>8, <2>9, <2>10, <2>12, <2>13, <2>14, <2>15, <2>16, <2>17, <2>18,
             <2>19, <2>20, WriteStep
<1> QED BY <1>7, <1>8

-----------------------------------------------------------------------------
(* RunBilled, expiry and crashes *)

\* A step that leaves the agent's actors and the session alone.
LEMMA AsideStep ==
  ASSUME BilledInv, Forward, UNCHANGED <<spent, entries, lock, active, at, recorded>>, JobsOK'
  PROVE  BilledInv'
<1>1. lock' \in [Invocations -> Actors \cup {None}] /\ active' \in [Branches -> Ops \cup {None}]
  BY DEF BilledInv, SessionOK
<1>2. SessionOK' /\ SessionMoves /\ Retained'
  BY <1>1, QuietSession
<1>3. \A a \in Actors : ActorOK(a)'
  <2> SUFFICES ASSUME NEW a \in Actors PROVE ActorOK(a)'
    OBVIOUS
  <2>1. at'[a] = at[a] /\ ActorOK(a)
    BY ActorIn
  <2>2. at[a].key # None => lock'[at[a].key] = a /\ entries'[at[a].key] = entries[at[a].key]
    BY <2>1 DEF ActorOK
  <2> QED BY <2>1, <2>2, ActorStays
<1>4. \A b \in Branches : BranchOK(b)'
  <2> SUFFICES ASSUME NEW b \in Branches PROVE BranchOK(b)'
    OBVIOUS
  <2>1. at'[b] = at[b] /\ active'[b] = active[b] /\ BranchOK(b)
    BY BranchIn
  <2>2. at[b].pc # "idle" => at'[InvocationOf[b]].pc = "running"
    BY <2>1 DEF BranchOK
  <2>3. at[b].op # None => at[b].op \notin recorded'
    BY <2>1 DEF BranchOK
  <2> QED BY <1>2, <2>1, <2>2, <2>3, BranchStays
<1>5. OpsDiffer' /\ DOMAIN at' = Actors /\ StoreOK'
  BY DEF BilledInv, OpsDiffer, ActorsOK, Forward
<1> QED BY <1>2, <1>3, <1>4, <1>5 DEF BilledInv, ActorsOK, BranchesOK

LEMMA JobStep ==
  ASSUME BilledInv, Forward, UNCHANGED <<pluginVars, recorded>>, NEW j \in Jobs, NEW x,
         job' = [job EXCEPT ![j] = x], x \in JobSet,
         x.pc = "settle" => j \in finished', x.result = "ok" => lease'[j] = "settled"
  PROVE  BilledInv'
<1>1. DOMAIN job' = Jobs /\ job'[j] = x /\ \A i \in Jobs : i # j => job'[i] = job[i]
  BY DEF BilledInv, JobsOK
<1>2. ASSUME NEW i \in Jobs, i # j
      PROVE  JobOK(i)'
  <2>1. JobOK(i) /\ i \in Ops /\ job'[i] = job[i]
    BY <1>1, <1>2 DEF BilledInv, JobsOK, Ops
  <2> QED BY <2>1 DEF JobOK, Forward, LeaseMoves
<1>3. JobsOK'
  BY <1>1, <1>2 DEF JobsOK, JobOK
<1> QED BY <1>3, AsideStep DEF pluginVars

LEMMA JobIn ==
  ASSUME BilledInv, NEW j \in Jobs
  PROVE  JobOK(j) /\ job[j] \in JobSet /\ j \in Ops
BY DEF BilledInv, JobsOK, JobOK, Ops

LEMMA JobBeginStep ==
  ASSUME BilledInv, NEW j \in Jobs, JobBegin(j)
  PROVE  BilledInv'
<1>1. JobOK(j) /\ job[j] \in JobSet /\ j \in Ops /\ job[j].pc = "idle"
  BY JobIn DEF JobBegin
<1>2. UNCHANGED <<pluginVars, recorded>> /\ UNCHANGED <<finished, refused, spent>>
  BY DEF JobBegin, pluginVars
<1>3. ReserveTx(j) \/ UNCHANGED storeVars
  BY DEF JobBegin, Fails
<1>4. Forward
  BY <1>1, <1>2, <1>3, ReserveTxOK, StoreStays DEF Forward, BilledInv
<1> DEFINE x == [job[j] EXCEPT !.pc = "work", !.calls = @ + 1, !.result = "none"]
           y == [job[j] EXCEPT !.calls = @ + 1, !.result = "error"]
<1>5. job' = [job EXCEPT ![j] = x] \/ job' = [job EXCEPT ![j] = y]
  BY DEF JobBegin
<1>6. job[j].calls + 1 \in Nat
  BY <1>1 DEF JobSet
<1>7. x \in JobSet /\ x.pc = "work" /\ x.result = "none"
  BY <1>1, <1>6 DEF JobSet
<1>8. y \in JobSet /\ y.pc = "idle" /\ y.result = "error"
  BY <1>1, <1>6 DEF JobSet
<1> HIDE DEF x, y
<1> QED BY <1>2, <1>4, <1>5, <1>7, <1>8, JobStep

LEMMA JobWorkStep ==
  ASSUME BilledInv, NEW j \in Jobs, JobWork(j)
  PROVE  BilledInv'
<1>1. JobOK(j) /\ job[j] \in JobSet /\ j \in Ops
  BY JobIn
<1>2. UNCHANGED <<pluginVars, recorded>> /\ finished \subseteq finished' /\ UNCHANGED <<refused, spent>>
      /\ UNCHANGED storeVars
  BY DEF JobWork, pluginVars
<1>3. Forward
  BY <1>2, StoreStays DEF Forward, BilledInv
<1> DEFINE x == [job[j] EXCEPT !.pc = "settle"]
           y == [job[j] EXCEPT !.pc = "release"]
<1>4. x \in JobSet /\ x.result = job[j].result /\ x.pc = "settle"
      /\ y \in JobSet /\ y.result = job[j].result /\ y.pc = "release"
  BY <1>1 DEF JobSet
<1>5. (job' = [job EXCEPT ![j] = x] /\ j \in finished') \/ job' = [job EXCEPT ![j] = y]
  BY DEF JobWork
<1>6. job[j].result = "ok" => lease'[j] = "settled"
  BY <1>1, <1>3 DEF JobOK, Forward, LeaseMoves
<1> HIDE DEF x, y
<1> QED BY <1>2, <1>3, <1>4, <1>5, <1>6, JobStep

LEMMA ReturnsOK ==
  ASSUME BilledInv, NEW j \in Jobs, NEW result \in {"ok", "error"}
  PROVE  LET x == [job[j] EXCEPT !.pc = "idle", !.tries = 0, !.result = result]
         IN x \in JobSet /\ x.pc = "idle" /\ x.result = result
<1>1. job[j] \in JobSet /\ 0 \in Nat
  BY JobIn
<1> QED BY <1>1 DEF JobSet

LEMMA JobReturnsStep ==
  ASSUME BilledInv, Forward, UNCHANGED <<pluginVars, recorded>>, NEW j \in Jobs,
         NEW result \in {"ok", "error"}, JobReturns(j, result),
         result = "ok" => lease'[j] = "settled"
  PROVE  BilledInv'
<1> DEFINE x == [job[j] EXCEPT !.pc = "idle", !.tries = 0, !.result = result]
<1>1. x \in JobSet /\ x.pc = "idle" /\ x.result = result
  BY ReturnsOK
<1>2. job' = [job EXCEPT ![j] = x]
  BY DEF JobReturns
<1> HIDE DEF x
<1> QED BY <1>1, <1>2, JobStep

LEMMA JobSettleStep ==
  ASSUME BilledInv, NEW j \in Jobs, JobSettle(j)
  PROVE  BilledInv'
<1>1. JobOK(j) /\ job[j] \in JobSet /\ j \in Ops /\ j \in finished /\ job[j].pc = "settle"
  BY JobIn DEF JobSettle, JobOK
<1>2. UNCHANGED <<pluginVars, recorded>> /\ UNCHANGED <<finished, refused, spent>>
  BY DEF JobSettle, pluginVars, historyVars
<1>3. SettleTx(j) \/ UNCHANGED storeVars
  BY DEF JobSettle, Fails
<1>4. Forward
  BY <1>1, <1>2, <1>3, SettleTxOK, StoreStays DEF Forward, BilledInv
<1>5. CASE SettleTx(j) /\ JobReturns(j, IF Settles(lease[j]) THEN "ok" ELSE "error")
  <2>1. Settles(lease[j]) => lease'[j] = "settled"
    BY <1>1, <1>2, <1>5, SettleTxOK DEF BilledInv
  <2>2. CASE Settles(lease[j])
    BY <1>2, <1>4, <1>5, <2>1, <2>2, JobReturnsStep
  <2>3. CASE ~ Settles(lease[j])
    BY <1>2, <1>4, <1>5, <2>3, JobReturnsStep
  <2> QED BY <2>2, <2>3
<1>6. CASE JobReturns(j, "error")
  BY <1>2, <1>4, <1>6, JobReturnsStep
<1>7. CASE job' = [job EXCEPT ![j].tries = @ + 1]
  <2> DEFINE x == [job[j] EXCEPT !.tries = @ + 1]
  <2>1. job[j].tries + 1 \in Nat
    BY <1>1 DEF JobSet
  <2>2. x \in JobSet /\ x.pc = "settle" /\ x.result = job[j].result
    BY <1>1, <2>1 DEF JobSet
  <2>3. job' = [job EXCEPT ![j] = x]
    BY <1>7
  <2>4. job[j].result = "ok" => lease'[j] = "settled"
    BY <1>1, <1>4 DEF JobOK, Forward, LeaseMoves
  <2> HIDE DEF x
  <2> QED BY <1>1, <1>2, <1>4, <2>2, <2>3, <2>4, JobStep
<1> QED BY <1>5, <1>6, <1>7 DEF JobSettle

LEMMA JobReleaseStep ==
  ASSUME BilledInv, NEW j \in Jobs, JobRelease(j)
  PROVE  BilledInv'
<1>1. j \in Ops
  BY JobIn
<1>2. UNCHANGED <<pluginVars, recorded>> /\ UNCHANGED <<finished, refused, spent>>
  BY DEF JobRelease, pluginVars, historyVars
<1>3. ReleaseTx(j) \/ UNCHANGED storeVars
  BY DEF JobRelease, Fails
<1>4. Forward
  BY <1>1, <1>2, <1>3, ReleaseTxOK, StoreStays DEF Forward, BilledInv
<1> QED BY <1>2, <1>4, JobReturnsStep DEF JobRelease

LEMMA ExpireStep ==
  ASSUME BilledInv, NEW o \in Ops, Expire(o)
  PROVE  BilledInv'
<1>1. Forward /\ job' = job /\ UNCHANGED <<spent, entries, lock, active, at, recorded>>
  BY ExpireOK DEF Forward, BilledInv, Expire, pluginVars, historyVars
<1>2. JobsOK'
  BY <1>1, JobsStay DEF BilledInv, Ops
<1> QED BY <1>1, <1>2, AsideStep

LEMMA CrashStep ==
  ASSUME BilledInv, ProcessCrash
  PROVE  BilledInv'
<1>1. Forward /\ UNCHANGED <<spent, entries, recorded>>
  BY StoreStays DEF Forward, BilledInv, ProcessCrash, historyVars
<1>2. lock' \in [Invocations -> Actors \cup {None}] /\ active' \in [Branches -> Ops \cup {None}]
  BY DEF ProcessCrash
<1>3. SessionOK' /\ Retained' /\ StoreOK'
  BY <1>1, <1>2, QuietSession DEF Forward
<1>4. DOMAIN at' = Actors /\ \A a \in Actors : at'[a] = AtRest
  BY DEF ProcessCrash
<1>5. \A a \in Actors : ActorOK(a)' /\ (a \in Branches => BranchOK(a)') /\ at'[a].op = None
  BY <1>4, IdleOK
<1>6. OpsDiffer'
  BY <1>5 DEF OpsDiffer, Actors
<1>7. JobsOK'
  <2> SUFFICES ASSUME NEW j \in Jobs PROVE JobOK(j)'
    BY DEF JobsOK, ProcessCrash
  <2>1. job'[j] = [job[j] EXCEPT !.pc = "idle", !.tries = 0, !.result = "none"]
        /\ job[j] \in JobSet /\ 0 \in Nat
    BY JobIn DEF ProcessCrash
  <2>2. job'[j] \in JobSet /\ job'[j].pc = "idle" /\ job'[j].result = "none"
    BY <2>1 DEF JobSet
  <2> QED BY <2>2 DEF JobOK
<1> QED BY <1>3, <1>4, <1>5, <1>6, <1>7 DEF BilledInv, ActorsOK, BranchesOK, Actors

-----------------------------------------------------------------------------
(* The theorems *)

LEMMA BilledInitOK ==
  ASSUME BilledInit
  PROVE  BilledInv
<1>1. DOMAIN at = Actors /\ \A a \in Actors : at[a] = AtRest
  BY DEF BilledInit
<1>2. \A a \in Actors : ActorOK(a)
  BY <1>1 DEF ActorOK, AtRest, ActorSet
<1>3. \A b \in Branches : BranchOK(b) /\ at[b].op = None
  BY <1>1 DEF BranchOK, AtRest, Actors
<1>4. StoreOK
  BY DEF BilledInit, StoreOK, Statuses
<1>5. JobsOK
  BY DEF BilledInit, JobsOK, JobOK, JobIdle, JobSet
<1>6. SessionOK /\ Retained
  BY DEF BilledInit, SessionOK, Retained
<1> QED BY <1>1, <1>2, <1>3, <1>4, <1>5, <1>6 DEF BilledInv, ActorsOK, BranchesOK, OpsDiffer

LEMMA BilledStutter ==
  ASSUME BilledInv, UNCHANGED billedVars
  PROVE  BilledInv'
<1>1. Forward /\ job' = job /\ UNCHANGED <<spent, entries, lock, active, at, recorded>>
  BY StoreStays DEF Forward, BilledInv, billedVars, pluginVars, historyVars
<1>2. JobsOK'
  BY <1>1, JobsStay DEF BilledInv, Ops
<1> QED BY <1>1, <1>2, AsideStep

LEMMA BilledStepOK ==
  ASSUME BilledInv, [BilledNext]_billedVars
  PROVE  BilledInv'
<1>1. ASSUME NEW a \in Actors, CallbackStep(a)
      PROVE  BilledInv'
  BY <1>1, SettleLoadStep, SettleAttemptStep, SettleSaveStep, SettleEndStep, ReadActiveStep,
     ReleaseLoadStep, ReleaseAttemptStep, ReleaseSaveStep, ClearActiveStep, StateFailsStep,
     BeginStep, RegisterStep, AppendEntryStep, AppendFailsStep, CompleteStep, ReleaseActiveStep
     DEF CallbackStep
<1>2. ASSUME NEW b \in Branches, BeforeModel(b) \/ Answer(b) \/ ModelError(b) \/ Abandon(b)
      PROVE  BilledInv'
  BY <1>2, BeforeModelStep, AnswerStep, ModelErrorStep, AbandonStep
<1>3. ASSUME NEW i \in Invocations, BeforeRun(i) \/ AfterRun(i)
      PROVE  BilledInv'
  BY <1>3, BeforeRunStep, AfterRunStep
<1>4. ASSUME NEW j \in Jobs, JobBegin(j) \/ JobWork(j) \/ JobSettle(j) \/ JobRelease(j)
      PROVE  BilledInv'
  BY <1>4, JobBeginStep, JobWorkStep, JobSettleStep, JobReleaseStep
<1>5. ASSUME NEW o \in Ops, Expire(o)
      PROVE  BilledInv'
  BY <1>5, ExpireStep
<1>6. CASE ProcessCrash
  BY <1>6, CrashStep
<1>7. CASE UNCHANGED billedVars
  BY <1>7, BilledStutter
<1> QED BY <1>1, <1>2, <1>3, <1>4, <1>5, <1>6, <1>7 DEF BilledNext

LEMMA BilledInvariant == BilledSpec => []BilledInv
<1>1. BilledInit => BilledInv
  BY BilledInitOK
<1>2. BilledInv /\ [BilledNext]_billedVars => BilledInv'
  BY BilledStepOK
<1> QED BY <1>1, <1>2, PTL DEF BilledSpec

\* RunBilled and the agent plug-in, whatever store calls fail or lose their replies, are retried,
\* replayed or cut short by a crash: a lease is charged at most once and only for work that
\* completed, and RunBilled reports success only for work that was charged.
THEOREM BilledChargesFollow == BilledSpec => []ChargesFollowWork
<1>1. BilledInv => ChargesFollowWork
  <2> SUFFICES ASSUME BilledInv PROVE ChargesFollowWork
    OBVIOUS
  <2>1. ChargedOnceForWork
    BY DEF BilledInv, StoreOK, ChargedOnceForWork
  <2>2. SuccessIsCharged
    BY DEF BilledInv, StoreOK, JobsOK, JobOK, SuccessIsCharged, Ops
  <2> QED BY <2>1, <2>2 DEF ChargesFollowWork
<1> QED BY <1>1, BilledInvariant, PTL

\* The session state of parallel branches: the lease of a model call in flight, and the usage that
\* complete() saved, are in the list a later run settles from until the lease has ended or the
\* store has refused to end it.
THEOREM BilledSessionKeeps == BilledSpec => []SessionKeepsWork
<1>1. BilledInv => SessionKeepsWork
  <2> SUFFICES ASSUME BilledInv PROVE SessionKeepsWork
    OBVIOUS
  <2>1. InFlightRecorded
    BY DEF BilledInv, BranchesOK, BranchOK, Over, InFlightRecorded
  <2>2. ReadyRetained
    BY DEF BilledInv, Retained, Over, ReadyRetained
  <2> QED BY <2>1, <2>2 DEF SessionKeepsWork
<1> QED BY <1>1, BilledInvariant, PTL
=============================================================================
