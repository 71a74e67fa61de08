---------------------------- MODULE CreditLedger ----------------------------
(***************************************************************************)
(* The credit account of one subject: the cached balance, the ledger       *)
(* entries, the credit lots, and which debit took how much from which lot. *)
(* The SQL functions of 009_credit_account_rpc.sql and                     *)
(* 011_credit_lot_rpc.sql take the account row FOR UPDATE before they read *)
(* anything they act on, so each call is one atomic step here.             *)
(*                                                                         *)
(* What is not atomic is time.  now() is the start of the transaction and  *)
(* is fixed before the account lock is obtained, so a call may apply with  *)
(* a timestamp older than that of a call that has already committed.       *)
(* Every action therefore runs at some t in Stamps, at most MaxLag behind  *)
(* the clock.                                                              *)
(*                                                                         *)
(* An account is the record                                                *)
(*   balance  credit_accounts.balance                                      *)
(*   entries  credit_ledger_entries, with the rows that hang off an entry: *)
(*            moves[l] is its credit_lot_allocations row for lot l when it *)
(*            is a debit and its credit_lot_restorations row when it is a  *)
(*            refund; debt is its credit_unallocated_debits row when it is *)
(*            a debit and its credit_debt_repayments row when it is a      *)
(*            credit                                                       *)
(*   lots     credit_lots in creation order; source is source_entry_id     *)
(* Amounts are whole multiples of the smallest credit (numeric, 6 dp).     *)
(***************************************************************************)
EXTENDS Integers, Sequences, FiniteSets, Sums

CONSTANTS
  Keys,        \* idempotency keys the callers have
  Amounts,     \* amounts a request may carry
  Operations,  \* operation names a grant may carry
  Buckets,     \* catalog buckets, as positive numbers
  Priority,    \* catalog_buckets.priority
  DefaultBucket,
  Expiries,    \* expiry times the grants may carry, besides none
  BucketArgs,  \* p_bucket_key of the requests, NoBucket when omitted
  Floors,      \* minimum balances the plans of the catalog set
  MaxCredit,   \* range of bursar.credit_numeric
  MaxNow,      \* bound on the clock
  MaxLag       \* longest time from BEGIN to the account lock

ASSUME CatalogAssumption ==
  /\ Buckets \subseteq Nat \ {0}
  /\ Priority \in [Buckets -> Nat]
  /\ DefaultBucket \in Buckets
  /\ BucketArgs \subseteq Buckets \cup {0}
  /\ 0 \in Floors
  /\ \A f \in Floors : f \in Int /\ f <= 0

ASSUME BoundsAssumption ==
  /\ Amounts \subseteq Nat \ {0}
  /\ MaxCredit \in Nat
  /\ MaxNow \in Nat
  /\ MaxLag \in Nat
  /\ Expiries \subseteq 1..MaxNow

VARIABLES
  now,        \* the database clock
  acct,       \* the account
  policyMin   \* minimum balance of the plan in force

vars == <<now, acct, policyMin>>
-----------------------------------------------------------------------------
(* Values *)

NoBucket == 0            \* p_bucket_key IS NULL
NoExpiry == MaxNow + 1   \* expires_at IS NULL: never due, ordered last
NoFloor == 1             \* p_minimum_balance IS NULL
NoEntry == 0             \* reference_entry_id IS NULL

CallerKey(k) == <<"caller", k, 0>>
\* Wrong on purpose: the key does not name the lot.
ExpiryKeyShared(l) == <<"expiry", 0, 0>>

ExpiryKey(l) == <<"expiry", l, 0>>
RefundExpiryKey(e, l) == <<"refund-expiry", e, l>>
RevocationKey(l) == <<"operation-revocation", l, 0>>
UsageLedgerKey(c) == <<"usage-ledger", c, 0>>

\* The request fields an idempotency digest covers.
Request(kind, amount, op, target, bucket, expires, floor) ==
  [kind |-> kind, amount |-> amount, op |-> op, target |-> target,
   bucket |-> bucket, expires |-> expires, floor |-> floor]

\* bursar.is_credit_numeric
InRange(x) == -MaxCredit <= x /\ x <= MaxCredit

Stamps == {t \in 0..now : now - t <= MaxLag}
-----------------------------------------------------------------------------
(* Reading an account *)

NumLots(b) == Len(b.lots)
Rem(b, l) == b.lots[l].granted - b.lots[l].consumed
IsDue(b, l, t) == b.lots[l].expires <= t /\ Rem(b, l) > 0
Due(b, t) == {l \in 1..NumLots(b) : IsDue(b, l, t)}

KeyUsed(b, k) == \E i \in 1..Len(b.entries) : b.entries[i].key = k
StoredRequest(b, k) ==
  b.entries[CHOOSE i \in 1..Len(b.entries) : b.entries[i].key = k].req

Moved(e, l) == IF l <= Len(e.moves) THEN e.moves[l] ELSE 0

\* Credits past their expiry that no sweep has posted yet.
DueTotal(b, t) ==
  SumTo([l \in 1..NumLots(b) |-> IF IsDue(b, l, t) THEN Rem(b, l) ELSE 0],
        NumLots(b))

RemTotal(b) == SumTo([l \in 1..NumLots(b) |-> Rem(b, l)], NumLots(b))

\* Total of the entries of one kind that reference entry e.
ReferencedBy(b, e, kind) ==
  SumTo([i \in 1..Len(b.entries) |->
           IF b.entries[i].ref = e /\ b.entries[i].kind = kind
             THEN b.entries[i].amount ELSE 0], Len(b.entries))

\* What the refunds of entry e have restored to lot l.
Restored(b, e, l) ==
  SumTo([i \in 1..Len(b.entries) |->
           IF b.entries[i].ref = e /\ b.entries[i].kind = "refund"
             THEN Moved(b.entries[i], l) ELSE 0], Len(b.entries))

\* ORDER BY priority, expires_at NULLS LAST, created_at, id
Precedes(b, j, l) ==
  LET p == Priority[b.lots[j].bucket]  q == Priority[b.lots[l].bucket]
      x == b.lots[j].expires           y == b.lots[l].expires
  IN  \/ p < q
      \/ p = q /\ x < y
      \/ p = q /\ x = y /\ j < l

SpendRank(b) ==
  [l \in 1..NumLots(b) |->
     Cardinality({j \in 1..NumLots(b) : Precedes(b, j, l)})]

\* The orders in which a loop may visit a set of lots.
Orders(S) ==
  {q \in [1..Cardinality(S) -> S] : \A i, j \in DOMAIN q : q[i] = q[j] => i = j}

\* ORDER BY expires_at, id
ExpiryOrders(b, S) ==
  {q \in Orders(S) : \A i, j \in DOMAIN q :
     i < j => \/ b.lots[q[i]].expires < b.lots[q[j]].expires
              \/ b.lots[q[i]].expires = b.lots[q[j]].expires /\ q[i] < q[j]}

SpendOrders(b, S) ==
  {q \in Orders(S) : \A i, j \in DOMAIN q : i < j => Precedes(b, q[i], q[j])}
-----------------------------------------------------------------------------
(* Writing an account *)

\* INSERT INTO credit_ledger_entries and its rows, UPDATE credit_accounts.
Posted(b, e, lots) ==
  [balance |-> b.balance + e.amount,
   entries |-> Append(b.entries, e),
   lots    |-> lots]

Entry(b, amount, key, req, ref, moves, debt) ==
  [kind |-> req.kind, amount |-> amount, after |-> b.balance + amount,
   key |-> key, req |-> req, ref |-> ref, moves |-> moves, debt |-> debt]

NewLot(source, bucket, granted, expires) ==
  [source |-> source, bucket |-> bucket, granted |-> granted,
   consumed |-> 0, expires |-> expires]

NoMoves(b) == [l \in 1..NumLots(b) |-> 0]

\* UPDATE credit_lots SET consumed = consumed + take
Consumed(b, take) ==
  [l \in 1..NumLots(b) |->
     [b.lots[l] EXCEPT !.consumed = b.lots[l].consumed + take[l]]]

GaveBack(b, give) ==
  [l \in 1..NumLots(b) |->
     [b.lots[l] EXCEPT !.consumed = b.lots[l].consumed - give[l]]]

(***************************************************************************)
(* targeted_lot_debit: one lot loses exactly the amount asked for.  A      *)
(* debit d names its lot, kind, amount and key.                            *)
(***************************************************************************)
TargetedRequest(d) ==
  Request(d.kind, d.amount, d.kind, d.lot, NoBucket, NoExpiry, NoFloor)

TargetedRaises(b, d) ==
  IF KeyUsed(b, d.key)
    THEN StoredRequest(b, d.key) # TargetedRequest(d)
    ELSE Rem(b, d.lot) < d.amount \/ ~InRange(b.balance - d.amount)

\* Wrong on purpose: a replayed key posts again.
TargetedTwice(b, d) ==
  LET take == [l \in 1..NumLots(b) |-> IF l = d.lot THEN d.amount ELSE 0]
  IN  Posted(b, Entry(b, -d.amount, d.key, TargetedRequest(d), NoEntry, take, 0),
             Consumed(b, take))

Targeted(b, d) ==
  IF KeyUsed(b, d.key) THEN b
  ELSE LET take == [l \in 1..NumLots(b) |-> IF l = d.lot THEN d.amount ELSE 0]
       IN  Posted(b, Entry(b, -d.amount, d.key, TargetedRequest(d),
                           NoEntry, take, 0),
                  Consumed(b, take))

\* A FOR loop of targeted_lot_debit calls: the account after each of them.
TargetedRun(b, ds) ==
  LET run[i \in 0..Len(ds)] == IF i = 0 THEN b ELSE Targeted(run[i-1], ds[i])
  IN  run

AfterTargeted(b, ds) == TargetedRun(b, ds)[Len(ds)]

RunRaises(b, ds) ==
  \E i \in 1..Len(ds) : TargetedRaises(TargetedRun(b, ds)[i-1], ds[i])

\* The debits that expire, or revoke, all that is left in the lots of q.
ExpiryDebits(b, q) ==
  [i \in 1..Len(q) |-> [lot |-> q[i], kind |-> "expiry",
                       amount |-> Rem(b, q[i]), key |-> ExpiryKey(q[i])]]

RevocationDebits(b, q) ==
  [i \in 1..Len(q) |-> [lot |-> q[i], kind |-> "revocation",
                       amount |-> Rem(b, q[i]), key |-> RevocationKey(q[i])]]
-----------------------------------------------------------------------------
(* post_credit *)

\* Lots a debit at time t may take from, and what each has.
Spendable(b, t, bucket) ==
  [l \in 1..NumLots(b) |->
     IF b.lots[l].expires > t /\ (bucket = NoBucket \/ b.lots[l].bucket = bucket)
       THEN Rem(b, l) ELSE 0]

\* Only an administrative adjustment is confined to the bucket it names.
DebitBucket(r) == IF r.kind = "adjustment" THEN r.bucket ELSE NoBucket

Floor(r) == IF r.floor = NoFloor THEN policyMin ELSE r.floor

\* Wrong on purpose: the leases' holds are not subtracted.
DebitErrorUnheld(b, r, t, held) ==
  LET avail == SumTo(Spendable(b, t, DebitBucket(r)), NumLots(b))
  IN  CASE Floor(r) < policyMin -> "policy_mismatch"
        [] \/ b.balance - r.amount < Floor(r)
           \/ Floor(r) >= 0 /\ avail < r.amount -> "insufficient_credits"
        [] ~InRange(b.balance - r.amount) -> "balance_out_of_range"
        [] OTHER -> "ok"

\* held is the sum of the active leases' holds on the account.
DebitError(b, r, t, held) ==
  LET avail == SumTo(Spendable(b, t, DebitBucket(r)), NumLots(b))
      reserved == IF r.kind = "usage" THEN held ELSE 0
  IN  CASE Floor(r) < policyMin -> "policy_mismatch"
        [] \/ b.balance - r.amount - reserved < Floor(r)
           \/ Floor(r) >= 0 /\ avail - reserved < r.amount
             -> "insufficient_credits"
        [] ~InRange(b.balance - r.amount) -> "balance_out_of_range"
        [] OTHER -> "ok"

\* The debit takes from the lots in spend order; the rest is unallocated.
Debited(b, r, key, t) ==
  LET n == NumLots(b)
      take == Fill(Spendable(b, t, DebitBucket(r)), SpendRank(b), r.amount, n)
  IN  Posted(b, Entry(b, -r.amount, key, r, NoEntry, take,
                      r.amount - SumTo(take, n)),
             Consumed(b, take))

CreditError(b, r, t) ==
  CASE r.expires <= t -> "invalid_expiry"
    [] ~InRange(b.balance + r.amount) -> "balance_out_of_range"
    [] OTHER -> "ok"

\* Wrong on purpose: the lot is not reduced by the debt repaid.
CreditedInFull(b, r, key) ==
  LET repay == Least(r.amount, Greatest(-b.balance, 0))
      bucket == IF r.bucket = NoBucket THEN DefaultBucket ELSE r.bucket
  IN  Posted(b, Entry(b, r.amount, key, r, NoEntry, NoMoves(b), repay),
             Append(b.lots, NewLot(Len(b.entries) + 1, bucket, r.amount, r.expires)))

\* A credit first repays a negative balance; only the rest becomes a lot.
Credited(b, r, key) ==
  LET repay == Least(r.amount, Greatest(-b.balance, 0))
      bucket == IF r.bucket = NoBucket THEN DefaultBucket ELSE r.bucket
      lot == NewLot(Len(b.entries) + 1, bucket, r.amount - repay, r.expires)
  IN  Posted(b, Entry(b, r.amount, key, r, NoEntry, NoMoves(b), repay),
             IF r.amount > repay THEN Append(b.lots, lot) ELSE b.lots)

\* Wrong on purpose: the balance read before the loop is used after it.
AfterExpiryStale(b, t) ==
  {[AfterTargeted(b, ExpiryDebits(b, q)) EXCEPT !.balance = b.balance] :
     q \in ExpiryOrders(b, Due(b, t))}

(***************************************************************************)
(* Both halves of post_credit first expire the account's due lots; that    *)
(* is kept when the posting itself is then refused.  A key that is already *)
(* in the ledger returns the stored entry, or idempotency_conflict, before *)
(* anything is written.                                                    *)
(***************************************************************************)
AfterExpiry(b, t) ==
  {AfterTargeted(b, ExpiryDebits(b, q)) :
     q \in {p \in ExpiryOrders(b, Due(b, t)) : ~RunRaises(b, ExpiryDebits(b, p))}}

CreditOutcome(b, t, key, r) ==
  LET error == CreditError(b, r, t)
  IN  [acct  |-> IF error = "ok" THEN Credited(b, r, key) ELSE b,
       error |-> error]

DebitOutcome(b, t, key, r, held) ==
  LET error == DebitError(b, r, t, held)
  IN  [acct  |-> IF error = "ok" THEN Debited(b, r, key, t) ELSE b,
       error |-> error]

PostCredit(t, k, r) ==
  /\ ~KeyUsed(acct, CallerKey(k))
  /\ \E b \in AfterExpiry(acct, t) :
       acct' = CreditOutcome(b, t, CallerKey(k), r).acct
  /\ UNCHANGED <<now, policyMin>>

PostDebit(t, k, r, held) ==
  /\ ~KeyUsed(acct, CallerKey(k))
  /\ \E b \in AfterExpiry(acct, t) :
       acct' = DebitOutcome(b, t, CallerKey(k), r, held).acct
  /\ UNCHANGED <<now, policyMin>>
-----------------------------------------------------------------------------
(* refund_credit_by_entry and the refund_credit it delegates to *)

IsRefundable(b, e) ==
  /\ b.entries[e].amount < 0
  /\ b.entries[e].kind \in {"usage", "reservation", "adjustment"}

\* An amount of 0 stands for the omitted amount: all that is left.
RefundAmount(b, e, amount) ==
  IF amount = 0 THEN -b.entries[e].amount - ReferencedBy(b, e, "refund")
                ELSE amount

\* Wrong on purpose: earlier refunds of the entry are not counted.
RefundErrorOnce(b, e, amount) ==
  CASE amount <= 0 -> "nothing_to_refund"
    [] amount > -b.entries[e].amount -> "refund_exceeds_original"
    [] ~InRange(b.balance + amount) -> "balance_out_of_range"
    [] OTHER -> "ok"

RefundError(b, e, amount) ==
  CASE amount <= 0 -> "nothing_to_refund"
    [] ReferencedBy(b, e, "refund") + amount > -b.entries[e].amount
         -> "refund_exceeds_original"
    [] ~InRange(b.balance + amount) -> "balance_out_of_range"
    [] OTHER -> "ok"

\* What each lot still has to get back of entry e.
OpenAllocation(b, e) ==
  [l \in 1..NumLots(b) |-> Moved(b.entries[e], l) - Restored(b, e, l)]

(***************************************************************************)
(* The allocations are visited ORDER BY created_at DESC, id DESC.  All     *)
(* allocations of a debit have the created_at of its transaction, and      *)
(* uuid_v7 ids made within one millisecond are in random order, so any     *)
(* order of the lots is possible.                                          *)
(***************************************************************************)
RestoreRanks(b) ==
  {r \in [1..NumLots(b) -> 1..NumLots(b)] :
     \A i, j \in 1..NumLots(b) : r[i] = r[j] => i = j}

Give(b, e, amount, rank) ==
  Fill(OpenAllocation(b, e), rank, amount, NumLots(b))

Refunded(b, e, amount, key, req, rank) ==
  LET n == NumLots(b)
      give == Give(b, e, amount, rank)
      left == amount - SumTo(give, n)
      repay == Least(left, Greatest(-b.balance, 0))
      lot == NewLot(Len(b.entries) + 1, DefaultBucket, left - repay, NoExpiry)
  IN  Posted(b, Entry(b, amount, key, req, e, give, repay),
             IF left > repay THEN Append(GaveBack(b, give), lot)
                             ELSE GaveBack(b, give))

\* Wrong on purpose: what is restored to an expired lot stays.
RefundExpiryDebitsNone(b, give, q) == <<>>

\* Restored credits of lots that are past their expiry are expired again.
RefundExpiryDebits(b, give, q) ==
  [i \in 1..Len(q) |-> [lot |-> q[i], kind |-> "expiry", amount |-> give[q[i]],
                       key |-> RefundExpiryKey(Len(b.entries) + 1, q[i])]]

Refund(t, k, e, amount) ==
  LET b == acct
      key == CallerKey(k)
      req == Request("refund", amount, "refund", e, NoBucket, NoExpiry, NoFloor)
      amt == RefundAmount(b, e, amount)
  IN  /\ IsRefundable(b, e)
      /\ ~KeyUsed(b, key)
      /\ RefundError(b, e, amt) = "ok"
      /\ \E rank \in RestoreRanks(b) :
           LET give == Give(b, e, amt, rank)
               mid == Refunded(b, e, amt, key, req, rank)
               late == {l \in 1..NumLots(b) : give[l] > 0 /\ b.lots[l].expires <= t}
           IN  \E q \in Orders(late) :
                 LET ds == RefundExpiryDebits(b, give, q)
                 IN  /\ ~RunRaises(mid, ds)
                     /\ acct' = AfterTargeted(mid, ds)
      /\ UNCHANGED <<now, policyMin>>
-----------------------------------------------------------------------------
(* clawback_credit_source, revoke_lot, revoke_subject_credits_by_operation, *)
(* sweep_expired_lots                                                       *)

IsCreditSource(b, e) ==
  /\ b.entries[e].amount > 0
  /\ b.entries[e].kind \in {"grant", "purchase", "refund", "adjustment"}

ClawbackError(b, e, amount) ==
  CASE -ReferencedBy(b, e, "refund_clawback") + amount > b.entries[e].amount
         -> "clawback_exceeds_credit_source"
    [] ~InRange(b.balance - amount) -> "balance_out_of_range"
    [] OTHER -> "ok"

\* The source's own lot gives what it still has; the rest is refund debt.
ClawedBack(b, e, amount, key, req) ==
  LET take == [l \in 1..NumLots(b) |->
                 IF b.lots[l].source = e THEN Least(amount, Rem(b, l)) ELSE 0]
  IN  Posted(b, Entry(b, -amount, key, req, e, take,
                      amount - SumTo(take, NumLots(b))),
             Consumed(b, take))

Clawback(k, e, amount) ==
  LET req == Request("refund_clawback", amount, "billing_refund_clawback", e,
                     NoBucket, NoExpiry, NoFloor)
  IN  /\ IsCreditSource(acct, e)
      /\ ~KeyUsed(acct, CallerKey(k))
      /\ ClawbackError(acct, e, amount) = "ok"
      /\ acct' = ClawedBack(acct, e, amount, CallerKey(k), req)
      /\ UNCHANGED <<now, policyMin>>

RevokeLot(k, l, amount) ==
  LET d == [lot |-> l, kind |-> "revocation", amount |-> amount,
            key |-> CallerKey(k)]
  IN  /\ ~TargetedRaises(acct, d)
      /\ acct' = Targeted(acct, d)
      /\ UNCHANGED <<now, policyMin>>

LotsOfOperation(b, op) ==
  {l \in 1..NumLots(b) :
     Rem(b, l) > 0 /\ b.entries[b.lots[l].source].req.op = op}

RevokeByOperation(op) ==
  \E q \in SpendOrders(acct, LotsOfOperation(acct, op)) :
    LET ds == RevocationDebits(acct, q)
    IN  /\ ~RunRaises(acct, ds)
        /\ acct' = AfterTargeted(acct, ds)
        /\ UNCHANGED <<now, policyMin>>

\* One batch of at most limit due lots; an exception rolls the batch back.
Sweep(t, limit) ==
  \E q \in ExpiryOrders(acct, Due(acct, t)) :
    LET batch == SubSeq(q, 1, Least(limit, Len(q)))
        ds == ExpiryDebits(acct, batch)
    IN  /\ ~RunRaises(acct, ds)
        /\ acct' = AfterTargeted(acct, ds)
        /\ UNCHANGED <<now, policyMin>>
-----------------------------------------------------------------------------
(* The environment *)

AssignPlan(f) ==
  /\ policyMin' = f
  /\ UNCHANGED <<now, acct>>

Tick ==
  /\ now < MaxNow
  /\ now' = now + 1
  /\ UNCHANGED <<acct, policyMin>>

\* The requests the SDKs make of post_credit.
Grants ==
  {Request("grant", a, op, NoEntry, u, x, 0) :
     a \in Amounts, op \in Operations, u \in BucketArgs, x \in Expiries \cup {NoExpiry}}

Usages ==
  {Request("usage", a, "usage", NoEntry, DefaultBucket, NoExpiry, NoFloor) :
     a \in Amounts}

Adjustments ==
  {Request("adjustment", a, "adjustment", NoEntry, u, NoExpiry, 0) :
     a \in Amounts, u \in BucketArgs}

Init ==
  /\ now = 0
  /\ acct = [balance |-> 0, entries |-> <<>>, lots |-> <<>>]
  /\ policyMin = 0

SweepAny == \E t \in Stamps, limit \in 1..2 : Sweep(t, limit)

Next ==
  \/ \E t \in Stamps, k \in Keys, r \in Grants : PostCredit(t, k, r)
  \/ \E t \in Stamps, k \in Keys, r \in Usages \cup Adjustments :
       PostDebit(t, k, r, 0)
  \/ \E t \in Stamps, k \in Keys, e \in 1..Len(acct.entries),
        a \in Amounts \cup {0} : Refund(t, k, e, a)
  \/ \E k \in Keys, e \in 1..Len(acct.entries), a \in Amounts :
       Clawback(k, e, a)
  \/ \E k \in Keys, l \in 1..NumLots(acct), a \in Amounts : RevokeLot(k, l, a)
  \/ \E op \in Operations : RevokeByOperation(op)
  \/ SweepAny
  \/ \E f \in Floors : AssignPlan(f)
  \/ Tick

Spec == Init /\ [][Next]_vars

\* The sweep is scheduled (or run lazily on reads), so it is not put off for ever.
FairSpec == Spec /\ WF_vars(SweepAny)
-----------------------------------------------------------------------------
(* Properties *)

KeySet ==
  {CallerKey(k) : k \in Keys}
    \cup ({"expiry", "operation-revocation", "usage-ledger"} \X Nat \X {0})
    \cup ({"refund-expiry"} \X Nat \X Nat)

Kinds ==
  {"grant", "usage", "adjustment", "expiry", "revocation", "refund",
   "refund_clawback"}

OperationNames == Operations \cup Kinds \cup {"billing_refund_clawback"}

RequestSet ==
  [kind : Kinds, amount : Nat, op : OperationNames, target : Nat,
   bucket : Buckets \cup {NoBucket}, expires : Nat, floor : Int]

EntrySet ==
  [kind : Kinds, amount : Int, after : Int, key : KeySet, req : RequestSet,
   ref : Nat, moves : Seq(Int), debt : Int]

LotSet ==
  [source : Nat, bucket : Buckets, granted : Nat, consumed : Int, expires : Nat]

AccountSet == [balance : Int, entries : Seq(EntrySet), lots : Seq(LotSet)]

\* Types of the variables.
TypeOK ==
  /\ now \in 0..MaxNow
  /\ acct \in AccountSet
  /\ policyMin \in Floors

\* Every entry continues the balance of the one before it, and the cached
\* balance is the last entry's: what check_ledger_balance enforces row by row,
\* across calls that post several entries (expiry, refund with re-expiry).
ChainOK(b) ==
  /\ \A i \in 1..Len(b.entries) :
       b.entries[i].after =
         (IF i = 1 THEN 0 ELSE b.entries[i-1].after) + b.entries[i].amount
  /\ b.balance = IF b.entries = <<>> THEN 0 ELSE b.entries[Len(b.entries)].after

LedgerChain == ChainOK(acct)

\* No lot is ever overdrawn or restored past what it was granted
\* (credit_lots: consumed >= 0 AND consumed <= granted).
LotsInBounds(b) ==
  \A l \in 1..Len(b.lots) :
    /\ 0 <= b.lots[l].consumed
    /\ b.lots[l].consumed <= b.lots[l].granted

\* Unallocated debits less repayments: what the account owes.
DebtOf(e) == IF e.amount < 0 THEN e.debt ELSE -e.debt
Debt(b) == SumTo([i \in 1..Len(b.entries) |-> DebtOf(b.entries[i])], Len(b.entries))

\* The cached balance is what the lots hold less what the account owes,
\* whatever mixture of spending, expiry, refunds and clawbacks led there.
BalanceExplained(b) == b.balance = RemTotal(b) - Debt(b)

BalanceIsLotsLessDebt == BalanceExplained(acct)

\* Repayments never exceed what was owed, so the lots always cover the balance:
\* a grant or refund cannot repay the same debt twice.
DebtNeverOverpaid(b) == Debt(b) >= 0

\* consumed of a lot is exactly what the debits allocated to it and no refund
\* has restored: the provenance of every spent credit is kept.
ConsumedIsAllocated(b) ==
  \A l \in 1..NumLots(b) :
    b.lots[l].consumed =
      SumTo([i \in 1..Len(b.entries) |->
               IF b.entries[i].amount < 0 THEN Moved(b.entries[i], l)
                                          ELSE -Moved(b.entries[i], l)],
            Len(b.entries))

\* What an entry created as a lot of its own.
LotFrom(b, i) ==
  SumTo([l \in 1..NumLots(b) |->
           IF b.lots[l].source = i THEN b.lots[l].granted ELSE 0], NumLots(b))

\* An entry's amount is split without remainder into lot movements, debt (or
\* repayment) and, for a credit, the lot it created.
EntryFullySplit(b) ==
  \A i \in 1..Len(b.entries) :
    LET e == b.entries[i]
        moved == SumTo(e.moves, Len(e.moves))
    IN  /\ e.debt >= 0
        /\ (IF e.amount < 0 THEN -e.amount ELSE e.amount)
             = moved + e.debt + LotFrom(b, i)

\* The refunds of a debit never exceed it, in total and lot by lot, and the
\* clawbacks of a credit never exceed that credit.
CorrectionsBounded(b) ==
  \A i \in 1..Len(b.entries) :
    /\ b.entries[i].amount < 0 =>
         /\ ReferencedBy(b, i, "refund") <= -b.entries[i].amount
         /\ \A l \in 1..NumLots(b) : Restored(b, i, l) <= Moved(b.entries[i], l)
    /\ b.entries[i].amount > 0 =>
         -ReferencedBy(b, i, "refund_clawback") <= b.entries[i].amount

\* Every credit is explained: lots stay within bounds, what a lot has lost is what
\* its debits took and its refunds did not restore, every entry is split without
\* remainder, no debt is repaid twice, and corrections never exceed what they
\* correct, whatever spends, expires, refunds and claws back in between.
LotsExplained ==
  /\ LotsInBounds(acct)
  /\ ConsumedIsAllocated(acct)
  /\ EntryFullySplit(acct)
  /\ DebtNeverOverpaid(acct)
  /\ CorrectionsBounded(acct)

\* A key posts at most one entry (UNIQUE (account_id, idempotency_key)), so a
\* retried call cannot move the balance twice.
KeysUnique(b) ==
  \A i, j \in 1..Len(b.entries) : b.entries[i].key = b.entries[j].key => i = j

KeysPostOnce == KeysUnique(acct)

\* A usage posting leaves the plan's minimum covered by credits that have not
\* expired: "a credit line cannot spend against expired credits".
UsageNeverSpendsExpired ==
  [][(/\ Len(acct'.entries) > Len(acct.entries)
      /\ acct'.entries[Len(acct'.entries)].kind = "usage")
       => acct'.balance - DueTotal(acct', now) >= policyMin]_vars

\* No step makes credits of a lot available again once the lot is past its
\* expiry, by as much as a transaction may lag behind the clock: refunds expire
\* the portion they restore in the same transaction.
ExpiredNeverRegains ==
  [][\A l \in 1..NumLots(acct) :
       acct.lots[l].expires <= now - MaxLag => Rem(acct', l) <= Rem(acct, l)]_vars

\* Expired credit is gone: it is neither spent by usage nor made available
\* again by a refund.
ExpiredStaysGone == UsageNeverSpendsExpired /\ ExpiredNeverRegains

\* Credits past their expiry leave the balance: the sweep gets to every lot.
DueLotsExpire ==
  \A l \in 1..2 * Cardinality(Keys) :
    (l <= NumLots(acct) /\ IsDue(acct, l, now))
      ~> (l <= NumLots(acct) /\ ~IsDue(acct, l, now))
=============================================================================
