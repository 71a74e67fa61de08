--------------------------- MODULE UsageAdmission ---------------------------
(***************************************************************************)
(* Charging and leasing against one account: usage charges, the plan's     *)
(* included-credit windows, and the leases that hold credit and allowance  *)
(* while work runs.  The handlers are those of 010, 013, 014 and 016; they *)
(* lock the account row first, so each is one step, at a transaction time  *)
(* t that may lag the clock.  expire_leases takes no account lock; it      *)
(* touches only leases and windows, and skips rows that others hold.       *)
(*                                                                         *)
(* A plan is named by its minimum balance, policyMin; an account always    *)
(* has one.  Allowances reset on calendar periods, so the windows of all   *)
(* plans have the same bounds: a window is <<plan, period>>.               *)
(*                                                                         *)
(*   leases   credit_leases in creation order                              *)
(*   windows  allowance_windows: a row per window touched so far           *)
(*   charges  credit_usage_charges; lease is 0 for a direct charge, and    *)
(*            windowed says whether the stored digest covers a window      *)
(***************************************************************************)
EXTENDS CreditLedger

CONSTANTS
  ChargeKeys,         \* idempotency keys of usage charges and settlements
  LeaseKeys,          \* idempotency keys of lease requests
  Period,             \* length of an allowance period
  Allowance,          \* credit_allowance_amount of each plan
  AllowancePriority,  \* credit_allowance_priority; lower spends first
  TTLs,               \* lease lifetimes the callers ask for
  MaxInFlight,        \* max_in_flight of the admission policy
  PlanChanges,        \* plans the account may be moved to
  LedgerCalls         \* ledger operations made beside charging and leasing

ASSUME AdmissionAssumption ==
  /\ Period \in Nat \ {0}
  /\ Allowance \in [Floors -> Nat]
  /\ AllowancePriority \in Nat
  /\ TTLs \subseteq Nat \ {0}
  /\ MaxInFlight \in Nat \ {0}
  /\ PlanChanges \subseteq Floors
  /\ LedgerCalls \subseteq {"grant", "adjustment", "refund", "clawback", "sweep"}

VARIABLES leases, windows, charges

usage == <<leases, windows, charges>>
ledger == <<now, acct, policyMin>>
allVars == <<now, acct, policyMin, leases, windows, charges>>
-----------------------------------------------------------------------------
(* Holds *)

IsHolding(l, t) == l.status = "active" /\ l.expires > t
Hold(l) == l.amount - l.allowance

\* What the active leases other than i hold at time t; i = 0 leaves none out.
HeldExcept(ls, t, i) ==
  SumTo([j \in 1..Len(ls) |->
           IF j # i /\ IsHolding(ls[j], t) THEN Hold(ls[j]) ELSE 0], Len(ls))

InFlight(ls, t) == Cardinality({j \in 1..Len(ls) : IsHolding(ls[j], t)})

DueLeases(t) ==
  {j \in 1..Len(leases) : leases[j].status = "active" /\ leases[j].expires <= t}

WithStatus(S, status) ==
  [j \in 1..Len(leases) |->
     IF j \in S THEN [leases[j] EXCEPT !.status = status] ELSE leases[j]]

\* Allowance that the leases of S have reserved in window x.
ReservedBy(S, x) ==
  SumTo([j \in 1..Len(leases) |->
           IF j \in S /\ leases[j].window = x THEN leases[j].allowance ELSE 0],
        Len(leases))

\* The UPDATE raises when a window has less reserved than is released.
CanRelease(S) == \A x \in DOMAIN windows : ReservedBy(S, x) <= windows[x].reserved

\* Wrong on purpose: the window of the present period is released, not the reserved one.
ReleasedNow(S) ==
  [x \in DOMAIN windows |->
     [windows[x] EXCEPT !.reserved = windows[x].reserved
        - SumTo([j \in 1..Len(leases) |->
                   IF j \in S /\ x = <<policyMin, now \div Period>>
                     THEN leases[j].allowance ELSE 0],
                Len(leases))]]

Released(S) ==
  [x \in DOMAIN windows |->
     [windows[x] EXCEPT !.reserved = windows[x].reserved - ReservedBy(S, x)]]
-----------------------------------------------------------------------------
(* Allowance windows *)

PeriodOf(t) == t \div Period
CurrentWindow(t) == <<policyMin, PeriodOf(t)>>

\* INSERT ... ON CONFLICT DO NOTHING
WithWindow(w, x) ==
  [y \in DOMAIN w \cup {x} |->
     IF y \in DOMAIN w THEN w[y] ELSE [reserved |-> 0, consumed |-> 0]]

\* available_credit_before_priority
CreditBeforeAllowance(t, i) ==
  Greatest(SumTo([l \in 1..NumLots(acct) |->
                    IF /\ acct.lots[l].expires > t
                       /\ Priority[acct.lots[l].bucket] < AllowancePriority
                      THEN Rem(acct, l) ELSE 0], NumLots(acct))
             - HeldExcept(leases, t, i), 0)

\* The part of amount that the allowance covers, of the room the window has.
Covered(amount, room, before) ==
  Least(Least(amount, Greatest(room, 0)), Greatest(amount - before, 0))

\* The UPDATE of charge_usage_with_window names the period but not the plan.
Taken(w, period, free) ==
  [x \in DOMAIN w |->
     IF /\ x[2] = period
        /\ w[x].consumed + w[x].reserved + free <= Allowance[x[1]]
       THEN [w[x] EXCEPT !.consumed = w[x].consumed + free] ELSE w[x]]

PutBack(w, period, free) ==
  [x \in DOMAIN w |->
     IF x[2] = period /\ w[x].consumed >= free
       THEN [w[x] EXCEPT !.consumed = w[x].consumed - free] ELSE w[x]]
-----------------------------------------------------------------------------
(* charge_usage and charge_usage_for_operation *)

ChargeKeyUsed(k) == \E c \in 1..Len(charges) : charges[c].key = k

UsageRequest(amount, floor) ==
  Request("usage", amount, "usage", NoEntry, DefaultBucket, NoExpiry, floor)

\* Nothing is posted, and no lot expired, when the allowance covers it all.
ChargeOutcomes(t, net, floor, held) ==
  IF net = 0 THEN {[acct |-> acct, error |-> "ok"]}
  ELSE {DebitOutcome(b, t, UsageLedgerKey(Len(charges) + 1),
                     UsageRequest(net, floor), held) : b \in AfterExpiry(acct, t)}

Charge(k, requested, covered, windowed, window, lease) ==
  [key |-> k, requested |-> requested, covered |-> covered,
   windowed |-> windowed, window |-> window, lease |-> lease]

ChargeForOperation(t, k, requested) ==
  LET x == CurrentWindow(t)
      w == WithWindow(windows, x)
      free == Covered(requested, Allowance[x[1]] - w[x].reserved - w[x].consumed,
                      CreditBeforeAllowance(t, 0))
      taken == IF free > 0 THEN Taken(w, x[2], free) ELSE w
  IN  /\ ~ChargeKeyUsed(k)
      /\ \E o \in ChargeOutcomes(t, requested - free, NoFloor,
                                 HeldExcept(leases, t, 0)) :
           /\ acct' = o.acct
           /\ IF o.error = "ok"
                THEN /\ windows' = taken
                     /\ charges' = Append(charges,
                          Charge(k, requested, free, free > 0, x, 0))
                ELSE /\ windows' = IF free > 0 THEN PutBack(taken, x[2], free) ELSE w
                     /\ charges' = charges
      /\ UNCHANGED <<now, policyMin, leases>>

\* A retry digests the window its charge falls in, when there is a row for it.
ReplayOutcome(c) ==
  IF charges[c].windowed = (charges[c].window \in DOMAIN windows)
    THEN "replayed" ELSE "idempotency_conflict"
-----------------------------------------------------------------------------
(* Leases *)

LeaseKeyUsed(k) == \E j \in 1..Len(leases) : leases[j].key = k

\* Wrong on purpose: the other leases' holds are not counted.
LeaseErrorUnheld(t, estimate, hold, w) ==
  CASE acct.balance - DueTotal(acct, t) - (estimate - hold) < policyMin
         -> "insufficient_headroom"
    [] InFlight(leases, t) >= MaxInFlight -> "max_concurrent_reached"
    [] OTHER -> "ok"

\* w is the state of the lease's window and hold what it is to reserve there.
LeaseError(t, estimate, hold, w) ==
  LET headroom == acct.balance - DueTotal(acct, t) - HeldExcept(leases, t, 0)
  IN  CASE headroom - (estimate - hold) < policyMin -> "insufficient_headroom"
        [] InFlight(leases, t) >= MaxInFlight -> "max_concurrent_reached"
        [] w.reserved + w.consumed + hold > Allowance[policyMin] -> "allowance_race"
        [] OTHER -> "ok"

\* Leases past their time are expired first, whatever becomes of the request.
CreateLease(t, k, estimate, ttl) ==
  LET stale == DueLeases(t)
      x == CurrentWindow(t)
      w == WithWindow(Released(stale), x)
      hold == Covered(estimate, Allowance[x[1]] - w[x].reserved - w[x].consumed,
                      CreditBeforeAllowance(t, 0))
      lease == [key |-> k, window |-> x, amount |-> estimate, allowance |-> hold,
                floor |-> policyMin, expires |-> t + ttl, status |-> "active"]
  IN  /\ CanRelease(stale)
      /\ IF LeaseKeyUsed(k)
           THEN /\ leases' = WithStatus(stale, "expired")
                /\ windows' = Released(stale)
           ELSE IF LeaseError(t, estimate, hold, w[x]) = "ok"
             THEN /\ leases' = Append(WithStatus(stale, "expired"), lease)
                  /\ windows' = [w EXCEPT ![x].reserved = w[x].reserved + hold]
             ELSE /\ leases' = WithStatus(stale, "expired")
                  /\ windows' = w
      /\ UNCHANGED <<ledger, charges>>

EndLeases(S, status) ==
  /\ CanRelease(S)
  /\ leases' = WithStatus(S, status)
  /\ windows' = Released(S)
  /\ UNCHANGED <<ledger, charges>>

\* What settling lease i for actual does to the account, and its allowance.
SettlementCover(t, i, actual) ==
  LET x == leases[i].window
  IN  Covered(actual, Allowance[x[1]] - windows[x].consumed
                        - (windows[x].reserved - leases[i].allowance),
              CreditBeforeAllowance(t, i))

SettleOutcomes(t, i, actual) ==
  ChargeOutcomes(t, actual - SettlementCover(t, i, actual), leases[i].floor,
                 HeldExcept(leases, t, i))

\* Wrong on purpose: the status of the lease is not looked at.
SettleAgain(t, i, k, actual) ==
  /\ ~ChargeKeyUsed(k)
  /\ \E o \in SettleOutcomes(t, i, actual) :
       /\ o.error = "ok"
       /\ acct' = o.acct
       /\ leases' = WithStatus({i}, "settled")
       /\ charges' = Append(charges,
            Charge(k, actual, SettlementCover(t, i, actual), FALSE, leases[i].window, i))
  /\ UNCHANGED <<now, policyMin, windows>>

\* A charge key that is taken, or a refused debit, leaves the lease active;
\* an inconsistent window raises and undoes the call.
Settle(t, i, k, actual) ==
  LET x == leases[i].window
      cover == SettlementCover(t, i, actual)
  IN  /\ IsHolding(leases[i], t)
      /\ ~ChargeKeyUsed(k)
      /\ windows[x].reserved >= leases[i].allowance
      /\ \E o \in SettleOutcomes(t, i, actual) :
           /\ acct' = o.acct
           /\ IF o.error = "ok"
                THEN /\ windows[x].consumed + cover
                          <= Allowance[x[1]]
                               - (windows[x].reserved - leases[i].allowance)
                     /\ leases' = WithStatus({i}, "settled")
                     /\ windows' = [Released({i}) EXCEPT
                          ![x].consumed = windows[x].consumed + cover]
                     /\ charges' = Append(charges,
                          Charge(k, actual, cover, FALSE, x, i))
                ELSE UNCHANGED usage
      /\ UNCHANGED <<now, policyMin>>

SettleLease(t, i, k, actual) ==
  \/ Settle(t, i, k, actual)
  \/ i \in DueLeases(t) /\ EndLeases({i}, "expired")

Renew(t, i, ttl) ==
  /\ IsHolding(leases[i], t)
  /\ leases' = [leases EXCEPT ![i].expires = Greatest(leases[i].expires, t + ttl)]
  /\ UNCHANGED <<ledger, windows, charges>>

RenewLease(t, i, ttl) ==
  \/ Renew(t, i, ttl)
  \/ i \in DueLeases(t) /\ EndLeases({i}, "expired")

\* Releasing does not look at the expiry time.
ReleaseLease(i) ==
  /\ leases[i].status = "active"
  /\ EndLeases({i}, "released")

\* Wrong on purpose: a lease is due only after its expiry time.
ExpireLeasesLate(t) ==
  \E S \in SUBSET {j \in DueLeases(t) : leases[j].expires < t} :
    S # {} /\ EndLeases(S, "expired")

\* A batch of due leases; SKIP LOCKED may leave any of them out.
ExpireLeases(t) ==
  \E S \in SUBSET DueLeases(t) : S # {} /\ EndLeases(S, "expired")
-----------------------------------------------------------------------------
LedgerCall ==
  \/ /\ "grant" \in LedgerCalls
     /\ \E t \in Stamps, k \in Keys, r \in Grants : PostCredit(t, k, r)
  \/ /\ "adjustment" \in LedgerCalls
     /\ \E t \in Stamps, k \in Keys, r \in Adjustments :
          PostDebit(t, k, r, HeldExcept(leases, t, 0))
  \/ /\ "refund" \in LedgerCalls
     /\ \E t \in Stamps, k \in Keys, e \in 1..Len(acct.entries) : Refund(t, k, e, 0)
  \/ /\ "clawback" \in LedgerCalls
     /\ \E k \in Keys, e \in 1..Len(acct.entries), a \in Amounts : Clawback(k, e, a)
  \/ "sweep" \in LedgerCalls /\ SweepAny
  \/ \E f \in PlanChanges : AssignPlan(f)
  \/ Tick

UsageInit ==
  /\ now = 0
  /\ acct = [balance |-> 0, entries |-> <<>>, lots |-> <<>>]
  /\ policyMin \in Floors
  /\ leases = <<>>
  /\ windows = <<>>
  /\ charges = <<>>

ExpireAny == \E t \in Stamps : ExpireLeases(t)

UsageNext ==
  \/ LedgerCall /\ UNCHANGED usage
  \/ \E t \in Stamps, k \in ChargeKeys, a \in Amounts : ChargeForOperation(t, k, a)
  \/ \E t \in Stamps, k \in LeaseKeys, a \in Amounts, d \in TTLs :
       CreateLease(t, k, a, d)
  \/ \E t \in Stamps, i \in 1..Len(leases), k \in ChargeKeys,
        a \in Amounts \cup {0} : SettleLease(t, i, k, a)
  \/ \E t \in Stamps, i \in 1..Len(leases), d \in TTLs : RenewLease(t, i, d)
  \/ \E i \in 1..Len(leases) : ReleaseLease(i)
  \/ ExpireAny

UsageSpec == UsageInit /\ [][UsageNext]_allVars

\* expire_leases runs on a schedule.
FairUsageSpec == UsageSpec /\ WF_allVars(ExpireAny)
-----------------------------------------------------------------------------
(* Properties *)

LeaseSet ==
  [key : LeaseKeys, window : Floors \X Nat, amount : Nat, allowance : Nat,
   floor : Floors, expires : Nat,
   status : {"active", "settled", "released", "expired"}]

ChargeSet ==
  [key : ChargeKeys, requested : Nat, covered : Nat, windowed : BOOLEAN,
   window : Floors \X Nat, lease : Nat]

\* Types of the variables, with those of the ledger.
UsageTypeOK ==
  /\ TypeOK
  /\ leases \in Seq(LeaseSet)
  /\ charges \in Seq(ChargeSet)
  /\ DOMAIN windows \subseteq Floors \X Nat
  /\ \A x \in DOMAIN windows : windows[x] \in [reserved : Nat, consumed : Nat]

ActiveLeases == {j \in 1..Len(leases) : leases[j].status = "active"}

\* What a window has reserved is exactly what the leases that are still active
\* reserved in it: settlement, release, renewal of a late lease, admission and
\* the reaper each give a reservation back once, so the RAISE in them is dead
\* and no allowance is lost to a lease that has ended.
ReservedIsHeld ==
  /\ \A x \in DOMAIN windows : windows[x].reserved = ReservedBy(ActiveLeases, x)
  /\ \A j \in 1..Len(leases) : leases[j].window \in DOMAIN windows

\* A period never gives more free credits than the plan includes, counting the
\* reservations that may still be settled.
AllowanceNeverExceeded ==
  \A x \in DOMAIN windows :
    windows[x].reserved + windows[x].consumed <= Allowance[x[1]]

\* The allowance windows agree with the leases and with the plan.
WindowsReconcile == ReservedIsHeld /\ AllowanceNeverExceeded

\* A window's consumption is what its charges were given free.
ConsumedIsCovered ==
  \A x \in DOMAIN windows :
    windows[x].consumed =
      SumTo([c \in 1..Len(charges) |->
               IF charges[c].window = x THEN charges[c].covered ELSE 0],
            Len(charges))

\* A lease is charged once if it settles and never if it is released or
\* expires, however calls for it interleave and are retried.
SettledExactlyOnce ==
  \A i \in 1..Len(leases) :
    Cardinality({c \in 1..Len(charges) : charges[c].lease = i})
      = IF leases[i].status = "settled" THEN 1 ELSE 0

\* The ledger has one usage entry for each charge the allowance did not cover,
\* for exactly the uncovered part: no charge is posted twice or lost.
ChargesMatchLedger ==
  \A c \in 1..Len(charges) :
    LET net == charges[c].requested - charges[c].covered
        posted == {i \in 1..Len(acct.entries) :
                     acct.entries[i].key = UsageLedgerKey(c)}
    IN  /\ net >= 0
        /\ Cardinality(posted) = IF net = 0 THEN 0 ELSE 1
        /\ \A i \in posted : acct.entries[i].amount = -net

\* Leases, charges and ledger entries agree: a lease has one charge if and only
\* if it settled, and a charge one usage entry for what it was not given free.
ChargesReconcile == SettledExactlyOnce /\ ChargesMatchLedger

\* No operation has more leases in flight than its admission policy allows.
InFlightBounded == InFlight(leases, now) <= MaxInFlight

\* A lease in flight can be settled for its estimate: nothing admitted after
\* it has spent the credit or the allowance it holds.
LeasesCanSettle ==
  \A i \in 1..Len(leases) :
    IsHolding(leases[i], now) =>
      \A o \in SettleOutcomes(now, i, leases[i].amount) : o.error = "ok"

\* A charge leaves the other leases' holds above the minimum balance it was
\* admitted under.
ChargesRespectHolds ==
  [][\A i \in 1..Len(acct'.entries) :
       (i > Len(acct.entries) /\ acct'.entries[i].kind = "usage")
         => acct'.balance - HeldExcept(leases', now, 0)
              >= LET f == acct'.entries[i].req.floor
                 IN  IF f = NoFloor THEN policyMin ELSE f]_allVars

\* A lease that has settled, been released or expired stays so, and keeps its
\* amounts: no retry or renewal reopens it.
EndedLeasesStay ==
  [][\A i \in 1..Len(leases) :
       leases[i].status # "active" => leases'[i] = leases[i]]_allVars

\* The TTL and the reaper reclaim the hold of a worker that crashed.
DueHoldsReclaimed ==
  \A i \in 1..Cardinality(LeaseKeys) :
    (i \in DueLeases(now)) ~> (i \notin DueLeases(now))

\* A retry with the same key and the same request replays the original charge.
RetryReplays ==
  \A c \in 1..Len(charges) :
    charges[c].lease = 0 => ReplayOutcome(c) = "replayed"
=============================================================================
