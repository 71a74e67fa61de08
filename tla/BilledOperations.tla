------------------------- MODULE BilledOperations -------------------------
(***************************************************************************)
(* Operations billed through a lease: CreditsService.RunBilled (reserve,   *)
(* work, settle or release) and the Google ADK plugin, which brackets the  *)
(* model calls of an agent's parallel branches with the same reserve,      *)
(* settle and release, and keeps the leases it has not finished with in    *)
(* the durable session state so that a later run can settle them.          *)
(*                                                                         *)
(* The lease itself is the one of UsageAdmission, seen from outside: its   *)
(* status and the number of charges it posted.  Every store call is one    *)
(* transaction that may fail before it commits or lose its reply after.    *)
(***************************************************************************)
EXTENDS Naturals, FiniteSets

CONSTANTS
    Nonces,        \* operation keys the plugin draws, one for each model call
    Jobs,          \* RunBilled callers; each is its own operation key
    Branches,      \* contexts of an agent that call the model
    Invocations,   \* invocations of one session; each has one runner
    InvocationOf,  \* the invocation a branch belongs to
    Failures,      \* ways a store call fails; see Retryable
    MaxAttempts,   \* attempts of a retried store call
    MaxFaults,     \* bound on failed store calls and crashes together
    MaxJobCalls,   \* bound on the RunBilled calls of one job
    None

Ops    == Nonces \cup Jobs
Actors == Branches \cup Invocations

ASSUME BilledAssumption ==
    /\ InvocationOf \in [Branches -> Invocations]
    /\ Branches \cap Invocations = {}
    /\ Failures \subseteq {"deadline", "unavailable", "canceled", "sqlstate", "transport"}
    /\ MaxAttempts \in Nat \ {0}
    /\ MaxFaults \in Nat
    /\ MaxJobCalls \in Nat
    /\ None \notin Ops \cup Actors

VARIABLES
    lease,     \* operation key -> status of the lease its reserve created
    charged,   \* operation key -> usage charges its lease posted
    spent,     \* operation keys already drawn
    entries,   \* invocation -> leaseEntry set in the session state
    lock,      \* invocation -> holder of the mutex of its state key
    active,    \* branch -> operation it is in flight with (in process memory)
    at,        \* actor -> where its callback is, and the callback's locals
    job,       \* job -> where its RunBilled call is
    faults,    \* failed calls and crashes so far
    finished,  \* operations whose work, or model call, completed
    recorded,  \* operations whose usage complete() saved in the session
    refused,   \* operations whose settlement or release met a final error
    unheld     \* jobs whose work began with no active lease

storeVars   == <<lease, charged>>
pluginVars  == <<spent, entries, lock, active, at>>
historyVars == <<finished, recorded, refused, unheld>>
billedVars == <<storeVars, pluginVars, job, faults, historyVars>>

Statuses == {"none", "active", "settled", "released", "expired"}
\* leaseEntry: with no metrics yet, with metrics, or with metrics that do not
\* decode when they are loaded.
Entries  == [op : Ops, kind : {"open", "ready", "invalid"}]

AtRest == [pc |-> "idle", for |-> "none", keys |-> {}, key |-> None,
           copy |-> {}, left |-> {}, snapshot |-> {}, op |-> None, tries |-> 0]

-----------------------------------------------------------------------------
(* The store and its failures *)

\* normalizePostgresError: deadlines and connection loss reported by the
\* server are retryable; cancellation, any other SQLSTATE and a broken
\* connection become store errors that are not.
Retryable(f) == f \in {"deadline", "unavailable"}

\* A failed statement and a cancelled acquire never commit; otherwise the
\* commit may have happened before the caller saw the error.
MayCommit(f) == f \notin {"sqlstate", "canceled"}

\* create_lease: a new key makes an active lease, a known one is replayed
\* whatever became of its lease.
Reserved(s) == IF s = "none" THEN "active" ELSE s

\* settle_lease: the status after a settlement.
SettledStatus(s) == IF s = "active" THEN "settled" ELSE s

\* settle_lease: only an active lease posts a charge; a settled one replays.
Posts(s) == s = "active"

\* settle_lease answers without an error code.
Settles(s) == s \in {"active", "settled"}

\* release_lease: only an active lease is released, and the answer is never
\* an error.
ReleasedStatus(s) == IF s = "active" THEN "released" ELSE s

\* RetryBursarOperation: try again after a retryable failure, within bounds.
Again(f, tries) == Retryable(f) /\ tries + 1 < MaxAttempts

-----------------------------------------------------------------------------
(* Store transactions on the lease of o, shared by plugin and RunBilled *)

SettleTx(o) ==
    /\ lease' = [lease EXCEPT ![o] = SettledStatus(@)]
    /\ charged' = [charged EXCEPT ![o] = IF Posts(lease[o]) THEN @ + 1 ELSE @]

ReleaseTx(o) ==
    /\ lease' = [lease EXCEPT ![o] = ReleasedStatus(@)]
    /\ UNCHANGED charged

ReserveTx(o) ==
    /\ lease' = [lease EXCEPT ![o] = Reserved(@)]
    /\ UNCHANGED charged

\* The failure f of a transaction tx: it committed or it did not.
Fails(f, tx) ==
    /\ faults < MaxFaults
    /\ faults' = faults + 1
    /\ \/ MayCommit(f) /\ tx
       \/ UNCHANGED storeVars

\* expire_leases, or any call that meets the lease after its TTL.
Expire(o) ==
    /\ lease[o] = "active"
    /\ lease' = [lease EXCEPT ![o] = "expired"]
    /\ UNCHANGED <<charged, pluginVars, job, faults, historyVars>>

-----------------------------------------------------------------------------
(* The plugin: locks, session state and the map of active operations *)

Inv(a) == IF a \in Branches THEN InvocationOf[a] ELSE a

\* Wrong on purpose: the state key's mutex is not taken.
FreeAlways(k) == TRUE

Free(k) == lock[k] = None

Go(a, changes) == at' = [at EXCEPT ![a] = changes]

\* activeOperations: the operations in flight for the invocation.
ActiveOperations(i) ==
    {active[b] : b \in {b \in Branches : InvocationOf[b] = i}} \ {None}

\* Wrong on purpose: the first unpriced entry, whoever it belongs to.
ActiveEntryFirst(es, o) == {e \in es : e.kind # "ready"}

\* activeEntryIndex for a branch that has an operation of its own.
ActiveEntry(es, o) == {e \in es : e.op = o}

\* After settleReady the callback goes on: beforeModel and afterRun release
\* what is unpriced, the others are over.
AfterSettling(a) ==
    CASE at[a].for = "beforeModel" -> [at[a] EXCEPT !.pc = "snapshot"]
      [] at[a].for = "afterRun"    -> [at[a] EXCEPT !.pc = "clear"]
      [] at[a].for = "beforeRun"   -> [AtRest EXCEPT !.pc = "running"]
      [] OTHER                     -> AtRest

AfterReleasing(a) ==
    CASE at[a].for = "beforeModel"  -> [AtRest EXCEPT !.pc = "begin", !.op = at[a].op]
      [] at[a].for = "onModelError" -> [AtRest EXCEPT !.pc = "clear"]
      [] OTHER                      -> AtRest

Settling(why, keys) == [AtRest EXCEPT !.pc = "settle", !.for = why, !.keys = keys]

-----------------------------------------------------------------------------
(* Callbacks *)

\* beforeRun: a new run first settles what earlier runs left ready.
BeforeRun(i) ==
    /\ at[i].pc = "idle"
    /\ \A b \in Branches : InvocationOf[b] = i => at[b].pc = "idle"
    /\ Go(i, Settling("beforeRun", Invocations))
    /\ UNCHANGED <<storeVars, spent, entries, lock, active, job, faults, historyVars>>

\* beforeModel, when the call is billed; the random key it will reserve under
\* is drawn here.
BeforeModel(b) ==
    /\ at[InvocationOf[b]].pc = "running"
    /\ at[b].pc = "idle"
    /\ Nonces \ spent # {}
    /\ LET o == CHOOSE n \in Nonces \ spent : TRUE
       IN /\ spent' = spent \cup {o}
          /\ Go(b, [Settling("beforeModel", Invocations) EXCEPT !.op = o])
    /\ UNCHANGED <<storeVars, entries, lock, active, job, faults, historyVars>>

\* afterRun, once no branch of the invocation is inside a callback or a call.
AfterRun(i) ==
    /\ at[i].pc = "running"
    /\ \A b \in Branches : InvocationOf[b] = i => at[b].pc = "idle"
    /\ Go(i, Settling("afterRun", Invocations))
    /\ UNCHANGED <<storeVars, spent, entries, lock, active, job, faults, historyVars>>

\* settleReady: lock the next state key and load its entries.
SettleLoad(a) ==
    /\ at[a].pc = "settle" /\ at[a].key = None
    /\ \E k \in at[a].keys :
          /\ Free(k)
          /\ lock' = [lock EXCEPT ![k] = a]
          /\ Go(a, [at[a] EXCEPT !.key = k, !.copy = entries[k],
                                 !.left = {e.op : e \in {e \in entries[k] : e.kind # "open"}}])
    /\ UNCHANGED <<storeVars, spent, entries, active, job, faults, historyVars>>

\* terminalSettlementError: an answer that no later attempt would change.
Drop(f) == ~Retryable(f)

Processed(a, o, drop) ==
    Go(a, [at[a] EXCEPT !.left = @ \ {o}, !.tries = 0,
                        !.copy = IF drop THEN {e \in @ : e.op # o} ELSE @])

\* One attempt of retrySettle for a ready entry.
TrySettle(a) ==
    /\ at[a].pc = "settle" /\ at[a].key # None
    /\ \E o \in at[a].left :
       /\ [op |-> o, kind |-> "ready"] \in at[a].copy
       /\ \/ /\ SettleTx(o)
             /\ Processed(a, o, TRUE)
             /\ UNCHANGED <<faults, refused>>
          \/ \E f \in Failures :
                /\ Fails(f, SettleTx(o))
                /\ IF Again(f, at[a].tries)
                   THEN Go(a, [at[a] EXCEPT !.tries = @ + 1]) /\ UNCHANGED refused
                   ELSE /\ Processed(a, o, Drop(f))
                        /\ refused' = IF Retryable(f) THEN refused ELSE refused \cup {o}
    /\ UNCHANGED <<spent, entries, lock, active, job, finished, recorded, unheld>>

\* saveEntries writes metrics only for the entries that have them.
Written(es) ==
    {[e EXCEPT !.kind = IF @ = "ready" THEN "ready" ELSE "open"] : e \in es}

\* saveEntries, or a session state that refuses it, and unlock.
SaveEntries(k, es) ==
    /\ lock' = [lock EXCEPT ![k] = None]
    /\ \/ entries' = [entries EXCEPT ![k] = Written(es)] /\ UNCHANGED faults
       \/ faults < MaxFaults /\ faults' = faults + 1 /\ UNCHANGED entries

SettleSave(a) ==
    /\ at[a].pc = "settle" /\ at[a].key # None /\ at[a].left = {}
    /\ SaveEntries(at[a].key, at[a].copy)
    /\ Go(a, [at[a] EXCEPT !.keys = @ \ {at[a].key}, !.key = None, !.copy = {}])
    /\ UNCHANGED <<storeVars, spent, active, job, historyVars>>

SettleEnd(a) ==
    /\ at[a].pc = "settle" /\ at[a].keys = {}
    /\ Go(a, AfterSettling(a))
    /\ UNCHANGED <<storeVars, spent, entries, lock, active, job, faults, historyVars>>

\* clearActive: of the whole invocation in afterRun, which goes on to release
\* what is unpriced; of its own context at the end of releaseActive.
ClearActive(a) ==
    /\ at[a].pc = "clear"
    /\ active' = [b \in Branches |->
                     IF a \in {b, InvocationOf[b]} THEN None ELSE active[b]]
    /\ Go(a, IF a \in Branches THEN AtRest ELSE [at[a] EXCEPT !.pc = "snapshot"])
    /\ UNCHANGED <<storeVars, spent, entries, lock, job, faults, historyVars>>

\* releaseUnpriced reads the active operations before it takes the mutex.
ReadActive(a) ==
    /\ at[a].pc = "snapshot"
    /\ Go(a, [at[a] EXCEPT !.pc = "release", !.snapshot = ActiveOperations(Inv(a))])
    /\ UNCHANGED <<storeVars, spent, entries, lock, active, job, faults, historyVars>>

ReleaseLoad(a) ==
    /\ at[a].pc = "release" /\ at[a].key = None
    /\ Free(Inv(a))
    /\ lock' = [lock EXCEPT ![Inv(a)] = a]
    /\ LET es == entries[Inv(a)]
           orphans == {e \in es : e.kind # "ready" /\ e.op \notin at[a].snapshot}
       IN Go(a, [at[a] EXCEPT !.key = Inv(a), !.copy = es,
                              !.left = {e.op : e \in orphans}])
    /\ UNCHANGED <<storeVars, spent, entries, active, job, faults, historyVars>>

\* One attempt of releaseLease, for an orphan or, in settleReady, for an entry
\* that does not decode; a final error counts as released.
ReleaseAttempt(a) ==
    /\ at[a].key # None
    /\ \E o \in at[a].left :
       /\ [op |-> o, kind |-> "ready"] \notin at[a].copy
       /\ \/ /\ ReleaseTx(o)
             /\ Processed(a, o, TRUE)
             /\ UNCHANGED <<faults, refused>>
          \/ \E f \in Failures :
                /\ Fails(f, ReleaseTx(o))
                /\ IF Again(f, at[a].tries)
                   THEN Go(a, [at[a] EXCEPT !.tries = @ + 1]) /\ UNCHANGED refused
                   ELSE /\ Processed(a, o, ~Retryable(f))
                        /\ refused' = IF Retryable(f) THEN refused ELSE refused \cup {o}
    /\ UNCHANGED <<spent, entries, lock, active, job, finished, recorded, unheld>>

ReleaseSave(a) ==
    /\ at[a].pc = "release" /\ at[a].key # None /\ at[a].left = {}
    /\ SaveEntries(at[a].key, at[a].copy)
    /\ Go(a, AfterReleasing(a))
    /\ UNCHANGED <<storeVars, spent, active, job, historyVars>>

\* One attempt of retryBegin, or its denial; a reserve whose reply is lost
\* leaves a lease nobody knows of.
Begin(b) ==
    /\ at[b].pc = "begin"
    /\ LET o == at[b].op
       IN \/ /\ ReserveTx(o)
             /\ Go(b, [at[b] EXCEPT !.pc = "register", !.tries = 0])
             /\ UNCHANGED faults
          \/ /\ lease[o] = "none"
             /\ Go(b, AtRest)
             /\ UNCHANGED <<storeVars, faults>>
          \/ \E f \in Failures :
                /\ Fails(f, ReserveTx(o))
                /\ Go(b, IF Again(f, at[b].tries)
                         THEN [at[b] EXCEPT !.tries = @ + 1] ELSE AtRest)
    /\ UNCHANGED <<spent, entries, lock, active, job, historyVars>>

\* beforeModel marks the operation active before its entry is appended.
Register(b) ==
    /\ at[b].pc = "register"
    /\ active' = [active EXCEPT ![b] = at[b].op]
    /\ Go(b, [at[b] EXCEPT !.pc = "append"])
    /\ UNCHANGED <<storeVars, spent, entries, lock, job, faults, historyVars>>

\* appendEntry: load, append, save and read back under the mutex.
AppendEntry(b) ==
    /\ at[b].pc = "append"
    /\ Free(InvocationOf[b])
    /\ entries' = [entries EXCEPT ![InvocationOf[b]] = Written(@ \cup {[op |-> at[b].op, kind |-> "open"]})]
    /\ Go(b, [at[b] EXCEPT !.pc = "flying"])
    /\ UNCHANGED <<storeVars, spent, lock, active, job, faults, historyVars>>

\* The session state refused the entry: the operation is released at once,
\* whatever that release answers.
AppendFails(b) ==
    /\ at[b].pc = "append"
    /\ Free(InvocationOf[b])
    /\ faults < MaxFaults
    /\ faults' = faults + 1
    /\ active' = [active EXCEPT ![b] = None]
    /\ \/ ReleaseTx(at[b].op)
       \/ UNCHANGED storeVars
    /\ Go(b, AtRest)
    /\ UNCHANGED <<spent, entries, lock, job, historyVars>>

\* The model call of b succeeds; afterModel is about to run.
Answer(b) ==
    /\ at[b].pc = "flying"
    /\ finished' = finished \cup {at[b].op}
    /\ Go(b, [at[b] EXCEPT !.pc = "complete"])
    /\ UNCHANGED <<storeVars, spent, entries, lock, active, job, faults,
                   recorded, refused, unheld>>

\* complete: price the branch's entry under the mutex, then settle the key.
Complete(b) ==
    /\ at[b].pc = "complete"
    /\ Free(InvocationOf[b])
    /\ LET k == InvocationOf[b]
           es == entries[k]
           mine == ActiveEntry(es, active[b])
       IN IF mine = {}
          THEN /\ Go(b, AtRest)
               /\ UNCHANGED <<entries, active, recorded>>
          ELSE \E e \in mine, kind \in {"ready", "invalid"} :
               /\ entries' = [entries EXCEPT ![k] =
                                 Written(@ \ {e}) \cup {[e EXCEPT !.kind = kind]}]
               /\ recorded' = IF kind = "ready" THEN recorded \cup {e.op} ELSE recorded
               /\ active' = [active EXCEPT ![b] = None]
               /\ Go(b, Settling("complete", {k}))
    /\ UNCHANGED <<storeVars, spent, lock, job, faults, finished, refused, unheld>>

\* The session state cannot be read or written: the callback gives up before
\* it has done anything, and settleReady goes on with the next key.
StateFails(a) ==
    /\ at[a].pc \in {"settle", "release", "complete", "failed"} /\ at[a].key = None
    /\ faults < MaxFaults
    /\ faults' = faults + 1
    /\ IF at[a].pc = "settle"
       THEN \E k \in at[a].keys : Free(k) /\ Go(a, [at[a] EXCEPT !.keys = @ \ {k}])
       ELSE Free(Inv(a)) /\ Go(a, AfterReleasing(a))
    /\ UNCHANGED <<storeVars, spent, entries, lock, active, job, historyVars>>

\* The model call of b fails; onModelError is about to run.
ModelError(b) ==
    /\ at[b].pc = "flying"
    /\ Go(b, [at[b] EXCEPT !.pc = "failed"])
    /\ UNCHANGED <<storeVars, spent, entries, lock, active, job, faults, historyVars>>

\* releaseActive: load under the mutex the entry to release.
ReleaseActive(b) ==
    /\ at[b].pc = "failed"
    /\ Free(InvocationOf[b])
    /\ LET k == InvocationOf[b]
           mine == ActiveEntry(entries[k], active[b])
       IN IF mine = {}
          THEN Go(b, AtRest) /\ UNCHANGED lock
          ELSE /\ lock' = [lock EXCEPT ![k] = b]
               /\ Go(b, [AtRest EXCEPT !.pc = "release", !.for = "onModelError", !.key = k,
                                     !.copy = entries[k], !.left = {e.op : e \in mine}])
    /\ UNCHANGED <<storeVars, spent, entries, active, job, faults, historyVars>>

\* A later plugin or a cancelled agent ends the call with no callback.
Abandon(b) ==
    /\ at[b].pc = "flying"
    /\ Go(b, AtRest)
    /\ UNCHANGED <<storeVars, spent, entries, lock, active, job, faults, historyVars>>

-----------------------------------------------------------------------------
(* RunBilled *)

JobIdle == [pc |-> "idle", tries |-> 0, calls |-> 0, result |-> "none"]

\* The reserve of a RunBilled call, or its denial or failure.
JobBegin(j) ==
    /\ job[j].pc = "idle" /\ job[j].calls < MaxJobCalls
    /\ \/ /\ ReserveTx(j)
          /\ job' = [job EXCEPT ![j] = [job[j] EXCEPT !.pc = "work", !.calls = @ + 1, !.result = "none"]]
          /\ unheld' = IF lease'[j] = "active" THEN unheld ELSE unheld \cup {j}
          /\ UNCHANGED faults
       \/ /\ lease[j] = "none"
          /\ job' = [job EXCEPT ![j] = [job[j] EXCEPT !.calls = @ + 1, !.result = "error"]]
          /\ UNCHANGED <<storeVars, faults, unheld>>
       \/ \E f \in Failures :
             /\ Fails(f, ReserveTx(j))
             /\ job' = [job EXCEPT ![j] = [job[j] EXCEPT !.calls = @ + 1, !.result = "error"]]
             /\ UNCHANGED unheld
    /\ UNCHANGED <<pluginVars, finished, recorded, refused>>

\* DoWork returns.
JobWork(j) ==
    /\ job[j].pc = "work"
    /\ \/ /\ finished' = finished \cup {j}
          /\ job' = [job EXCEPT ![j].pc = "settle"]
       \/ /\ job' = [job EXCEPT ![j].pc = "release"]
          /\ UNCHANGED finished
    /\ UNCHANGED <<storeVars, pluginVars, faults, recorded, refused, unheld>>

JobReturns(j, result) ==
    job' = [job EXCEPT ![j] = [@ EXCEPT !.pc = "idle", !.tries = 0, !.result = result]]

\* One settlement attempt.  A lease that an earlier call of the same key
\* settled answers with that charge, or with a conflict when the work cost
\* something else this time.
JobSettle(j) ==
    /\ job[j].pc = "settle"
    /\ \/ /\ SettleTx(j)
          /\ JobReturns(j, IF Settles(lease[j]) THEN "ok" ELSE "error")
          /\ UNCHANGED faults
       \/ /\ lease[j] = "settled"
          /\ JobReturns(j, "error")
          /\ UNCHANGED <<storeVars, faults>>
       \/ \E f \in Failures :
             /\ Fails(f, SettleTx(j))
             /\ IF Again(f, job[j].tries)
                THEN job' = [job EXCEPT ![j].tries = @ + 1]
                ELSE JobReturns(j, "error")
    /\ UNCHANGED <<pluginVars, historyVars>>

\* Work that failed releases the lease, whatever the release answers.
JobRelease(j) ==
    /\ job[j].pc = "release"
    /\ \/ ReleaseTx(j) /\ UNCHANGED faults
       \/ \E f \in Failures : Fails(f, ReleaseTx(j))
    /\ JobReturns(j, "error")
    /\ UNCHANGED <<pluginVars, historyVars>>

-----------------------------------------------------------------------------
\* The process dies: memory is lost, session state and leases remain.
ProcessCrash ==
    /\ faults < MaxFaults
    /\ faults' = faults + 1
    /\ lock' = [k \in Invocations |-> None]
    /\ active' = [b \in Branches |-> None]
    /\ at' = [a \in Actors |-> AtRest]
    /\ job' = [j \in Jobs |-> [job[j] EXCEPT !.pc = "idle", !.tries = 0, !.result = "none"]]
    /\ UNCHANGED <<storeVars, spent, entries, historyVars>>

BilledInit ==
    /\ lease = [o \in Ops |-> "none"]
    /\ charged = [o \in Ops |-> 0]
    /\ spent = {}
    /\ entries = [k \in Invocations |-> {}]
    /\ lock = [k \in Invocations |-> None]
    /\ active = [b \in Branches |-> None]
    /\ at = [a \in Actors |-> AtRest]
    /\ job = [j \in Jobs |-> JobIdle]
    /\ faults = 0
    /\ finished = {} /\ recorded = {} /\ refused = {} /\ unheld = {}

\* What an actor does inside a callback, between the calls of the agent.
CallbackStep(a) ==
    \/ SettleLoad(a) \/ TrySettle(a) \/ SettleSave(a) \/ SettleEnd(a)
    \/ ReadActive(a) \/ ReleaseLoad(a) \/ ReleaseAttempt(a) \/ ReleaseSave(a)
    \/ ClearActive(a) \/ StateFails(a)
    \/ a \in Branches /\ (\/ Begin(a) \/ Register(a) \/ AppendEntry(a) \/ AppendFails(a)
                          \/ Complete(a) \/ ReleaseActive(a))

BilledNext ==
    \/ \E a \in Actors : CallbackStep(a)
    \/ \E b \in Branches : BeforeModel(b) \/ Answer(b) \/ ModelError(b) \/ Abandon(b)
    \/ \E i \in Invocations : BeforeRun(i) \/ AfterRun(i)
    \/ \E j \in Jobs : JobBegin(j) \/ JobWork(j) \/ JobSettle(j) \/ JobRelease(j)
    \/ \E o \in Ops : Expire(o)
    \/ ProcessCrash

BilledSpec == BilledInit /\ [][BilledNext]_billedVars

-----------------------------------------------------------------------------
(* Properties *)

\* settle_lease and the keys of the billed operation: whatever is retried,
\* replayed or resumed, a lease is charged at most once, and never for a
\* model call or a job whose work has not completed.
ChargedOnceForWork ==
    \A o \in Ops : charged[o] <= (IF o \in finished THEN 1 ELSE 0)

\* appendEntry, settleReady and releaseUnpriced update the session list under
\* one mutex: the lease of a call in flight is in the list, where a later run
\* finds it, unless the lease has ended or a release of it met a final error.
InFlightRecorded ==
    \A b \in Branches :
        at[b].pc = "flying" =>
            \/ [op |-> at[b].op, kind |-> "open"] \in entries[InvocationOf[b]]
            \/ lease[at[b].op] # "active"
            \/ at[b].op \in refused

\* settleReady: usage that complete() saved leaves the session state only
\* when its lease has ended, or the store has refused the settlement for good.
ReadyRetained ==
    \A o \in recorded :
        \/ \E k \in Invocations : [op |-> o, kind |-> "ready"] \in entries[k]
        \/ lease[o] # "active"
        \/ o \in refused

\* The session keeps its work: calls in flight and usage not yet settled stay in
\* the session state, whatever parallel branches write to it.
SessionKeepsWork == InFlightRecorded /\ ReadyRetained

\* RunBilled reports success only for work that was charged.
SuccessIsCharged ==
    \A j \in Jobs : job[j].result = "ok" => charged[j] = 1 /\ j \in finished

\* Charges follow work: no operation is charged twice or for work that was not
\* done, and none is reported done without its charge.
ChargesFollowWork == ChargedOnceForWork /\ SuccessIsCharged

\* credits.go:436: "Reserve atomically admits work by acquiring a durable
\* credit lease": a job's work never begins without one.
WorkIsAdmitted == unheld = {}

\* releaseUnpriced must not release the lease of a call that is in flight.
ActiveNotReleased ==
    \A b \in Branches :
        at[b].pc = "flying" => lease[at[b].op] # "released"

=============================================================================
