------------------------------- MODULE Catalog -------------------------------
(***************************************************************************)
(* The tenant's catalog: the revisions PostgreSQL keeps and which of them   *)
(* is active, the roll-out of a newly active revision to the accounts that  *)
(* already have a plan, the changes of plan scheduled for later, and one    *)
(* process's CatalogService, which caches the active revision and prices    *)
(* usage with it.                                                          *)
(*                                                                         *)
(* A database function is one transaction and one action.  A call of the    *)
(* Go service is split where it reads the database or takes and releases a  *)
(* mutex.  A pricing engine is named by the revision it was built from: a   *)
(* revision's document never changes once published.                       *)
(***************************************************************************)
EXTENDS Naturals, Sequences, FiniteSets

CONSTANTS
    Documents,      \* the catalog documents an operator publishes
    PlansOf,        \* document -> the plan keys it defines
    DefaultRollout, \* document -> the default_rollout of its plans
    Offered,        \* the documents with a subscription offer for every plan
    Compatible,     \* pairs of documents with the same windows for their plans
    Accounts,       \* accounts that may be given a plan
    Renewable,      \* the accounts with a next renewal to schedule a change for
    Guests,         \* accounts that never have a plan
    Manifests,      \* the roll-out manifests: plan key -> [effective, pinned]
    Callers,        \* goroutines that use the process's CatalogService
    Ops,            \* caller -> what it calls: user, guest, lease, load, activate
    MaxActivations, \* bound: activations of a revision
    MaxEdits,       \* bound: drafts, assignments, pins, leases, failed reads
    NoPlan, None

ASSUME CatalogAssumption ==
    /\ PlansOf \in [Documents -> SUBSET UNION {PlansOf[d] : d \in Documents}]
    /\ DefaultRollout \in [Documents ->
           {"immediate", "next_renewal", "new_assignments_only"}]
    /\ MaxActivations \in Nat /\ MaxEdits \in Nat
    /\ IsFiniteSet(Documents)
    /\ Accounts \cap Guests = {}
    /\ Ops \in [Callers -> SUBSET {"user", "guest", "lease", "load", "activate"}]

VARIABLES
    revisions,   \* catalog_revisions: the document of each revision_no
    active,      \* the revision_no whose status is active, 0 for none
    assignments, \* account_plan_assignments
    changes,     \* plan_assignment_changes in state scheduled, one per kind
    leases,      \* the revision a credit lease was admitted under, 0 for none
    exempt,      \* history: plans rolled out with include_pinned
    activations, \* how often the active revision was set
    engine,      \* CatalogService.revision with its engine, 0 for none
    engines,     \* CatalogService.versionEngines: revision_no -> its engine
    fresh,       \* whether loadedAt is set and younger than the cache TTL
    refreshMu,   \* the caller that holds refreshMu
    settled,     \* history: no activation since the process's last Invalidate
    calls,       \* the callers' calls
    edits        \* how many edits and failed reads there were

dbVars    == <<revisions, active, assignments, changes, leases, exempt,
               activations>>
cacheVars == <<engine, engines, fresh, refreshMu, settled>>
vars      == <<dbVars, cacheVars, calls, edits>>

Keys     == UNION {PlansOf[d] : d \in Documents}
Kinds    == {"catalog_revision", "manual"}
Versions == 1..Cardinality(Documents)

Plan(r, k) == [rev |-> r, key |-> k]
PlanOf(a)  == Plan(assignments[a].rev, assignments[a].key)
Assigned(a) == a \in Accounts /\ assignments[a] # NoPlan

\* NoPlan is no assignment and None no change.
ASSUME AbsentAssumption ==
    /\ NoPlan \notin [rev : Versions, key : Keys, pinned : BOOLEAN]
    /\ None \notin [from : [rev : Versions, key : Keys], to : [rev : Versions, key : Keys]]

\* A call: what it is about, what it has read, the price it came to and, as
\* history, whether it began settled with no activation since.
Idle == [op |-> "idle", pc |-> "idle", account |-> None, want |-> 0,
         read |-> 0, price |-> 0, seen |-> FALSE]

------------------------------------------------------------------------------
(* The database                                                            *)

\* An operator's or an application's edit, within the bound.
Edit == edits < MaxEdits /\ edits' = edits + 1

\* The revision a document was published as: a document published again is
\* recognised by its digest.
RevisionOf(d) ==
    IF \E r \in DOMAIN revisions : revisions[r] = d
    THEN CHOOSE r \in DOMAIN revisions : revisions[r] = d
    ELSE Len(revisions) + 1

\* How a roll-out of document d treats the accounts of plan k.
Strategy(d, k, m) == IF k \in DOMAIN m THEN m[k].effective ELSE DefaultRollout[d]
IncludesPinned(k, m) == k \in DOMAIN m /\ m[k].pinned

\* The accounts a roll-out of revision r (document d) touches.
Replaced(r, d, m) ==
    {a \in Accounts :
        /\ Assigned(a)
        /\ assignments[a].rev # r
        /\ assignments[a].key \in PlansOf[d]
        /\ ~assignments[a].pinned \/ IncludesPinned(assignments[a].key, m)}

\* The conditions under which the roll-out raises nothing; when one fails the
\* whole activation is rolled back.
RolloutAccepted(r, d, m) ==
    /\ DOMAIN m \subseteq PlansOf[d]
    /\ \A k \in PlansOf[d] :
           (DefaultRollout[d] = "next_renewal"
            \/ (k \in DOMAIN m /\ m[k].effective = "next_renewal")) => d \in Offered
    /\ \A a \in Replaced(r, d, m) :
           LET s == Strategy(d, assignments[a].key, m) IN
           /\ s = "immediate" => <<revisions[assignments[a].rev], d>> \in Compatible
           /\ s = "next_renewal" => a \in Renewable

\* Wrong on purpose: the manual change still names the replaced plan.
RetargetedNever(ch, from, to) == ch

\* A scheduled manual change follows its account to another revision of the
\* plan it leaves, unless it already leads there.
Retargeted(ch, from, to) ==
    IF ch # None /\ ch.from = from /\ ch.to # to
    THEN [ch EXCEPT !.from = to] ELSE ch

\* schedule_catalog_plan_rollout for the accounts of revision r.
RolledAssignments(r, d, m) ==
    [a \in Accounts |->
        IF a \in Replaced(r, d, m)
           /\ Strategy(d, assignments[a].key, m) = "immediate"
        THEN [assignments[a] EXCEPT !.rev = r]
        ELSE assignments[a]]

RolledChanges(r, d, m) ==
    [a \in Accounts |->
        IF a \notin Replaced(r, d, m) THEN changes[a] ELSE
        LET k == assignments[a].key
            s == Strategy(d, k, m) IN
        [catalog_revision |->
            IF s = "next_renewal"
            THEN [from |-> PlanOf(a), to |-> Plan(r, k)]
            ELSE None,
         manual |->
            IF s = "immediate"
            THEN Retargeted(changes[a]["manual"], PlanOf(a), Plan(r, k))
            ELSE changes[a]["manual"]]]

\* Revision r of document d becomes the active one; a revision that is active
\* already is only rolled out again, and only by a manifest that names a plan.
BecomesActive(r, d, m) ==
    /\ activations < MaxActivations
    /\ active' = r
    /\ activations' = activations + 1
    /\ IF active = r /\ DOMAIN m = {}
       THEN UNCHANGED <<assignments, changes, exempt>>
       ELSE /\ RolloutAccepted(r, d, m)
            /\ assignments' = RolledAssignments(r, d, m)
            /\ changes' = RolledChanges(r, d, m)
            /\ exempt' = exempt \cup
                   {Plan(r, k) : k \in {x \in DOMAIN m : m[x].pinned}}
    /\ UNCHANGED leases

\* publish_and_activate_catalog with p_activate.
PublishAndActivate(d, m) ==
    LET r == RevisionOf(d) IN
    /\ revisions' = IF r > Len(revisions) THEN Append(revisions, d) ELSE revisions
    /\ BecomesActive(r, d, m)

\* publish_and_activate_catalog without p_activate: the revision is published
\* and not active.
PublishDraft(d) ==
    /\ Edit
    /\ RevisionOf(d) > Len(revisions)
    /\ revisions' = Append(revisions, d)
    /\ UNCHANGED <<active, assignments, changes, leases, exempt, activations,
                   cacheVars, calls>>

\* activate_catalog_revision.
Activate(r, m) ==
    /\ r \in DOMAIN revisions
    /\ BecomesActive(r, revisions[r], m)
    /\ UNCHANGED revisions

\* set_subject_plan: the plan of that key in the active revision.  A plan of
\* the same key keeps its revision and its pin; another plan is scheduled when
\* it starts later and replaces the current one otherwise.
SetPlan(a, k, later) ==
    /\ Edit
    /\ active # 0 /\ k \in PlansOf[revisions[active]]
    /\ LET same == Assigned(a) /\ assignments[a].key = k IN
       /\ ~same
       /\ IF Assigned(a) /\ later
          THEN /\ changes' = [changes EXCEPT ![a]["manual"] =
                      [from |-> PlanOf(a), to |-> Plan(active, k)]]
               /\ UNCHANGED assignments
          ELSE /\ assignments' = [assignments EXCEPT ![a] =
                      [rev |-> active, key |-> k, pinned |-> FALSE]]
               /\ UNCHANGED changes
    /\ UNCHANGED <<revisions, active, leases, exempt, activations, cacheVars,
                   calls>>

\* unassign_plan: scheduled changes stay.
UnsetPlan(a) ==
    /\ Edit
    /\ Assigned(a)
    /\ assignments' = [assignments EXCEPT ![a] = NoPlan]
    /\ UNCHANGED <<revisions, active, changes, leases, exempt, activations,
                   cacheVars, calls>>

\* What set_plan_revision_pin leaves of the scheduled changes.
AfterPin(chs, pinned) ==
    IF pinned THEN [chs EXCEPT !["catalog_revision"] = None] ELSE chs

\* set_plan_revision_pin.
SetRevisionPin(a, pinned) ==
    /\ Edit
    /\ Assigned(a)
    /\ assignments[a].pinned # pinned
    /\ assignments' = [assignments EXCEPT ![a].pinned = pinned]
    /\ changes' = [changes EXCEPT ![a] = AfterPin(@, pinned)]
    /\ UNCHANGED <<revisions, active, leases, exempt, activations, cacheVars,
                   calls>>

\* apply_due_plan_assignment_changes for one change, which may fall due at any
\* time after it was scheduled (a larger batch is a sequence of these).  A change whose account has moved on fails;
\* one whose account has no plan is not even selected.
ApplyDueChange(a, kind) ==
    LET ch == changes[a][kind] IN
    /\ ch # None /\ Assigned(a)
    /\ IF \/ PlanOf(a) # ch.from
          \/ kind = "catalog_revision" /\ assignments[a].key # ch.to.key
       THEN /\ changes' = [changes EXCEPT ![a][kind] = None]
            /\ UNCHANGED assignments
       ELSE /\ assignments' = [assignments EXCEPT ![a] =
                   [rev |-> ch.to.rev, key |-> ch.to.key,
                    pinned |-> kind = "catalog_revision" /\ @.pinned]]
            /\ changes' = [changes EXCEPT ![a] =
                   [catalog_revision |-> None,
                    manual |-> IF kind = "manual" THEN None
                               ELSE Retargeted(@["manual"], ch.from, ch.to)]]
    /\ UNCHANGED <<revisions, active, leases, exempt, activations, cacheVars,
                   calls, edits>>

\* A credit lease is admitted under the account's plan, or under the active
\* revision when it has none, and later settled or released.
OpenLease(a) ==
    /\ Edit
    /\ leases[a] = 0 /\ active # 0
    /\ leases' = [leases EXCEPT ![a] =
           IF Assigned(a) THEN assignments[a].rev ELSE active]
    /\ UNCHANGED <<revisions, active, assignments, changes, exempt, activations,
                   cacheVars, calls>>

CloseLease(a) ==
    /\ leases[a] # 0
    /\ leases' = [leases EXCEPT ![a] = 0]
    /\ UNCHANGED <<revisions, active, assignments, changes, exempt, activations,
                   cacheVars, calls, edits>>

\* The history of the calls an activation overtakes.
Unsettled == [c \in Callers |-> [calls[c] EXCEPT !.seen = FALSE]]

\* Another process or another SDK activates a revision.
ActivateElsewhere ==
    /\ settled' = FALSE
    /\ calls' = Unsettled
    /\ \E m \in Manifests : \/ \E d \in Documents : PublishAndActivate(d, m)
                            \/ \E r \in DOMAIN revisions : Activate(r, m)
    /\ UNCHANGED <<engine, engines, fresh, refreshMu, edits>>

------------------------------------------------------------------------------
(* One process's CatalogService                                            *)

Goto(c, pc) == calls' = [calls EXCEPT ![c].pc = pc]
Return(c)   == calls' = [calls EXCEPT ![c] = Idle]
Priced(c, r) == calls' = [calls EXCEPT ![c].pc = "priced", ![c].price = r]

\* A read of the database fails and the call returns the error.
ReadFails(c) ==
    /\ Edit
    /\ Return(c)

\* CalculateForUser, CalculateForLease and Load begin.
BeginForUser(c, a) ==
    /\ calls[c] = Idle
    /\ calls' = [calls EXCEPT ![c] =
           [Idle EXCEPT !.op = "user", !.pc = "plan", !.account = a,
                        !.seen = settled]]
    /\ UNCHANGED <<dbVars, cacheVars, edits>>

BeginForLease(c, a) ==
    /\ calls[c] = Idle
    /\ calls' = [calls EXCEPT ![c] =
           [Idle EXCEPT !.op = "lease", !.pc = "context", !.account = a]]
    /\ UNCHANGED <<dbVars, cacheVars, edits>>

BeginLoad(c) ==
    /\ calls[c] = Idle
    /\ calls' = [calls EXCEPT ![c] = [Idle EXCEPT !.op = "load", !.pc = "read"]]
    /\ UNCHANGED <<dbVars, cacheVars, edits>>

\* Activate and PublishAndActivate: the database mutation, then Invalidate.
BeginActivate(c) ==
    /\ calls[c] = Idle
    /\ \E m \in Manifests : \/ \E d \in Documents : PublishAndActivate(d, m)
                            \/ \E r \in DOMAIN revisions : Activate(r, m)
    /\ settled' = FALSE
    /\ calls' = [Unsettled EXCEPT ![c] =
           [Idle EXCEPT !.op = "activate", !.pc = "invalidate"]]
    /\ UNCHANGED <<engine, engines, fresh, refreshMu, edits>>

Invalidate(c) ==
    /\ calls[c].pc = "invalidate"
    /\ fresh' = FALSE
    /\ settled' = TRUE
    /\ Return(c)
    /\ UNCHANGED <<dbVars, engine, engines, refreshMu, edits>>

\* store.GetUserPlan: the revision of the user's plan, 0 without a plan.
GetUserPlan(c) ==
    LET a == calls[c].account IN
    /\ calls[c].pc = "plan"
    /\ \/ /\ calls' = [calls EXCEPT
                 ![c].want = IF Assigned(a) THEN assignments[a].rev ELSE 0,
                 ![c].account = None,
                 ![c].pc = IF Assigned(a) THEN "engine" ELSE "refresh"]
          /\ UNCHANGED edits
       \/ ReadFails(c)
    /\ UNCHANGED <<dbVars, cacheVars>>

\* store.GetLeasePricingContext: the revision the lease was admitted under.
GetLeasePricingContext(c) ==
    LET r == leases[calls[c].account] IN
    /\ calls[c].pc = "context"
    /\ \/ /\ IF r = 0 THEN Return(c)
             ELSE calls' = [calls EXCEPT ![c].want = r, ![c].account = None,
                                       ![c].pc = "engine"]
          /\ UNCHANGED edits
       \/ ReadFails(c)
    /\ UNCHANGED <<dbVars, cacheVars>>

\* RefreshIfStale: a stale reader waits for refreshMu.
RefreshIfStale(c) ==
    /\ calls[c].pc = "refresh"
    /\ \/ /\ fresh
          /\ Goto(c, "engine")
          /\ UNCHANGED refreshMu
       \/ /\ ~fresh /\ refreshMu = None
          /\ refreshMu' = c
          /\ Goto(c, "recheck")
    /\ UNCHANGED <<dbVars, engine, engines, fresh, settled, edits>>

\* The second look at the TTL under refreshMu.
Recheck(c) ==
    /\ calls[c].pc = "recheck"
    /\ IF fresh THEN Goto(c, "engine") /\ refreshMu' = None
       ELSE Goto(c, "read") /\ UNCHANGED refreshMu
    /\ UNCHANGED <<dbVars, engine, engines, fresh, settled, edits>>

\* The deferred unlock of a refresh that ends; Load holds no refreshMu.
Unlocked(c) == refreshMu' = IF refreshMu = c THEN None ELSE refreshMu

\* Where a refresh that succeeded leaves its call.
AfterRefresh(c) ==
    IF calls[c].op = "load" THEN Return(c)
    ELSE calls' = [calls EXCEPT ![c].pc = "engine", ![c].read = 0]

\* refreshNow: store.GetActiveCatalog.
GetActiveCatalog(c) ==
    /\ calls[c].pc = "read"
    /\ \/ /\ active # 0
          /\ calls' = [calls EXCEPT ![c].read = active, ![c].pc = "compare"]
          /\ UNCHANGED <<refreshMu, edits>>
       \/ /\ active = 0 /\ Return(c) /\ Unlocked(c) /\ UNCHANGED edits
       \/ /\ ReadFails(c) /\ Unlocked(c)
    /\ UNCHANGED <<dbVars, engine, engines, fresh, settled>>

\* Wrong on purpose: any loaded catalog counts as the one that was read.
LoadedAny(c) == engine # 0

\* Whether the revision read is the one that is loaded already.
Loaded(c) == engine = calls[c].read

\* refreshNow: the comparison under the read lock.
Compare(c) ==
    /\ calls[c].pc = "compare"
    /\ Goto(c, IF Loaded(c) THEN "touch" ELSE "install")
    /\ UNCHANGED <<dbVars, cacheVars, edits>>

\* refreshNow: the loaded revision is current and loadedAt is renewed.
Touch(c) ==
    /\ calls[c].pc = "touch"
    /\ fresh' = TRUE
    /\ AfterRefresh(c)
    /\ Unlocked(c)
    /\ UNCHANGED <<dbVars, engine, engines, settled, edits>>

\* install: the revision read replaces whatever is loaded, and the engines of
\* other revisions are dropped.
Install(c) ==
    /\ calls[c].pc = "install"
    /\ engine' = calls[c].read
    /\ engines' = [v \in Versions |-> IF v = calls[c].read THEN v ELSE 0]
    /\ fresh' = TRUE
    /\ AfterRefresh(c)
    /\ Unlocked(c)
    /\ UNCHANGED <<dbVars, settled, edits>>

\* Wrong on purpose: the active catalog stands in for the missing revision.
OnMissActive(c) == IF engine = 0 THEN Goto(c, "fetch") ELSE Priced(c, engine)

\* What engineForVersion does when it has no engine of the revision wanted: it
\* reads the revision.
OnMiss(c) == Goto(c, "fetch")

\* engineForVersion: the active engine without a version, the cached one with.
EngineForVersion(c) ==
    LET v == calls[c].want IN
    /\ calls[c].pc = "engine"
    /\ CASE v = 0 /\ engine = 0 -> Return(c)
         [] v = 0 /\ engine # 0 -> Priced(c, engine)
         [] v # 0 /\ engines[v] # 0 -> Priced(c, engines[v])
         [] OTHER -> OnMiss(c)
    /\ UNCHANGED <<dbVars, cacheVars, edits>>

\* store.GetCatalogRevision: a revision is never deleted once published.
GetCatalogRevision(c) ==
    /\ calls[c].pc = "fetch"
    /\ \/ Goto(c, "put") /\ UNCHANGED edits
       \/ ReadFails(c)
    /\ UNCHANGED <<dbVars, cacheVars>>

\* The engine built from it is kept, unless another caller was first.
PutEngine(c) ==
    LET v == calls[c].want IN
    /\ calls[c].pc = "put"
    /\ engines' = [engines EXCEPT ![v] = IF @ = 0 THEN v ELSE @]
    /\ Priced(c, engines'[v])
    /\ UNCHANGED <<dbVars, engine, fresh, refreshMu, settled, edits>>

ReturnPrice(c) ==
    /\ calls[c].pc = "priced"
    /\ Return(c)
    /\ UNCHANGED <<dbVars, cacheVars, edits>>

\* The cache TTL passes.
Expire ==
    /\ fresh
    /\ fresh' = FALSE
    /\ UNCHANGED <<dbVars, engine, engines, refreshMu, settled,
                   calls, edits>>

------------------------------------------------------------------------------
Init ==
    /\ revisions = <<>> /\ active = 0
    /\ assignments = [a \in Accounts |-> NoPlan]
    /\ changes = [a \in Accounts |-> [k \in Kinds |-> None]]
    /\ leases = [a \in Accounts |-> 0]
    /\ exempt = {} /\ activations = 0
    /\ engine = 0 /\ engines = [v \in Versions |-> 0]
    /\ fresh = FALSE /\ refreshMu = None
    /\ settled = FALSE
    /\ calls = [c \in Callers |-> Idle]
    /\ edits = 0

Operator ==
    \/ \E d \in Documents : PublishDraft(d)
    \/ ActivateElsewhere
    \/ \E a \in Accounts :
          \/ \E k \in Keys, later \in BOOLEAN : SetPlan(a, k, later)
          \/ UnsetPlan(a)
          \/ \E pinned \in BOOLEAN : SetRevisionPin(a, pinned)
          \/ \E kind \in Kinds : ApplyDueChange(a, kind)
          \/ OpenLease(a) \/ CloseLease(a)

Begin(c) ==
    \/ "user" \in Ops[c] /\ \E a \in Accounts : BeginForUser(c, a)
    \/ "guest" \in Ops[c] /\ \E a \in Guests : BeginForUser(c, a)
    \/ "lease" \in Ops[c] /\ \E a \in Accounts : BeginForLease(c, a)
    \/ "load" \in Ops[c] /\ BeginLoad(c)
    \/ "activate" \in Ops[c] /\ BeginActivate(c)

Step(c) ==
    \/ Invalidate(c) \/ GetUserPlan(c) \/ GetLeasePricingContext(c)
    \/ RefreshIfStale(c) \/ Recheck(c) \/ GetActiveCatalog(c)
    \/ Compare(c) \/ Touch(c) \/ Install(c)
    \/ EngineForVersion(c) \/ GetCatalogRevision(c) \/ PutEngine(c)
    \/ ReturnPrice(c)

Next == Operator \/ Expire \/ \E c \in Callers : Begin(c) \/ Step(c)

Spec == Init /\ [][Next]_vars

\* A call's goroutine keeps running, and time passes for the cache's TTL.
FairSpec ==
    /\ Spec
    /\ \A c \in Callers : WF_vars(Step(c))
    /\ WF_vars(Expire)

------------------------------------------------------------------------------
(* Properties                                                              *)

\* Usage of an account with a plan, and every settlement of a lease, is priced
\* with the engine of exactly the revision that was wanted, whatever is
\* activated, installed or dropped from the cache while the price is computed.
PricedByOwnRevision ==
    \A c \in Callers :
        calls[c].pc = "priced" /\ calls[c].want # 0 => calls[c].price = calls[c].want

\* Once activations stop, whoever made them, every process comes to price the
\* accounts without a plan with the active revision: a stale read installed
\* late is corrected within the TTL.
CacheConverges ==
    <>[](\A c \in Callers :
            calls[c].pc = "priced" /\ calls[c].want = 0 => calls[c].price = active)

\* A pinned account keeps its revision: it moves to another revision of its
\* plan only when that revision was rolled out with include_pinned, even if the
\* roll-out was scheduled before the pin was set.
PinHolds ==
    [][\A a \in Accounts :
          /\ Assigned(a) /\ assignments[a].pinned
          /\ assignments'[a] # NoPlan
          /\ assignments'[a].key = assignments[a].key
          /\ assignments'[a].rev # assignments[a].rev
          => Plan(assignments'[a].rev, assignments'[a].key) \in exempt']_vars

\* A change of plan an operator scheduled survives a roll-out: an account that
\* moves to another revision of the plan takes along the change that was to
\* leave it, so the change does not fail as one of an account that moved on.
ManualSurvives ==
    [][\A a \in Accounts :
          LET ch == changes[a]["manual"] IN
          /\ Assigned(a) /\ ch # None /\ ch.from = PlanOf(a)
          /\ assignments'[a] # NoPlan
          /\ assignments'[a].key = assignments[a].key
          /\ assignments'[a].rev # assignments[a].rev
          => LET now == Plan(assignments'[a].rev, assignments'[a].key) IN
             ch.to = now \/ (changes'[a]["manual"] # None
                             /\ changes'[a]["manual"].from = now
                             /\ changes'[a]["manual"].to = ch.to)]_vars

\* A roll-out respects what was chosen for an account: its pin, and the change of
\* plan an operator scheduled.
RolloutsKeepChoices == PinHolds /\ ManualSurvives

\* A pricing call of an account without a plan that begins after Activate has
\* returned, and sees no other activation, prices with the active catalog: Invalidate's
\* "The next TTL-aware Refresh or unpinned pricing call reloads it".
InvalidationHolds ==
    \A c \in Callers :
        calls[c].pc = "priced" /\ calls[c].want = 0 /\ calls[c].seen
            => calls[c].price = active

==============================================================================
