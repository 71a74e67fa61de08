------------------------- MODULE OutboxCatalogProofs -------------------------
(***************************************************************************)
(* Two independent sets of proofs.                                         *)
(*   - The outbox: claims fence, what is settled stays settled and a       *)
(*     required event is not lost, for any events, workers, lags, faults.  *)
(*   - The catalog: usage is priced by the revision it belongs to, and     *)
(*     roll-outs keep pins and scheduled changes, for any documents,       *)
(*     accounts, manifests and callers.                                    *)
(***************************************************************************)
EXTENDS Outbox, Catalog, FiniteSetTheorems, TLAPS

(* The outbox *)

Statuses == {"none", "pending", "processing", "delivered", "dead_letter", "gone"}

JobRec ==
  [token : Nat \ {0}, attempt : 1..AttemptCap, beat : {"on", "lost"},
   result : {"none", "ok", "error"}, until : Nat]

JobTables == UNION {[D -> JobRec] : D \in SUBSET Events}

WorkRec ==
  [phase : {"idle", "running", "cancelled"}, stop : {"no", "asked", "done"},
   remaining : Int, jobs : JobTables]

\* A row is a record; the time left of a claim is a number, that of a retry is
\* not looked at.
RowsTyped ==
  /\ rows = [e \in Events |->
       Row(rows[e].status, rows[e].token, rows[e].left, rows[e].attempts)]
  /\ \A e \in Events :
       /\ rows[e].status \in Statuses
       /\ rows[e].token \in Nat
       /\ (rows[e].token # NoToken) = (rows[e].status = "processing")
       /\ rows[e].attempts \in 0..AttemptCap
       /\ rows[e].status = "processing" => rows[e].left \in Int

Typed == RowsTyped /\ work \in [Workers -> WorkRec]

HasJob(w, e) == e \in DOMAIN work[w].jobs
Job(w, e) == work[w].jobs[e]
Current(w, e) == rows[e].status = "processing" /\ rows[e].token = Job(w, e).token

\* A worker with the row's token has its attempt.
TokensCarryAttempts ==
  \A w \in Workers, e \in Events :
    HasJob(w, e) /\ Current(w, e) => Job(w, e).attempt = rows[e].attempts

\* A worker within its lease has a row that is its own for as long, or that
\* retention has deleted.
LeasesCovered ==
  \A w \in Workers, e \in Events :
    HasJob(w, e) /\ Job(w, e).until > 0 =>
      \/ rows[e].status = "gone"
      \/ Current(w, e) /\ rows[e].left >= Job(w, e).until

\* A token is given to one worker.
TokensDiffer ==
  \A v, w \in Workers, e \in Events :
    HasJob(v, e) /\ HasJob(w, e) /\ Job(v, e).token = Job(w, e).token => v = w

\* One worker at a time is within its lease of an event.
OneLease ==
  \A v, w \in Workers, e \in Events :
    /\ HasJob(v, e) /\ HasJob(w, e)
    /\ Job(v, e).until > 0 /\ Job(w, e).until > 0
    => v = w

Fence == TokensCarryAttempts /\ LeasesCovered /\ TokensDiffer /\ OneLease

\* Only what the handlers accepted is reported as delivered.
Accepted ==
  /\ \A w \in Workers, e \in Events : HasJob(w, e) /\ Job(w, e).result = "ok" => e \in handled
  /\ \A e \in Events : rows[e].status = "delivered" => e \in handled
  /\ \A e \in Required : rows[e].status = "gone" => e \in handled

OutboxInv == Typed /\ Fence /\ Accepted

-----------------------------------------------------------------------------
(* Tokens *)

LEMMA JobTyped ==
  ASSUME Typed, NEW w \in Workers, NEW e \in Events, HasJob(w, e)
  PROVE  Job(w, e) \in JobRec
<1>1. work[w].jobs \in JobTables
  BY DEF Typed, WorkRec
<1>2. PICK D \in SUBSET Events : work[w].jobs \in [D -> JobRec]
  BY <1>1 DEF JobTables
<1> QED
  BY <1>2 DEF HasJob, Job

LEMMA JobsOnEvents ==
  ASSUME Typed, NEW w \in Workers
  PROVE  DOMAIN work[w].jobs \subseteq Events
<1>1. work[w].jobs \in JobTables
  BY DEF Typed, WorkRec
<1> QED
  BY <1>1 DEF JobTables

\* There are fewer tokens in use than NewToken chooses from.
LEMMA TokenFree ==
  ASSUME Typed
  PROVE  NewToken \in Nat \ {0} /\ NewToken \notin TokensInUse
<1> DEFINE Pairs == Events \X Workers
           n == Cardinality(Events) * (Cardinality(Workers) + 1)
           ofRow == [e \in Events |-> rows[e].token]
           ofJob == [p \in Pairs |-> work[p[2]].jobs[p[1]].token]
           rowTokens == {ofRow[e] : e \in Events}
           jobTokens == {ofJob[p] : p \in Pairs}
<1>1. IsFiniteSet(Events) /\ IsFiniteSet(Workers)
  BY OutboxAssumption
<1>2. IsFiniteSet(Pairs) /\ Cardinality(Pairs) = Cardinality(Events) * Cardinality(Workers)
  BY <1>1, FS_Product
<1>3. /\ Cardinality(Events) \in Nat /\ Cardinality(Workers) \in Nat
      /\ Cardinality(Pairs) \in Nat
  BY <1>1, <1>2, FS_CardinalityType
<1>4. IsFiniteSet(rowTokens) /\ Cardinality(rowTokens) <= Cardinality(Events)
  <2>1. ofRow \in Surjection(Events, rowTokens)
    BY DEF Surjection
  <2> QED
    BY <1>1, <2>1, FS_Surjection
<1>5. IsFiniteSet(jobTokens) /\ Cardinality(jobTokens) <= Cardinality(Pairs)
  <2>1. ofJob \in Surjection(Pairs, jobTokens)
    BY DEF Surjection
  <2> QED
    BY <1>2, <2>1, FS_Surjection
<1>6. TokensInUse \subseteq rowTokens \cup jobTokens
  <2>1. ASSUME NEW w \in Workers, NEW e \in DOMAIN work[w].jobs
        PROVE  work[w].jobs[e].token \in jobTokens
    <3>1. <<e, w>> \in Pairs
      BY JobsOnEvents
    <3>2. ofJob[<<e, w>>] = work[w].jobs[e].token
      BY <3>1
    <3> QED
      BY <3>1, <3>2
  <2> QED
    BY <2>1 DEF TokensInUse
<1>7. IsFiniteSet(rowTokens \cup jobTokens) /\ Cardinality(rowTokens \cup jobTokens) <= n
  <2>1. /\ IsFiniteSet(rowTokens \cup jobTokens)
        /\ Cardinality(rowTokens \cup jobTokens)
             = Cardinality(rowTokens) + Cardinality(jobTokens)
                 - Cardinality(rowTokens \cap jobTokens)
    BY <1>4, <1>5, FS_Union
  <2>2. Cardinality(rowTokens \cap jobTokens) \in Nat
    BY <1>4, FS_Intersection, FS_CardinalityType
  <2>3. Cardinality(rowTokens) \in Nat /\ Cardinality(jobTokens) \in Nat
    BY <1>4, <1>5, FS_CardinalityType
  <2>4. n = Cardinality(Events) + Cardinality(Pairs) /\ n \in Nat
    BY <1>2, <1>3
  <2> HIDE DEF n, rowTokens, jobTokens, Pairs
  <2> QED
    BY <1>3, <1>4, <1>5, <2>1, <2>2, <2>3, <2>4
<1>8. n \in Nat
  BY <1>3
<1>9. \E k \in 1..(n + 1) : k \notin TokensInUse
  <2>1. SUFFICES ASSUME 1..(n + 1) \subseteq TokensInUse PROVE FALSE
    OBVIOUS
  <2>2. 1..(n + 1) \subseteq rowTokens \cup jobTokens
    BY <1>6, <2>1
  <2>3. Cardinality(1..(n + 1)) <= Cardinality(rowTokens \cup jobTokens)
    BY <1>7, <2>2, FS_Subset
  <2>4. Cardinality(1..(n + 1)) = n + 1
    <3> HIDE DEF n
    <3>1. 1 \in Int /\ n + 1 \in Int /\ 1 <= n + 1
      BY <1>8
    <3> QED
      BY <1>8, <3>1, FS_Interval
  <2>5. Cardinality(rowTokens \cup jobTokens) \in Nat
    BY <1>7, FS_CardinalityType
  <2> HIDE DEF n, rowTokens, jobTokens
  <2> QED
    BY <1>7, <1>8, <2>3, <2>4, <2>5
<1>10. NewToken \in 1..(n + 1) /\ NewToken \notin TokensInUse
  BY <1>9 DEF NewToken
<1> QED
  BY <1>8, <1>10

-----------------------------------------------------------------------------
(* Steps that give no claim *)

\* No job is new, and none has another claim than before.
Kept ==
  \A w \in Workers, e \in Events :
    HasJob(w, e)' =>
      /\ HasJob(w, e)
      /\ Job(w, e)'.token = Job(w, e).token
      /\ Job(w, e)'.attempt = Job(w, e).attempt
      /\ Job(w, e)'.until = Job(w, e).until

\* The row is not claimed after the step, and nobody is within its lease.
Closed(e) ==
  /\ rows'[e].status # "processing"
  /\ \/ rows'[e].status = "gone"
     \/ \A w \in Workers : HasJob(w, e)' => ~(Job(w, e)'.until > 0)

LEMMA KeptFence ==
  ASSUME Fence, Kept, \A e \in Events : rows'[e] = rows[e] \/ Closed(e)
  PROVE  Fence'
<1>1. TokensCarryAttempts'
  BY DEF Fence, TokensCarryAttempts, Kept, Closed, Current
<1>2. LeasesCovered'
  BY DEF Fence, LeasesCovered, Kept, Closed, Current
<1>3. TokensDiffer'
  BY DEF Fence, TokensDiffer, Kept
<1>4. OneLease'
  BY DEF Fence, OneLease, Kept
<1> QED
  BY <1>1, <1>2, <1>3, <1>4 DEF Fence

\* A row outside a claim has nobody within its lease, unless it was deleted.
LEMMA UnclaimedFree ==
  ASSUME Fence, NEW e \in Events, rows[e].status \notin {"processing", "gone"},
         NEW w \in Workers, HasJob(w, e)
  PROVE  ~(Job(w, e).until > 0)
BY DEF Fence, LeasesCovered, Current

\* Steps of a worker that leave the tables of jobs alone.
LEMMA SameJobs ==
  ASSUME OutboxInv, UNCHANGED rows, handled' = handled,
         work' \in [Workers -> WorkRec],
         \A w \in Workers : work'[w].jobs = work[w].jobs
  PROVE  OutboxInv'
<1>1. Kept
  BY DEF Kept, HasJob, Job
<1>2. Fence'
  BY <1>1, KeptFence DEF OutboxInv
<1>3. Typed'
  BY DEF OutboxInv, Typed, RowsTyped
<1>4. Accepted'
  BY DEF OutboxInv, Accepted, HasJob, Job
<1> QED
  BY <1>2, <1>3, <1>4 DEF OutboxInv

\* Steps of the table that leave the workers alone.
LEMMA RowStep ==
  ASSUME OutboxInv, UNCHANGED <<work, handled>>, RowsTyped',
         \A e \in Events : rows'[e] = rows[e] \/ Closed(e),
         \A e \in Events : rows'[e].status \in {"delivered", "gone"} =>
           \/ rows'[e] = rows[e]
           \/ rows'[e].status = "gone" /\ (rows[e].status = "delivered" \/ e \notin Required)
  PROVE  OutboxInv'
<1>1. Kept
  BY DEF Kept, HasJob, Job
<1>2. Fence'
  BY <1>1, KeptFence DEF OutboxInv
<1>3. Typed'
  BY DEF OutboxInv, Typed
<1>4. Accepted'
  <2>1. Required \subseteq Events
    BY OutboxAssumption
  <2> QED
    BY <2>1 DEF OutboxInv, Accepted, HasJob, Job
<1> QED
  BY <1>2, <1>3, <1>4 DEF OutboxInv

\* Writing one row.
LEMMA RowWritten ==
  ASSUME Typed, NEW e \in Events, NEW r,
         r = Row(r.status, r.token, r.left, r.attempts),
         r.status \in Statuses, r.token \in Nat,
         (r.token # NoToken) = (r.status = "processing"),
         r.attempts \in 0..AttemptCap,
         r.status = "processing" => r.left \in Int,
         rows' = [rows EXCEPT ![e] = r]
  PROVE  /\ RowsTyped'
         /\ rows'[e] = r
         /\ \A f \in Events : f # e => rows'[f] = rows[f]
<1>1. DOMAIN rows = Events
  BY DEF Typed, RowsTyped
<1>2. rows'[e] = r /\ \A f \in Events : f # e => rows'[f] = rows[f]
  BY <1>1
<1>3. rows' = [f \in Events |-> rows'[f]]
  BY <1>1
<1>4. \A f \in Events : rows'[f] = Row(rows'[f].status, rows'[f].token, rows'[f].left, rows'[f].attempts)
  BY <1>2 DEF Typed, RowsTyped
<1>5. rows' = [f \in Events |-> Row(rows'[f].status, rows'[f].token, rows'[f].left, rows'[f].attempts)]
  BY <1>3, <1>4
<1>6. \A f \in Events :
       /\ rows'[f].status \in Statuses
       /\ rows'[f].token \in Nat
       /\ (rows'[f].token # NoToken) = (rows'[f].status = "processing")
       /\ rows'[f].attempts \in 0..AttemptCap
       /\ rows'[f].status = "processing" => rows'[f].left \in Int
  BY <1>2 DEF Typed, RowsTyped
<1> QED
  BY <1>2, <1>5, <1>6 DEF RowsTyped

LEMMA CapNumber == AttemptLimit \in Nat \ {0} /\ AttemptCap \in Nat /\ 1 < AttemptCap
BY OutboxAssumption DEF AttemptCap

LEMMA RequeueInv ==
  ASSUME OutboxInv, NEW e \in Events, Requeue(e) \/ Enqueue(e)
  PROVE  OutboxInv'
<1> DEFINE r == Row("pending", NoToken, 0, 0)
<1>0. /\ r = Row(r.status, r.token, r.left, r.attempts)
      /\ r.status = "pending" /\ r.token = NoToken /\ r.attempts = 0
  BY DEF Row
<1>1. rows' = [rows EXCEPT ![e] = r] /\ UNCHANGED <<work, handled>>
  BY DEF Requeue, Enqueue
<1>2. RowsTyped' /\ rows'[e] = r /\ \A f \in Events : f # e => rows'[f] = rows[f]
  <2> HIDE DEF r
  <2>1. r.status \in Statuses /\ r.token \in Nat /\ r.attempts \in 0..AttemptCap
    BY <1>0, CapNumber DEF Statuses, NoToken
  <2> QED
    BY <1>0, <1>1, <2>1, RowWritten DEF OutboxInv
<1>3. rows[e].status \notin {"processing", "gone"}
  BY DEF Requeue, Enqueue
<1>4. Closed(e)
  BY <1>1, <1>2, <1>3, UnclaimedFree DEF OutboxInv, Closed, HasJob, Job, Row
<1>5. \A f \in Events : rows'[f] = rows[f] \/ Closed(f)
  BY <1>2, <1>4
<1>6. rows'[e].status = "pending"
  BY <1>2 DEF Row
<1> QED
  BY <1>1, <1>2, <1>5, <1>6, RowStep

LEMMA PruneInv ==
  ASSUME OutboxInv, NEW e \in Events, Prune(e)
  PROVE  OutboxInv'
<1> DEFINE r == Row("gone", NoToken, 0, 0)
<1>0. /\ r = Row(r.status, r.token, r.left, r.attempts)
      /\ r.status = "gone" /\ r.token = NoToken /\ r.attempts = 0
  BY DEF Row
<1>1. rows' = [rows EXCEPT ![e] = r] /\ UNCHANGED <<work, handled>>
  BY DEF Prune
<1>2. RowsTyped' /\ rows'[e] = r /\ \A f \in Events : f # e => rows'[f] = rows[f]
  <2> HIDE DEF r
  <2>1. r.status \in Statuses /\ r.token \in Nat /\ r.attempts \in 0..AttemptCap
    BY <1>0, CapNumber DEF Statuses, NoToken
  <2> QED
    BY <1>0, <1>1, <2>1, RowWritten DEF OutboxInv
<1>3. rows'[e].status = "gone"
  BY <1>2 DEF Row
<1>4. \A f \in Events : rows'[f] = rows[f] \/ Closed(f)
  BY <1>2, <1>3 DEF Closed
<1>5. rows[e].status = "delivered" \/ e \notin Required
  BY DEF Prune, Prunable
<1> QED
  BY <1>1, <1>2, <1>3, <1>4, <1>5, RowStep

-----------------------------------------------------------------------------
(* The worker's runs *)

LEMMA WorkShape ==
  ASSUME Typed, NEW w \in Workers
  PROVE  /\ work[w] \in WorkRec
         /\ work[w].jobs \in JobTables
         /\ DOMAIN work = Workers
BY DEF Typed, WorkRec

LEMMA RunInv ==
  ASSUME OutboxInv, NEW w \in Workers,
         BeginRun(w) \/ EndRun(w) \/ Stopped(w) \/ Stop(w)
  PROVE  OutboxInv'
<1> DEFINE Goal == /\ work' \in [Workers -> WorkRec]
                   /\ \A v \in Workers : work'[v].jobs = work[v].jobs
<1>1. work \in [Workers -> WorkRec]
  BY DEF OutboxInv, Typed
<1>2. BatchSize \in Int
  BY OutboxAssumption
<1>3. CASE BeginRun(w)
  <2> DEFINE mid == [work EXCEPT ![w].phase = "running"]
  <2>1. mid \in [Workers -> WorkRec] /\ \A v \in Workers : mid[v].jobs = work[v].jobs
    BY <1>1 DEF WorkRec
  <2>2. work' = [mid EXCEPT ![w].remaining = BatchSize]
    BY <1>3, <1>1 DEF BeginRun
  <2>3. Goal
    <3> HIDE DEF mid
    <3> QED
      BY <1>2, <2>1, <2>2 DEF WorkRec
  <2> QED
    BY <1>3, <2>3, SameJobs DEF BeginRun
<1>4. CASE EndRun(w)
  <2> DEFINE mid == [work EXCEPT ![w].phase = "idle"]
  <2>1. mid \in [Workers -> WorkRec] /\ \A v \in Workers : mid[v].jobs = work[v].jobs
    BY <1>1 DEF WorkRec
  <2>2. work' = [mid EXCEPT ![w].remaining = 0]
    BY <1>4, <1>1 DEF EndRun
  <2>3. Goal
    <3> HIDE DEF mid
    <3> QED
      BY <2>1, <2>2 DEF WorkRec
  <2> QED
    BY <1>4, <2>3, SameJobs DEF EndRun
<1>5. CASE Stopped(w)
  <2>1. work' = [work EXCEPT ![w].stop = "done"]
    BY <1>5 DEF Stopped
  <2>2. Goal
    BY <1>1, <2>1 DEF WorkRec
  <2> QED
    BY <1>5, <2>2, SameJobs DEF Stopped
<1>6. CASE Stop(w)
  <2>1. work' = [work EXCEPT ![w].stop = "asked"]
    BY <1>6 DEF Stop
  <2>2. Goal
    BY <1>1, <2>1 DEF WorkRec
  <2> QED
    BY <1>6, <2>2, SameJobs DEF Stop
<1> QED
  BY <1>3, <1>4, <1>5, <1>6

-----------------------------------------------------------------------------
(* The tables of jobs *)

LEMMA EmptyTable == NoJobs \in JobTables /\ DOMAIN NoJobs = {}
<1>1. NoJobs \in [{} -> JobRec] /\ {} \in SUBSET Events
  BY DEF NoJobs
<1> QED
  BY <1>1 DEF JobTables, NoJobs

LEMMA TableShape ==
  ASSUME NEW J, NEW D \in SUBSET Events, J \in [D -> JobRec]
  PROVE  J \in JobTables
BY DEF JobTables

LEMMA JobsWritten ==
  ASSUME work \in [Workers -> WorkRec], NEW w \in Workers, NEW J \in JobTables,
         work' = [work EXCEPT ![w].jobs = J]
  PROVE  /\ work' \in [Workers -> WorkRec]
         /\ work'[w].jobs = J
         /\ \A v \in Workers : v # w => work'[v] = work[v]
BY DEF WorkRec

LEMMA JobWritten ==
  ASSUME Typed, NEW w \in Workers, NEW e \in Events, HasJob(w, e), NEW r \in JobRec,
         work' = [work EXCEPT ![w].jobs = [work[w].jobs EXCEPT ![e] = r]]
  PROVE  /\ work' \in [Workers -> WorkRec]
         /\ \A v \in Workers, f \in Events : HasJob(v, f)' = HasJob(v, f)
         /\ Job(w, e)' = r
         /\ \A v \in Workers, f \in Events :
              HasJob(v, f) /\ (v # w \/ f # e) => Job(v, f)' = Job(v, f)
<1> DEFINE J == [work[w].jobs EXCEPT ![e] = r]
<1>1. PICK D \in SUBSET Events : work[w].jobs \in [D -> JobRec]
  BY WorkShape DEF JobTables
<1>2. J \in [D -> JobRec] /\ J[e] = r /\ \A f \in D : f # e => J[f] = work[w].jobs[f]
  BY <1>1 DEF HasJob
<1>3. J \in JobTables
  BY <1>2, TableShape
<1>4. /\ work' \in [Workers -> WorkRec]
      /\ work'[w].jobs = J
      /\ \A v \in Workers : v # w => work'[v] = work[v]
  <2> HIDE DEF J
  <2>1. work' = [work EXCEPT ![w].jobs = J]
    BY DEF J
  <2> QED
    BY <1>3, <2>1, JobsWritten DEF Typed
<1>5. DOMAIN J = D /\ DOMAIN work[w].jobs = D
  BY <1>1, <1>2
<1> HIDE DEF J
<1> QED
  BY <1>2, <1>4, <1>5 DEF HasJob, Job

\* A delivery ends.
LEMMA JobDropped ==
  ASSUME Typed, NEW w \in Workers, NEW e \in Events,
         work' = [work EXCEPT ![w].jobs = Restrict(@, DOMAIN @ \ {e})]
  PROVE  /\ work' \in [Workers -> WorkRec]
         /\ ~HasJob(w, e)'
         /\ \A v \in Workers, f \in Events :
              HasJob(v, f)' => HasJob(v, f) /\ Job(v, f)' = Job(v, f)
<1> DEFINE J == Restrict(work[w].jobs, DOMAIN work[w].jobs \ {e})
<1>1. PICK D \in SUBSET Events : work[w].jobs \in [D -> JobRec]
  BY WorkShape DEF JobTables
<1>2. /\ J \in [D \ {e} -> JobRec]
      /\ \A f \in D \ {e} : J[f] = work[w].jobs[f]
  BY <1>1 DEF Restrict
<1>3. J \in JobTables
  BY <1>2, TableShape
<1>4. /\ work' \in [Workers -> WorkRec]
      /\ work'[w].jobs = J
      /\ \A v \in Workers : v # w => work'[v] = work[v]
  <2>1. work' = [work EXCEPT ![w].jobs = J]
    OBVIOUS
  <2> HIDE DEF J
  <2> QED
    BY <1>3, <2>1, JobsWritten DEF Typed
<1>5. DOMAIN J = D \ {e} /\ DOMAIN work[w].jobs = D
  BY <1>1, <1>2
<1> HIDE DEF J
<1> QED
  BY <1>2, <1>4, <1>5 DEF HasJob, Job

LEMMA CancelInv ==
  ASSUME OutboxInv, NEW w \in Workers, CancelRun(w)
  PROVE  OutboxInv'
<1> DEFINE mid == [work EXCEPT ![w].phase = "cancelled"]
           J == [e \in DOMAIN work[w].jobs |-> [work[w].jobs[e] EXCEPT !.beat = "lost"]]
<1>1. PICK D \in SUBSET Events : work[w].jobs \in [D -> JobRec]
  BY WorkShape DEF OutboxInv, JobTables
<1>2. /\ J \in [D -> JobRec]
      /\ \A e \in D : /\ J[e].token = work[w].jobs[e].token
                      /\ J[e].attempt = work[w].jobs[e].attempt
                      /\ J[e].until = work[w].jobs[e].until
                      /\ J[e].result = work[w].jobs[e].result
  BY <1>1 DEF JobRec
<1>3. J \in JobTables
  BY <1>2, TableShape
<1>4. mid \in [Workers -> WorkRec] /\ \A v \in Workers : mid[v].jobs = work[v].jobs
  BY DEF OutboxInv, Typed, WorkRec
<1>5. work' = [mid EXCEPT ![w].jobs = J]
  BY DEF CancelRun, OutboxInv, Typed
<1>6. /\ work' \in [Workers -> WorkRec]
      /\ work'[w].jobs = J
      /\ \A v \in Workers : v # w => work'[v].jobs = work[v].jobs
  <2> HIDE DEF mid, J
  <2> QED
    BY <1>3, <1>4, <1>5 DEF WorkRec
<1>7. DOMAIN J = D /\ DOMAIN work[w].jobs = D
  BY <1>1, <1>2
<1>8. Kept /\ \A v \in Workers, e \in Events :
                 HasJob(v, e)' => HasJob(v, e) /\ Job(v, e)'.result = Job(v, e).result
  <2> HIDE DEF J
  <2> QED
    BY <1>2, <1>6, <1>7 DEF Kept, HasJob, Job
<1>9. UNCHANGED rows /\ handled' = handled
  BY DEF CancelRun
<1>10. Fence'
  BY <1>8, <1>9, KeptFence DEF OutboxInv
<1>11. Typed'
  BY <1>6, <1>9 DEF OutboxInv, Typed, RowsTyped
<1>12. Accepted'
  BY <1>8, <1>9 DEF OutboxInv, Accepted
<1> QED
  BY <1>10, <1>11, <1>12 DEF OutboxInv

LEMMA CrashInv ==
  ASSUME OutboxInv, NEW w \in Workers, Crash(w)
  PROVE  OutboxInv'
<1> DEFINE r == [phase |-> "idle", stop |-> "no", remaining |-> 0, jobs |-> NoJobs]
<1>1. r \in WorkRec /\ r.jobs = NoJobs
  BY EmptyTable DEF WorkRec
<1>2. /\ work' \in [Workers -> WorkRec]
      /\ work'[w].jobs = NoJobs
      /\ \A v \in Workers : v # w => work'[v] = work[v]
  <2>1. work' = [work EXCEPT ![w] = r]
    BY DEF Crash
  <2> HIDE DEF r
  <2> QED
    BY <1>1, <2>1 DEF OutboxInv, Typed
<1>3. \A v \in Workers, e \in Events : HasJob(v, e)' => HasJob(v, e) /\ Job(v, e)' = Job(v, e)
  BY <1>2, EmptyTable DEF HasJob, Job
<1>4. UNCHANGED rows /\ handled' = handled
  BY DEF Crash
<1>5. Fence'
  BY <1>3, <1>4, KeptFence DEF OutboxInv, Kept
<1>6. Typed'
  BY <1>2, <1>4 DEF OutboxInv, Typed, RowsTyped
<1>7. Accepted'
  BY <1>3, <1>4 DEF OutboxInv, Accepted
<1> QED
  BY <1>5, <1>6, <1>7 DEF OutboxInv

-----------------------------------------------------------------------------
(* Deliveries *)

LEMMA HandlersReturnInv ==
  ASSUME OutboxInv, NEW w \in Workers, NEW e \in Events, HasJob(w, e),
         NEW result \in {"ok", "error"}, HandlersReturn(w, e, result)
  PROVE  OutboxInv'
<1> DEFINE r == [work[w].jobs[e] EXCEPT !.result = result]
<1>1. Job(w, e) \in JobRec
  BY JobTyped DEF OutboxInv
<1>2. /\ r \in JobRec /\ r.result = result
      /\ r.token = Job(w, e).token /\ r.attempt = Job(w, e).attempt /\ r.until = Job(w, e).until
  BY <1>1 DEF JobRec, Job
<1>3. work' = [work EXCEPT ![w].jobs = [work[w].jobs EXCEPT ![e] = r]]
  BY DEF HandlersReturn
<1> HIDE DEF r
<1>4. /\ work' \in [Workers -> WorkRec]
      /\ \A v \in Workers, f \in Events : HasJob(v, f)' = HasJob(v, f)
      /\ Job(w, e)' = r
      /\ \A v \in Workers, f \in Events :
           HasJob(v, f) /\ (v # w \/ f # e) => Job(v, f)' = Job(v, f)
  BY <1>2, <1>3, JobWritten DEF OutboxInv
<1>5. UNCHANGED rows /\ handled' = IF result = "ok" THEN handled \cup {e} ELSE handled
  BY DEF HandlersReturn
<1>6. Kept
  BY <1>2, <1>4 DEF Kept
<1>7. Fence'
  BY <1>5, <1>6, KeptFence DEF OutboxInv
<1>8. Typed'
  BY <1>4, <1>5 DEF OutboxInv, Typed, RowsTyped
<1>9. Accepted'
  BY <1>2, <1>4, <1>5 DEF OutboxInv, Accepted
<1> QED
  BY <1>7, <1>8, <1>9 DEF OutboxInv

\* A job that is dropped, while the row of its event stays or is settled by it.
LEMMA DropInv ==
  ASSUME OutboxInv, NEW w \in Workers, NEW e \in Events, HasJob(w, e),
         work' = [work EXCEPT ![w].jobs = Restrict(@, DOMAIN @ \ {e})],
         handled' = handled, RowsTyped',
         \A f \in Events : f # e => rows'[f] = rows[f],
         \/ rows'[e] = rows[e]
         \/ /\ Current(w, e)
            /\ rows'[e].status \notin {"processing", "gone"}
            /\ rows'[e].status = "delivered" => Job(w, e).result = "ok"
  PROVE  OutboxInv'
<1>1. /\ work' \in [Workers -> WorkRec]
      /\ ~HasJob(w, e)'
      /\ \A v \in Workers, f \in Events :
           HasJob(v, f)' => HasJob(v, f) /\ Job(v, f)' = Job(v, f)
  BY JobDropped DEF OutboxInv
<1>2. Kept
  BY <1>1 DEF Kept
<1>3. rows'[e] = rows[e] \/ Closed(e)
  <2>1. SUFFICES ASSUME Current(w, e), rows'[e].status \notin {"processing", "gone"},
                        NEW v \in Workers, HasJob(v, e)', Job(v, e)'.until > 0
                 PROVE  FALSE
    BY DEF Closed
  <2>2. HasJob(v, e) /\ Job(v, e).until > 0 /\ v # w
    BY <1>1, <2>1
  <2>3. Current(v, e)
    BY <2>1, <2>2 DEF OutboxInv, Fence, LeasesCovered, Current
  <2> QED
    BY <2>1, <2>2, <2>3 DEF OutboxInv, Fence, TokensDiffer, Current
<1>4. Fence'
  BY <1>2, <1>3, KeptFence DEF OutboxInv
<1>5. Typed'
  BY <1>1 DEF Typed
<1>6. Accepted'
  <2>1. Required \subseteq Events
    BY OutboxAssumption
  <2> QED
    BY <1>1, <2>1 DEF OutboxInv, Accepted
<1> QED
  BY <1>4, <1>5, <1>6 DEF OutboxInv

LEMMA FinishLostInv ==
  ASSUME OutboxInv, NEW w \in Workers, NEW e \in Events, HasJob(w, e), FinishLost(w, e)
  PROVE  OutboxInv'
<1>1. rows' = rows /\ RowsTyped'
  BY DEF FinishLost, OutboxInv, Typed, RowsTyped
<1> QED
  BY <1>1, DropInv DEF FinishLost

LEMMA FinishInv ==
  ASSUME OutboxInv, NEW w \in Workers, NEW e \in Events, HasJob(w, e),
         NEW d \in Lags, Finish(w, e, d)
  PROVE  OutboxInv'
<1> DEFINE job == work[w].jobs[e]
<1>1. /\ work' = [work EXCEPT ![w].jobs = Restrict(@, DOMAIN @ \ {e})]
      /\ handled' = handled
      /\ rows' = IF job.beat = "lost" THEN rows ELSE Reported(e, job, d)
  BY DEF Finish
<1>2. CASE rows' = rows
  <2>1. RowsTyped'
    BY <1>2 DEF OutboxInv, Typed, RowsTyped
  <2> QED
    BY <1>1, <1>2, <2>1, DropInv
<1>3. CASE Owns(e, job.token, d) /\ job.result = "ok" /\ rows' = Completed(e)
  <2> DEFINE r == Row("delivered", NoToken, 0, rows[e].attempts)
  <2>1. /\ r = Row(r.status, r.token, r.left, r.attempts)
        /\ r.status = "delivered" /\ r.token = NoToken /\ r.attempts = rows[e].attempts
    BY DEF Row
  <2>2. rows' = [rows EXCEPT ![e] = r]
    BY <1>3 DEF Completed
  <2> HIDE DEF r
  <2>3. r.status \in Statuses /\ r.token \in Nat /\ r.attempts \in 0..AttemptCap
    BY <2>1 DEF OutboxInv, Typed, RowsTyped, Statuses, NoToken
  <2>4. RowsTyped' /\ rows'[e] = r /\ \A f \in Events : f # e => rows'[f] = rows[f]
    BY <2>1, <2>2, <2>3, RowWritten DEF OutboxInv
  <2>5. Current(w, e)
    BY <1>3 DEF Owns, Current, Job
  <2> QED
    BY <1>1, <1>3, <2>1, <2>4, <2>5, DropInv DEF Job
<1>4. CASE Owns(e, job.token, d) /\ rows' = Failed(e, d, RetryDelay(job.attempt))
  <2> DEFINE r == IF rows[e].attempts >= AttemptLimit
                    THEN Row("dead_letter", NoToken, 0, rows[e].attempts)
                    ELSE Row("pending", NoToken, RetryDelay(job.attempt) - d, rows[e].attempts)
  <2>1. /\ r = Row(r.status, r.token, r.left, r.attempts)
        /\ r.status \in {"dead_letter", "pending"}
        /\ r.token = NoToken /\ r.attempts = rows[e].attempts
    BY DEF Row
  <2>2. rows' = [rows EXCEPT ![e] = r]
    BY <1>4 DEF Failed
  <2> HIDE DEF r
  <2>3. r.status \in Statuses /\ r.token \in Nat /\ r.attempts \in 0..AttemptCap
    BY <2>1 DEF OutboxInv, Typed, RowsTyped, Statuses, NoToken
  <2>4. RowsTyped' /\ rows'[e] = r /\ \A f \in Events : f # e => rows'[f] = rows[f]
    BY <2>1, <2>2, <2>3, RowWritten DEF OutboxInv
  <2>5. Current(w, e)
    BY <1>4 DEF Owns, Current, Job
  <2> QED
    BY <1>1, <2>1, <2>4, <2>5, DropInv
<1>5. \/ rows' = rows
      \/ Owns(e, job.token, d) /\ job.result = "ok" /\ rows' = Completed(e)
      \/ Owns(e, job.token, d) /\ rows' = Failed(e, d, RetryDelay(job.attempt))
  <2> HIDE DEF job
  <2> QED
    BY <1>1 DEF Reported
<1> QED
  BY <1>2, <1>3, <1>4, <1>5

-----------------------------------------------------------------------------
(* Renewal, time and claims *)

LEMMA LagNumber ==
  ASSUME NEW d \in Lags
  PROVE  d \in Nat /\ Lease \in Nat /\ Lease - d \in Nat /\ Lease - d > 0
BY OutboxAssumption DEF Lags

\* Renewing the row of a claim that is held.
LEMMA RenewedRow ==
  ASSUME OutboxInv, NEW e \in Events, NEW d \in Lags, rows[e].status = "processing",
         rows' = Renewed(e, d)
  PROVE  /\ RowsTyped'
         /\ \A f \in Events : /\ rows'[f].status = rows[f].status
                              /\ rows'[f].token = rows[f].token
                              /\ rows'[f].attempts = rows[f].attempts
                              /\ f # e => rows'[f] = rows[f]
         /\ rows'[e].left \in Int /\ rows'[e].left >= rows[e].left /\ rows'[e].left >= Lease - d
<1> DEFINE r == Row(rows[e].status, rows[e].token, Greatest(rows[e].left, Lease - d), rows[e].attempts)
<1>1. rows[e].left \in Int /\ Lease - d \in Int
  BY LagNumber DEF OutboxInv, Typed, RowsTyped
<1>2. /\ Greatest(rows[e].left, Lease - d) \in Int
      /\ Greatest(rows[e].left, Lease - d) >= rows[e].left
      /\ Greatest(rows[e].left, Lease - d) >= Lease - d
  BY <1>1 DEF Greatest
<1>3. rows[e] = Row(rows[e].status, rows[e].token, rows[e].left, rows[e].attempts)
  BY DEF OutboxInv, Typed, RowsTyped
<1>4. rows' = [rows EXCEPT ![e] = r]
  <2> DEFINE x == Greatest(rows[e].left, Lease - d)
  <2>1. \A a, b, c, n : [Row(a, b, c, n) EXCEPT !.left = x] = Row(a, b, x, n)
    BY DEF Row
  <2>2. [rows[e] EXCEPT !.left = x] = r
    BY <1>3, <2>1
  <2>3. rows' = [rows EXCEPT ![e] = [rows[e] EXCEPT !.left = x]]
    BY DEF Renewed
  <2> QED
    BY <2>2, <2>3
<1>5. /\ r = Row(r.status, r.token, r.left, r.attempts)
      /\ r.status = rows[e].status /\ r.token = rows[e].token /\ r.attempts = rows[e].attempts
      /\ r.left = Greatest(rows[e].left, Lease - d)
  BY DEF Row
<1> HIDE DEF r
<1>6. /\ r.status \in Statuses /\ r.token \in Nat /\ r.attempts \in 0..AttemptCap
      /\ (r.token # NoToken) = (r.status = "processing")
      /\ r.status = "processing" => r.left \in Int
  BY <1>2, <1>5 DEF OutboxInv, Typed, RowsTyped
<1>7. RowsTyped' /\ rows'[e] = r /\ \A f \in Events : f # e => rows'[f] = rows[f]
  BY <1>4, <1>5, <1>6, RowWritten DEF OutboxInv
<1> QED
  BY <1>2, <1>5, <1>7

\* Fence when the row of one claim is renewed and its worker's table says no
\* more than the row.
LEMMA RenewFence ==
  ASSUME OutboxInv, NEW w \in Workers, NEW e \in Events, HasJob(w, e), NEW d \in Lags,
         Current(w, e), rows' = Renewed(e, d),
         \A v \in Workers, f \in Events : HasJob(v, f)' = HasJob(v, f),
         \A v \in Workers, f \in Events :
           HasJob(v, f) /\ (v # w \/ f # e) => Job(v, f)' = Job(v, f),
         Job(w, e)'.token = Job(w, e).token, Job(w, e)'.attempt = Job(w, e).attempt,
         \/ Job(w, e)'.until = Job(w, e).until
         \/ Job(w, e)'.until = Greatest(Job(w, e).until, Lease - d)
  PROVE  Fence' /\ RowsTyped'
<1>1. /\ RowsTyped'
      /\ \A f \in Events : /\ rows'[f].status = rows[f].status
                           /\ rows'[f].token = rows[f].token
                           /\ rows'[f].attempts = rows[f].attempts
                           /\ f # e => rows'[f] = rows[f]
      /\ rows'[e].left \in Int /\ rows'[e].left >= rows[e].left /\ rows'[e].left >= Lease - d
  BY RenewedRow DEF Current
<1>2. rows[e].left \in Int /\ Lease - d \in Int /\ Job(w, e).until \in Nat
  <2>1. Job(w, e) \in JobRec
    BY JobTyped DEF OutboxInv
  <2> QED
    BY <2>1, LagNumber DEF OutboxInv, Typed, RowsTyped, Current, JobRec
<1>3. \A v \in Workers, f \in Events : HasJob(v, f) =>
        Job(v, f)'.token = Job(v, f).token /\ Job(v, f)'.attempt = Job(v, f).attempt
  OBVIOUS
<1>4. TokensCarryAttempts' /\ TokensDiffer'
  BY <1>1, <1>3 DEF OutboxInv, Fence, TokensCarryAttempts, TokensDiffer, Current
<1>5. \A v \in Workers : v # w /\ HasJob(v, e) => ~(Job(v, e).until > 0)
  BY DEF OutboxInv, Fence, LeasesCovered, TokensDiffer, Current
<1>6. Job(w, e)'.until > 0 => rows'[e].left >= Job(w, e)'.until
  <2>1. Job(w, e).until > 0 => rows[e].left >= Job(w, e).until
    BY DEF OutboxInv, Fence, LeasesCovered, Current
  <2> QED
    BY <1>1, <1>2, <2>1 DEF Greatest
<1>7. LeasesCovered'
  <2>1. SUFFICES ASSUME NEW v \in Workers, NEW f \in Events, HasJob(v, f)', Job(v, f)'.until > 0
                 PROVE  \/ rows'[f].status = "gone"
                        \/ Current(v, f)' /\ rows'[f].left >= Job(v, f)'.until
    BY DEF LeasesCovered
  <2>2. CASE f = e
    <3>1. v = w
      BY <1>5, <2>1, <2>2
    <3> QED
      BY <1>1, <1>3, <1>6, <2>1, <2>2, <3>1 DEF Current
  <2>3. CASE f # e
    BY <1>1, <2>1, <2>3 DEF OutboxInv, Fence, LeasesCovered, Current
  <2> QED
    BY <2>2, <2>3
<1>8. OneLease'
  BY <1>5 DEF OutboxInv, Fence, OneLease
<1> QED
  BY <1>1, <1>4, <1>7, <1>8 DEF Fence

LEMMA BeatInv ==
  ASSUME OutboxInv, NEW w \in Workers, NEW e \in Events, HasJob(w, e), NEW d \in Lags,
         Beat(w, e, d) \/ BeatReplyLost(w, e, d)
  PROVE  OutboxInv'
<1> DEFINE lost == [work[w].jobs[e] EXCEPT !.beat = "lost"]
           longer == [work[w].jobs[e] EXCEPT !.until = Greatest(work[w].jobs[e].until, Lease - d)]
<1>1. Job(w, e) \in JobRec
  BY JobTyped DEF OutboxInv
<1>2. /\ lost \in JobRec /\ lost.until = Job(w, e).until
      /\ lost.token = Job(w, e).token /\ lost.attempt = Job(w, e).attempt
      /\ lost.result = Job(w, e).result
  BY <1>1 DEF JobRec, Job
<1>3. /\ longer \in JobRec /\ longer.until = Greatest(Job(w, e).until, Lease - d)
      /\ longer.token = Job(w, e).token /\ longer.attempt = Job(w, e).attempt
      /\ longer.result = Job(w, e).result
  BY <1>1, LagNumber DEF JobRec, Job, Greatest
<1>4. handled' = handled
  BY DEF Beat, BeatReplyLost
<1>5. PICK r \in {lost, longer} :
        /\ work' = [work EXCEPT ![w].jobs = [work[w].jobs EXCEPT ![e] = r]]
        /\ \/ rows' = rows /\ r = lost
           \/ Current(w, e) /\ rows' = Renewed(e, d)
  BY DEF Beat, BeatReplyLost, Owns, Current, Job
<1>6. /\ r \in JobRec /\ r.token = Job(w, e).token /\ r.attempt = Job(w, e).attempt
      /\ r.result = Job(w, e).result
      /\ r.until \in {Job(w, e).until, Greatest(Job(w, e).until, Lease - d)}
  BY <1>2, <1>3
<1>7. \/ rows' = rows /\ r.until = Job(w, e).until
      \/ Current(w, e) /\ rows' = Renewed(e, d)
  BY <1>2, <1>5
<1> HIDE DEF lost, longer
<1>8. /\ work' \in [Workers -> WorkRec]
      /\ \A v \in Workers, f \in Events : HasJob(v, f)' = HasJob(v, f)
      /\ Job(w, e)' = r
      /\ \A v \in Workers, f \in Events :
           HasJob(v, f) /\ (v # w \/ f # e) => Job(v, f)' = Job(v, f)
  BY <1>5, <1>6, JobWritten DEF OutboxInv
<1>9. Fence' /\ RowsTyped'
  <2>1. CASE Current(w, e) /\ rows' = Renewed(e, d)
    BY <1>6, <1>8, <2>1, RenewFence
  <2>2. CASE rows' = rows /\ r.until = Job(w, e).until
    <3>1. Kept
      BY <1>6, <1>8, <2>2 DEF Kept
    <3> QED
      BY <2>2, <3>1, KeptFence DEF OutboxInv, Typed, RowsTyped
  <2> QED
    BY <1>7, <2>1, <2>2
<1>10. \A f \in Events : rows'[f].status = rows[f].status
  <2>1. CASE rows' = rows
    BY <2>1
  <2>2. CASE Current(w, e) /\ rows' = Renewed(e, d)
    BY <2>2, RenewedRow DEF Current
  <2> QED
    BY <1>5, <2>1, <2>2
<1>11. Accepted'
  <2>1. Required \subseteq Events
    BY OutboxAssumption
  <2> QED
    BY <1>4, <1>6, <1>8, <1>10, <2>1 DEF OutboxInv, Accepted
<1> QED
  BY <1>8, <1>9, <1>11 DEF OutboxInv, Typed

LEMMA TickInv ==
  ASSUME OutboxInv, Tick
  PROVE  OutboxInv'
<1> DEFINE next(e) == [rows[e] EXCEPT !.left = Greatest(rows[e].left - 1, -MaxLag)]
           shorter(w, e) ==
             [work[w].jobs[e] EXCEPT !.until = Greatest(work[w].jobs[e].until - 1, 0)]
           J(w) == [e \in DOMAIN work[w].jobs |-> shorter(w, e)]
<1>1. handled' = handled
  BY DEF Tick
<1>2. MaxLag \in Nat
  BY OutboxAssumption
<1>3. \A e \in Events : rows'[e] = IF IsOpen(e) THEN next(e) ELSE rows[e]
  BY DEF Tick
<1>4. ASSUME NEW e \in Events
      PROVE  /\ rows'[e] = Row(rows[e].status, rows[e].token, rows'[e].left, rows[e].attempts)
             /\ rows'[e].status = rows[e].status
             /\ rows'[e].token = rows[e].token
             /\ rows'[e].attempts = rows[e].attempts
             /\ rows[e].status = "processing" =>
                  rows'[e].left \in Int /\ rows'[e].left >= rows[e].left - 1
  <2>1. rows[e] = Row(rows[e].status, rows[e].token, rows[e].left, rows[e].attempts)
    BY DEF OutboxInv, Typed, RowsTyped
  <2>2. \A a, b, c, n, x :
          /\ [Row(a, b, c, n) EXCEPT !.left = x] = Row(a, b, x, n)
          /\ Row(a, b, c, n).status = a /\ Row(a, b, c, n).token = b
          /\ Row(a, b, c, n).left = c /\ Row(a, b, c, n).attempts = n
    BY DEF Row
  <2>3. CASE IsOpen(e)
    <3> DEFINE x == Greatest(rows[e].left - 1, -MaxLag)
    <3>1. rows'[e] = Row(rows[e].status, rows[e].token, x, rows[e].attempts)
      <4>1. rows'[e] = [rows[e] EXCEPT !.left = x]
        BY <1>3, <2>3
      <4> HIDE DEF x
      <4> QED
        BY <2>1, <2>2, <4>1
    <3>2. rows[e].status = "processing" => x \in Int /\ x >= rows[e].left - 1
      BY <1>2 DEF OutboxInv, Typed, RowsTyped, Greatest
    <3> HIDE DEF x
    <3> QED
      BY <2>2, <3>1, <3>2
  <2>4. CASE ~IsOpen(e)
    BY <1>3, <2>1, <2>4 DEF IsOpen
  <2> QED
    BY <2>3, <2>4
<1>5. RowsTyped'
  <2>1. rows' = [e \in Events |-> rows'[e]]
    BY DEF Tick
  <2>2. \A e \in Events :
          rows'[e] = Row(rows'[e].status, rows'[e].token, rows'[e].left, rows'[e].attempts)
    BY <1>4
  <2>3. rows' = [e \in Events |->
          Row(rows'[e].status, rows'[e].token, rows'[e].left, rows'[e].attempts)]
    BY <2>1, <2>2
  <2>4. \A e \in Events :
          /\ rows'[e].status \in Statuses
          /\ rows'[e].token \in Nat
          /\ (rows'[e].token # NoToken) = (rows'[e].status = "processing")
          /\ rows'[e].attempts \in 0..AttemptCap
          /\ rows'[e].status = "processing" => rows'[e].left \in Int
    BY <1>4 DEF OutboxInv, Typed, RowsTyped
  <2> QED
    BY <2>3, <2>4 DEF RowsTyped
<1>6. ASSUME NEW w \in Workers
      PROVE  /\ J(w) \in JobTables
             /\ DOMAIN J(w) = DOMAIN work[w].jobs
             /\ \A e \in DOMAIN work[w].jobs :
                  /\ J(w)[e].token = work[w].jobs[e].token
                  /\ J(w)[e].attempt = work[w].jobs[e].attempt
                  /\ J(w)[e].result = work[w].jobs[e].result
                  /\ work[w].jobs[e].until \in Nat
                  /\ J(w)[e].until = Greatest(work[w].jobs[e].until - 1, 0)
  <2>1. PICK D \in SUBSET Events : work[w].jobs \in [D -> JobRec]
    BY WorkShape DEF OutboxInv, JobTables
  <2>2. ASSUME NEW e \in D
        PROVE  /\ shorter(w, e) \in JobRec
               /\ shorter(w, e).token = work[w].jobs[e].token
               /\ shorter(w, e).attempt = work[w].jobs[e].attempt
               /\ shorter(w, e).result = work[w].jobs[e].result
               /\ work[w].jobs[e].until \in Nat
               /\ shorter(w, e).until = Greatest(work[w].jobs[e].until - 1, 0)
    BY <2>1 DEF JobRec, Greatest
  <2>3. DOMAIN work[w].jobs = D
    BY <2>1
  <2> HIDE DEF shorter
  <2>4. J(w) \in [D -> JobRec]
    BY <2>2, <2>3
  <2> QED
    BY <2>2, <2>3, <2>4, TableShape
<1>7. \A w \in Workers : work'[w] = [work[w] EXCEPT !.jobs = J(w)]
  BY DEF Tick
<1>8. work' \in [Workers -> WorkRec] /\ \A w \in Workers : work'[w].jobs = J(w)
  <2>1. work' = [w \in Workers |-> work'[w]]
    BY DEF Tick
  <2> HIDE DEF J
  <2>2. ASSUME NEW w \in Workers
        PROVE  work'[w] \in WorkRec /\ work'[w].jobs = J(w)
    BY <1>6, <1>7, WorkShape DEF OutboxInv, WorkRec
  <2> QED
    BY <2>1, <2>2
<1>9. ASSUME NEW w \in Workers, NEW e \in Events
      PROVE  /\ HasJob(w, e)' = HasJob(w, e)
             /\ HasJob(w, e) =>
                  /\ Job(w, e)'.token = Job(w, e).token
                  /\ Job(w, e)'.attempt = Job(w, e).attempt
                  /\ Job(w, e)'.result = Job(w, e).result
                  /\ Job(w, e).until \in Nat
                  /\ Job(w, e)'.until = Greatest(Job(w, e).until - 1, 0)
  <2> HIDE DEF J
  <2> QED
    BY <1>6, <1>8 DEF HasJob, Job
<1>10. \A w \in Workers, e \in Events :
         HasJob(w, e) /\ Job(w, e)'.until > 0 =>
           Job(w, e).until > 0 /\ Job(w, e)'.until = Job(w, e).until - 1
  BY <1>9 DEF Greatest
<1>11. TokensCarryAttempts' /\ TokensDiffer'
  BY <1>4, <1>9 DEF OutboxInv, Fence, TokensCarryAttempts, TokensDiffer, Current
<1>12. LeasesCovered'
  <2>1. SUFFICES ASSUME NEW w \in Workers, NEW e \in Events, HasJob(w, e)', Job(w, e)'.until > 0
                 PROVE  \/ rows'[e].status = "gone"
                        \/ Current(w, e)' /\ rows'[e].left >= Job(w, e)'.until
    BY DEF LeasesCovered
  <2>2. HasJob(w, e) /\ Job(w, e).until > 0 /\ Job(w, e)'.until = Job(w, e).until - 1
        /\ Job(w, e).until \in Nat
    BY <1>9, <1>10, <2>1
  <2>3. \/ rows[e].status = "gone"
        \/ Current(w, e) /\ rows[e].left >= Job(w, e).until
    BY <2>2 DEF OutboxInv, Fence, LeasesCovered
  <2>4. rows[e].status = "processing" => rows[e].left \in Int
    BY DEF OutboxInv, Typed, RowsTyped
  <2> QED
    BY <1>4, <1>9, <2>2, <2>3, <2>4 DEF Current
<1>13. OneLease'
  BY <1>9, <1>10 DEF OutboxInv, Fence, OneLease
<1>14. Accepted'
  <2>1. Required \subseteq Events
    BY OutboxAssumption
  <2> QED
    BY <1>1, <1>4, <1>9, <2>1 DEF OutboxInv, Accepted
<1> QED
  BY <1>5, <1>8, <1>11, <1>12, <1>13, <1>14 DEF OutboxInv, Typed, Fence

\* The table after a claim.
LEMMA ClaimedRows ==
  ASSUME OutboxInv, NEW d \in Lags, NEW S \in SUBSET Claimable(d), rows' = Claimed(S, d)
  PROVE  /\ RowsTyped'
         /\ \A e \in Events \ S : rows'[e] = rows[e]
         /\ \A e \in S :
              /\ rows'[e].status = "processing" /\ rows'[e].token = NewToken
              /\ rows'[e].left = Lease - d
              /\ rows'[e].attempts \in 1..AttemptCap
              /\ Claimed(S, d)[e].attempts = rows'[e].attempts
<1> DEFINE r(e) == Row("processing", NewToken, Lease - d, Least(rows[e].attempts + 1, AttemptCap))
<1>1. S \subseteq Events
  BY DEF Claimable
<1>2. rows' = [e \in Events |-> IF e \in S THEN r(e) ELSE rows[e]]
  BY DEF Claimed
<1>3. \A e \in Events : Least(rows[e].attempts + 1, AttemptCap) \in 1..AttemptCap
  BY CapNumber DEF OutboxInv, Typed, RowsTyped, Least
<1>4. NewToken \in Nat \ {0}
  BY TokenFree DEF OutboxInv
<1>5. ASSUME NEW e \in Events
      PROVE  /\ r(e) = Row(r(e).status, r(e).token, r(e).left, r(e).attempts)
             /\ r(e).status = "processing" /\ r(e).token = NewToken /\ r(e).left = Lease - d
             /\ r(e).attempts \in 1..AttemptCap
  BY <1>3 DEF Row
<1>6. \A e \in Events : rows'[e] = IF e \in S THEN r(e) ELSE rows[e]
  BY <1>2
<1> HIDE DEF r
<1>7. rows' = [e \in Events |-> Row(rows'[e].status, rows'[e].token, rows'[e].left, rows'[e].attempts)]
  <2>1. \A e \in Events :
          rows'[e] = Row(rows'[e].status, rows'[e].token, rows'[e].left, rows'[e].attempts)
    BY <1>5, <1>6 DEF OutboxInv, Typed, RowsTyped
  <2> QED
    BY <1>2, <2>1
<1>8. \A e \in Events :
        /\ rows'[e].status \in Statuses
        /\ rows'[e].token \in Nat
        /\ (rows'[e].token # NoToken) = (rows'[e].status = "processing")
        /\ rows'[e].attempts \in 0..AttemptCap
        /\ rows'[e].status = "processing" => rows'[e].left \in Int
  BY <1>4, <1>5, <1>6, LagNumber, CapNumber DEF OutboxInv, Typed, RowsTyped, Statuses, NoToken
<1>9. Claimed(S, d) = rows'
  OBVIOUS
<1> QED
  BY <1>1, <1>5, <1>6, <1>7, <1>8, <1>9 DEF RowsTyped

\* Nobody is within the lease of a row that can be claimed.
LEMMA ClaimableFree ==
  ASSUME OutboxInv, NEW d \in Lags, NEW e \in Claimable(d), NEW w \in Workers, HasJob(w, e)
  PROVE  ~(Job(w, e).until > 0)
<1>1. e \in Events /\ rows[e].status \in {"pending", "processing"} /\ rows[e].left <= -d
  BY DEF Claimable, IsOpen
<1>2. Job(w, e).until \in Nat
  BY <1>1, JobTyped DEF OutboxInv, JobRec
<1>3. rows[e].status = "processing" => rows[e].left \in Int
  BY <1>1 DEF OutboxInv, Typed, RowsTyped
<1> QED
  BY <1>1, <1>2, <1>3, LagNumber DEF OutboxInv, Fence, LeasesCovered, Current

\* A token in use is not the new one.
LEMMA JobTokenUsed ==
  ASSUME OutboxInv, NEW w \in Workers, NEW e \in Events, HasJob(w, e)
  PROVE  Job(w, e).token # NewToken
<1>1. Job(w, e).token \in TokensInUse
  BY DEF HasJob, Job, TokensInUse
<1> QED
  BY <1>1, TokenFree DEF OutboxInv

LEMMA ClaimInv ==
  ASSUME OutboxInv, NEW w \in Workers, NEW d \in Lags, NEW S \in SUBSET Claimable(d),
         Claim(w, S, d)
  PROVE  OutboxInv'
<1> DEFINE available == Least(Concurrency, work[w].remaining)
           job(e) == [token |-> NewToken, attempt |-> Claimed(S, d)[e].attempts,
                      beat |-> "on", result |-> "none", until |-> Lease - d]
           J == [e \in S |-> job(e)]
           n == IF Cardinality(S) < available THEN 0 ELSE work[w].remaining - available
           mid == [work EXCEPT ![w].jobs = J]
<1>1. S \in SUBSET Events
  BY DEF Claimable
<1>2. rows' = Claimed(S, d) /\ handled' = handled
  BY DEF Claim
<1>3. /\ RowsTyped'
      /\ \A e \in Events \ S : rows'[e] = rows[e]
      /\ \A e \in S :
           /\ rows'[e].status = "processing" /\ rows'[e].token = NewToken
           /\ rows'[e].left = Lease - d
           /\ rows'[e].attempts \in 1..AttemptCap
           /\ Claimed(S, d)[e].attempts = rows'[e].attempts
  BY <1>2, ClaimedRows
<1>4. ASSUME NEW e \in S
      PROVE  /\ job(e) \in JobRec
             /\ job(e).token = NewToken /\ job(e).attempt = rows'[e].attempts
             /\ job(e).until = Lease - d /\ job(e).result = "none"
  BY <1>3, TokenFree, LagNumber DEF OutboxInv, JobRec
<1>5. J \in [S -> JobRec] /\ \A e \in S : J[e] = job(e)
  <2> HIDE DEF job
  <2> QED
    BY <1>4
<1>6. J \in JobTables
  BY <1>1, <1>5, TableShape
<1>7. n \in Int
  <2>1. work[w].remaining \in Int /\ Concurrency \in Int
    BY WorkShape, OutboxAssumption DEF OutboxInv, WorkRec
  <2> QED
    BY <2>1 DEF Least
<1>8. work' = [mid EXCEPT ![w].remaining = n]
  BY DEF Claim, OutboxInv, Typed
<1>9. /\ work' \in [Workers -> WorkRec]
      /\ work'[w].jobs = J
      /\ \A v \in Workers : v # w => work'[v].jobs = work[v].jobs
  <2> HIDE DEF J, n
  <2>1. /\ mid \in [Workers -> WorkRec]
        /\ mid[w].jobs = J
        /\ \A v \in Workers : v # w => mid[v].jobs = work[v].jobs
    BY <1>6 DEF OutboxInv, Typed, WorkRec
  <2> HIDE DEF mid
  <2> QED
    BY <1>7, <1>8, <2>1 DEF WorkRec
<1> HIDE DEF J, n, mid
<1>10. ASSUME NEW v \in Workers, NEW e \in Events
       PROVE  /\ v = w => /\ HasJob(v, e)' = (e \in S)
                          /\ e \in S => Job(v, e)' = job(e)
              /\ v # w => HasJob(v, e)' = HasJob(v, e) /\ Job(v, e)' = Job(v, e)
  <2> HIDE DEF job
  <2> QED
    BY <1>5, <1>9 DEF HasJob, Job
<1> HIDE DEF job
<1>11. \A v \in Workers, e \in Events : v # w /\ HasJob(v, e)' => Job(v, e)'.token # NewToken
  BY <1>10, JobTokenUsed
<1>12. \A v \in Workers, e \in S : v # w /\ HasJob(v, e)' => ~(Job(v, e)'.until > 0)
  <2> SUFFICES ASSUME NEW v \in Workers, NEW e \in S, v # w, HasJob(v, e)'
               PROVE  ~(Job(v, e)'.until > 0)
    OBVIOUS
  <2>1. HasJob(v, e) /\ Job(v, e)' = Job(v, e)
    BY <1>1, <1>10
  <2> QED
    BY <2>1, ClaimableFree
<1>13. TokensCarryAttempts'
  <2> SUFFICES ASSUME NEW v \in Workers, NEW e \in Events, HasJob(v, e)', Current(v, e)'
               PROVE  Job(v, e)'.attempt = rows'[e].attempts
    BY DEF TokensCarryAttempts
  <2>1. CASE v = w
    BY <1>4, <1>10, <2>1
  <2>2. CASE v # w
    <3>1. e \notin S
      BY <1>3, <1>11, <2>2 DEF Current
    <3> QED
      BY <1>3, <1>10, <2>2, <3>1 DEF OutboxInv, Fence, TokensCarryAttempts, Current
  <2> QED
    BY <2>1, <2>2
<1>14. LeasesCovered'
  <2> SUFFICES ASSUME NEW v \in Workers, NEW e \in Events, HasJob(v, e)', Job(v, e)'.until > 0
               PROVE  \/ rows'[e].status = "gone"
                      \/ Current(v, e)' /\ rows'[e].left >= Job(v, e)'.until
    BY DEF LeasesCovered
  <2>1. CASE v = w
    <3>1. e \in S /\ Job(v, e)' = job(e)
      BY <1>10, <2>1
    <3>2. /\ rows'[e].status = "processing" /\ rows'[e].token = Job(v, e)'.token
          /\ rows'[e].left = Job(v, e)'.until
      BY <1>3, <1>4, <3>1
    <3>3. rows'[e].left \in Int
      BY <1>3, <3>1, LagNumber
    <3> QED
      BY <3>2, <3>3 DEF Current
  <2>2. CASE v # w
    <3>1. e \notin S
      BY <1>12, <2>2
    <3> QED
      BY <1>3, <1>10, <2>2, <3>1 DEF OutboxInv, Fence, LeasesCovered, Current
  <2> QED
    BY <2>1, <2>2
<1>15. TokensDiffer'
  <2> SUFFICES ASSUME NEW u \in Workers, NEW v \in Workers, NEW e \in Events,
                      HasJob(u, e)', HasJob(v, e)', Job(u, e)'.token = Job(v, e)'.token
               PROVE  u = v
    BY DEF TokensDiffer
  <2>1. CASE u # w /\ v # w
    BY <1>10, <2>1 DEF OutboxInv, Fence, TokensDiffer
  <2>2. CASE u = w \/ v = w
    BY <1>4, <1>10, <1>11, <2>2
  <2> QED
    BY <2>1, <2>2
<1>16. OneLease'
  <2> SUFFICES ASSUME NEW u \in Workers, NEW v \in Workers, NEW e \in Events,
                      HasJob(u, e)', HasJob(v, e)', Job(u, e)'.until > 0, Job(v, e)'.until > 0
               PROVE  u = v
    BY DEF OneLease
  <2>1. CASE u # w /\ v # w
    BY <1>10, <2>1 DEF OutboxInv, Fence, OneLease
  <2>2. CASE u = w \/ v = w
    BY <1>10, <1>12, <2>2
  <2> QED
    BY <2>1, <2>2
<1>17. Accepted'
  <2>1. Required \subseteq Events
    BY OutboxAssumption
  <2> QED
    BY <1>2, <1>3, <1>4, <1>10, <2>1 DEF OutboxInv, Accepted
<1> QED
  BY <1>3, <1>9, <1>13, <1>14, <1>15, <1>16, <1>17 DEF OutboxInv, Typed, Fence

LEMMA ClaimReplyLostInv ==
  ASSUME OutboxInv, NEW w \in Workers, NEW d \in Lags, NEW S \in SUBSET Claimable(d),
         ClaimReplyLost(w, S, d)
  PROVE  OutboxInv'
<1>1. S \in SUBSET Events
  BY DEF Claimable
<1>2. rows' = Claimed(S, d) /\ handled' = handled
  BY DEF ClaimReplyLost
<1>3. /\ RowsTyped'
      /\ \A e \in Events \ S : rows'[e] = rows[e]
      /\ \A e \in S : rows'[e].status = "processing" /\ rows'[e].token = NewToken
  BY <1>2, ClaimedRows
<1>4. work' \in [Workers -> WorkRec] /\ \A v \in Workers : work'[v].jobs = work[v].jobs
  BY DEF ClaimReplyLost, OutboxInv, Typed, WorkRec
<1>5. \A v \in Workers, e \in Events : HasJob(v, e)' = HasJob(v, e) /\ Job(v, e)' = Job(v, e)
  BY <1>4 DEF HasJob, Job
<1>6. \A v \in Workers, e \in S : HasJob(v, e) => ~(Job(v, e).until > 0)
  BY ClaimableFree
<1>7. \A v \in Workers, e \in S : HasJob(v, e) => ~Current(v, e)'
  BY <1>1, <1>3, <1>5, JobTokenUsed DEF Current
<1>8. TokensCarryAttempts'
  BY <1>3, <1>5, <1>7 DEF OutboxInv, Fence, TokensCarryAttempts, Current
<1>9. LeasesCovered'
  BY <1>3, <1>5, <1>6 DEF OutboxInv, Fence, LeasesCovered, Current
<1>10. TokensDiffer' /\ OneLease'
  BY <1>5 DEF OutboxInv, Fence, TokensDiffer, OneLease
<1>11. Accepted'
  <2>1. Required \subseteq Events
    BY OutboxAssumption
  <2> QED
    BY <1>2, <1>3, <1>5, <2>1 DEF OutboxInv, Accepted
<1> QED
  BY <1>3, <1>4, <1>8, <1>9, <1>10, <1>11 DEF OutboxInv, Typed, Fence

-----------------------------------------------------------------------------
(* The theorems *)

LEMMA InitInv == OutboxInit => OutboxInv
<1> SUFFICES ASSUME OutboxInit PROVE OutboxInv
  OBVIOUS
<1> DEFINE r == [phase |-> "idle", stop |-> "no", remaining |-> 0, jobs |-> NoJobs]
<1>1. r \in WorkRec /\ r.jobs = NoJobs
  BY EmptyTable DEF WorkRec
<1>2. work \in [Workers -> WorkRec] /\ \A w \in Workers : work[w].jobs = NoJobs
  <2>1. work = [w \in Workers |-> r]
    BY DEF OutboxInit
  <2> HIDE DEF r
  <2> QED
    BY <1>1, <2>1
<1>3. \A w \in Workers, e \in Events : ~HasJob(w, e)
  BY <1>2, EmptyTable DEF HasJob
<1>4. \A e \in Events :
        /\ rows[e] = Row("none", NoToken, 0, 0)
        /\ rows[e].status = "none" /\ rows[e].token = NoToken
        /\ rows[e].left = 0 /\ rows[e].attempts = 0
  BY DEF OutboxInit, Row
<1>5. RowsTyped
  <2>1. rows = [e \in Events |-> Row(rows[e].status, rows[e].token, rows[e].left, rows[e].attempts)]
    BY <1>4 DEF OutboxInit
  <2> QED
    BY <1>4, <2>1, CapNumber DEF RowsTyped, Statuses, NoToken
<1>6. Fence
  BY <1>3 DEF Fence, TokensCarryAttempts, LeasesCovered, TokensDiffer, OneLease
<1>7. Accepted
  <2>1. Required \subseteq Events
    BY OutboxAssumption
  <2> QED
    BY <1>3, <1>4, <2>1 DEF Accepted
<1> QED
  BY <1>2, <1>5, <1>6, <1>7 DEF OutboxInv, Typed

LEMMA StutterInv ==
  ASSUME OutboxInv, UNCHANGED outbox
  PROVE  OutboxInv'
<1>1. work' = work /\ rows' = rows /\ handled' = handled
  BY DEF outbox
<1>2. work' \in [Workers -> WorkRec]
  BY <1>1 DEF OutboxInv, Typed
<1> QED
  BY <1>1, <1>2, SameJobs

LEMMA NextInv == OutboxInv /\ [OutboxNext]_outbox => OutboxInv'
<1> SUFFICES ASSUME OutboxInv, [OutboxNext]_outbox PROVE OutboxInv'
  OBVIOUS
<1>1. CASE UNCHANGED outbox
  BY <1>1, StutterInv
<1>2. ASSUME NEW e \in Events, Enqueue(e) \/ Requeue(e) \/ Prune(e) PROVE OutboxInv'
  BY <1>2, RequeueInv, PruneInv
<1>3. ASSUME NEW w \in Workers, BeginRun(w) \/ EndRun(w) \/ Stopped(w) PROVE OutboxInv'
  BY <1>3, RunInv
<1>4. ASSUME NEW w \in Workers, CancelRun(w) \/ Crash(w) PROVE OutboxInv'
  BY <1>4, CancelInv, CrashInv
<1>5. ASSUME NEW w \in Stoppable, Stop(w) PROVE OutboxInv'
  BY <1>5, RunInv, OutboxAssumption
<1>6. ASSUME NEW w \in Workers, NEW S \in SUBSET Events, NEW d \in Lags,
             Claim(w, S, d) \/ ClaimReplyLost(w, S, d)
      PROVE  OutboxInv'
  <2>1. S \in SUBSET Claimable(d)
    BY <1>6 DEF Claim, ClaimReplyLost
  <2> QED
    BY <1>6, <2>1, ClaimInv, ClaimReplyLostInv
<1>7. ASSUME NEW w \in Workers, NEW e \in DOMAIN work[w].jobs, Dispatch(w, e) PROVE OutboxInv'
  <2>1. e \in Events /\ HasJob(w, e)
    BY JobsOnEvents DEF OutboxInv, HasJob
  <2>2. ASSUME NEW d \in Lags, Beat(w, e, d) \/ BeatReplyLost(w, e, d) \/ Finish(w, e, d)
        PROVE  OutboxInv'
    BY <2>1, <2>2, BeatInv, FinishInv
  <2>3. ASSUME NEW result \in {"ok", "error"}, HandlersReturn(w, e, result) PROVE OutboxInv'
    BY <2>1, <2>3, HandlersReturnInv
  <2>4. CASE FinishLost(w, e)
    BY <2>1, <2>4, FinishLostInv
  <2> QED
    BY <1>7, <2>2, <2>3, <2>4 DEF Dispatch
<1>8. CASE Tick
  BY <1>8, TickInv
<1> QED
  BY <1>1, <1>2, <1>3, <1>4, <1>5, <1>6, <1>7, <1>8 DEF OutboxNext

LEMMA InvImplies == OutboxInv => ClaimsFence /\ RequiredNeverLost
<1> SUFFICES ASSUME OutboxInv PROVE ClaimsFence /\ RequiredNeverLost
  OBVIOUS
<1>1. LeasesExclusive
  BY DEF OutboxInv, Fence, OneLease, LeasesExclusive, JobsOn, HasJob, Job
<1>2. AttemptsAgree
  <2>1. \A w \in Workers : DOMAIN work[w].jobs \subseteq Events
    BY JobsOnEvents DEF OutboxInv
  <2> QED
    BY <2>1 DEF OutboxInv, Fence, TokensCarryAttempts, AttemptsAgree, Owns, Current, HasJob, Job
<1>3. RequiredNeverLost
  BY OutboxAssumption DEF OutboxInv, Accepted, RequiredNeverLost
<1> QED
  BY <1>1, <1>2, <1>3 DEF ClaimsFence

\* Claims fence (claim_outbox_events, renew_tenant_outbox_claim and the worker
\* that believes what they returned): however transactions lag, replies are lost
\* and workers stall, two leases never overlap and a holder knows its attempt.
THEOREM OutboxFences == OutboxSpec => []ClaimsFence
<1>1. OutboxSpec => []OutboxInv
  BY InitInv, NextInv, PTL DEF OutboxSpec
<1> QED
  BY <1>1, InvImplies, PTL

\* A required event is marked delivered or deleted only after its handlers have
\* accepted it (dispatchEvent, run_storage_maintenance).
THEOREM OutboxDelivers == OutboxSpec => []RequiredNeverLost
<1>1. OutboxSpec => []OutboxInv
  BY InitInv, NextInv, PTL DEF OutboxSpec
<1> QED
  BY <1>1, InvImplies, PTL

\* What a step may do to a row that is settled.
Settles ==
  \A e \in Events :
    /\ rows[e].status = "delivered" => rows'[e].status \in {"delivered", "gone"}
    /\ rows[e].status = "gone" => rows'[e].status = "gone"
    /\ rows[e].status = "dead_letter" =>
         rows'[e].status \in {"dead_letter", "gone"} \/ rows'[e].attempts = 0

\* Rows are written where they are open, or the step is one of the operator's.
LEMMA OpenWritten ==
  ASSUME \A e \in Events : rows[e].status \notin {"pending", "processing"} =>
           rows'[e] = rows[e]
  PROVE  Settles
BY DEF Settles

LEMMA NextSettles == OutboxInv /\ [OutboxNext]_outbox => Settles
<1> SUFFICES ASSUME OutboxInv, [OutboxNext]_outbox PROVE Settles
  OBVIOUS
<1>0. DOMAIN rows = Events
  BY DEF OutboxInv, Typed, RowsTyped
<1>1. CASE rows' = rows
  BY <1>1 DEF Settles
<1>2. ASSUME NEW e \in Events, Enqueue(e) \/ Requeue(e) PROVE Settles
  BY <1>0, <1>2 DEF Enqueue, Requeue, Settles, Row
<1>3. ASSUME NEW e \in Events, Prune(e) PROVE Settles
  BY <1>0, <1>3 DEF Prune, Settles, Row
<1>4. ASSUME NEW S \in SUBSET Events, NEW d \in Lags, S \subseteq Claimable(d), rows' = Claimed(S, d)
      PROVE  Settles
  <2>1. \A e \in Events \ S : rows'[e] = rows[e]
    BY <1>4, ClaimedRows
  <2> QED
    BY <1>4, <2>1, OpenWritten DEF Claimable, IsOpen
<1>5. ASSUME NEW e \in Events, rows[e].status = "processing", NEW r,
             rows' = [rows EXCEPT ![e] = r]
      PROVE  Settles
  <2>1. \A f \in Events \ {e} : rows'[f] = rows[f]
    BY <1>0, <1>5
  <2> QED
    BY <1>5, <2>1, OpenWritten
<1>6. ASSUME NEW w \in Workers, NEW e \in DOMAIN work[w].jobs, Dispatch(w, e) PROVE Settles
  <2>1. e \in Events
    BY JobsOnEvents DEF OutboxInv
  <2>2. ASSUME NEW d \in Lags, Beat(w, e, d) \/ BeatReplyLost(w, e, d) PROVE Settles
    <3>1. rows' = rows \/ (rows[e].status = "processing" /\ rows' = Renewed(e, d))
      BY <2>2 DEF Beat, BeatReplyLost, Owns
    <3>2. rows' = Renewed(e, d) =>
            rows' = [rows EXCEPT ![e] = [rows[e] EXCEPT !.left = Greatest(rows[e].left, Lease - d)]]
      BY DEF Renewed
    <3> QED
      BY <1>1, <1>5, <2>1, <3>1, <3>2
  <2>3. ASSUME NEW d \in Lags, Finish(w, e, d) PROVE Settles
    <3> DEFINE job == work[w].jobs[e]
    <3>1. rows' = IF job.beat = "lost" THEN rows ELSE Reported(e, job, d)
      BY <2>3 DEF Finish
    <3>2. \/ rows' = rows
          \/ /\ rows[e].status = "processing"
             /\ \/ rows' = Completed(e)
                \/ rows' = Failed(e, d, RetryDelay(job.attempt))
      <4> HIDE DEF job
      <4> QED
        BY <3>1 DEF Reported, Owns
    <3>3. CASE rows[e].status = "processing" /\ rows' = Completed(e)
      BY <1>5, <2>1, <3>3 DEF Completed
    <3>4. CASE rows[e].status = "processing" /\ rows' = Failed(e, d, RetryDelay(job.attempt))
      BY <1>5, <2>1, <3>4 DEF Failed
    <3> QED
      BY <1>1, <3>2, <3>3, <3>4
  <2>4. ASSUME NEW result \in {"ok", "error"}, HandlersReturn(w, e, result) PROVE Settles
    BY <1>1, <2>4 DEF HandlersReturn
  <2>5. CASE FinishLost(w, e)
    BY <1>1, <2>5 DEF FinishLost
  <2> QED
    BY <1>6, <2>2, <2>3, <2>4, <2>5 DEF Dispatch
<1>7. CASE Tick
  BY <1>7, OpenWritten DEF Tick, IsOpen
<1>8. ASSUME NEW w \in Workers,
             \/ BeginRun(w) \/ EndRun(w) \/ Stopped(w)
             \/ CancelRun(w) \/ Crash(w) \/ Stop(w)
      PROVE  Settles
  BY <1>1, <1>8 DEF BeginRun, EndRun, Stopped, CancelRun, Crash, Stop
<1>9. ASSUME NEW w \in Workers, NEW S \in SUBSET Events, NEW d \in Lags,
             Claim(w, S, d) \/ ClaimReplyLost(w, S, d)
      PROVE  Settles
  BY <1>4, <1>9 DEF Claim, ClaimReplyLost
<1>10. Stoppable \subseteq Workers
  BY OutboxAssumption
<1>11. CASE UNCHANGED outbox
  BY <1>1, <1>11 DEF outbox
<1> QED
  BY <1>2, <1>3, <1>6, <1>7, <1>8, <1>9, <1>10, <1>11 DEF OutboxNext

\* What is settled stays settled (complete_ and fail_tenant_outbox_event): no
\* late report, renewal or claim reopens a delivered, deleted or given-up row;
\* only an operator's requeue does, with a fresh count.
THEOREM OutboxSettles == OutboxSpec => SettledIsFinal
<1>1. OutboxSpec => []OutboxInv
  BY InitInv, NextInv, PTL DEF OutboxSpec
<1>2. OutboxInv /\ [OutboxNext]_outbox => [Settles]_outbox
  BY NextSettles
<1> QED
  BY <1>1, <1>2, PTL DEF OutboxSpec, SettledIsFinal, Settles

-----------------------------------------------------------------------------
(* The catalog *)

\* A revision number, or 0 for none.
Marks == Versions \cup {0}

PlanRec == [rev : Versions, key : Keys]
AssignmentRec == [rev : Versions, key : Keys, pinned : BOOLEAN]
ChangeRec == [from : PlanRec, to : PlanRec]

CallRec ==
  [op : {"idle", "user", "lease", "load", "activate"},
   pc : {"idle", "plan", "context", "read", "invalidate", "engine", "refresh", "recheck",
         "compare", "touch", "install", "fetch", "put", "priced"},
   account : Accounts \cup Guests \cup {None},
   want : Marks, read : Marks, price : Marks, seen : BOOLEAN]

\* A document is published once, as one revision.
RevisionsOK ==
  /\ revisions \in Seq(Documents)
  /\ \A i, j \in DOMAIN revisions : revisions[i] = revisions[j] => i = j
  /\ active # 0 => active \in DOMAIN revisions

\* What is scheduled for an account: a manual change leads to a plan of another key, and a
\* roll-out that waits for a pinned account is one that includes pinned accounts.
ManualOK(ch) == ch # None => ch \in ChangeRec /\ ch.from.key # ch.to.key

WaitingOK(as, ch, ex) ==
  ch # None => ch \in ChangeRec /\ (as # NoPlan /\ as.pinned => ch.to \in ex)

AccountOK(as, chs, ex) ==
  /\ as \in AssignmentRec \cup {NoPlan}
  /\ DOMAIN chs = Kinds
  /\ ManualOK(chs["manual"])
  /\ WaitingOK(as, chs["catalog_revision"], ex)

\* One row for each account.
IsTable(t) == t = [a \in Accounts |-> t[a]]

AccountsOK ==
  /\ IsTable(assignments) /\ IsTable(changes)
  /\ \A a \in Accounts : AccountOK(assignments[a], changes[a], exempt)

LeasesOK == leases \in [Accounts -> Marks]

\* An engine is kept under the revision it was built from.
EnginesOK ==
  /\ engine \in Marks /\ settled \in BOOLEAN
  /\ DOMAIN engines = Versions
  /\ \A v \in Versions : engines[v] \in {0, v}

\* A call that reads a revision wants one, and its price is of what it wants.
CallOK(x) ==
  /\ x \in CallRec
  /\ x.pc = "context" => x.account \in Accounts
  /\ x.pc \in {"fetch", "put"} => x.want # 0
  /\ x.pc = "priced" /\ x.want # 0 => x.price = x.want

CallsOK == DOMAIN calls = Callers /\ \A c \in Callers : CallOK(calls[c])

CatalogInv == RevisionsOK /\ AccountsOK /\ LeasesOK /\ EnginesOK /\ CallsOK

-----------------------------------------------------------------------------
\* There are as many revisions as documents, at most.
LEMMA RevisionsAreVersions ==
  ASSUME NEW s \in Seq(Documents),
         \A i, j \in DOMAIN s : s[i] = s[j] => i = j
  PROVE  DOMAIN s \subseteq Versions
<1>1. Len(s) \in Nat /\ DOMAIN s = 1..Len(s)
  OBVIOUS
<1>2. IsFiniteSet(1..Len(s)) /\ Cardinality(1..Len(s)) = Len(s)
  BY <1>1, FS_Interval
<1>3. IsFiniteSet(Documents) /\ Cardinality(Documents) \in Nat
  BY CatalogAssumption, FS_CardinalityType
<1>4. s \in Injection(1..Len(s), Documents)
  <2>1. s \in [1..Len(s) -> Documents]
    BY <1>1
  <2> QED BY <1>1, <2>1 DEF Injection, IsInjective
<1>5. Len(s) <= Cardinality(Documents)
  BY <1>2, <1>3, <1>4, FS_Injection
<1> QED BY <1>1, <1>3, <1>5 DEF Versions

\* A published document has one revision number; a new one takes the next.
LEMMA PublishedRevisions ==
  ASSUME RevisionsOK, NEW d \in Documents
  PROVE  /\ RevisionOf(d) > Len(revisions) =>
              /\ RevisionOf(d) = Len(revisions) + 1
              /\ RevisionOf(d) \in DOMAIN Append(revisions, d)
              /\ Append(revisions, d) \in Seq(Documents)
              /\ DOMAIN revisions \subseteq DOMAIN Append(revisions, d)
              /\ \A i, j \in DOMAIN Append(revisions, d) :
                    Append(revisions, d)[i] = Append(revisions, d)[j] => i = j
         /\ ~ (RevisionOf(d) > Len(revisions)) => RevisionOf(d) \in DOMAIN revisions
<1>1. revisions \in Seq(Documents) /\ Len(revisions) \in Nat /\ DOMAIN revisions = 1..Len(revisions)
  BY DEF RevisionsOK
<1>2. CASE \E r \in DOMAIN revisions : revisions[r] = d
  <2>1. RevisionOf(d) \in DOMAIN revisions
    BY <1>2 DEF RevisionOf
  <2> QED BY <1>1, <2>1
<1>3. CASE ~ \E r \in DOMAIN revisions : revisions[r] = d
  <2>1. RevisionOf(d) = Len(revisions) + 1
    BY <1>3 DEF RevisionOf
  <2> DEFINE s == Append(revisions, d)
  <2>2. s \in Seq(Documents) /\ Len(s) = Len(revisions) + 1 /\ DOMAIN s = 1..(Len(revisions) + 1)
    BY <1>1
  <2>3. \A i \in 1..Len(revisions) : s[i] = revisions[i]
    BY <1>1
  <2>4. s[Len(revisions) + 1] = d
    BY <1>1
  <2>5. ASSUME NEW i \in DOMAIN s, NEW j \in DOMAIN s, s[i] = s[j] PROVE i = j
    <3> HIDE DEF s
    <3>1. CASE i \in 1..Len(revisions) /\ j \in 1..Len(revisions)
      BY <1>1, <2>3, <2>5, <3>1 DEF RevisionsOK
    <3>2. CASE i \in 1..Len(revisions) /\ j \notin 1..Len(revisions)
      BY <1>1, <1>3, <2>2, <2>3, <2>4, <2>5, <3>2
    <3>3. CASE i \notin 1..Len(revisions) /\ j \in 1..Len(revisions)
      BY <1>1, <1>3, <2>2, <2>3, <2>4, <2>5, <3>3
    <3>4. CASE i \notin 1..Len(revisions) /\ j \notin 1..Len(revisions)
      BY <1>1, <2>2, <3>4
    <3> QED BY <3>1, <3>2, <3>3, <3>4
  <2> QED BY <1>1, <2>1, <2>2, <2>5
<1> QED BY <1>2, <1>3

-----------------------------------------------------------------------------
(* Accounts: what a step does to one of them *)

\* A step that moves a pinned account to another revision of its plan was rolled out to pinned
\* accounts, and one that moves any account takes along the manual change that was to leave it.
KeepsChoices(as, chs, as2, chs2, ex2) ==
  as # NoPlan /\ as2 # NoPlan /\ as2.key = as.key /\ as2.rev # as.rev =>
    /\ as.pinned => Plan(as2.rev, as2.key) \in ex2
    /\ LET ch == chs["manual"]
           now == Plan(as2.rev, as2.key)
       IN  ch # None /\ ch.from = Plan(as.rev, as.key) =>
             \/ ch.to = now
             \/ chs2["manual"] # None /\ chs2["manual"].from = now /\ chs2["manual"].to = ch.to

\* The account is left well formed, and its choices are kept.
GoodMove(as, chs, as2, chs2, ex2) ==
  AccountOK(as2, chs2, ex2) /\ KeepsChoices(as, chs, as2, chs2, ex2)

\* An account that a step does not touch.
LEMMA Untouched ==
  ASSUME NEW as, NEW chs, NEW ex, NEW ex2, AccountOK(as, chs, ex), ex \subseteq ex2
  PROVE  GoodMove(as, chs, as, chs, ex2)
BY DEF GoodMove, AccountOK, KeepsChoices, WaitingOK

\* A manual change that follows its account still leads to a plan of another key.
LEMMA RetargetedOK ==
  ASSUME NEW ch, NEW from \in PlanRec, NEW to \in PlanRec, ManualOK(ch), from.key = to.key
  PROVE  /\ ManualOK(Retargeted(ch, from, to))
         /\ ch # None /\ ch.from = from =>
              \/ ch.to = to
              \/ /\ Retargeted(ch, from, to) # None
                 /\ Retargeted(ch, from, to).from = to
                 /\ Retargeted(ch, from, to).to = ch.to
<1>1. CASE ch # None /\ ch.from = from /\ ch.to # to
  <2>1. ch \in ChangeRec /\ ch.from.key # ch.to.key
    BY <1>1 DEF ManualOK
  <2>2. Retargeted(ch, from, to) = [ch EXCEPT !.from = to]
    BY <1>1 DEF Retargeted
  <2> DEFINE n == [ch EXCEPT !.from = to]
  <2>3. n \in ChangeRec /\ n.from = to /\ n.to = ch.to
    BY <2>1 DEF ChangeRec
  <2> HIDE DEF n
  <2>4. n # None
    BY <2>3, AbsentAssumption DEF ChangeRec, PlanRec
  <2>5. n.from.key # n.to.key
    BY <1>1, <2>1, <2>3
  <2>6. Retargeted(ch, from, to) = n
    BY <2>2 DEF n
  <2> QED BY <2>3, <2>4, <2>5, <2>6 DEF ManualOK
<1>2. CASE ~ (ch # None /\ ch.from = from /\ ch.to # to)
  <2>1. Retargeted(ch, from, to) = ch
    BY <1>2 DEF Retargeted
  <2> QED BY <1>2, <2>1
<1> QED BY <1>1, <1>2

\* schedule_catalog_plan_rollout.
LEMMA RolledAccount ==
  ASSUME AccountsOK, NEW r \in Versions, NEW d \in Documents, NEW m, NEW a \in Accounts,
         NEW ex, ex = exempt \cup {Plan(r, k) : k \in {x \in DOMAIN m : m[x].pinned}}
  PROVE  GoodMove(assignments[a], changes[a],
                  RolledAssignments(r, d, m)[a], RolledChanges(r, d, m)[a], ex)
<1> DEFINE as == assignments[a]
           chs == changes[a]
           as2 == RolledAssignments(r, d, m)[a]
           chs2 == RolledChanges(r, d, m)[a]
           s == Strategy(d, as.key, m)
<1>1. AccountOK(as, chs, exempt)
  BY DEF AccountsOK
<1>2. CASE a \notin Replaced(r, d, m)
  <2>1. as2 = as /\ chs2 = chs
    BY <1>2 DEF RolledAssignments, RolledChanges
  <2>2. exempt \subseteq ex
    OBVIOUS
  <2>3. GoodMove(as, chs, as2, chs2, ex)
    <3> HIDE DEF as, chs, as2, chs2
    <3> QED BY <1>1, <2>1, <2>2, Untouched
  <2> QED BY <2>3
<1>3. CASE a \in Replaced(r, d, m)
  <2>1. as \in AssignmentRec /\ as # NoPlan /\ as.rev # r
    BY <1>1, <1>3 DEF AccountOK, Replaced, Assigned
  <2>2. as.pinned => Plan(r, as.key) \in ex
    BY <1>3 DEF Replaced, IncludesPinned
  <2>3. PlanOf(a) \in PlanRec /\ Plan(r, as.key) \in PlanRec /\ PlanOf(a).key = as.key
        /\ Plan(r, as.key).key = as.key /\ PlanOf(a) = Plan(as.rev, as.key)
    BY <2>1 DEF PlanOf, Plan, PlanRec, AssignmentRec
  <2> DEFINE waiting == [from |-> PlanOf(a), to |-> Plan(r, as.key)]
             follows == Retargeted(chs["manual"], PlanOf(a), Plan(r, as.key))
  <2>4. /\ DOMAIN chs2 = Kinds
        /\ chs2["catalog_revision"] = IF s = "next_renewal" THEN waiting ELSE None
        /\ chs2["manual"] = IF s = "immediate" THEN follows ELSE chs["manual"]
    BY <1>3 DEF RolledChanges, Kinds
  <2>5. as2 = IF s = "immediate" THEN [as EXCEPT !.rev = r] ELSE as
    BY <1>3 DEF RolledAssignments
  <2>6. ManualOK(chs["manual"])
    BY <1>1 DEF AccountOK
  <2>7. /\ ManualOK(follows)
        /\ chs["manual"] # None /\ chs["manual"].from = PlanOf(a) =>
             \/ chs["manual"].to = Plan(r, as.key)
             \/ follows # None /\ follows.from = Plan(r, as.key)
                /\ follows.to = chs["manual"].to
    <3> DEFINE ch == chs["manual"]
               from == PlanOf(a)
               to == Plan(r, as.key)
    <3>1. ManualOK(ch) /\ from \in PlanRec /\ to \in PlanRec /\ from.key = to.key
      BY <2>3, <2>6
    <3> HIDE DEF ch, from, to
    <3>2. /\ ManualOK(Retargeted(ch, from, to))
          /\ ch # None /\ ch.from = from =>
               \/ ch.to = to
               \/ /\ Retargeted(ch, from, to) # None
                  /\ Retargeted(ch, from, to).from = to
                  /\ Retargeted(ch, from, to).to = ch.to
      BY <3>1, RetargetedOK
    <3> QED BY <3>2 DEF ch, from, to
  <2>8. waiting \in ChangeRec /\ waiting.to = Plan(r, as.key)
    BY <2>3 DEF ChangeRec
  <2> HIDE DEF waiting, follows, chs2, as2, chs, as, s
  <2>9. CASE s = "immediate"
    <3>1. as2 \in AssignmentRec /\ as2.rev = r /\ as2.key = as.key /\ as2.pinned = as.pinned
      BY <2>1, <2>5, <2>9 DEF AssignmentRec
    <3>2. chs2["catalog_revision"] = None /\ chs2["manual"] = follows
      BY <2>4, <2>9
    <3>3. AccountOK(as2, chs2, ex)
      BY <2>4, <2>7, <3>1, <3>2 DEF AccountOK, WaitingOK
    <3>4. KeepsChoices(as, chs, as2, chs2, ex)
      BY <2>2, <2>3, <2>7, <3>1, <3>2 DEF KeepsChoices
    <3> QED BY <3>3, <3>4 DEF GoodMove, as, chs, as2, chs2
  <2>10. CASE s # "immediate"
    <3>1. as2 = as /\ chs2["manual"] = chs["manual"]
      BY <2>4, <2>5, <2>10
    <3>2. WaitingOK(as, chs2["catalog_revision"], ex)
      BY <2>2, <2>4, <2>8 DEF WaitingOK
    <3>3. AccountOK(as2, chs2, ex)
      BY <2>1, <2>4, <2>6, <3>1, <3>2 DEF AccountOK
    <3>4. KeepsChoices(as, chs, as2, chs2, ex)
      BY <3>1 DEF KeepsChoices
    <3> QED BY <3>3, <3>4 DEF GoodMove, as, chs, as2, chs2
  <2> QED BY <2>9, <2>10
<1> QED BY <1>2, <1>3

\* Every account is left well formed with its choices kept.
AccountsMove ==
  /\ IsTable(assignments') /\ IsTable(changes')
  /\ \A a \in Accounts :
       GoodMove(assignments[a], changes[a], assignments'[a], changes'[a], exempt')

LEMMA AccountsStay ==
  ASSUME AccountsOK, assignments' = assignments, changes' = changes, exempt \subseteq exempt'
  PROVE  AccountsMove
<1>1. \A a \in Accounts :
        GoodMove(assignments[a], changes[a], assignments[a], changes[a], exempt')
  BY Untouched DEF AccountsOK
<1> QED BY <1>1 DEF AccountsMove, AccountsOK

\* A step about one account.
LEMMA OneAccountMoves ==
  ASSUME AccountsOK, NEW a \in Accounts, NEW as2, NEW chs2,
         assignments' = [assignments EXCEPT ![a] = as2],
         changes' = [changes EXCEPT ![a] = chs2], exempt' = exempt,
         GoodMove(assignments[a], changes[a], as2, chs2, exempt)
  PROVE  AccountsMove
<1>1. IsTable(assignments) /\ IsTable(changes)
      /\ DOMAIN assignments = Accounts /\ DOMAIN changes = Accounts
  BY DEF AccountsOK, IsTable
<1>2. ASSUME NEW b \in Accounts, b # a
      PROVE  GoodMove(assignments[b], changes[b], assignments'[b], changes'[b], exempt')
  <2>1. GoodMove(assignments[b], changes[b], assignments[b], changes[b], exempt)
    BY Untouched DEF AccountsOK
  <2> QED BY <1>1, <1>2, <2>1
<1>3. assignments'[a] = as2 /\ changes'[a] = chs2
  BY <1>1
<1>4. IsTable(assignments') /\ IsTable(changes')
  BY <1>1 DEF IsTable
<1>5. ASSUME NEW b \in Accounts
      PROVE  GoodMove(assignments[b], changes[b], assignments'[b], changes'[b], exempt')
  BY <1>2, <1>3
<1> QED BY <1>4, <1>5 DEF AccountsMove

LEMMA BecomesActiveMoves ==
  ASSUME AccountsOK, NEW r \in Versions, NEW d \in Documents, NEW m, BecomesActive(r, d, m)
  PROVE  AccountsMove
<1>1. CASE active = r /\ DOMAIN m = {}
  BY <1>1, AccountsStay DEF BecomesActive
<1>2. CASE ~ (active = r /\ DOMAIN m = {})
  <2>1. /\ assignments' = RolledAssignments(r, d, m)
        /\ changes' = RolledChanges(r, d, m)
        /\ exempt' = exempt \cup {Plan(r, k) : k \in {x \in DOMAIN m : m[x].pinned}}
    BY <1>2 DEF BecomesActive
  <2>2. IsTable(assignments') /\ IsTable(changes')
    BY <2>1 DEF RolledAssignments, RolledChanges, IsTable
  <2>3. ASSUME NEW a \in Accounts
        PROVE  GoodMove(assignments[a], changes[a], assignments'[a], changes'[a], exempt')
    <3>1. \A ex : ex = exempt' =>
            GoodMove(assignments[a], changes[a],
                     RolledAssignments(r, d, m)[a], RolledChanges(r, d, m)[a], ex)
      BY <2>1, RolledAccount
    <3> QED BY <2>1, <3>1
  <2> QED BY <2>2, <2>3 DEF AccountsMove
<1> QED BY <1>1, <1>2

LEMMA SetPlanMoves ==
  ASSUME AccountsOK, RevisionsOK, NEW a \in Accounts, NEW k \in Keys, NEW later \in BOOLEAN,
         SetPlan(a, k, later)
  PROVE  AccountsMove
<1> DEFINE as == assignments[a]
           chs == changes[a]
<1>1. AccountOK(as, chs, exempt) /\ IsTable(assignments) /\ IsTable(changes)
  BY DEF AccountsOK
<1>2. active \in Versions
  BY RevisionsAreVersions DEF SetPlan, RevisionsOK
<1>3. exempt' = exempt
  BY DEF SetPlan
<1>4. ~ (Assigned(a) /\ as.key = k)
  BY DEF SetPlan
<1>5. CASE Assigned(a) /\ later
  <2> DEFINE ch == [from |-> PlanOf(a), to |-> Plan(active, k)]
             chs2 == [chs EXCEPT !["manual"] = ch]
  <2>1. assignments' = assignments /\ changes' = [changes EXCEPT ![a]["manual"] = ch]
    BY <1>5 DEF SetPlan
  <2>2. changes' = [changes EXCEPT ![a] = chs2]
    BY <2>1
  <2>3. assignments' = [assignments EXCEPT ![a] = as]
    BY <1>1, <2>1 DEF IsTable
  <2>4. as \in AssignmentRec /\ as.key # k
    BY <1>1, <1>4, <1>5 DEF AccountOK, Assigned
  <2>5. ManualOK(ch)
    BY <1>2, <2>4 DEF ManualOK, ChangeRec, PlanRec, PlanOf, Plan, AssignmentRec
  <2> HIDE DEF ch
  <2>6. DOMAIN chs2 = Kinds /\ chs2["manual"] = ch
        /\ chs2["catalog_revision"] = chs["catalog_revision"]
    BY <1>1 DEF AccountOK, Kinds
  <2> HIDE DEF chs2
  <2>7. AccountOK(as, chs2, exempt)
    BY <1>1, <2>5, <2>6 DEF AccountOK
  <2>8. GoodMove(as, chs, as, chs2, exempt)
    BY <2>7 DEF GoodMove, KeepsChoices
  <2> QED BY <1>3, <2>2, <2>3, <2>8, OneAccountMoves
<1>6. CASE ~ (Assigned(a) /\ later)
  <2> DEFINE as2 == [rev |-> active, key |-> k, pinned |-> FALSE]
  <2>1. assignments' = [assignments EXCEPT ![a] = as2] /\ changes' = changes
    BY <1>6 DEF SetPlan
  <2>2. changes' = [changes EXCEPT ![a] = chs]
    BY <1>1, <2>1 DEF IsTable
  <2>3. as2 \in AssignmentRec /\ as2.pinned = FALSE /\ as2.key = k
    BY <1>2 DEF AssignmentRec
  <2> HIDE DEF as2
  <2>4. AccountOK(as2, chs, exempt)
    BY <1>1, <2>3 DEF AccountOK, WaitingOK
  <2>5. as # NoPlan => as2.key # as.key
    BY <1>4, <2>3 DEF Assigned
  <2>6. GoodMove(as, chs, as2, chs, exempt)
    BY <2>4, <2>5 DEF GoodMove, KeepsChoices
  <2> QED BY <1>3, <2>1, <2>2, <2>6, OneAccountMoves
<1> QED BY <1>5, <1>6

LEMMA UnsetPlanMoves ==
  ASSUME AccountsOK, NEW a \in Accounts, UnsetPlan(a)
  PROVE  AccountsMove
<1>1. AccountOK(assignments[a], changes[a], exempt) /\ IsTable(changes)
  BY DEF AccountsOK
<1>2. assignments' = [assignments EXCEPT ![a] = NoPlan] /\ exempt' = exempt /\ changes' = changes
  BY DEF UnsetPlan
<1>3. changes' = [changes EXCEPT ![a] = changes[a]]
  BY <1>1, <1>2 DEF IsTable
<1>4. GoodMove(assignments[a], changes[a], NoPlan, changes[a], exempt)
  BY <1>1 DEF GoodMove, KeepsChoices, AccountOK, WaitingOK
<1> QED BY <1>2, <1>3, <1>4, OneAccountMoves

\* A pin that is set drops the roll-out that waits.
LEMMA SetRevisionPinMoves ==
  ASSUME AccountsOK, NEW a \in Accounts, NEW pinned \in BOOLEAN, SetRevisionPin(a, pinned)
  PROVE  AccountsMove
<1> DEFINE as == assignments[a]
           chs == changes[a]
           as2 == [as EXCEPT !.pinned = pinned]
           chs2 == AfterPin(chs, pinned)
<1>1. AccountOK(as, chs, exempt) /\ IsTable(assignments) /\ IsTable(changes)
  BY DEF AccountsOK
<1>2. as # NoPlan /\ as \in AssignmentRec
  BY <1>1 DEF SetRevisionPin, Assigned, AccountOK
<1>3. assignments' = [assignments EXCEPT ![a] = as2] /\ exempt' = exempt
  BY DEF SetRevisionPin
<1>4. changes' = [changes EXCEPT ![a] = chs2]
  BY DEF SetRevisionPin
<1>5. as2 \in AssignmentRec /\ as2.pinned = pinned /\ as2.rev = as.rev
  BY <1>2 DEF AssignmentRec
<1>6. /\ DOMAIN chs2 = Kinds /\ chs2["manual"] = chs["manual"]
      /\ chs2["catalog_revision"] = IF pinned THEN None ELSE chs["catalog_revision"]
  BY <1>1 DEF AfterPin, AccountOK, Kinds
<1> HIDE DEF as2, chs2
<1>7. AccountOK(as2, chs2, exempt)
  BY <1>1, <1>5, <1>6 DEF AccountOK, WaitingOK
<1>8. GoodMove(as, chs, as2, chs2, exempt)
  BY <1>5, <1>7 DEF GoodMove, KeepsChoices
<1> QED BY <1>3, <1>4, <1>8, OneAccountMoves

LEMMA ApplyDueChangeMoves ==
  ASSUME AccountsOK, NEW a \in Accounts, NEW kind \in Kinds, ApplyDueChange(a, kind)
  PROVE  AccountsMove
<1> DEFINE as == assignments[a]
           chs == changes[a]
           ch == chs[kind]
           gone == PlanOf(a) # ch.from \/ (kind = "catalog_revision" /\ as.key # ch.to.key)
<1>1. AccountOK(as, chs, exempt) /\ IsTable(assignments) /\ IsTable(changes)
  BY DEF AccountsOK
<1>2. as # NoPlan /\ as \in AssignmentRec
  BY <1>1 DEF ApplyDueChange, Assigned, AccountOK
<1>3. ch # None /\ exempt' = exempt
  BY DEF ApplyDueChange
<1>4. ch \in ChangeRec
  BY <1>1, <1>3 DEF AccountOK, ManualOK, WaitingOK, Kinds
<1>5. CASE gone
  <2> DEFINE chs2 == [chs EXCEPT ![kind] = None]
  <2>1. assignments' = assignments /\ changes' = [changes EXCEPT ![a][kind] = None]
    BY <1>5 DEF ApplyDueChange
  <2>2. changes' = [changes EXCEPT ![a] = chs2] /\ assignments' = [assignments EXCEPT ![a] = as]
    BY <1>1, <2>1 DEF IsTable
  <2>3. /\ DOMAIN chs2 = Kinds
        /\ chs2["manual"] \in {None, chs["manual"]}
        /\ chs2["catalog_revision"] \in {None, chs["catalog_revision"]}
    BY <1>1 DEF AccountOK, Kinds
  <2> HIDE DEF chs2
  <2>4. AccountOK(as, chs2, exempt)
    BY <1>1, <2>3 DEF AccountOK, ManualOK, WaitingOK
  <2>5. GoodMove(as, chs, as, chs2, exempt)
    BY <2>4 DEF GoodMove, KeepsChoices
  <2> QED BY <1>3, <2>2, <2>5, OneAccountMoves
<1>6. CASE ~ gone
  <2> DEFINE as2 == [rev |-> ch.to.rev, key |-> ch.to.key,
                     pinned |-> kind = "catalog_revision" /\ as.pinned]
             follows == Retargeted(chs["manual"], ch.from, ch.to)
             chs2 == [catalog_revision |-> None,
                      manual |-> IF kind = "manual" THEN None ELSE follows]
  <2>1. assignments' = [assignments EXCEPT ![a] = as2] /\ changes' = [changes EXCEPT ![a] = chs2]
    BY <1>6 DEF ApplyDueChange
  <2>2. ch.from \in PlanRec /\ ch.to \in PlanRec /\ ch.from = Plan(as.rev, as.key)
        /\ ch.from.key = as.key
    BY <1>2, <1>4, <1>6 DEF ChangeRec, PlanOf, Plan
  <2>3. /\ as2 \in AssignmentRec /\ as2.rev = ch.to.rev /\ as2.key = ch.to.key
        /\ as2.pinned = (kind = "catalog_revision" /\ as.pinned)
    BY <1>2, <2>2 DEF PlanRec, AssignmentRec
  <2>4. Plan(as2.rev, as2.key) = ch.to
    BY <2>2, <2>3 DEF Plan, PlanRec
  <2>5. /\ DOMAIN chs2 = Kinds /\ chs2["catalog_revision"] = None
        /\ chs2["manual"] = IF kind = "manual" THEN None ELSE follows
    BY DEF Kinds
  <2>6. ManualOK(chs["manual"]) /\ WaitingOK(as, chs["catalog_revision"], exempt)
    BY <1>1 DEF AccountOK
  <2> HIDE DEF as2, chs2, follows
  <2>7. CASE kind = "manual"
    <3>1. as2.key # as.key
      BY <1>3, <2>2, <2>3, <2>6, <2>7 DEF ManualOK
    <3>2. AccountOK(as2, chs2, exempt)
      BY <2>3, <2>5, <2>7 DEF AccountOK, ManualOK, WaitingOK
    <3>3. GoodMove(as, chs, as2, chs2, exempt)
      BY <3>1, <3>2 DEF GoodMove, KeepsChoices
    <3> QED BY <1>3, <2>1, <3>3, OneAccountMoves
  <2>8. CASE kind = "catalog_revision"
    <3> DEFINE man == chs["manual"]
               from == ch.from
               to == ch.to
    <3>1. from \in PlanRec /\ to \in PlanRec /\ from.key = to.key /\ ManualOK(man)
      BY <1>6, <2>2, <2>6, <2>8
    <3>2. follows = Retargeted(man, from, to)
      BY DEF follows
    <3>3. from = Plan(as.rev, as.key) /\ to = Plan(as2.rev, as2.key)
      BY <2>2, <2>4
    <3>4. as.pinned => to \in exempt
      BY <1>2, <1>3, <2>6, <2>8 DEF WaitingOK
    <3>5. chs2["catalog_revision"] = None /\ chs2["manual"] = follows
      BY <2>5, <2>8
    <3> HIDE DEF from, to, man
    <3>6. /\ ManualOK(follows)
          /\ man # None /\ man.from = from =>
               \/ man.to = to
               \/ follows # None /\ follows.from = to /\ follows.to = man.to
      BY <3>1, <3>2, RetargetedOK
    <3>7. AccountOK(as2, chs2, exempt)
      BY <2>3, <2>5, <3>5, <3>6 DEF AccountOK, WaitingOK
    <3>8. KeepsChoices(as, chs, as2, chs2, exempt)
      BY <3>3, <3>4, <3>5, <3>6 DEF KeepsChoices, man
    <3>9. GoodMove(as, chs, as2, chs2, exempt)
      BY <3>7, <3>8 DEF GoodMove
    <3> QED BY <1>3, <2>1, <3>9, OneAccountMoves
  <2> QED BY <2>7, <2>8 DEF Kinds
<1> QED BY <1>5, <1>6

LEMMA AccountsMoved ==
  ASSUME AccountsMove
  PROVE  AccountsOK'
BY DEF AccountsMove, AccountsOK, GoodMove

-----------------------------------------------------------------------------
(* The process's calls *)

LEMMA IdleCall == CallOK(Idle) /\ Idle \in CallRec
BY DEF CallOK, Idle, CallRec, Marks

\* A step of one call.
LEMMA OneCall ==
  ASSUME CallsOK, NEW c \in Callers, NEW x, CallOK(x), calls' = [calls EXCEPT ![c] = x]
  PROVE  CallsOK'
BY DEF CallsOK

LEMMA Returned ==
  ASSUME CallsOK, NEW c \in Callers, Return(c)
  PROVE  CallsOK'
BY IdleCall, OneCall DEF Return

\* A step that only moves on, to where nothing is asked of the call.
LEMMA WentOn ==
  ASSUME CallsOK, NEW c \in Callers, NEW pc, Goto(c, pc),
         pc \in {"engine", "refresh", "recheck", "read", "compare", "touch", "install"}
  PROVE  CallsOK'
<1> DEFINE x == [calls[c] EXCEPT !.pc = pc]
<1>1. calls' = [calls EXCEPT ![c] = x]
  BY DEF Goto
<1>2. CallOK(x)
  BY DEF CallsOK, CallOK, CallRec
<1> HIDE DEF x
<1> QED BY <1>1, <1>2, OneCall

\* A price of the revision wanted, if one is.
LEMMA PricedOK ==
  ASSUME CallsOK, NEW c \in Callers, NEW r \in Marks, Priced(c, r),
         calls[c].want # 0 => r = calls[c].want
  PROVE  CallsOK'
<1> DEFINE x == [calls[c] EXCEPT !.pc = "priced", !.price = r]
<1>1. calls' = [calls EXCEPT ![c] = x]
  BY DEF Priced
<1>2. CallOK(x)
  BY DEF CallsOK, CallOK, CallRec
<1> HIDE DEF x
<1> QED BY <1>1, <1>2, OneCall

\* An activation only changes what is remembered of the calls it overtakes.
LEMMA UnsettledOK ==
  ASSUME CallsOK
  PROVE  DOMAIN Unsettled = Callers /\ \A c \in Callers : CallOK(Unsettled[c])
<1>1. ASSUME NEW c \in Callers
      PROVE  CallOK(Unsettled[c])
  <2>1. calls[c] \in CallRec /\ CallOK(calls[c])
    BY DEF CallsOK, CallOK
  <2>2. Unsettled[c] = [calls[c] EXCEPT !.seen = FALSE]
    BY DEF Unsettled
  <2> QED BY <2>1, <2>2 DEF CallOK, CallRec
<1> QED BY <1>1 DEF Unsettled

LEMMA BeginCalls ==
  ASSUME CallsOK, EnginesOK, NEW c \in Callers, Begin(c)
  PROVE  CallsOK'
<1> DEFINE user(a) == [Idle EXCEPT !.op = "user", !.pc = "plan", !.account = a, !.seen = settled]
           held(a) == [Idle EXCEPT !.op = "lease", !.pc = "context", !.account = a]
           load == [Idle EXCEPT !.op = "load", !.pc = "read"]
           act == [Idle EXCEPT !.op = "activate", !.pc = "invalidate"]
<1>1. \A a \in Accounts \cup Guests : CallOK(user(a))
  BY DEF Idle, CallOK, CallRec, Marks, EnginesOK
<1>2. \A a \in Accounts : CallOK(held(a))
  BY DEF Idle, CallOK, CallRec, Marks
<1>3. CallOK(load) /\ CallOK(act)
  BY DEF Idle, CallOK, CallRec, Marks
<1>4. ASSUME NEW a \in Accounts \cup Guests, BeginForUser(c, a) PROVE CallsOK'
  <2>1. calls' = [calls EXCEPT ![c] = user(a)]
    BY <1>4 DEF BeginForUser
  <2> HIDE DEF user
  <2> QED BY <1>1, <2>1, OneCall
<1>5. ASSUME NEW a \in Accounts, BeginForLease(c, a) PROVE CallsOK'
  <2>1. calls' = [calls EXCEPT ![c] = held(a)]
    BY <1>5 DEF BeginForLease
  <2> HIDE DEF held
  <2> QED BY <1>2, <2>1, OneCall
<1>6. ASSUME BeginLoad(c) PROVE CallsOK'
  <2>1. calls' = [calls EXCEPT ![c] = load]
    BY <1>6 DEF BeginLoad
  <2> HIDE DEF load
  <2> QED BY <1>3, <2>1, OneCall
<1>7. ASSUME BeginActivate(c) PROVE CallsOK'
  <2>1. calls' = [Unsettled EXCEPT ![c] = act]
    BY <1>7 DEF BeginActivate
  <2> HIDE DEF act
  <2> QED BY <1>3, <2>1, UnsettledOK DEF CallsOK
<1> QED BY <1>4, <1>5, <1>6, <1>7 DEF Begin

\* A refresh that ends leaves its call over, or at the engines.
LEMMA AfterRefreshCalls ==
  ASSUME CallsOK, NEW c \in Callers, AfterRefresh(c)
  PROVE  CallsOK'
<1> DEFINE x == [calls[c] EXCEPT !.pc = "engine", !.read = 0]
<1>1. CallOK(x)
  BY DEF CallsOK, CallOK, CallRec, Marks
<1>2. CASE calls[c].op = "load"
  BY <1>2, Returned DEF AfterRefresh
<1>3. CASE calls[c].op # "load"
  <2>1. calls' = [calls EXCEPT ![c] = x]
    BY <1>3 DEF AfterRefresh
  <2> HIDE DEF x
  <2> QED BY <1>1, <2>1, OneCall
<1> QED BY <1>2, <1>3

LEMMA GetUserPlanCalls ==
  ASSUME CatalogInv, NEW c \in Callers, GetUserPlan(c)
  PROVE  CallsOK'
<1> DEFINE a == calls[c].account
           v == IF Assigned(a) THEN assignments[a].rev ELSE 0
           x == [calls[c] EXCEPT !.want = v, !.account = None,
                                 !.pc = IF Assigned(a) THEN "engine" ELSE "refresh"]
<1>1. v \in Marks
  BY DEF CatalogInv, AccountsOK, AccountOK, Assigned, AssignmentRec, Marks
<1>2. CASE ReadFails(c)
  BY <1>2, Returned DEF ReadFails, CatalogInv
<1>3. CASE calls' = [calls EXCEPT ![c].want = v, ![c].account = None,
                        ![c].pc = IF Assigned(a) THEN "engine" ELSE "refresh"]
  <2>1. calls' = [calls EXCEPT ![c] = x]
    BY <1>3
  <2> HIDE DEF v
  <2>2. CallOK(x)
    BY <1>1 DEF CatalogInv, CallsOK, CallOK, CallRec
  <2> HIDE DEF x
  <2> QED BY <2>1, <2>2, OneCall DEF CatalogInv
<1> QED BY <1>2, <1>3 DEF GetUserPlan

LEMMA GetLeasePricingContextCalls ==
  ASSUME CatalogInv, NEW c \in Callers, GetLeasePricingContext(c)
  PROVE  CallsOK'
<1> DEFINE r == leases[calls[c].account]
           x == [calls[c] EXCEPT !.want = r, !.account = None, !.pc = "engine"]
<1>1. r \in Marks
  BY DEF CatalogInv, CallsOK, CallOK, LeasesOK, GetLeasePricingContext
<1>2. CASE Return(c)
  BY <1>2, Returned DEF CatalogInv
<1>3. CASE calls' = [calls EXCEPT ![c].want = r, ![c].account = None, ![c].pc = "engine"]
  <2>1. calls' = [calls EXCEPT ![c] = x]
    BY <1>3
  <2> HIDE DEF r
  <2>2. CallOK(x)
    BY <1>1 DEF CatalogInv, CallsOK, CallOK, CallRec
  <2> HIDE DEF x
  <2> QED BY <2>1, <2>2, OneCall DEF CatalogInv
<1> QED BY <1>2, <1>3 DEF GetLeasePricingContext, ReadFails

LEMMA GetActiveCatalogCalls ==
  ASSUME CatalogInv, NEW c \in Callers, GetActiveCatalog(c)
  PROVE  CallsOK'
<1> DEFINE x == [calls[c] EXCEPT !.read = active, !.pc = "compare"]
<1>1. active \in Marks
  BY RevisionsAreVersions DEF CatalogInv, RevisionsOK, Marks
<1>2. CASE Return(c)
  BY <1>2, Returned DEF CatalogInv
<1>3. CASE calls' = [calls EXCEPT ![c].read = active, ![c].pc = "compare"]
  <2>1. calls' = [calls EXCEPT ![c] = x]
    BY <1>3
  <2>2. CallOK(x)
    BY <1>1 DEF CatalogInv, CallsOK, CallOK, CallRec
  <2> HIDE DEF x
  <2> QED BY <2>1, <2>2, OneCall DEF CatalogInv
<1> QED BY <1>2, <1>3 DEF GetActiveCatalog, ReadFails

LEMMA EngineForVersionCalls ==
  ASSUME CatalogInv, NEW c \in Callers, EngineForVersion(c)
  PROVE  CallsOK'
<1> DEFINE v == calls[c].want
<1>1. CallsOK /\ v \in Marks
  BY DEF CatalogInv, CallsOK, CallOK, CallRec
<1>2. CASE Return(c)
  BY <1>1, <1>2, Returned
<1>3. CASE v = 0 /\ Priced(c, engine)
  BY <1>1, <1>3, PricedOK DEF CatalogInv, EnginesOK
<1>4. CASE v # 0 /\ engines[v] # 0 /\ Priced(c, engines[v])
  <2>1. engines[v] = v
    BY <1>1, <1>4 DEF CatalogInv, EnginesOK, Marks
  <2> QED BY <1>1, <1>4, <2>1, PricedOK
<1>5. CASE v # 0 /\ OnMiss(c)
  <2> DEFINE x == [calls[c] EXCEPT !.pc = "fetch"]
  <2>1. calls' = [calls EXCEPT ![c] = x]
    BY <1>5 DEF OnMiss, Goto
  <2>2. CallOK(x)
    BY <1>1, <1>5 DEF CallsOK, CallOK, CallRec
  <2> HIDE DEF x
  <2> QED BY <1>1, <2>1, <2>2, OneCall
<1> QED BY <1>2, <1>3, <1>4, <1>5 DEF EngineForVersion

LEMMA GetCatalogRevisionCalls ==
  ASSUME CallsOK, NEW c \in Callers, GetCatalogRevision(c)
  PROVE  CallsOK'
<1>1. CASE ReadFails(c)
  BY <1>1, Returned DEF ReadFails
<1>2. CASE Goto(c, "put")
  <2> DEFINE x == [calls[c] EXCEPT !.pc = "put"]
  <2>1. calls' = [calls EXCEPT ![c] = x]
    BY <1>2 DEF Goto
  <2>2. CallOK(x)
    BY DEF CallsOK, CallOK, CallRec, GetCatalogRevision
  <2> HIDE DEF x
  <2> QED BY <2>1, <2>2, OneCall
<1> QED BY <1>1, <1>2 DEF GetCatalogRevision

LEMMA PutEngineOK ==
  ASSUME CallsOK, EnginesOK, NEW c \in Callers, PutEngine(c)
  PROVE  CallsOK' /\ EnginesOK'
<1> DEFINE v == calls[c].want
<1>1. v \in Versions /\ v \in Marks
  BY DEF CallsOK, CallOK, CallRec, PutEngine, Marks
<1>2. engines' = [engines EXCEPT ![v] = IF @ = 0 THEN v ELSE @]
  BY DEF PutEngine
<1>3. engines'[v] = v /\ EnginesOK'
  BY <1>1, <1>2 DEF EnginesOK, PutEngine
<1>4. Priced(c, v)
  BY <1>3 DEF PutEngine
<1> QED BY <1>1, <1>3, <1>4, PricedOK

LEMMA StepCalls ==
  ASSUME CatalogInv, NEW c \in Callers, Step(c)
  PROVE  CallsOK'
<1>1. CallsOK /\ EnginesOK
  BY DEF CatalogInv
<1>2. CASE Invalidate(c)
  BY <1>1, <1>2, Returned DEF Invalidate
<1>3. CASE RefreshIfStale(c)
  BY <1>1, <1>3, WentOn DEF RefreshIfStale
<1>4. CASE Recheck(c)
  BY <1>1, <1>4, WentOn DEF Recheck
<1>5. CASE Compare(c)
  BY <1>1, <1>5, WentOn DEF Compare
<1>6. CASE Touch(c) \/ Install(c)
  BY <1>1, <1>6, AfterRefreshCalls DEF Touch, Install
<1>7. CASE ReturnPrice(c)
  BY <1>1, <1>7, Returned DEF ReturnPrice
<1>8. CASE GetUserPlan(c)
  BY <1>8, GetUserPlanCalls
<1>9. CASE GetLeasePricingContext(c)
  BY <1>9, GetLeasePricingContextCalls
<1>10. CASE GetActiveCatalog(c)
  BY <1>10, GetActiveCatalogCalls
<1>11. CASE EngineForVersion(c)
  BY <1>11, EngineForVersionCalls
<1>12. CASE GetCatalogRevision(c)
  BY <1>1, <1>12, GetCatalogRevisionCalls
<1>13. CASE PutEngine(c)
  BY <1>1, <1>13, PutEngineOK
<1> QED BY <1>2, <1>3, <1>4, <1>5, <1>6, <1>7, <1>8, <1>9, <1>10, <1>11, <1>12, <1>13 DEF Step

\* A step of a call leaves the database alone and keeps the engines in their places.
LEMMA StepKeeps ==
  ASSUME CatalogInv, NEW c \in Callers, Step(c)
  PROVE  UNCHANGED dbVars /\ EnginesOK'
<1>1. CallsOK /\ EnginesOK
  BY DEF CatalogInv
<1>2. CASE Install(c)
  <2>1. calls[c].read \in Marks
    BY <1>1 DEF CallsOK, CallOK, CallRec
  <2> QED BY <1>1, <1>2, <2>1 DEF Install, EnginesOK
<1>3. CASE PutEngine(c)
  <2>1. UNCHANGED dbVars
    BY <1>3 DEF PutEngine
  <2> QED BY <1>1, <1>3, <2>1, PutEngineOK
<1>4. CASE Invalidate(c)
  BY <1>1, <1>4 DEF Invalidate, EnginesOK
<1>5. CASE ~ (Install(c) \/ PutEngine(c) \/ Invalidate(c))
  <2>1. UNCHANGED <<dbVars, engine, engines, settled>>
    BY <1>5 DEF Step, GetUserPlan, GetLeasePricingContext, RefreshIfStale, Recheck,
                GetActiveCatalog, Compare, Touch, EngineForVersion, GetCatalogRevision,
                ReturnPrice, cacheVars
  <2> QED BY <1>1, <2>1 DEF EnginesOK
<1> QED BY <1>2, <1>3, <1>4, <1>5

-----------------------------------------------------------------------------
(* The database's steps *)

\* A revision becomes active, whoever activates it.
LEMMA ActivationOK ==
  ASSUME RevisionsOK, AccountsOK, NEW m,
         \/ \E d \in Documents : PublishAndActivate(d, m)
         \/ \E r \in DOMAIN revisions : Activate(r, m)
  PROVE  RevisionsOK' /\ AccountsMove /\ leases' = leases
<1>1. ASSUME NEW d \in Documents, PublishAndActivate(d, m)
      PROVE  RevisionsOK' /\ AccountsMove /\ leases' = leases
  <2> DEFINE r == RevisionOf(d)
  <2>1. BecomesActive(r, d, m) /\ active' = r /\ leases' = leases
    BY <1>1 DEF PublishAndActivate, BecomesActive
  <2>2. revisions' = IF r > Len(revisions) THEN Append(revisions, d) ELSE revisions
    BY <1>1 DEF PublishAndActivate
  <2>3. /\ revisions' \in Seq(Documents) /\ r \in DOMAIN revisions'
        /\ \A i, j \in DOMAIN revisions' : revisions'[i] = revisions'[j] => i = j
    <3>1. CASE r > Len(revisions)
      BY <2>2, <3>1, PublishedRevisions
    <3>2. CASE ~ (r > Len(revisions))
      BY <2>2, <3>2, PublishedRevisions DEF RevisionsOK
    <3> QED BY <3>1, <3>2
  <2> HIDE DEF r
  <2>4. r \in Versions
    BY <2>3, RevisionsAreVersions
  <2>5. AccountsMove
    BY <2>1, <2>4, BecomesActiveMoves
  <2> QED BY <2>1, <2>3, <2>5 DEF RevisionsOK
<1>2. ASSUME NEW r \in DOMAIN revisions, Activate(r, m)
      PROVE  RevisionsOK' /\ AccountsMove /\ leases' = leases
  <2>1. BecomesActive(r, revisions[r], m) /\ active' = r /\ leases' = leases
        /\ revisions' = revisions
    BY <1>2 DEF Activate, BecomesActive
  <2>2. r \in Versions /\ revisions[r] \in Documents
    BY RevisionsAreVersions DEF RevisionsOK
  <2>3. AccountsMove
    BY <2>1, <2>2, BecomesActiveMoves
  <2> QED BY <2>1, <2>3 DEF RevisionsOK
<1> QED BY <1>1, <1>2

LEMMA PublishDraftOK ==
  ASSUME RevisionsOK, NEW d \in Documents, PublishDraft(d)
  PROVE  RevisionsOK'
<1>1. RevisionOf(d) > Len(revisions) /\ revisions' = Append(revisions, d) /\ active' = active
  BY DEF PublishDraft
<1> QED BY <1>1, PublishedRevisions DEF RevisionsOK

LEMMA OpenLeaseOK ==
  ASSUME CatalogInv, NEW a \in Accounts, OpenLease(a)
  PROVE  LeasesOK'
<1>1. active \in Marks
  BY RevisionsAreVersions DEF CatalogInv, RevisionsOK, Marks
<1>2. Assigned(a) => assignments[a].rev \in Marks
  BY DEF CatalogInv, AccountsOK, AccountOK, Assigned, AssignmentRec, Marks
<1> QED BY <1>1, <1>2 DEF CatalogInv, LeasesOK, OpenLease

LEMMA CloseLeaseOK ==
  ASSUME LeasesOK, NEW a \in Accounts, CloseLease(a)
  PROVE  LeasesOK'
BY DEF LeasesOK, CloseLease, Marks

\* The processes' part is untouched.
LEMMA OperatorKeepsCache ==
  ASSUME CallsOK, EnginesOK, UNCHANGED <<cacheVars, calls>>
  PROVE  CallsOK' /\ EnginesOK'
<1>1. CallsOK'
  BY DEF CallsOK
<1>2. EnginesOK'
  BY DEF EnginesOK, cacheVars
<1> QED BY <1>1, <1>2

LEMMA OperatorStep ==
  ASSUME CatalogInv, Operator
  PROVE  CatalogInv' /\ AccountsMove
<1>1. RevisionsOK /\ AccountsOK /\ LeasesOK /\ EnginesOK /\ CallsOK
  BY DEF CatalogInv
<1> DEFINE Goal == CatalogInv' /\ AccountsMove
<1>2. ASSUME RevisionsOK', AccountsMove, LeasesOK', EnginesOK', CallsOK' PROVE Goal
  BY <1>2, AccountsMoved DEF CatalogInv
<1>3. ASSUME NEW d \in Documents, PublishDraft(d) PROVE Goal
  <2>1. UNCHANGED <<cacheVars, calls>> /\ UNCHANGED <<assignments, changes, exempt, leases>>
    BY <1>3 DEF PublishDraft
  <2>2. AccountsMove /\ LeasesOK'
    BY <1>1, <2>1, AccountsStay DEF LeasesOK
  <2> HIDE DEF Goal
  <2> QED BY <1>1, <1>2, <1>3, <2>1, <2>2, PublishDraftOK, OperatorKeepsCache
<1>4. ASSUME ActivateElsewhere PROVE Goal
  <2>1. PICK m \in Manifests : \/ \E d \in Documents : PublishAndActivate(d, m)
                              \/ \E r \in DOMAIN revisions : Activate(r, m)
    BY <1>4 DEF ActivateElsewhere
  <2>2. RevisionsOK' /\ AccountsMove /\ leases' = leases
    BY <1>1, <2>1, ActivationOK
  <2>3. calls' = Unsettled /\ settled' = FALSE /\ UNCHANGED <<engine, engines>>
    BY <1>4 DEF ActivateElsewhere
  <2>4. CallsOK' /\ EnginesOK' /\ LeasesOK'
    BY <1>1, <2>2, <2>3, UnsettledOK DEF CallsOK, EnginesOK, LeasesOK
  <2> HIDE DEF Goal
  <2> QED BY <1>2, <2>2, <2>4
<1>5. ASSUME NEW a \in Accounts,
             \/ \E k \in Keys, later \in BOOLEAN : SetPlan(a, k, later)
             \/ UnsetPlan(a)
             \/ \E pinned \in BOOLEAN : SetRevisionPin(a, pinned)
             \/ \E kind \in Kinds : ApplyDueChange(a, kind)
      PROVE  Goal
  <2>1. AccountsMove
    BY <1>1, <1>5, SetPlanMoves, UnsetPlanMoves, SetRevisionPinMoves, ApplyDueChangeMoves
  <2>2. UNCHANGED <<cacheVars, calls>> /\ UNCHANGED <<revisions, active, leases>>
    BY <1>5 DEF SetPlan, UnsetPlan, SetRevisionPin, ApplyDueChange
  <2>3. RevisionsOK' /\ LeasesOK'
    BY <1>1, <2>2 DEF RevisionsOK, LeasesOK
  <2> HIDE DEF Goal
  <2> QED BY <1>1, <1>2, <2>1, <2>2, <2>3, OperatorKeepsCache
<1>6. ASSUME NEW a \in Accounts, OpenLease(a) \/ CloseLease(a) PROVE Goal
  <2>1. LeasesOK'
    BY <1>1, <1>6, OpenLeaseOK, CloseLeaseOK
  <2>2. /\ UNCHANGED <<cacheVars, calls>>
        /\ UNCHANGED <<revisions, active, assignments, changes, exempt>>
    BY <1>6 DEF OpenLease, CloseLease
  <2>3. RevisionsOK' /\ AccountsMove
    BY <1>1, <2>2, AccountsStay DEF RevisionsOK
  <2> HIDE DEF Goal
  <2> QED BY <1>1, <1>2, <2>1, <2>2, <2>3, OperatorKeepsCache
<1> HIDE DEF Goal
<1>7. Goal
  BY <1>3, <1>4, <1>5, <1>6 DEF Operator
<1> QED BY <1>7 DEF Goal

LEMMA CatalogStarts ==
  ASSUME Init
  PROVE  CatalogInv
<1>1. RevisionsOK
  BY DEF Init, RevisionsOK
<1>2. AccountsOK
  BY DEF Init, AccountsOK, AccountOK, ManualOK, WaitingOK, IsTable, Kinds
<1>3. LeasesOK /\ EnginesOK
  BY DEF Init, LeasesOK, EnginesOK, Marks
<1>4. CallsOK
  BY IdleCall DEF Init, CallsOK
<1> QED BY <1>1, <1>2, <1>3, <1>4 DEF CatalogInv

\* Every step keeps the invariant and the choices of every account.
LEMMA CatalogStep ==
  ASSUME CatalogInv, [Next]_vars
  PROVE  CatalogInv' /\ AccountsMove
<1>1. RevisionsOK /\ AccountsOK /\ LeasesOK /\ EnginesOK /\ CallsOK
  BY DEF CatalogInv
<1>2. ASSUME UNCHANGED dbVars, EnginesOK', CallsOK' PROVE CatalogInv' /\ AccountsMove
  <2>1. UNCHANGED <<revisions, active, assignments, changes, exempt, leases>>
    BY <1>2 DEF dbVars
  <2>2. RevisionsOK' /\ LeasesOK' /\ AccountsMove
    BY <1>1, <2>1, AccountsStay DEF RevisionsOK, LeasesOK
  <2> QED BY <1>2, <2>2, AccountsMoved DEF CatalogInv
<1>3. CASE Operator
  BY <1>3, OperatorStep
<1>4. CASE Expire \/ UNCHANGED vars
  <2>1. UNCHANGED dbVars /\ UNCHANGED <<engine, engines, settled, calls>>
    BY <1>4 DEF Expire, vars, cacheVars
  <2>2. EnginesOK' /\ CallsOK'
    BY <1>1, <2>1 DEF EnginesOK, CallsOK
  <2> QED BY <1>2, <2>1, <2>2
<1>5. ASSUME NEW c \in Callers, Step(c) PROVE CatalogInv' /\ AccountsMove
  BY <1>2, <1>5, StepCalls, StepKeeps
<1>6. ASSUME NEW c \in Callers, Begin(c) PROVE CatalogInv' /\ AccountsMove
  <2>1. CallsOK'
    BY <1>1, <1>6, BeginCalls
  <2>2. CASE BeginActivate(c)
    <3>1. PICK m \in Manifests : \/ \E d \in Documents : PublishAndActivate(d, m)
                                \/ \E r \in DOMAIN revisions : Activate(r, m)
      BY <2>2 DEF BeginActivate
    <3>2. RevisionsOK' /\ AccountsMove /\ leases' = leases
      BY <1>1, <3>1, ActivationOK
    <3>3. EnginesOK' /\ LeasesOK'
      BY <1>1, <2>2, <3>2 DEF BeginActivate, EnginesOK, LeasesOK
    <3> QED BY <2>1, <3>2, <3>3, AccountsMoved DEF CatalogInv
  <2>3. CASE ~ BeginActivate(c)
    <3>1. UNCHANGED <<dbVars, cacheVars>>
      BY <1>6, <2>3 DEF Begin, BeginForUser, BeginForLease, BeginLoad
    <3>2. EnginesOK'
      BY <1>1, <3>1 DEF EnginesOK, cacheVars
    <3> QED BY <1>2, <2>1, <3>1, <3>2
  <2> QED BY <2>2, <2>3
<1> QED BY <1>3, <1>4, <1>5, <1>6 DEF Next

-----------------------------------------------------------------------------
\* Usage of an account with a plan, and every settlement of a lease, is priced with the engine of
\* the revision wanted (engineForVersion), whatever is activated, installed or dropped meanwhile.
THEOREM CatalogPricesByRevision == Spec => []PricedByOwnRevision
<1>1. Init => CatalogInv
  BY CatalogStarts
<1>2. CatalogInv /\ [Next]_vars => CatalogInv'
  BY CatalogStep
<1>3. CatalogInv => PricedByOwnRevision
  BY DEF CatalogInv, CallsOK, CallOK, PricedByOwnRevision
<1> QED BY <1>1, <1>2, <1>3, PTL DEF Spec

\* A roll-out (schedule_catalog_plan_rollout, apply_due_plan_assignment_changes) moves a pinned
\* account only when it includes pinned accounts, and takes along the change of plan that an
\* operator scheduled.
THEOREM CatalogKeepsChoices == Spec => RolloutsKeepChoices
<1> DEFINE PinStep == \A a \in Accounts :
             /\ Assigned(a) /\ assignments[a].pinned
             /\ assignments'[a] # NoPlan
             /\ assignments'[a].key = assignments[a].key
             /\ assignments'[a].rev # assignments[a].rev
             => Plan(assignments'[a].rev, assignments'[a].key) \in exempt'
           ManualStep == \A a \in Accounts :
             LET ch == changes[a]["manual"] IN
             /\ Assigned(a) /\ ch # None /\ ch.from = PlanOf(a)
             /\ assignments'[a] # NoPlan
             /\ assignments'[a].key = assignments[a].key
             /\ assignments'[a].rev # assignments[a].rev
             => LET now == Plan(assignments'[a].rev, assignments'[a].key) IN
                ch.to = now \/ (changes'[a]["manual"] # None
                                /\ changes'[a]["manual"].from = now
                                /\ changes'[a]["manual"].to = ch.to)
<1>1. Init => CatalogInv
  BY CatalogStarts
<1>2. CatalogInv /\ [Next]_vars => CatalogInv'
  BY CatalogStep
<1>3. AccountsMove => PinStep /\ ManualStep
  BY DEF AccountsMove, GoodMove, KeepsChoices, Assigned, PlanOf
<1>4. CatalogInv /\ [Next]_vars => [PinStep]_vars /\ [ManualStep]_vars
  BY <1>3, CatalogStep
<1> QED BY <1>1, <1>2, <1>4, PTL DEF Spec, RolloutsKeepChoices, PinHolds, ManualSurvives

=============================================================================
