------------------------------- MODULE Outbox -------------------------------
(***************************************************************************)
(* The transactional outbox: the rows of event_outbox, the SQL functions   *)
(* that claim, renew, complete, fail, requeue and prune them (028), and    *)
(* the workers that deliver them (outbox_worker.go).  Each SQL function is *)
(* one UPDATE or DELETE, so it is one step; a worker calls it, and works   *)
(* with what it returned, in steps of its own.                             *)
(*                                                                         *)
(* Time is kept as what is left of it: left is the time until a pending    *)
(* row is available or a claim expires.  A statement whose transaction     *)
(* began d ago sees left + d.                                              *)
(*                                                                         *)
(*   rows     event_outbox; a status of "none" is no row yet and "gone" a  *)
(*            row that retention has deleted                               *)
(*   work     the workers: the active run, Stop, and the events being      *)
(*            dispatched, each with the claim it was given.  until is the  *)
(*            time left of the lease as the worker was told                *)
(*   handled  events that all handlers have accepted at least once         *)
(*   faults   crashes, lost replies, stalls and cancellations so far       *)
(***************************************************************************)
EXTENDS Integers, FiniteSets, Functions, Sums

CONSTANTS
  Events,        \* the events
  Required,      \* those with payload.delivery_required
  Workers,
  Stoppable,     \* workers that may be told to stop
  Concurrency,   \* OutboxWorkerOptions
  BatchSize,
  Lease,
  BaseDelay,
  MaxDelay,
  AttemptLimit,
  MaxLag,        \* longest time from BEGIN to the statement
  MaxFaults      \* bound on the faults

ASSUME OutboxAssumption ==
  /\ IsFiniteSet(Events) /\ IsFiniteSet(Workers)
  /\ Required \subseteq Events
  /\ Stoppable \subseteq Workers
  /\ {Concurrency, BatchSize, Lease, BaseDelay, MaxDelay, AttemptLimit}
       \subseteq Nat \ {0}
  /\ BaseDelay <= MaxDelay
  /\ MaxLag \in Nat /\ MaxLag < Lease
  /\ MaxFaults \in Nat

VARIABLES rows, work, handled, faults

outbox == <<rows, work, handled, faults>>
-----------------------------------------------------------------------------
(* Values *)

NoToken == 0
NoJobs == [e \in {} |-> NoToken]

\* attempt_count is only compared with the limit: it need not count further.
AttemptCap == AttemptLimit + 1

Row(status, token, left, attempts) ==
  [status |-> status, token |-> token, left |-> left, attempts |-> attempts]

Lags == 0..MaxLag

Fault == faults < MaxFaults /\ faults' = faults + 1

JobsOn(e) == {w \in Workers : e \in DOMAIN work[w].jobs}

TokensInUse ==
  {rows[e].token : e \in Events}
    \cup UNION {{work[w].jobs[e].token : e \in DOMAIN work[w].jobs} : w \in Workers}

\* gen_random_uuid(): a token that nobody has; one out of use is as good as new.
NewToken ==
  CHOOSE k \in 1..(Cardinality(Events) * (Cardinality(Workers) + 1) + 1) :
    k \notin TokensInUse

\* boundedOutboxRetryDelay
RetryDelay(attempt) == Least(MaxDelay, BaseDelay * 2^(attempt - 1))
-----------------------------------------------------------------------------
(* The SQL functions, at a lag of d *)

IsOpen(e) == rows[e].status \in {"pending", "processing"}

\* Wrong on purpose: claims that have expired, or have not, are mistaken.
ClaimablePending(d) == {e \in Events : rows[e].status = "pending" /\ rows[e].left <= -d}
ClaimableAny(d) ==
  {e \in Events : IsOpen(e) /\ (rows[e].status = "pending" => rows[e].left <= -d)}

Claimable(d) == {e \in Events : IsOpen(e) /\ rows[e].left <= -d}

Claimed(S, d) ==
  [e \in Events |->
     IF e \in S THEN Row("processing", NewToken, Lease - d,
                         Least(rows[e].attempts + 1, AttemptCap))
                ELSE rows[e]]

\* The WHERE clause of renew, complete and fail.
Owns(e, token, d) ==
  /\ rows[e].status = "processing"
  /\ rows[e].token = token
  /\ rows[e].left > -d

Renewed(e, d) == [rows EXCEPT ![e].left = Greatest(rows[e].left, Lease - d)]

Completed(e) == [rows EXCEPT ![e] = Row("delivered", NoToken, 0, rows[e].attempts)]

Failed(e, d, delay) ==
  [rows EXCEPT ![e] =
     IF rows[e].attempts >= AttemptLimit
       THEN Row("dead_letter", NoToken, 0, rows[e].attempts)
       ELSE Row("pending", NoToken, delay - d, rows[e].attempts)]

\* requeue_outbox_dead_letter
Requeue(e) ==
  /\ rows[e].status = "dead_letter"
  /\ rows' = [rows EXCEPT ![e] = Row("pending", NoToken, 0, 0)]
  /\ UNCHANGED <<work, handled, faults>>

\* The two DELETEs of run_storage_maintenance; any row may be old enough.
Prunable(e) ==
  \/ rows[e].status = "delivered"
  \/ e \notin Required /\ rows[e].status \in {"pending", "processing", "dead_letter"}

Prune(e) ==
  /\ Prunable(e)
  /\ rows' = [rows EXCEPT ![e] = Row("gone", NoToken, 0, 0)]
  /\ UNCHANGED <<work, handled, faults>>

\* The INSERT of a charge, a quota event or a billing event.
Enqueue(e) ==
  /\ rows[e].status = "none"
  /\ rows' = [rows EXCEPT ![e] = Row("pending", NoToken, 0, 0)]
  /\ UNCHANGED <<work, handled, faults>>
-----------------------------------------------------------------------------
(* The worker: runs *)

\* runOnce, from the loop or by hand: one run at a time, and none once stopped.
BeginRun(w) ==
  /\ work[w].phase = "idle"
  /\ work[w].stop = "no"
  /\ work' = [work EXCEPT ![w].phase = "running", ![w].remaining = BatchSize]
  /\ UNCHANGED <<rows, handled, faults>>

CanClaim(w) ==
  /\ work[w].phase = "running"
  /\ work[w].jobs = NoJobs
  /\ work[w].remaining > 0

\* The events S that SKIP LOCKED and LIMIT leave; fewer than asked for ends the
\* run after them.
Claim(w, S, d) ==
  LET available == Least(Concurrency, work[w].remaining)
      job(e) == [token |-> NewToken, attempt |-> Claimed(S, d)[e].attempts,
                 beat |-> "on", result |-> "none", until |-> Lease - d]
  IN  /\ CanClaim(w)
      /\ S \subseteq Claimable(d)
      /\ Cardinality(S) <= available
      /\ rows' = Claimed(S, d)
      /\ work' = [work EXCEPT
           ![w].jobs = [e \in S |-> job(e)],
           ![w].remaining = IF Cardinality(S) < available THEN 0
                            ELSE work[w].remaining - available]
      /\ UNCHANGED <<handled, faults>>

\* The reply is lost after the claim: the run ends with an error.
ClaimReplyLost(w, S, d) ==
  /\ CanClaim(w)
  /\ S \subseteq Claimable(d)
  /\ Cardinality(S) <= Least(Concurrency, work[w].remaining)
  /\ Fault
  /\ rows' = Claimed(S, d)
  /\ work' = [work EXCEPT ![w].remaining = 0]
  /\ UNCHANGED handled

EndRun(w) ==
  /\ work[w].phase # "idle"
  /\ work[w].jobs = NoJobs
  /\ work[w].phase = "cancelled" \/ work[w].remaining = 0
  /\ work' = [work EXCEPT ![w].phase = "idle", ![w].remaining = 0]
  /\ UNCHANGED <<rows, handled, faults>>

Stop(w) ==
  /\ work[w].stop = "no"
  /\ work' = [work EXCEPT ![w].stop = "asked"]
  /\ UNCHANGED <<rows, handled, faults>>

\* Stop returns when the run it found has ended.
Stopped(w) ==
  /\ work[w].stop = "asked"
  /\ work[w].phase = "idle"
  /\ work' = [work EXCEPT ![w].stop = "done"]
  /\ UNCHANGED <<rows, handled, faults>>

\* The run's context ends: the deadline of Stop, or the caller of RunOnce.
CancelRun(w) ==
  /\ work[w].phase = "running"
  /\ Fault
  /\ work' = [work EXCEPT
       ![w].phase = "cancelled",
       ![w].jobs = [e \in DOMAIN work[w].jobs |->
                      [work[w].jobs[e] EXCEPT !.beat = "lost"]]]
  /\ UNCHANGED <<rows, handled>>

\* The process dies and another takes its place.
Crash(w) ==
  /\ work[w].phase # "idle"
  /\ Fault
  /\ work' = [work EXCEPT ![w] =
       [phase |-> "idle", stop |-> "no", remaining |-> 0, jobs |-> NoJobs]]
  /\ UNCHANGED <<rows, handled>>
-----------------------------------------------------------------------------
(* The worker: dispatchEvent and its heartbeat *)

\* The heartbeat renews the claim, or finds it lost and stops.
Beat(w, e, d) ==
  LET job == work[w].jobs[e]
  IN  /\ job.beat = "on"
      /\ IF Owns(e, job.token, d)
           THEN /\ rows' = Renewed(e, d)
                /\ work' = [work EXCEPT ![w].jobs[e].until = Greatest(job.until, Lease - d)]
           ELSE /\ work' = [work EXCEPT ![w].jobs[e].beat = "lost"]
                /\ UNCHANGED rows
      /\ UNCHANGED <<handled, faults>>

\* The renewal fails, or succeeds and its reply is lost.
BeatReplyLost(w, e, d) ==
  /\ work[w].jobs[e].beat = "on"
  /\ Fault
  /\ \/ UNCHANGED rows
     \/ Owns(e, work[w].jobs[e].token, d) /\ rows' = Renewed(e, d)
  /\ work' = [work EXCEPT ![w].jobs[e].beat = "lost"]
  /\ UNCHANGED handled

\* All handlers of the topic have returned; an error of one is the result.
HandlersReturn(w, e, result) ==
  /\ work[w].jobs[e].result = "none"
  /\ work' = [work EXCEPT ![w].jobs[e].result = result]
  /\ handled' = IF result = "ok" THEN handled \cup {e} ELSE handled
  /\ UNCHANGED <<rows, faults>>

\* Wrong on purpose: the result is reported whoever holds the claim by now.
ReportedUnfenced(e, job, d) ==
  IF job.result = "ok" THEN Completed(e) ELSE Failed(e, d, RetryDelay(job.attempt))

\* complete_tenant_outbox_event, or fail_tenant_outbox_event.
Reported(e, job, d) ==
  CASE ~Owns(e, job.token, d) -> rows
    [] Owns(e, job.token, d) /\ job.result = "ok" -> Completed(e)
    [] OTHER -> Failed(e, d, RetryDelay(job.attempt))

\* The heartbeat is stopped first; a claim it lost is not reported on.
Finish(w, e, d) ==
  LET job == work[w].jobs[e]
  IN  /\ job.result # "none"
      /\ rows' = IF job.beat = "lost" THEN rows ELSE Reported(e, job, d)
      /\ work' = [work EXCEPT ![w].jobs = Restrict(@, DOMAIN @ \ {e})]
      /\ UNCHANGED <<handled, faults>>

\* The report does not reach the database; the worker counts the claim as lost.
FinishLost(w, e) ==
  /\ work[w].jobs[e].result # "none"
  /\ Fault
  /\ work' = [work EXCEPT ![w].jobs = Restrict(@, DOMAIN @ \ {e})]
  /\ UNCHANGED <<rows, handled>>
-----------------------------------------------------------------------------
(* Time *)

\* A live claim runs out although its worker is there to renew it.
Stalls ==
  \E w \in Workers : \E e \in DOMAIN work[w].jobs :
    /\ work[w].jobs[e].beat = "on"
    /\ rows[e].status = "processing"
    /\ rows[e].token = work[w].jobs[e].token
    /\ rows[e].left = 1

Tick ==
  /\ rows' = [e \in Events |->
       IF IsOpen(e) THEN [rows[e] EXCEPT !.left = Greatest(rows[e].left - 1, -MaxLag)]
                    ELSE rows[e]]
  /\ work' = [w \in Workers |->
       [work[w] EXCEPT !.jobs =
          [e \in DOMAIN work[w].jobs |->
             [work[w].jobs[e] EXCEPT !.until = Greatest(work[w].jobs[e].until - 1, 0)]]]]
  /\ IF Stalls THEN Fault ELSE UNCHANGED faults
  /\ UNCHANGED handled
-----------------------------------------------------------------------------
OutboxInit ==
  /\ rows = [e \in Events |-> Row("none", NoToken, 0, 0)]
  /\ work = [w \in Workers |->
       [phase |-> "idle", stop |-> "no", remaining |-> 0, jobs |-> NoJobs]]
  /\ handled = {}
  /\ faults = 0

Dispatch(w, e) ==
  \/ \E d \in Lags : Beat(w, e, d) \/ BeatReplyLost(w, e, d) \/ Finish(w, e, d)
  \/ \E result \in {"ok", "error"} : HandlersReturn(w, e, result)
  \/ FinishLost(w, e)

OutboxNext ==
  \/ \E e \in Events : Enqueue(e) \/ Requeue(e) \/ Prune(e)
  \/ \E w \in Workers : BeginRun(w) \/ EndRun(w) \/ Stopped(w)
  \/ \E w \in Workers : CancelRun(w) \/ Crash(w)
  \/ \E w \in Stoppable : Stop(w)
  \/ \E w \in Workers, S \in SUBSET Events, d \in Lags :
       Claim(w, S, d) \/ ClaimReplyLost(w, S, d)
  \/ \E w \in Workers : \E e \in DOMAIN work[w].jobs : Dispatch(w, e)
  \/ Tick

OutboxSpec == OutboxInit /\ [][OutboxNext]_outbox

(***************************************************************************)
(* The poll loop keeps running, handlers return, time passes, and an event *)
(* that can be claimed again and again is claimed: the batch is taken in   *)
(* the order of availability, so one passed over becomes the first.        *)
(***************************************************************************)
FairOutboxSpec ==
  /\ OutboxSpec
  /\ WF_outbox(Tick)
  /\ \A w \in Workers :
       /\ WF_outbox(BeginRun(w))
       /\ WF_outbox(EndRun(w))
       /\ WF_outbox(CanClaim(w) /\ \E S \in SUBSET Events : Claim(w, S, 0))
  /\ \A w \in Workers, e \in Events :
       /\ WF_outbox(e \in DOMAIN work[w].jobs
                      /\ \E r \in {"ok", "error"} : HandlersReturn(w, e, r))
       /\ WF_outbox(e \in DOMAIN work[w].jobs /\ \E d \in Lags : Finish(w, e, d))
  /\ \A e \in Events :
       SF_outbox(\E w \in Workers, S \in SUBSET Events : e \in S /\ Claim(w, S, 0))
-----------------------------------------------------------------------------
(* Properties *)

JobSet ==
  [token : Nat, attempt : 1..AttemptCap, beat : {"on", "lost"},
   result : {"none", "ok", "error"}, until : 0..Lease]

\* Types, and the CHECK that a row has a claim exactly while it is processing.
\* A row waits no longer than its lease or the longest retry delay.
OutboxTypeOK ==
  /\ \A e \in Events :
       /\ rows[e].status \in {"none", "pending", "processing", "delivered",
                              "dead_letter", "gone"}
       /\ rows[e].token \in Nat
       /\ (rows[e].token # NoToken) = (rows[e].status = "processing")
       /\ rows[e].attempts \in 0..AttemptCap
       /\ rows[e].left \in -MaxLag..(IF rows[e].status = "pending" THEN MaxDelay ELSE Lease)
  /\ \A w \in Workers :
       /\ work[w].phase \in {"idle", "running", "cancelled"}
       /\ work[w].stop \in {"no", "asked", "done"}
       /\ work[w].remaining \in 0..BatchSize
       /\ DOMAIN work[w].jobs \subseteq Events
       /\ \A e \in DOMAIN work[w].jobs : work[w].jobs[e] \in JobSet
  /\ handled \subseteq Events
  /\ faults \in 0..MaxFaults

\* Two workers may be handling the same event, but never both within the lease
\* they were told of: only a worker that has overrun can be working in vain.
LeasesExclusive ==
  \A e \in Events : \A v, w \in JobsOn(e) :
    (work[v].jobs[e].until > 0 /\ work[w].jobs[e].until > 0) => v = w

\* A worker that still owns a claim knows the row's attempt count, so the retry
\* delay and the dead letter it reports are those of the row.
AttemptsAgree ==
  \A w \in Workers : \A e \in DOMAIN work[w].jobs :
    Owns(e, work[w].jobs[e].token, 0) =>
      work[w].jobs[e].attempt = rows[e].attempts

\* A claim fences its event: two leases never overlap, and whoever holds one
\* knows the row's attempt.
ClaimsFence == LeasesExclusive /\ AttemptsAgree

\* "automatic retention must not silently destroy the only external copy": an
\* event that must be delivered is marked delivered, or deleted, only after its
\* handlers have accepted it, whatever crashes and lost replies come between.
RequiredNeverLost ==
  \A e \in Required : rows[e].status \in {"delivered", "gone"} => e \in handled

\* Stop returns when the worker is quiet, and it stays quiet.
StoppedIsQuiet ==
  \A w \in Workers :
    work[w].stop = "done" => work[w].phase = "idle" /\ work[w].jobs = NoJobs

\* The worker "acknowledges only while it still owns that claim": a report from
\* a worker whose claim ran out never reopens a delivered or failed event.
SettledIsFinal ==
  [][\A e \in Events :
       /\ rows[e].status = "delivered" => rows'[e].status \in {"delivered", "gone"}
       /\ rows[e].status = "gone" => rows'[e].status = "gone"
       /\ rows[e].status = "dead_letter" =>
            rows'[e].status \in {"dead_letter", "gone"} \/ rows'[e].attempts = 0]_outbox

\* Every event is delivered, given up as a dead letter, or was optional and is
\* pruned: a claim that died with its worker is taken over.
EventsSettle ==
  \A e \in Events :
    IsOpen(e) ~> rows[e].status \in {"delivered", "dead_letter", "gone"}
=============================================================================
