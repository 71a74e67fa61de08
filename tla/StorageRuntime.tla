---------------------------- MODULE StorageRuntime ----------------------------
(***************************************************************************)
(* One process's storage runtime: the usage charges of the outbox, the      *)
(* worker that delivers them, the batcher that coalesces concurrent         *)
(* deliveries into one write, the ClickHouse sink, and the Runtime that     *)
(* starts, flushes and closes them while deliveries run and contexts         *)
(* expire.                                                                  *)
(*                                                                         *)
(* A step is what a goroutine does between two acquisitions of a mutex, two *)
(* calls of the database or the sink, or two waits on a channel.  A run of   *)
(* the worker claims one group of events; a longer batch is a sequence of    *)
(* runs.  The archive is a component with nothing to deliver here: its       *)
(* deliveries are in PayloadArchive.                                        *)
(***************************************************************************)
EXTENDS Naturals, FiniteSets

CONSTANTS
    Charges,      \* usage charges recorded in the outbox
    Invalid,      \* those that projectUsage rejects
    Apps,         \* goroutines of the application
    Ops,          \* app -> what it calls: start, flush, close, run
    Writers,      \* flushes of the batcher that may be under way
    AttemptLimit, \* OutboxWorkerOptions.AttemptLimit
    MaxFaults,    \* bound: failures, lost replies and expired contexts
    MaxCalls,     \* bound: app -> the calls it makes
    None

ASSUME StorageRuntimeAssumption ==
    /\ Invalid \subseteq Charges
    /\ Ops \in [Apps -> SUBSET {"start", "flush", "close", "run"}]
    /\ AttemptLimit \in Nat \ {0} /\ MaxFaults \in Nat /\ MaxCalls \in [Apps -> Nat]

\* A flush, the pending batch, no flush and a goroutine are told apart.
ASSUME NoneAssumption ==
    /\ None \notin Writers \cup Apps \cup {"pending"}
    /\ "pending" \notin Writers

VARIABLES
    outbox,     \* event_outbox: the status and attempt_count of a charge's row
    rows,       \* the charges in the ClickHouse projection
    deliveries, \* dispatchEvent of a charge: where it is, the write it waits for
    run,        \* OutboxWorker.active: who began it, whether it is cancelled
    loop,       \* the worker's loop
    stopped,    \* OutboxWorker.stopped
    pending,    \* usageWriteBatcher.pending
    writes,     \* the flushes under way: their entries and where they are
    closed,     \* what is closed: sink, archive, store
    runtime,    \* Runtime: started, closed, startErr, closeErr
    startMu,    \* the app that holds Runtime.startMu
    calls,      \* the apps' calls
    made,       \* how many calls each app has made
    faults

workVars == <<outbox, rows, deliveries, pending, writes>>
vars == <<workVars, run, loop, stopped, closed, runtime, startMu, calls, made, faults>>

Idle   == [op |-> "idle", pc |-> "idle", expired |-> FALSE, failed |-> FALSE]
NoCall == [pc |-> "idle", on |-> None]
NoRun  == [on |-> FALSE, by |-> None, cancelled |-> FALSE]
NoWrite == [pc |-> "idle", entries |-> {}]

Fault == faults < MaxFaults /\ faults' = faults + 1

------------------------------------------------------------------------------
(* The worker                                                              *)

\* runOnce: a run begins unless the worker is stopped or has one.
BeginRun(by, cancelled) ==
    /\ ~stopped /\ ~run.on
    /\ run' = [on |-> TRUE, by |-> by, cancelled |-> cancelled]

\* runLoop: the next run, detached from the loop's context.
LoopRun ==
    /\ loop = "polling"
    /\ BeginRun("loop", FALSE)
    /\ UNCHANGED <<workVars, made, loop, stopped, closed, runtime, startMu, calls, faults>>

\* runLoop returns when its context is cancelled and it waits for no run of
\* its own.
LoopEnds ==
    /\ loop = "polling" /\ stopped /\ ~(run.on /\ run.by = "loop")
    /\ loop' = "done"
    /\ UNCHANGED <<workVars, made, run, stopped, closed, runtime, startMu, calls, faults>>

\* dispatchOnce: a group of pending rows, or of rows whose claim ran out, is
\* claimed.
ClaimGroup(S) ==
    /\ run.on /\ ~run.cancelled /\ "store" \notin closed
    /\ \A c \in Charges : deliveries[c] = NoCall
    /\ S # {} /\ \A c \in S : outbox[c].status \in {"pending", "processing"}
    /\ outbox' = [c \in Charges |->
           IF c \in S THEN [status |-> "processing", attempts |-> outbox[c].attempts + 1]
           ELSE outbox[c]]
    /\ deliveries' = [c \in Charges |->
           IF c \in S THEN [NoCall EXCEPT !.pc = "handle"] ELSE deliveries[c]]
    /\ UNCHANGED <<made, rows, run, loop, stopped, pending, writes, closed, runtime,
                   startMu, calls, faults>>

\* Where a call that waited for a run goes on.
AfterRun(a) ==
    IF calls[a].op = "close" THEN [calls[a] EXCEPT !.pc = "stop"]
    ELSE [calls[a] EXCEPT !.pc = "return"]

\* Wrong on purpose: the end of a run wakes only the call that began it.
WokenOwner(a) ==
    IF calls[a].pc = "join" /\ run.by = a THEN AfterRun(a) ELSE calls[a]

\* The end of a run wakes every call that joined it.
Woken(a) == IF calls[a].pc = "join" THEN AfterRun(a) ELSE calls[a]

\* The run is over: nothing to claim, the claim failed, or every outcome is in.
RunEnds ==
    /\ run.on /\ \A c \in Charges : deliveries[c] = NoCall
    /\ run' = NoRun
    /\ calls' = [a \in Apps |-> Woken(a)]
    /\ UNCHANGED <<workVars, made, loop, stopped, closed, runtime, startMu, faults>>

------------------------------------------------------------------------------
(* A delivery and the batcher                                              *)

Deliver(c, pc) == deliveries' = [deliveries EXCEPT ![c] = [pc |-> pc, on |-> None]]

\* UsageChargeOutboxHandler.Handle up to submit: the embedded payload, or the
\* charge reloaded from the database; a request joins the pending ones.
Submit(c) ==
    /\ deliveries[c].pc = "handle"
    /\ \/ /\ ~run.cancelled
          /\ deliveries' = [deliveries EXCEPT ![c] = [pc |-> "waiting", on |-> "pending"]]
          /\ pending' = pending \cup {c}
          /\ UNCHANGED faults
       \/ /\ run.cancelled \/ "store" \in closed
          /\ Deliver(c, "fail") /\ UNCHANGED <<pending, faults>>
       \/ Fault /\ Deliver(c, "fail") /\ UNCHANGED pending
    /\ UNCHANGED <<made, outbox, rows, run, loop, stopped, writes, closed, runtime,
                   startMu, calls>>

\* submit returns its context's error; the request stays in the batch.
GiveUp(c) ==
    /\ deliveries[c].pc = "waiting" /\ run.cancelled
    /\ Deliver(c, "fail")
    /\ UNCHANGED <<made, outbox, rows, run, loop, stopped, pending, writes, closed,
                   runtime, startMu, calls, faults>>

\* The window is over: flush takes the pending requests.
Flush(w) ==
    /\ writes[w] = NoWrite /\ pending # {}
    /\ writes' = [writes EXCEPT ![w] = [pc |-> "enter", entries |-> pending]]
    /\ pending' = {}
    /\ deliveries' = [c \in Charges |->
           IF deliveries[c].on = "pending" THEN [deliveries[c] EXCEPT !.on = w]
           ELSE deliveries[c]]
    /\ UNCHANGED <<made, outbox, rows, run, loop, stopped, closed, runtime, startMu,
                   calls, faults>>

\* mergedUsageBatchContext: the write is cancelled when every request of it is.
Cancelled(w) ==
    \A c \in writes[w].entries : deliveries[c].on # w \/ run.cancelled

\* The outcome of a write goes to the requests that still wait for it.
Answer(w, ok) ==
    /\ deliveries' = [c \in Charges |->
           IF deliveries[c].on = w
           THEN [pc |-> IF ok THEN "complete" ELSE "fail", on |-> None]
           ELSE deliveries[c]]
    /\ writes' = [writes EXCEPT ![w] = NoWrite]

\* WriteUsageBatch enters the store, holding lifecycleMu for reading; a caller
\* that closes the store has it for writing or waits for it.
Enter(w) ==
    /\ writes[w].pc = "enter"
    /\ \/ /\ Cancelled(w) \/ "sink" \in closed
          /\ Answer(w, FALSE)
       \/ /\ "sink" \notin closed
          /\ writes' = [writes EXCEPT ![w].pc = "write"]
          /\ UNCHANGED deliveries
    /\ UNCHANGED <<made, outbox, rows, run, loop, stopped, pending, closed, runtime,
                   startMu, calls, faults>>

\* Wrong on purpose: the entries that can be projected are written and the
\* others are left out.
ProjectedSome(entries) == entries \ Invalid # {}

\* Whether every entry of a batch can be projected.
Projected(entries) == entries \cap Invalid = {}

\* WriteUsageBatch: one insert of all entries or of none; an error may follow an
\* insert that was made.
Write(w) ==
    LET entries == writes[w].entries IN
    /\ writes[w].pc = "write"
    /\ \/ /\ Projected(entries)
          /\ rows' = rows \cup (entries \ Invalid)
          /\ Answer(w, TRUE) /\ UNCHANGED faults
       \/ ~Projected(entries) /\ Answer(w, FALSE) /\ UNCHANGED <<rows, faults>>
       \/ /\ Projected(entries)
          /\ \/ Cancelled(w) /\ UNCHANGED faults
             \/ ~Cancelled(w) /\ Fault
          /\ rows' \in {rows, rows \cup entries}
          /\ Answer(w, FALSE)
    /\ UNCHANGED <<made, outbox, run, loop, stopped, pending, closed, runtime,
                   startMu, calls>>

\* Whether a report reaches the database.
Reachable == ~run.cancelled /\ "store" \notin closed

\* dispatchEvent: Complete.  A report that is lost leaves the row claimed or
\* delivered; the claim runs out later.
Complete(c) ==
    /\ deliveries[c].pc = "complete"
    /\ \/ /\ Reachable
          /\ outbox' = [outbox EXCEPT ![c].status = "delivered"]
          /\ UNCHANGED faults
       \/ ~Reachable /\ UNCHANGED <<outbox, faults>>
       \/ Fault /\ UNCHANGED outbox
    /\ Deliver(c, "idle")
    /\ UNCHANGED <<made, rows, run, loop, stopped, pending, writes, closed, runtime,
                   startMu, calls>>

\* failDelivery: back to pending, or to the dead letters at the limit.
Fail(c) ==
    /\ deliveries[c].pc = "fail"
    /\ \/ /\ Reachable
          /\ outbox' = [outbox EXCEPT ![c].status =
                 IF outbox[c].attempts >= AttemptLimit THEN "dead_letter" ELSE "pending"]
       \/ ~Reachable /\ UNCHANGED outbox
    /\ Deliver(c, "idle")
    /\ UNCHANGED <<made, rows, run, loop, stopped, pending, writes, closed, runtime,
                   startMu, calls, faults>>

------------------------------------------------------------------------------
(* The runtime                                                             *)

Goto(a, pc)   == calls' = [calls EXCEPT ![a].pc = pc]
Failed(a, pc) == calls' = [calls EXCEPT ![a].pc = pc, ![a].failed = TRUE]

\* An app calls the runtime, or the worker's RunOnce with a context of its own.
Call(a, op) ==
    /\ calls[a] = Idle
    /\ op \in Ops[a]
    /\ made[a] < MaxCalls[a] /\ made' = [made EXCEPT ![a] = @ + 1]
    /\ calls' = [calls EXCEPT ![a] =
           [op |-> op, pc |-> IF op = "run" THEN "runonce" ELSE "lock",
            expired |-> FALSE, failed |-> FALSE]]
    /\ UNCHANGED <<workVars, run, loop, stopped, closed, runtime, startMu, faults>>

\* The call's context expires, and with it the run it began.
Expire(a) ==
    /\ calls[a] # Idle /\ ~calls[a].expired
    /\ Fault
    /\ calls' = [calls EXCEPT ![a].expired = TRUE]
    /\ run' = [run EXCEPT !.cancelled = @ \/ run.by = a]
    /\ UNCHANGED <<workVars, made, loop, stopped, closed, runtime, startMu>>

\* The call has startMu and looks at the runtime's state.
Lock(a) ==
    /\ calls[a].pc = "lock" /\ startMu = None
    /\ startMu' = a
    /\ CASE calls[a].op = "start" ->
              Goto(a, IF runtime.closed \/ runtime.started \/ runtime.startErr
                      THEN "return" ELSE "load") /\ UNCHANGED runtime
         [] calls[a].op = "flush" ->
              Goto(a, IF runtime.closed \/ ~runtime.started
                      THEN "return" ELSE "runonce") /\ UNCHANGED runtime
         [] calls[a].op = "close" ->
              IF runtime.closed THEN Goto(a, "return") /\ UNCHANGED runtime
              ELSE /\ runtime' = [runtime EXCEPT !.closed = TRUE]
                   /\ Goto(a, IF runtime.started /\ ~stopped
                              THEN "runonce" ELSE "stop")
    /\ UNCHANGED <<workVars, made, run, loop, stopped, closed, faults>>

\* Start: verifyTenantIdentity and LoadCatalog; a failure may be tried again.
LoadCatalog(a) ==
    /\ calls[a].pc = "load"
    /\ \/ ~calls[a].expired /\ Goto(a, "start_sink") /\ UNCHANGED faults
       \/ calls[a].expired /\ Goto(a, "return") /\ UNCHANGED faults
       \/ Fault /\ Goto(a, "return")
    /\ UNCHANGED <<workVars, made, run, loop, stopped, closed, runtime, startMu>>

\* Start: the sink creates its table.
StartSink(a) ==
    /\ calls[a].pc = "start_sink"
    /\ \/ ~calls[a].expired /\ Goto(a, "start_archive") /\ UNCHANGED faults
       \/ calls[a].expired /\ Goto(a, "undo_sink") /\ UNCHANGED faults
       \/ ~calls[a].expired /\ Fault /\ Goto(a, "undo_sink")
    /\ UNCHANGED <<workVars, made, run, loop, stopped, closed, runtime, startMu>>

\* Start: the archive only looks at its context, and the worker starts its loop.
StartArchive(a) ==
    /\ calls[a].pc = "start_archive"
    /\ IF calls[a].expired
       THEN Goto(a, "undo_archive") /\ UNCHANGED <<loop, runtime>>
       ELSE /\ loop' = "polling"
            /\ runtime' = [runtime EXCEPT !.started = TRUE]
            /\ Goto(a, "return")
    /\ UNCHANGED <<workVars, made, run, stopped, closed, startMu, faults>>

\* Whether lifecycleMu can be had for writing.
Unread == \A w \in Writers : writes[w].pc # "write"

\* Wrong on purpose: only the component that failed is closed.
RolledBackLast(a) ==
    IF calls[a].pc = "undo_archive" THEN {"archive"} ELSE {"sink"}

\* What a failed start closes: the component that failed and those before it.
RolledBack(a) ==
    IF calls[a].pc = "undo_archive" THEN {"archive", "sink"} ELSE {"sink"}

\* Start: the rollback, with a context that never expires; the sink's Close
\* waits for the writes under way.
Rollback(a) ==
    /\ calls[a].pc \in {"undo_sink", "undo_archive"}
    /\ Unread
    /\ closed' = closed \cup RolledBack(a)
    /\ runtime' = [runtime EXCEPT !.startErr = TRUE]
    /\ Goto(a, "return")
    /\ UNCHANGED <<workVars, made, run, loop, stopped, startMu, faults>>

\* OutboxWorker.RunOnce: an error when stopped, the active run, or a new one.
RunOnce(a) ==
    /\ calls[a].pc = "runonce"
    /\ \/ /\ stopped /\ calls' = [calls EXCEPT ![a] = AfterRun(a)]
          /\ UNCHANGED run
       \/ /\ ~stopped /\ run.on
          /\ Goto(a, "join") /\ UNCHANGED run
       \/ BeginRun(a, calls[a].expired) /\ Goto(a, "join")
    /\ UNCHANGED <<workVars, made, loop, stopped, closed, runtime, startMu, faults>>

\* waitOutboxRun: a call that joined another's run leaves with its context.
LeaveRun(a) ==
    /\ calls[a].pc = "join" /\ calls[a].expired /\ run.by # a
    /\ calls' = [calls EXCEPT ![a] = [AfterRun(a) EXCEPT !.failed = TRUE]]
    /\ UNCHANGED <<workVars, made, run, loop, stopped, closed, runtime, startMu, faults>>

\* Close: Stop refuses new runs and cancels the loop.
StopWorker(a) ==
    /\ calls[a].pc = "stop"
    /\ stopped' = TRUE
    /\ Goto(a, "await")
    /\ UNCHANGED <<workVars, made, run, loop, closed, runtime, startMu, faults>>

\* What Stop waits for.
Quiet == ~run.on /\ loop # "polling"

\* Close: Stop waits for the active run and the loop, or cancels the run when
\* its context expires.
AwaitWorker(a) ==
    /\ calls[a].pc = "await"
    /\ \/ Quiet /\ Goto(a, "close_archive") /\ UNCHANGED run
       \/ /\ calls[a].expired
          /\ run' = [run EXCEPT !.cancelled = run.on]
          /\ Failed(a, "close_archive")
    /\ UNCHANGED <<workVars, made, loop, stopped, closed, runtime, startMu, faults>>

\* Close: a component's Close returns its context's error and closes nothing
\* when the context has expired.
CloseArchive(a) ==
    /\ calls[a].pc = "close_archive"
    /\ IF calls[a].expired THEN Failed(a, "close_sink") /\ UNCHANGED closed
       ELSE closed' = closed \cup {"archive"} /\ Goto(a, "close_sink")
    /\ UNCHANGED <<workVars, made, run, loop, stopped, runtime, startMu, faults>>

CloseSink(a) ==
    /\ calls[a].pc = "close_sink"
    /\ IF calls[a].expired THEN Failed(a, "close_store") /\ UNCHANGED closed
       ELSE /\ Unread
            /\ closed' = closed \cup {"sink"} /\ Goto(a, "close_store")
    /\ UNCHANGED <<workVars, made, run, loop, stopped, runtime, startMu, faults>>

\* Close: the stores are closed whatever happened before.
CloseStore(a) ==
    /\ calls[a].pc = "close_store"
    /\ closed' = closed \cup {"store"}
    /\ runtime' = [runtime EXCEPT !.closeErr = IF calls[a].failed THEN "error" ELSE "none"]
    /\ Goto(a, "return")
    /\ UNCHANGED <<workVars, made, run, loop, stopped, startMu, faults>>

Return(a) ==
    /\ calls[a].pc = "return"
    /\ calls' = [calls EXCEPT ![a] = Idle]
    /\ startMu' = IF startMu = a THEN None ELSE startMu
    /\ UNCHANGED <<workVars, made, run, loop, stopped, closed, runtime, faults>>

------------------------------------------------------------------------------
Init ==
    /\ outbox = [c \in Charges |-> [status |-> "pending", attempts |-> 0]]
    /\ rows = {}
    /\ deliveries = [c \in Charges |-> NoCall]
    /\ run = NoRun /\ loop = "off" /\ stopped = FALSE
    /\ pending = {} /\ writes = [w \in Writers |-> NoWrite]
    /\ closed = {}
    /\ runtime = [started |-> FALSE, closed |-> FALSE, startErr |-> FALSE,
                  closeErr |-> "open"]
    /\ startMu = None
    /\ calls = [a \in Apps |-> Idle]
    /\ made = [a \in Apps |-> 0]
    /\ faults = 0

Worker ==
    \/ LoopRun \/ LoopEnds \/ RunEnds
    \/ \E S \in SUBSET Charges : ClaimGroup(S)

Delivery(c) == Submit(c) \/ GiveUp(c) \/ Complete(c) \/ Fail(c)
Batch(w)    == Flush(w) \/ Enter(w) \/ Write(w)

Step(a) ==
    \/ Lock(a) \/ LoadCatalog(a) \/ StartSink(a) \/ StartArchive(a)
    \/ Rollback(a) \/ RunOnce(a) \/ LeaveRun(a) \/ StopWorker(a) \/ AwaitWorker(a)
    \/ CloseArchive(a) \/ CloseSink(a) \/ CloseStore(a) \/ Return(a)

Next ==
    \/ Worker
    \/ \E c \in Charges : Delivery(c)
    \/ \E w \in Writers : Batch(w)
    \/ \E a \in Apps : Step(a) \/ Expire(a) \/ \E op \in Ops[a] : Call(a, op)

Spec == Init /\ [][Next]_vars

\* Goroutines keep running, and the database and the sink answer.
FairSpec ==
    /\ Spec
    /\ WF_vars(Worker)
    /\ \A c \in Charges : WF_vars(Delivery(c))
    /\ \A w \in Writers : WF_vars(Batch(w))
    /\ \A a \in Apps : WF_vars(Step(a))

------------------------------------------------------------------------------
(* Properties                                                              *)

\* A charge whose row is delivered is in the projection: the outcome of a
\* coalesced write reaches exactly the deliveries that wait for it, also when
\* others of the batch gave up, could not be projected or were claimed again.
DeliveredIsExported ==
    \A c \in Charges : outbox[c].status = "delivered" => c \in rows

\* No write uses a connection that Close has closed, although a write outlives
\* the run whose deliveries gave it up.
NoWriteAfterClose ==
    "sink" \in closed => \A w \in Writers : writes[w].pc # "write"

\* When Close has reported success, everything the runtime owns is closed, and
\* no run, loop or delivery is left behind.
ClosedIsQuiet ==
    runtime.closeErr = "none" =>
        /\ closed = {"sink", "archive", "store"}
        /\ ~run.on /\ loop # "polling"
        /\ \A c \in Charges : deliveries[c] = NoCall

\* A start that failed leaves no component open and no loop running.
FailedStartRolledBack ==
    runtime.startErr => "sink" \in closed /\ loop = "off"

\* The runtime ends cleanly, whether by Close or by a start that failed, and
\* nothing is written through a connection it has closed.
EndsCleanly == ClosedIsQuiet /\ FailedStartRolledBack /\ NoWriteAfterClose

\* Every call of Start, Flush, Close and RunOnce returns (each app makes a
\* bounded number of them), although Start, Flush and Close exclude one another
\* over whole delivery runs and Close waits for runs and writes under way.
CallsReturn == <>[](\A a \in Apps : calls[a] = Idle)

==============================================================================
