------------------------- MODULE StorageRuntimeProofs -------------------------
(***************************************************************************)
(* Proofs about StorageRuntime, for every set of charges, goroutines and     *)
(* concurrent flushes.  The invariant has two halves: what a delivery knows  *)
(* of the write it waits for, and what a call of the runtime knows of the    *)
(* runtime's state while it holds startMu.                                   *)
(***************************************************************************)
EXTENDS StorageRuntime, TLAPS

Statuses    == {"pending", "processing", "delivered", "dead_letter"}
DeliveryPcs == {"idle", "handle", "waiting", "complete", "fail"}
WritePcs    == {"idle", "enter", "write"}
Batches     == Writers \cup {"pending", None}

OutboxRows    == [status : Statuses, attempts : Nat]
DeliveryCalls == [pc : DeliveryPcs, on : Batches]
WriteCalls    == [pc : WritePcs, entries : SUBSET Charges]

\* The deliveries' half of the state.
WorkTyped ==
    /\ outbox \in [Charges -> OutboxRows]
    /\ deliveries \in [Charges -> DeliveryCalls]
    /\ writes \in [Writers -> WriteCalls]
    /\ pending \in SUBSET Charges

\* A delivery that waits for a batch is an entry of it, and a delivery or a row
\* that says the export was made is right.
Tracked ==
    \A c \in Charges :
        /\ deliveries[c].on = "pending" => c \in pending
        /\ \A w \in Writers : deliveries[c].on = w => c \in writes[w].entries
        /\ deliveries[c].pc = "complete" => c \in rows
        /\ outbox[c].status = "delivered" => c \in rows

\* Deliveries belong to a run.
RunOwns == ~run.on => \A c \in Charges : deliveries[c] = NoCall

WorkInv == WorkTyped /\ Tracked /\ RunOwns /\ NoWriteAfterClose

------------------------------------------------------------------------------
(* The names used below, and what a step must show of the deliveries' half. *)

LEMMA Names ==
    /\ "pending" \in Statuses /\ "processing" \in Statuses
    /\ "delivered" \in Statuses /\ "dead_letter" \in Statuses
    /\ "idle" \in DeliveryPcs /\ "handle" \in DeliveryPcs /\ "waiting" \in DeliveryPcs
    /\ "complete" \in DeliveryPcs /\ "fail" \in DeliveryPcs
    /\ "idle" \in WritePcs /\ "enter" \in WritePcs /\ "write" \in WritePcs
    /\ None \in Batches /\ "pending" \in Batches /\ Writers \subseteq Batches
BY DEF Statuses, DeliveryPcs, WritePcs, Batches

LEMMA Records ==
    /\ \A p \in DeliveryPcs, b \in Batches : [pc |-> p, on |-> b] \in DeliveryCalls
    /\ \A p \in WritePcs, e \in SUBSET Charges : [pc |-> p, entries |-> e] \in WriteCalls
    /\ NoCall \in DeliveryCalls /\ NoWrite \in WriteCalls
BY Names DEF DeliveryCalls, WriteCalls, NoCall, NoWrite

\* One delivery goes on with no batch to wait for.
LEMMA DeliverKeeps ==
    ASSUME WorkTyped, Tracked, RunOwns, NEW c \in Charges, NEW p \in DeliveryPcs,
           deliveries[c].pc # "idle", Deliver(c, p),
           p = "complete" => c \in rows,
           UNCHANGED <<pending, writes, rows, run>>,
           outbox' \in [Charges -> OutboxRows],
           \A x \in Charges : outbox'[x].status = "delivered" => x \in rows
    PROVE  WorkTyped' /\ Tracked' /\ RunOwns'
<1>1. deliveries' \in [Charges -> DeliveryCalls]
  BY Records, Names DEF Deliver, WorkTyped
<1>2. Tracked'
  BY NoneAssumption DEF Deliver, WorkTyped, Tracked
<1>3. run.on
  BY DEF RunOwns, NoCall
<1>4. QED
  BY <1>1, <1>2, <1>3 DEF WorkTyped, RunOwns

\* A write's outcome reaches the deliveries that wait for it.
LEMMA AnswerKeeps ==
    ASSUME WorkTyped, Tracked, RunOwns, NEW w \in Writers, NEW ok \in BOOLEAN,
           Answer(w, ok), rows \subseteq rows',
           ok => writes[w].entries \subseteq rows',
           UNCHANGED <<pending, outbox, run>>
    PROVE  /\ WorkTyped' /\ Tracked' /\ RunOwns'
           /\ \A v \in Writers : writes'[v].pc = "write" => writes[v].pc = "write"
<1> DEFINE p == IF ok THEN "complete" ELSE "fail"
<1>1. p \in DeliveryPcs /\ (p = "complete" => ok)
  BY Names
<1>2. /\ deliveries' = [c \in Charges |->
             IF deliveries[c].on = w THEN [pc |-> p, on |-> None] ELSE deliveries[c]]
      /\ writes' = [writes EXCEPT ![w] = NoWrite]
  BY DEF Answer
<1> HIDE DEF p
<1>3. deliveries' \in [Charges -> DeliveryCalls] /\ writes' \in [Writers -> WriteCalls]
  BY <1>1, <1>2, Records, Names DEF WorkTyped
<1>4. Tracked'
  BY <1>1, <1>2, NoneAssumption DEF WorkTyped, Tracked
<1>5. RunOwns'
  BY <1>2, NoneAssumption DEF RunOwns, NoCall
<1>6. \A v \in Writers : writes'[v].pc = "write" => writes[v].pc = "write"
  BY <1>2 DEF WorkTyped, NoWrite
<1>7. QED
  BY <1>3, <1>4, <1>5, <1>6 DEF WorkTyped

------------------------------------------------------------------------------
(* The deliveries and the batcher                                          *)

LEMMA ClaimKeeps ==
    ASSUME WorkInv, NEW S \in SUBSET Charges, ClaimGroup(S)
    PROVE  WorkInv'
<1>1. outbox' \in [Charges -> OutboxRows]
  <2>1. ASSUME NEW c \in Charges
        PROVE  [status |-> "processing", attempts |-> outbox[c].attempts + 1] \in OutboxRows
    BY Names DEF WorkInv, WorkTyped, OutboxRows
  <2>2. QED
    BY <2>1 DEF ClaimGroup, WorkInv, WorkTyped
<1>2. [NoCall EXCEPT !.pc = "handle"] = [pc |-> "handle", on |-> None]
  BY DEF NoCall
<1>3. deliveries' \in [Charges -> DeliveryCalls]
  BY <1>2, Records, Names DEF ClaimGroup, WorkInv, WorkTyped
<1>4. Tracked'
  BY <1>2, NoneAssumption DEF ClaimGroup, WorkInv, Tracked
<1>5. QED
  BY <1>1, <1>3, <1>4 DEF ClaimGroup, WorkInv, WorkTyped, RunOwns, NoWriteAfterClose

LEMMA SubmitKeeps ==
    ASSUME WorkInv, NEW c \in Charges, Submit(c)
    PROVE  WorkInv'
<1>1. CASE Deliver(c, "fail") /\ UNCHANGED pending
  BY <1>1, DeliverKeeps, Names DEF Submit, WorkInv, WorkTyped, Tracked, NoWriteAfterClose
<1>2. CASE /\ deliveries' = [deliveries EXCEPT ![c] = [pc |-> "waiting", on |-> "pending"]]
           /\ pending' = pending \cup {c}
  <2>1. deliveries' \in [Charges -> DeliveryCalls]
    BY <1>2, Records, Names DEF WorkInv, WorkTyped
  <2>2. Tracked'
    BY <1>2, NoneAssumption DEF Submit, WorkInv, WorkTyped, Tracked
  <2>3. run.on
    BY DEF WorkInv, RunOwns, NoCall, Submit
  <2>4. QED
    BY <1>2, <2>1, <2>2, <2>3 DEF Submit, WorkInv, WorkTyped, RunOwns, NoWriteAfterClose
<1>3. QED
  BY <1>1, <1>2 DEF Submit

LEMMA GiveUpKeeps ==
    ASSUME WorkInv, NEW c \in Charges, GiveUp(c)
    PROVE  WorkInv'
BY DeliverKeeps, Names DEF GiveUp, WorkInv, WorkTyped, Tracked, NoWriteAfterClose

LEMMA CompleteKeeps ==
    ASSUME WorkInv, NEW c \in Charges, Complete(c)
    PROVE  WorkInv'
<1>1. outbox' \in [Charges -> OutboxRows]
  BY Names DEF Complete, WorkInv, WorkTyped, OutboxRows
<1>2. \A x \in Charges : outbox'[x].status = "delivered" => x \in rows
  BY DEF Complete, WorkInv, WorkTyped, Tracked, OutboxRows
<1>3. QED
  BY <1>1, <1>2, DeliverKeeps, Names DEF Complete, WorkInv, NoWriteAfterClose

LEMMA FailKeeps ==
    ASSUME WorkInv, NEW c \in Charges, Fail(c)
    PROVE  WorkInv'
<1> DEFINE st == IF outbox[c].attempts >= AttemptLimit THEN "dead_letter" ELSE "pending"
<1>1. st \in Statuses /\ st # "delivered"
  BY Names
<1>2. outbox' = outbox \/ outbox' = [outbox EXCEPT ![c].status = st]
  BY DEF Fail
<1> HIDE DEF st
<1>3. outbox' \in [Charges -> OutboxRows]
  BY <1>1, <1>2 DEF WorkInv, WorkTyped, OutboxRows
<1>4. \A x \in Charges : outbox'[x].status = "delivered" => x \in rows
  BY <1>1, <1>2 DEF WorkInv, WorkTyped, Tracked, OutboxRows
<1>5. QED
  BY <1>3, <1>4, DeliverKeeps, Names DEF Fail, WorkInv, NoWriteAfterClose

LEMMA FlushKeeps ==
    ASSUME WorkInv, NEW w \in Writers, Flush(w)
    PROVE  WorkInv'
<1>1. \A c \in Charges : deliveries[c].on # w
  BY DEF Flush, WorkInv, Tracked, NoWrite
<1>2. writes' \in [Writers -> WriteCalls]
  BY Records, Names DEF Flush, WorkInv, WorkTyped
<1>3. deliveries' \in [Charges -> DeliveryCalls]
  BY Names DEF Flush, WorkInv, WorkTyped, DeliveryCalls
<1>4. \A c \in Charges : /\ deliveries'[c].pc = deliveries[c].pc
                         /\ deliveries'[c].on = IF deliveries[c].on = "pending" THEN w
                                                ELSE deliveries[c].on
  BY DEF Flush, WorkInv, WorkTyped, DeliveryCalls
<1>5. /\ writes'[w].entries = pending /\ writes'[w].pc = "enter"
      /\ \A v \in Writers \ {w} : writes'[v] = writes[v]
  BY DEF Flush, WorkInv, WorkTyped
<1>6. Tracked'
  BY <1>1, <1>4, <1>5, NoneAssumption DEF Flush, WorkInv, Tracked
<1>7. RunOwns'
  BY NoneAssumption DEF Flush, WorkInv, RunOwns, NoCall
<1>8. QED
  BY <1>2, <1>3, <1>5, <1>6, <1>7 DEF Flush, WorkInv, WorkTyped, NoWriteAfterClose

LEMMA EnterKeeps ==
    ASSUME WorkInv, NEW w \in Writers, Enter(w)
    PROVE  WorkInv'
<1>1. CASE Answer(w, FALSE)
  BY <1>1, AnswerKeeps DEF Enter, WorkInv, NoWriteAfterClose
<1>2. CASE /\ "sink" \notin closed
           /\ writes' = [writes EXCEPT ![w].pc = "write"]
           /\ UNCHANGED deliveries
  <2>1. /\ writes' \in [Writers -> WriteCalls]
        /\ \A v \in Writers : writes'[v].entries = writes[v].entries
    BY <1>2, Names DEF WorkInv, WorkTyped, WriteCalls
  <2>2. QED
    BY <1>2, <2>1 DEF Enter, WorkInv, WorkTyped, Tracked, RunOwns, NoWriteAfterClose
<1>3. QED
  BY <1>1, <1>2 DEF Enter

LEMMA WriteKeeps ==
    ASSUME WorkInv, NEW w \in Writers, Write(w)
    PROVE  WorkInv'
<1>1. CASE /\ Projected(writes[w].entries)
           /\ rows' = rows \cup (writes[w].entries \ Invalid)
           /\ Answer(w, TRUE)
  <2>1. writes[w].entries \subseteq rows'
    BY <1>1 DEF Projected
  <2>2. rows \subseteq rows'
    BY <1>1
  <2>3. QED
    BY <1>1, <2>1, <2>2, AnswerKeeps DEF Write, WorkInv, NoWriteAfterClose
<1>2. CASE rows \subseteq rows' /\ Answer(w, FALSE)
  BY <1>2, AnswerKeeps DEF Write, WorkInv, NoWriteAfterClose
<1>3. QED
  BY <1>1, <1>2 DEF Write

------------------------------------------------------------------------------
(* The runtime's half: what a call knows                                   *)

StartPcs == {"load", "start_sink", "start_archive", "undo_sink", "undo_archive"}
EndPcs   == {"close_archive", "close_sink", "close_store"}
ClosePcs == {"stop", "await"} \cup EndPcs
Pcs      == {"idle", "lock", "runonce", "join", "return"} \cup StartPcs \cup ClosePcs

CallStates == [op : {"idle", "start", "flush", "close", "run"}, pc : Pcs,
               expired : BOOLEAN, failed : BOOLEAN]

\* Where a call of each operation can be.
Shape(d) ==
    /\ d.op = "idle" => d.pc = "idle"
    /\ d.op = "run" => d.pc \in {"runonce", "join", "return"}
    /\ d.op = "start" => d.pc \in {"lock", "return"} \cup StartPcs
    /\ d.op = "flush" => d.pc \in {"lock", "runonce", "join", "return"}
    /\ d.op = "close" => d.pc \in {"lock", "runonce", "join", "return"} \cup ClosePcs

\* A call past Lock of startMu; a Start under way; a Close under way.
Inside(d)   == d.op \in {"start", "flush", "close"} /\ d.pc # "lock"
Starting(d) == d.op = "start" /\ d.pc \notin {"lock", "return"}
Closing(d)  == d.op = "close" /\ d.pc \notin {"lock", "return"}

\* What the call d of a knows of the mutex, the runtime, the worker and the
\* components: a Start finds nothing started, a Close has the only right to
\* close, and one that has not failed has ended the worker and the components
\* it has passed.
Knows(d, a, mu, rt, stop, quiet, done) ==
    /\ Inside(d) => mu = a
    /\ Starting(d) => ~rt.closed /\ ~rt.started /\ ~rt.startErr
    /\ Closing(d) => rt.closed /\ rt.closeErr = "open"
    /\ d.pc \in {"await"} \cup EndPcs => stop
    /\ d.pc \in EndPcs /\ ~d.failed => quiet
    /\ d.pc \in {"close_sink", "close_store"} /\ ~d.failed => "archive" \in done
    /\ d.pc = "close_store" /\ ~d.failed => "sink" \in done

RuntimeStates == [started : BOOLEAN, closed : BOOLEAN, startErr : BOOLEAN,
                  closeErr : {"open", "error", "none"}]

RuntimeTyped ==
    /\ runtime \in RuntimeStates
    /\ run \in [on : BOOLEAN, by : Apps \cup {"loop", None}, cancelled : BOOLEAN]
    /\ stopped \in BOOLEAN
    /\ closed \in SUBSET {"sink", "archive", "store"}

CallsTyped == calls \in [Apps -> CallStates] /\ \A a \in Apps : Shape(calls[a])

CallsKnow ==
    \A a \in Apps : Knows(calls[a], a, startMu, runtime, stopped, Quiet, closed)

\* What the runtime's own state says, whoever is inside.
RuntimeSays ==
    /\ ~runtime.started => loop = "off"
    /\ runtime.startErr => ~runtime.started /\ "sink" \in closed
    /\ runtime.closeErr # "open" => runtime.closed
    /\ runtime.closeErr = "none" =>
           closed = {"sink", "archive", "store"} /\ Quiet /\ stopped

LifeInv == RuntimeTyped /\ CallsTyped /\ CallsKnow /\ RuntimeSays

\* The inductive invariant.
StorageInv == WorkInv /\ LifeInv

------------------------------------------------------------------------------
(* Facts about Knows                                                       *)

\* A call that is not inside knows nothing.
LEMMA OutsideKnows ==
    ASSUME NEW d \in CallStates, Shape(d), ~Inside(d), NEW a, NEW mu, NEW rt,
           NEW stop, NEW quiet, NEW done
    PROVE  Knows(d, a, mu, rt, stop, quiet, done)
BY DEF CallStates, Shape, Inside, Starting, Closing, Knows, EndPcs

\* While a holds startMu, or takes it, no other call is inside.
LEMMA OthersOutside ==
    ASSUME LifeInv, NEW a \in Apps, NEW b \in Apps \ {a}, startMu \in {a, None}
    PROVE  ~Inside(calls[b])
BY NoneAssumption DEF LifeInv, CallsKnow, Knows

\* What is known stays known while the worker does not come back and nothing
\* is opened again.
LEMMA KnowsOn ==
    ASSUME NEW d, NEW a, NEW mu, NEW rt, NEW stop, NEW quiet, NEW done,
           NEW quiet2, NEW done2, Knows(d, a, mu, rt, stop, quiet, done),
           stop /\ quiet => quiet2, done \subseteq done2
    PROVE  Knows(d, a, mu, rt, stop, quiet2, done2)
BY DEF Knows, EndPcs

------------------------------------------------------------------------------
(* Steps that leave the calls, the mutex and the runtime alone             *)

LEMMA WorkerKeeps ==
    ASSUME LifeInv, UNCHANGED <<calls, startMu, runtime, stopped, closed>>,
           run' \in [on : BOOLEAN, by : Apps \cup {"loop", None}, cancelled : BOOLEAN],
           stopped /\ Quiet => Quiet', loop = "off" => loop' = "off"
    PROVE  LifeInv'
<1>1. CallsKnow'
  BY KnowsOn DEF LifeInv, CallsKnow
<1>2. QED
  BY <1>1 DEF LifeInv, RuntimeTyped, CallsTyped, RuntimeSays

------------------------------------------------------------------------------
(* Steps of one call                                                       *)

\* Only a's call changes.
Moves(a) ==
    /\ calls' \in [Apps -> CallStates]
    /\ Shape(calls'[a])
    /\ \A b \in Apps \ {a} : calls'[b] = calls[b]

\* What a's call is to know after the step.
Learns(a) == Knows(calls'[a], a, startMu', runtime', stopped', Quiet', closed')

\* A step of the call that holds startMu, takes it or gives it back.
LEMMA HolderKeeps ==
    ASSUME LifeInv, NEW a \in Apps, startMu \in {a, None}, Moves(a), Learns(a),
           RuntimeTyped', RuntimeSays'
    PROVE  LifeInv'
<1>1. \A b \in Apps : Shape(calls'[b])
  BY DEF Moves, LifeInv, CallsTyped
<1>2. ASSUME NEW b \in Apps
      PROVE  Knows(calls'[b], b, startMu', runtime', stopped', Quiet', closed')
  <2>1. CASE b = a
    BY <2>1 DEF Learns
  <2>2. CASE b # a
    <3>1. calls[b] \in CallStates /\ Shape(calls[b]) /\ ~Inside(calls[b])
      BY <2>2, OthersOutside DEF LifeInv, CallsTyped
    <3>2. calls'[b] = calls[b]
      BY <2>2 DEF Moves
    <3>3. QED
      BY <3>1, <3>2, OutsideKnows
  <2>3. QED
    BY <2>1, <2>2
<1>3. QED
  BY <1>1, <1>2 DEF LifeInv, CallsTyped, CallsKnow, Moves

\* A step of any call that leaves the runtime alone.
LEMMA CallKeeps ==
    ASSUME LifeInv, NEW a \in Apps, Moves(a), Learns(a),
           UNCHANGED <<startMu, runtime, stopped, closed, loop>>,
           run' \in [on : BOOLEAN, by : Apps \cup {"loop", None}, cancelled : BOOLEAN],
           stopped /\ Quiet => Quiet'
    PROVE  LifeInv'
<1>1. \A b \in Apps : Shape(calls'[b])
  BY DEF Moves, LifeInv, CallsTyped
<1>2. ASSUME NEW b \in Apps
      PROVE  Knows(calls'[b], b, startMu', runtime', stopped', Quiet', closed')
  <2>1. CASE b = a
    BY <2>1 DEF Learns
  <2>2. CASE b # a
    <3>1. Knows(calls[b], b, startMu, runtime, stopped, Quiet, closed)
      BY DEF LifeInv, CallsKnow
    <3>2. calls'[b] = calls[b]
      BY <2>2 DEF Moves
    <3>3. QED
      BY <3>1, <3>2, KnowsOn
  <2>3. QED
    BY <2>1, <2>2
<1>3. RuntimeTyped' /\ RuntimeSays'
  BY DEF LifeInv, RuntimeTyped, RuntimeSays
<1>4. QED
  BY <1>1, <1>2, <1>3 DEF LifeInv, CallsTyped, CallsKnow, Moves

LEMMA PcNames ==
    /\ "idle" \in Pcs /\ "lock" \in Pcs /\ "runonce" \in Pcs /\ "join" \in Pcs
    /\ "return" \in Pcs /\ "load" \in Pcs /\ "start_sink" \in Pcs
    /\ "start_archive" \in Pcs /\ "undo_sink" \in Pcs /\ "undo_archive" \in Pcs
    /\ "stop" \in Pcs /\ "await" \in Pcs /\ "close_archive" \in Pcs
    /\ "close_sink" \in Pcs /\ "close_store" \in Pcs
BY DEF Pcs, StartPcs, ClosePcs, EndPcs

\* What Goto and Failed assign.
LEMMA GotoFields ==
    ASSUME CallsTyped, NEW a \in Apps, NEW p \in Pcs, Goto(a, p)
    PROVE  /\ calls' \in [Apps -> CallStates]
           /\ \A b \in Apps \ {a} : calls'[b] = calls[b]
           /\ calls'[a].op = calls[a].op /\ calls'[a].pc = p
           /\ calls'[a].failed = calls[a].failed
<1>1. calls \in [Apps -> CallStates]
  BY DEF CallsTyped
<1>2. QED
  BY <1>1 DEF Goto, CallStates

LEMMA FailedFields ==
    ASSUME CallsTyped, NEW a \in Apps, NEW p \in Pcs, Failed(a, p)
    PROVE  /\ calls' \in [Apps -> CallStates]
           /\ \A b \in Apps \ {a} : calls'[b] = calls[b]
           /\ calls'[a].op = calls[a].op /\ calls'[a].pc = p
           /\ calls'[a].failed = TRUE
<1>1. calls \in [Apps -> CallStates]
  BY DEF CallsTyped
<1>2. QED
  BY <1>1 DEF Failed, CallStates

\* The operation a call past startMu is in, and what its place says.
LEMMA Placed ==
    ASSUME LifeInv, NEW a \in Apps
    PROVE  /\ calls[a].pc \in StartPcs =>
                  /\ calls[a].op = "start" /\ startMu = a
                  /\ ~runtime.closed /\ ~runtime.started /\ ~runtime.startErr
           /\ calls[a].pc \in ClosePcs =>
                  /\ calls[a].op = "close" /\ startMu = a
                  /\ runtime.closed /\ runtime.closeErr = "open"
           /\ calls[a].pc \in {"await"} \cup EndPcs => stopped
           /\ calls[a].pc \in {"runonce", "join"} => calls[a].op \in {"run", "flush", "close"}
<1>1. calls[a] \in CallStates /\ Shape(calls[a])
  BY DEF LifeInv, CallsTyped
<1>2. Knows(calls[a], a, startMu, runtime, stopped, Quiet, closed)
  BY DEF LifeInv, CallsKnow
<1>3. QED
  BY <1>1, <1>2 DEF CallStates, Shape, Knows, Inside, Starting, Closing, StartPcs,
                    ClosePcs, EndPcs

------------------------------------------------------------------------------
(* Calls and contexts                                                      *)

LEMMA CallLives ==
    ASSUME LifeInv, NEW a \in Apps, NEW op \in Ops[a], Call(a, op)
    PROVE  LifeInv'
<1> DEFINE p == IF op = "run" THEN "runonce" ELSE "lock"
<1>1. /\ op \in {"start", "flush", "close", "run"} /\ p \in Pcs
      /\ (op = "run" => p = "runonce") /\ (op # "run" => p = "lock")
  BY StorageRuntimeAssumption, PcNames
<1>2. calls' = [calls EXCEPT ![a] = [op |-> op, pc |-> p, expired |-> FALSE,
                                     failed |-> FALSE]]
  BY DEF Call
<1> HIDE DEF p
<1>3. [op |-> op, pc |-> p, expired |-> FALSE, failed |-> FALSE] \in CallStates
  BY <1>1 DEF CallStates
<1>4. calls \in [Apps -> CallStates]
  BY DEF LifeInv, CallsTyped
<1>5. Moves(a) /\ ~Inside(calls'[a])
  BY <1>1, <1>2, <1>3, <1>4 DEF Moves, Shape, Inside
<1>6. Learns(a)
  BY <1>5, OutsideKnows DEF Moves, Learns
<1>7. QED
  BY <1>5, <1>6, CallKeeps DEF Call, LifeInv, RuntimeTyped, Quiet

LEMMA ExpireLives ==
    ASSUME LifeInv, NEW a \in Apps, Expire(a)
    PROVE  LifeInv'
<1>1. calls \in [Apps -> CallStates] /\ Shape(calls[a])
  BY DEF LifeInv, CallsTyped
<1>2. /\ Moves(a)
      /\ calls'[a].op = calls[a].op /\ calls'[a].pc = calls[a].pc
      /\ calls'[a].failed = calls[a].failed
  BY <1>1 DEF Expire, Moves, CallStates, Shape
<1> DEFINE x == run.cancelled \/ run.by = a
<1>3. run' = [run EXCEPT !.cancelled = x] /\ x \in BOOLEAN
  BY DEF Expire
<1> HIDE DEF x
<1>4. /\ run' \in [on : BOOLEAN, by : Apps \cup {"loop", None}, cancelled : BOOLEAN]
      /\ run'.on = run.on
  BY <1>3 DEF LifeInv, RuntimeTyped
<1>5. Quiet' = Quiet
  BY <1>4 DEF Expire, Quiet
<1>6. Learns(a)
  BY <1>2, <1>5 DEF Expire, LifeInv, CallsKnow, Learns, Knows, Inside, Starting, Closing
<1>7. QED
  BY <1>2, <1>4, <1>5, <1>6, CallKeeps DEF Expire

LEMMA ReturnLives ==
    ASSUME LifeInv, NEW a \in Apps, Return(a)
    PROVE  LifeInv'
<1>1. calls \in [Apps -> CallStates] /\ Idle \in CallStates
  BY PcNames DEF LifeInv, CallsTyped, Idle, CallStates
<1>2. Moves(a) /\ ~Inside(calls'[a])
  BY <1>1 DEF Return, Moves, Shape, Inside, Idle
<1>3. Learns(a)
  BY <1>2, OutsideKnows DEF Moves, Learns
<1>4. RuntimeTyped' /\ RuntimeSays' /\ (Quiet' = Quiet)
  BY DEF Return, LifeInv, RuntimeTyped, RuntimeSays, Quiet
<1>5. CASE startMu = a
  BY <1>2, <1>3, <1>4, <1>5, HolderKeeps
<1>6. CASE startMu # a
  BY <1>2, <1>3, <1>4, <1>6, CallKeeps DEF Return, RuntimeTyped
<1>7. QED
  BY <1>5, <1>6

LEMMA LockLives ==
    ASSUME LifeInv, NEW a \in Apps, Lock(a)
    PROVE  LifeInv'
<1>1. CallsTyped /\ calls[a].op \in {"start", "flush", "close"} /\ runtime \in RuntimeStates
  BY DEF Lock, LifeInv, CallsTyped, CallStates, Shape, RuntimeTyped
<1>2. Quiet' = Quiet /\ UNCHANGED <<run, stopped, closed, loop>> /\ startMu' = a
  BY DEF Lock, Quiet
<1>3. CASE calls[a].op \in {"start", "flush"}
  <2>1. PICK p \in {"return", "load", "runonce"} :
            /\ Goto(a, p) /\ UNCHANGED runtime
            /\ calls[a].op = "start" => p # "runonce"
            /\ calls[a].op = "flush" => p # "load"
            /\ p = "load" => ~runtime.closed /\ ~runtime.started /\ ~runtime.startErr
    BY <1>3 DEF Lock
  <2>2. p \in Pcs
    BY PcNames
  <2>3. Moves(a) /\ Learns(a)
    BY <1>2, <1>3, <2>1, <2>2, <1>1, GotoFields
       DEF Moves, Learns, Shape, Knows, Inside, Starting, Closing, StartPcs, ClosePcs, EndPcs
  <2>4. RuntimeTyped' /\ RuntimeSays'
    BY <1>2, <2>1 DEF LifeInv, RuntimeTyped, RuntimeSays
  <2>5. QED
    BY <2>3, <2>4, HolderKeeps DEF Lock
<1>4. CASE calls[a].op = "close" /\ runtime.closed
  <2>1. Goto(a, "return") /\ UNCHANGED runtime
    BY <1>4 DEF Lock
  <2>2. Moves(a) /\ Learns(a)
    BY <1>2, <1>4, <2>1, <1>1, GotoFields, PcNames
       DEF Moves, Learns, Shape, Knows, Inside, Starting, Closing, StartPcs, ClosePcs, EndPcs
  <2>3. RuntimeTyped' /\ RuntimeSays'
    BY <1>2, <2>1 DEF LifeInv, RuntimeTyped, RuntimeSays
  <2>4. QED
    BY <2>2, <2>3, HolderKeeps DEF Lock
<1>5. CASE calls[a].op = "close" /\ ~runtime.closed
  <2>1. PICK p \in {"runonce", "stop"} : Goto(a, p)
    BY <1>5 DEF Lock
  <2>2. runtime' = [runtime EXCEPT !.closed = TRUE]
    BY <1>5 DEF Lock
  <2>3. runtime.closeErr = "open"
    BY <1>5 DEF LifeInv, RuntimeSays
  <2>4. /\ runtime' \in RuntimeStates /\ runtime'.closed /\ runtime'.closeErr = "open"
        /\ runtime'.started = runtime.started /\ runtime'.startErr = runtime.startErr
    BY <2>2, <2>3, <1>1 DEF RuntimeStates
  <2>5. Moves(a) /\ Learns(a)
    BY <1>2, <1>5, <2>1, <2>4, <1>1, GotoFields, PcNames
       DEF Moves, Learns, Shape, Knows, Inside, Starting, Closing, StartPcs, ClosePcs, EndPcs
  <2>6. RuntimeTyped' /\ RuntimeSays'
    BY <1>2, <2>4 DEF LifeInv, RuntimeTyped, RuntimeSays
  <2>7. QED
    BY <2>5, <2>6, HolderKeeps DEF Lock
<1>6. QED
  BY <1>1, <1>3, <1>4, <1>5

------------------------------------------------------------------------------
(* Start                                                                   *)

\* A step of Start that only goes on.
LEMMA StartGoesOn ==
    ASSUME LifeInv, NEW a \in Apps, calls[a].pc \in StartPcs,
           NEW p \in StartPcs \cup {"return"}, Goto(a, p),
           UNCHANGED <<run, loop, stopped, closed, runtime, startMu>>
    PROVE  LifeInv'
<1>1. /\ calls[a].op = "start" /\ startMu = a
      /\ ~runtime.closed /\ ~runtime.started /\ ~runtime.startErr
  BY Placed
<1>2. p \in Pcs
  BY PcNames DEF Pcs
<1>3. Moves(a) /\ Learns(a)
  BY <1>1, <1>2, GotoFields
     DEF LifeInv, Moves, Learns, Shape, Knows, Inside, Starting, Closing, StartPcs,
         ClosePcs, EndPcs
<1>4. RuntimeTyped' /\ RuntimeSays'
  BY DEF LifeInv, RuntimeTyped, RuntimeSays, Quiet
<1>5. QED
  BY <1>1, <1>3, <1>4, HolderKeeps

LEMMA LoadLives ==
    ASSUME LifeInv, NEW a \in Apps, LoadCatalog(a)
    PROVE  LifeInv'
BY StartGoesOn DEF LoadCatalog, StartPcs

LEMMA StartSinkLives ==
    ASSUME LifeInv, NEW a \in Apps, StartSink(a)
    PROVE  LifeInv'
BY StartGoesOn DEF StartSink, StartPcs

LEMMA StartArchiveLives ==
    ASSUME LifeInv, NEW a \in Apps, StartArchive(a)
    PROVE  LifeInv'
<1>1. CASE calls[a].expired
  BY <1>1, StartGoesOn DEF StartArchive, StartPcs
<1>2. CASE ~calls[a].expired
  <2>1. /\ calls[a].op = "start" /\ startMu = a
        /\ ~runtime.closed /\ ~runtime.started /\ ~runtime.startErr
    BY Placed DEF StartArchive, StartPcs
  <2>2. runtime' = [runtime EXCEPT !.started = TRUE] /\ runtime \in RuntimeStates
    BY <1>2 DEF StartArchive, LifeInv, RuntimeTyped
  <2>3. /\ runtime' \in RuntimeStates /\ runtime'.started
        /\ runtime'.closed = runtime.closed /\ runtime'.startErr = runtime.startErr
        /\ runtime'.closeErr = runtime.closeErr
    BY <2>2 DEF RuntimeStates
  <2>4. Moves(a) /\ Learns(a)
    BY <1>2, <2>1, <2>3, GotoFields, PcNames
       DEF StartArchive, LifeInv, Moves, Learns, Shape, Knows, Inside, Starting, Closing,
           StartPcs, ClosePcs, EndPcs
  <2>5. runtime.closeErr = "open"
    BY <2>1 DEF LifeInv, RuntimeSays
  <2>6. RuntimeTyped' /\ RuntimeSays'
    BY <2>1, <2>3, <2>5 DEF StartArchive, LifeInv, RuntimeTyped, RuntimeSays
  <2>7. QED
    BY <2>1, <2>4, <2>6, HolderKeeps
<1>3. QED
  BY <1>1, <1>2

LEMMA RollbackLives ==
    ASSUME LifeInv, NEW a \in Apps, Rollback(a)
    PROVE  LifeInv'
<1>1. /\ calls[a].op = "start" /\ startMu = a
      /\ ~runtime.closed /\ ~runtime.started /\ ~runtime.startErr
  BY Placed DEF Rollback, StartPcs
<1>2. runtime' = [runtime EXCEPT !.startErr = TRUE] /\ runtime \in RuntimeStates
  BY DEF Rollback, LifeInv, RuntimeTyped
<1>3. /\ runtime' \in RuntimeStates /\ runtime'.startErr
      /\ runtime'.closed = runtime.closed /\ runtime'.started = runtime.started
      /\ runtime'.closeErr = runtime.closeErr
  BY <1>2 DEF RuntimeStates
<1>4. Moves(a) /\ Learns(a)
  BY <1>1, <1>3, GotoFields, PcNames
     DEF Rollback, LifeInv, Moves, Learns, Shape, Knows, Inside, Starting, Closing,
         StartPcs, ClosePcs, EndPcs
<1>5. runtime.closeErr = "open"
  BY <1>1 DEF LifeInv, RuntimeSays
<1>6. closed' \in SUBSET {"sink", "archive", "store"} /\ "sink" \in closed'
  BY DEF Rollback, RolledBack, LifeInv, RuntimeTyped
<1>7. RuntimeTyped' /\ RuntimeSays'
  BY <1>1, <1>3, <1>5, <1>6 DEF Rollback, LifeInv, RuntimeTyped, RuntimeSays
<1>8. QED
  BY <1>1, <1>4, <1>7, HolderKeeps

------------------------------------------------------------------------------
(* Runs                                                                    *)

\* Where AfterRun sends a call that waited for a run or was about to.
LEMMA AfterRunFields ==
    ASSUME LifeInv, NEW a \in Apps, calls[a].pc \in {"runonce", "join"}
    PROVE  /\ AfterRun(a) \in CallStates /\ AfterRun(a).op = calls[a].op
           /\ AfterRun(a).pc = IF calls[a].op = "close" THEN "stop" ELSE "return"
           /\ [AfterRun(a) EXCEPT !.failed = TRUE] \in CallStates
           /\ [AfterRun(a) EXCEPT !.failed = TRUE].op = AfterRun(a).op
           /\ [AfterRun(a) EXCEPT !.failed = TRUE].pc = AfterRun(a).pc
<1>1. calls[a] \in CallStates
  BY DEF LifeInv, CallsTyped
<1>2. /\ AfterRun(a) \in CallStates /\ AfterRun(a).op = calls[a].op
      /\ AfterRun(a).pc = IF calls[a].op = "close" THEN "stop" ELSE "return"
  BY <1>1, PcNames DEF AfterRun, CallStates
<1>3. QED
  BY <1>2 DEF CallStates

\* A call that goes on after a run knows no more than it did.
LEMMA AfterRunKnows ==
    ASSUME LifeInv, NEW a \in Apps, calls[a].pc \in {"runonce", "join"},
           NEW d \in CallStates, d.op = calls[a].op,
           d.pc = IF calls[a].op = "close" THEN "stop" ELSE "return", NEW quiet
    PROVE  Shape(d) /\ Knows(d, a, startMu, runtime, stopped, quiet, closed)
<1>1. calls[a].op \in {"run", "flush", "close"}
  BY Placed
<1>2. Knows(calls[a], a, startMu, runtime, stopped, Quiet, closed)
  BY DEF LifeInv, CallsKnow
<1>3. QED
  BY <1>1, <1>2 DEF Shape, Knows, Inside, Starting, Closing, ClosePcs, EndPcs

\* The same of a call that waits for the run.
LEMMA JoinKnows ==
    ASSUME LifeInv, NEW a \in Apps, calls[a].pc = "runonce",
           NEW d \in CallStates, d.op = calls[a].op, d.pc = "join", NEW quiet
    PROVE  Shape(d) /\ Knows(d, a, startMu, runtime, stopped, quiet, closed)
<1>1. calls[a].op \in {"run", "flush", "close"}
  BY Placed
<1>2. Knows(calls[a], a, startMu, runtime, stopped, Quiet, closed)
  BY DEF LifeInv, CallsKnow
<1>3. QED
  BY <1>1, <1>2 DEF Shape, Knows, Inside, Starting, Closing, ClosePcs, EndPcs

LEMMA RunOnceLives ==
    ASSUME LifeInv, NEW a \in Apps, RunOnce(a)
    PROVE  LifeInv'
<1>1. calls \in [Apps -> CallStates] /\ CallsTyped
  BY DEF LifeInv, CallsTyped
<1>2. CASE stopped /\ calls' = [calls EXCEPT ![a] = AfterRun(a)] /\ UNCHANGED run
  <2>1. calls'[a] = AfterRun(a) /\ calls' \in [Apps -> CallStates]
    BY <1>1, <1>2, AfterRunFields DEF RunOnce
  <2>2. Shape(calls'[a]) /\ Learns(a)
    BY <2>1, AfterRunFields, AfterRunKnows DEF RunOnce, Learns
  <2>3. Moves(a)
    BY <1>2, <2>1, <2>2 DEF Moves
  <2>4. QED
    BY <1>2, <2>2, <2>3, CallKeeps DEF RunOnce, LifeInv, RuntimeTyped, Quiet
<1>3. CASE Goto(a, "join") /\ ~stopped
  <2>1. calls'[a] \in CallStates /\ calls'[a].op = calls[a].op /\ calls'[a].pc = "join"
    BY <1>1, <1>3, GotoFields, PcNames
  <2>2. Shape(calls'[a]) /\ Learns(a)
    BY <2>1, JoinKnows DEF RunOnce, Learns
  <2>3. Moves(a)
    BY <1>1, <1>3, <2>2, GotoFields, PcNames DEF Moves
  <2>4. run' \in [on : BOOLEAN, by : Apps \cup {"loop", None}, cancelled : BOOLEAN]
    <3>1. calls[a].expired \in BOOLEAN
      BY <1>1 DEF CallStates
    <3>2. [on |-> TRUE, by |-> a, cancelled |-> calls[a].expired]
              \in [on : BOOLEAN, by : Apps \cup {"loop", None}, cancelled : BOOLEAN]
      BY <3>1
    <3>3. run' = run \/ run' = [on |-> TRUE, by |-> a, cancelled |-> calls[a].expired]
      BY DEF RunOnce, BeginRun
    <3>4. QED
      BY <3>2, <3>3 DEF LifeInv, RuntimeTyped
  <2>5. QED
    BY <1>3, <2>2, <2>3, <2>4, CallKeeps DEF RunOnce
<1>4. QED
  BY <1>2, <1>3 DEF RunOnce, BeginRun

LEMMA LeaveLives ==
    ASSUME LifeInv, NEW a \in Apps, LeaveRun(a)
    PROVE  LifeInv'
<1>1. calls \in [Apps -> CallStates]
  BY DEF LifeInv, CallsTyped
<1> DEFINE d == [AfterRun(a) EXCEPT !.failed = TRUE]
<1>2. calls' = [calls EXCEPT ![a] = d]
  BY DEF LeaveRun
<1>3. /\ d \in CallStates /\ d.op = calls[a].op
      /\ d.pc = IF calls[a].op = "close" THEN "stop" ELSE "return"
  BY AfterRunFields DEF LeaveRun
<1> HIDE DEF d
<1>4. Shape(calls'[a]) /\ Learns(a)
  BY <1>1, <1>2, <1>3, AfterRunKnows DEF LeaveRun, Learns
<1>5. Moves(a)
  BY <1>1, <1>2, <1>3, <1>4 DEF Moves
<1>6. QED
  BY <1>4, <1>5, CallKeeps DEF LeaveRun, LifeInv, RuntimeTyped, Quiet

LEMMA RunEndsLives ==
    ASSUME LifeInv, RunEnds
    PROVE  LifeInv'
<1>1. calls \in [Apps -> CallStates] /\ \A a \in Apps : Shape(calls[a])
  BY DEF LifeInv, CallsTyped
<1>2. run' = NoRun /\ ~run'.on /\ UNCHANGED <<loop, stopped, closed, runtime, startMu>>
  BY DEF RunEnds, NoRun
<1>3. Quiet => Quiet'
  BY <1>2 DEF Quiet
<1>4. ASSUME NEW a \in Apps
      PROVE  /\ calls'[a] \in CallStates /\ Shape(calls'[a])
             /\ Knows(calls'[a], a, startMu', runtime', stopped', Quiet', closed')
  <2>1. CASE calls[a].pc = "join"
    <3>1. calls'[a] = AfterRun(a)
      BY <2>1 DEF RunEnds, Woken
    <3>2. QED
      BY <1>2, <2>1, <3>1, AfterRunFields, AfterRunKnows
  <2>2. CASE calls[a].pc # "join"
    <3>1. calls'[a] = calls[a]
      BY <2>2 DEF RunEnds, Woken
    <3>2. Knows(calls[a], a, startMu, runtime, stopped, Quiet, closed)
      BY DEF LifeInv, CallsKnow
    <3>3. QED
      BY <1>1, <1>2, <1>3, <3>1, <3>2, KnowsOn
  <2>3. QED
    BY <2>1, <2>2
<1>5. calls' \in [Apps -> CallStates]
  BY <1>4 DEF RunEnds
<1>6. run' \in [on : BOOLEAN, by : Apps \cup {"loop", None}, cancelled : BOOLEAN]
  BY <1>2 DEF NoRun
<1>7. RuntimeTyped' /\ RuntimeSays'
  BY <1>2, <1>3, <1>6 DEF LifeInv, RuntimeTyped, RuntimeSays
<1>8. QED
  BY <1>4, <1>5, <1>7 DEF LifeInv, CallsTyped, CallsKnow

------------------------------------------------------------------------------
(* Close                                                                   *)

LEMMA StopLives ==
    ASSUME LifeInv, NEW a \in Apps, StopWorker(a)
    PROVE  LifeInv'
<1>1. /\ calls[a].op = "close" /\ startMu = a
      /\ runtime.closed /\ runtime.closeErr = "open"
  BY Placed DEF StopWorker, ClosePcs
<1>2. Moves(a) /\ Learns(a)
  BY <1>1, GotoFields, PcNames
     DEF StopWorker, LifeInv, Moves, Learns, Shape, Knows, Inside, Starting, Closing,
         StartPcs, ClosePcs, EndPcs
<1>3. RuntimeTyped' /\ RuntimeSays'
  BY DEF StopWorker, LifeInv, RuntimeTyped, RuntimeSays, Quiet
<1>4. QED
  BY <1>1, <1>2, <1>3, HolderKeeps

LEMMA AwaitLives ==
    ASSUME LifeInv, NEW a \in Apps, AwaitWorker(a)
    PROVE  LifeInv'
<1>1. /\ calls[a].op = "close" /\ startMu = a /\ stopped
      /\ runtime.closed /\ runtime.closeErr = "open"
  BY Placed DEF AwaitWorker, ClosePcs
<1>2. /\ run' \in [on : BOOLEAN, by : Apps \cup {"loop", None}, cancelled : BOOLEAN]
      /\ run'.on = run.on
  <2> DEFINE x == run.on
  <2>1. x \in BOOLEAN /\ run \in [on : BOOLEAN, by : Apps \cup {"loop", None},
                                 cancelled : BOOLEAN]
    BY DEF LifeInv, RuntimeTyped
  <2>2. run' = run \/ run' = [run EXCEPT !.cancelled = x]
    BY DEF AwaitWorker
  <2> HIDE DEF x
  <2>3. QED
    BY <2>1, <2>2
<1>3. Quiet' = Quiet
  BY <1>2 DEF AwaitWorker, Quiet
<1>4. /\ calls' \in [Apps -> CallStates]
      /\ \A b \in Apps \ {a} : calls'[b] = calls[b]
      /\ calls'[a].op = "close" /\ calls'[a].pc = "close_archive"
      /\ Quiet \/ calls'[a].failed
  <2>1. CASE Quiet /\ Goto(a, "close_archive")
    BY <1>1, <2>1, GotoFields, PcNames DEF LifeInv
  <2>2. CASE Failed(a, "close_archive")
    BY <1>1, <2>2, FailedFields, PcNames DEF LifeInv
  <2>3. QED
    BY <2>1, <2>2 DEF AwaitWorker
<1>5. Moves(a)
  BY <1>4 DEF Moves, Shape, ClosePcs, EndPcs
<1>6. Learns(a)
  BY <1>1, <1>3, <1>4 DEF AwaitWorker, Learns, Knows, Inside, Starting, Closing, EndPcs
<1>7. RuntimeTyped' /\ RuntimeSays'
  BY <1>2, <1>3 DEF AwaitWorker, LifeInv, RuntimeTyped, RuntimeSays
<1>8. QED
  BY <1>1, <1>5, <1>6, <1>7, HolderKeeps

\* A step of Close past the worker's end, to p: what it has closed, or failed.
LEMMA CloseGoesOn ==
    ASSUME LifeInv, NEW a \in Apps, calls[a].pc \in EndPcs,
           NEW p \in {"close_sink", "close_store"},
           Goto(a, p) \/ Failed(a, p),
           closed' \in SUBSET {"sink", "archive", "store"}, closed \subseteq closed',
           ~calls'[a].failed => "archive" \in closed',
           ~calls'[a].failed /\ p = "close_store" => "sink" \in closed',
           UNCHANGED <<run, loop, stopped, runtime, startMu>>
    PROVE  LifeInv'
<1>1. /\ calls[a].op = "close" /\ startMu = a /\ stopped
      /\ runtime.closed /\ runtime.closeErr = "open"
  BY Placed DEF ClosePcs
<1>2. p \in Pcs
  BY PcNames
<1>3. ~calls[a].failed => Quiet
  BY DEF LifeInv, CallsKnow, Knows
<1>4. /\ calls' \in [Apps -> CallStates]
      /\ \A b \in Apps \ {a} : calls'[b] = calls[b]
      /\ calls'[a].op = "close" /\ calls'[a].pc = p
      /\ ~calls'[a].failed => ~calls[a].failed
  BY <1>1, <1>2, GotoFields, FailedFields DEF LifeInv
<1>5. Moves(a)
  BY <1>4 DEF Moves, Shape, ClosePcs, EndPcs
<1>6. Quiet' = Quiet
  BY DEF Quiet
<1>7. Learns(a)
  BY <1>1, <1>3, <1>4, <1>6 DEF Learns, Knows, Inside, Starting, Closing, EndPcs
<1>8. RuntimeTyped' /\ RuntimeSays'
  BY <1>1, <1>6 DEF LifeInv, RuntimeTyped, RuntimeSays
<1>9. QED
  BY <1>1, <1>5, <1>7, <1>8, HolderKeeps

LEMMA CloseArchiveLives ==
    ASSUME LifeInv, NEW a \in Apps, CloseArchive(a)
    PROVE  LifeInv'
<1>0. CallsTyped /\ closed \in SUBSET {"sink", "archive", "store"} /\ calls[a].pc \in EndPcs
  BY DEF CloseArchive, EndPcs, LifeInv, RuntimeTyped
<1>1. CASE calls[a].expired
  <2>1. Failed(a, "close_sink") /\ UNCHANGED <<closed, run, loop, stopped, runtime, startMu>>
    BY <1>1 DEF CloseArchive
  <2>2. calls'[a].failed = TRUE
    BY <1>0, <2>1, FailedFields, PcNames
  <2>3. QED
    BY <1>0, <2>1, <2>2, CloseGoesOn
<1>2. CASE ~calls[a].expired
  <2>1. /\ Goto(a, "close_sink") /\ closed' = closed \cup {"archive"}
        /\ UNCHANGED <<run, loop, stopped, runtime, startMu>>
    BY <1>2 DEF CloseArchive
  <2>2. QED
    BY <1>0, <2>1, CloseGoesOn
<1>3. QED
  BY <1>1, <1>2

LEMMA CloseSinkLives ==
    ASSUME LifeInv, NEW a \in Apps, CloseSink(a)
    PROVE  LifeInv'
<1>0. CallsTyped /\ closed \in SUBSET {"sink", "archive", "store"} /\ calls[a].pc \in EndPcs
  BY DEF CloseSink, EndPcs, LifeInv, RuntimeTyped
<1>1. CASE calls[a].expired
  <2>1. Failed(a, "close_store") /\ UNCHANGED <<closed, run, loop, stopped, runtime, startMu>>
    BY <1>1 DEF CloseSink
  <2>2. calls'[a].failed = TRUE
    BY <1>0, <2>1, FailedFields, PcNames
  <2>3. QED
    BY <1>0, <2>1, <2>2, CloseGoesOn
<1>2. CASE ~calls[a].expired
  <2>1. /\ Goto(a, "close_store") /\ closed' = closed \cup {"sink"}
        /\ UNCHANGED <<run, loop, stopped, runtime, startMu>>
    BY <1>2 DEF CloseSink
  <2>2. ~calls[a].failed => "archive" \in closed
    BY DEF CloseSink, LifeInv, CallsKnow, Knows
  <2>3. calls'[a].failed = calls[a].failed
    BY <1>0, <2>1, GotoFields, PcNames
  <2>4. QED
    BY <1>0, <2>1, <2>2, <2>3, CloseGoesOn
<1>3. QED
  BY <1>1, <1>2

LEMMA CloseStoreLives ==
    ASSUME LifeInv, NEW a \in Apps, CloseStore(a)
    PROVE  LifeInv'
<1>1. /\ calls[a].op = "close" /\ startMu = a /\ stopped
      /\ runtime.closed /\ runtime.closeErr = "open"
  BY Placed DEF CloseStore, ClosePcs, EndPcs
<1>2. ~calls[a].failed => Quiet /\ "archive" \in closed /\ "sink" \in closed
  BY DEF CloseStore, LifeInv, CallsKnow, Knows, EndPcs
<1> DEFINE e == IF calls[a].failed THEN "error" ELSE "none"
<1>3. e \in {"error", "none"} /\ (e = "none" => ~calls[a].failed)
  OBVIOUS
<1>4. runtime' = [runtime EXCEPT !.closeErr = e] /\ runtime \in RuntimeStates
  BY DEF CloseStore, LifeInv, RuntimeTyped
<1> HIDE DEF e
<1>5. /\ runtime' \in RuntimeStates /\ runtime'.closeErr = e
      /\ runtime'.closed = runtime.closed /\ runtime'.started = runtime.started
      /\ runtime'.startErr = runtime.startErr
  BY <1>3, <1>4 DEF RuntimeStates
<1>6. Moves(a) /\ Learns(a)
  BY <1>1, <1>5, GotoFields, PcNames
     DEF CloseStore, LifeInv, Moves, Learns, Shape, Knows, Inside, Starting, Closing,
         StartPcs, ClosePcs, EndPcs
<1>7. /\ closed' \in SUBSET {"sink", "archive", "store"} /\ closed \subseteq closed'
      /\ ~calls[a].failed => closed' = {"sink", "archive", "store"}
  BY <1>2 DEF CloseStore, LifeInv, RuntimeTyped
<1>8. Quiet' = Quiet
  BY DEF CloseStore, Quiet
<1>9. RuntimeTyped' /\ RuntimeSays'
  BY <1>1, <1>2, <1>3, <1>5, <1>7, <1>8
     DEF CloseStore, LifeInv, RuntimeTyped, RuntimeSays
<1>10. QED
  BY <1>1, <1>6, <1>9, HolderKeeps

------------------------------------------------------------------------------
(* The worker's loop, the deliveries and the batcher                       *)

LEMMA LoopRunLives ==
    ASSUME LifeInv, LoopRun
    PROVE  LifeInv'
BY WorkerKeeps DEF LoopRun, BeginRun, Quiet

LEMMA LoopEndsLives ==
    ASSUME LifeInv, LoopEnds
    PROVE  LifeInv'
BY WorkerKeeps DEF LoopEnds, Quiet, LifeInv, RuntimeTyped

LEMMA WorkLives ==
    ASSUME LifeInv, UNCHANGED <<calls, startMu, runtime, stopped, closed, run, loop>>
    PROVE  LifeInv'
BY WorkerKeeps DEF Quiet, LifeInv, RuntimeTyped

------------------------------------------------------------------------------
(* The deliveries' half under the runtime's steps                          *)

\* Deliveries are untouched, no run ends under them and no component is closed
\* that a write uses.
LEMMA WorkUntouched ==
    ASSUME WorkInv, UNCHANGED workVars,
           run'.on \/ (\A c \in Charges : deliveries[c] = NoCall) \/ run' = run,
           closed' = closed \/ Unread \/ ("sink" \in closed' => "sink" \in closed)
    PROVE  WorkInv'
<1>1. WorkTyped' /\ Tracked'
  BY DEF WorkInv, WorkTyped, Tracked, workVars
<1>2. RunOwns'
  BY DEF WorkInv, RunOwns, workVars
<1>3. NoWriteAfterClose'
  BY DEF WorkInv, NoWriteAfterClose, Unread, workVars
<1>4. QED
  BY <1>1, <1>2, <1>3 DEF WorkInv

LEMMA RunCancelled ==
    ASSUME LifeInv, NEW a \in Apps, Expire(a) \/ AwaitWorker(a)
    PROVE  run'.on = run.on
<1>1. run \in [on : BOOLEAN, by : Apps \cup {"loop", None}, cancelled : BOOLEAN]
  BY DEF LifeInv, RuntimeTyped
<1>2. PICK x : run' = run \/ run' = [run EXCEPT !.cancelled = x]
  BY DEF Expire, AwaitWorker
<1>3. QED
  BY <1>1, <1>2

------------------------------------------------------------------------------
LEMMA StorageInit == Init => StorageInv
<1> SUFFICES ASSUME Init PROVE StorageInv
  OBVIOUS
<1>1. WorkTyped
  <2>1. [status |-> "pending", attempts |-> 0] \in OutboxRows
    BY Names DEF OutboxRows
  <2>2. QED
    BY <2>1, Records DEF Init, WorkTyped
<1>2. Tracked /\ RunOwns /\ NoWriteAfterClose
  BY NoneAssumption DEF Init, Tracked, RunOwns, NoWriteAfterClose, NoCall
<1>3. Idle \in CallStates /\ Shape(Idle) /\ ~Inside(Idle)
  BY PcNames DEF Idle, CallStates, Shape, Inside
<1>4. CallsTyped /\ CallsKnow
  BY <1>3, OutsideKnows DEF Init, CallsTyped, CallsKnow
<1>5. RuntimeTyped
  BY DEF Init, RuntimeTyped, RuntimeStates, NoRun
<1>6. RuntimeSays
  BY DEF Init, RuntimeSays
<1>7. QED
  BY <1>1, <1>2, <1>4, <1>5, <1>6 DEF StorageInv, WorkInv, LifeInv

LEMMA WorkerStep ==
    ASSUME StorageInv, Worker
    PROVE  StorageInv'
<1>1. CASE LoopRun
  BY <1>1, LoopRunLives, WorkUntouched DEF StorageInv, LoopRun, BeginRun
<1>2. CASE LoopEnds
  BY <1>2, LoopEndsLives, WorkUntouched DEF StorageInv, LoopEnds
<1>3. CASE RunEnds
  BY <1>3, RunEndsLives, WorkUntouched DEF StorageInv, RunEnds
<1>4. ASSUME NEW S \in SUBSET Charges, ClaimGroup(S)
      PROVE  StorageInv'
  BY <1>4, ClaimKeeps, WorkLives DEF StorageInv, ClaimGroup
<1>5. QED
  BY <1>1, <1>2, <1>3, <1>4 DEF Worker

LEMMA DeliveryStep ==
    ASSUME StorageInv, NEW c \in Charges, Delivery(c)
    PROVE  StorageInv'
<1>1. WorkInv'
  BY SubmitKeeps, GiveUpKeeps, CompleteKeeps, FailKeeps DEF StorageInv, Delivery
<1>2. UNCHANGED <<calls, startMu, runtime, stopped, closed, run, loop>>
  BY DEF Delivery, Submit, GiveUp, Complete, Fail
<1>3. QED
  BY <1>1, <1>2, WorkLives DEF StorageInv

LEMMA BatchStep ==
    ASSUME StorageInv, NEW w \in Writers, Batch(w)
    PROVE  StorageInv'
<1>1. WorkInv'
  BY FlushKeeps, EnterKeeps, WriteKeeps DEF StorageInv, Batch
<1>2. UNCHANGED <<calls, startMu, runtime, stopped, closed, run, loop>>
  BY DEF Batch, Flush, Enter, Write
<1>3. QED
  BY <1>1, <1>2, WorkLives DEF StorageInv

LEMMA AppStep ==
    ASSUME StorageInv, NEW a \in Apps,
           Step(a) \/ Expire(a) \/ \E op \in Ops[a] : Call(a, op)
    PROVE  StorageInv'
<1>1. LifeInv'
  BY LockLives, LoadLives, StartSinkLives, StartArchiveLives, RollbackLives,
     RunOnceLives, LeaveLives, StopLives, AwaitLives, CloseArchiveLives,
     CloseSinkLives, CloseStoreLives, ReturnLives, ExpireLives, CallLives
     DEF StorageInv, Step
<1>2. UNCHANGED workVars
  BY DEF Step, Lock, LoadCatalog, StartSink, StartArchive, Rollback, RunOnce, LeaveRun,
         StopWorker, AwaitWorker, CloseArchive, CloseSink, CloseStore, Return, Expire, Call
<1>3. run'.on \/ run' = run \/ \A c \in Charges : deliveries[c] = NoCall
  <2>1. CASE Expire(a) \/ AwaitWorker(a)
    BY <2>1, RunCancelled DEF StorageInv, WorkInv, RunOwns
  <2>2. CASE RunOnce(a)
    BY <2>2 DEF RunOnce, BeginRun
  <2>3. CASE ~Expire(a) /\ ~AwaitWorker(a) /\ ~RunOnce(a)
    BY <2>3 DEF Step, Lock, LoadCatalog, StartSink, StartArchive, Rollback, LeaveRun,
           StopWorker, CloseArchive, CloseSink, CloseStore, Return, Call
  <2>4. QED
    BY <2>1, <2>2, <2>3
<1>4. closed' = closed \/ Unread \/ ("sink" \in closed' => "sink" \in closed)
  <2>1. CASE CloseArchive(a) \/ CloseStore(a)
    BY <2>1 DEF CloseArchive, CloseStore
  <2>2. CASE Rollback(a) \/ CloseSink(a)
    BY <2>2 DEF Rollback, CloseSink
  <2>3. CASE ~CloseArchive(a) /\ ~CloseStore(a) /\ ~Rollback(a) /\ ~CloseSink(a)
    BY <2>3 DEF Step, Lock, LoadCatalog, StartSink, StartArchive, RunOnce, LeaveRun,
           StopWorker, AwaitWorker, Return, Expire, Call
  <2>4. QED
    BY <2>1, <2>2, <2>3
<1>5. WorkInv'
  BY <1>2, <1>3, <1>4, WorkUntouched DEF StorageInv
<1>6. QED
  BY <1>1, <1>5 DEF StorageInv

\* The inductive invariant: a delivery is an entry of the batch it waits for, and
\* a call inside startMu knows the runtime's state.
LEMMA StorageInvariant == Spec => []StorageInv
<1>1. StorageInv /\ [Next]_vars => StorageInv'
  <2> SUFFICES ASSUME StorageInv, [Next]_vars PROVE StorageInv'
    OBVIOUS
  <2>1. CASE UNCHANGED vars
    BY <2>1, WorkLives, WorkUntouched DEF vars, StorageInv
  <2>2. CASE Next
    BY <2>2, WorkerStep, DeliveryStep, BatchStep, AppStep DEF Next
  <2>3. QED
    BY <2>1, <2>2
<1>2. QED
  BY <1>1, StorageInit, PTL DEF Spec

------------------------------------------------------------------------------
(* Theorems                                                                *)

\* A charge whose outbox row is delivered is in the projection, whatever was
\* coalesced with it, gave up, was cancelled or was claimed again
\* (usageWriteBatcher, dispatchEvent).
THEOREM DeliveredExported == Spec => []DeliveredIsExported
<1>1. StorageInv => DeliveredIsExported
  BY DEF StorageInv, WorkInv, Tracked, DeliveredIsExported
<1>2. QED
  BY <1>1, StorageInvariant, PTL

\* A Close that reports success leaves nothing open or running, a failed Start
\* leaves nothing started, and no write uses a closed sink (Runtime.Start,
\* Runtime.Close, OutboxWorker.Stop).
THEOREM RuntimeEndsCleanly == Spec => []EndsCleanly
<1>1. StorageInv => EndsCleanly
  <2> SUFFICES ASSUME StorageInv PROVE EndsCleanly
    OBVIOUS
  <2>1. ClosedIsQuiet
    BY DEF StorageInv, WorkInv, LifeInv, RuntimeSays, RunOwns, ClosedIsQuiet, Quiet
  <2>2. FailedStartRolledBack
    BY DEF StorageInv, LifeInv, RuntimeSays, FailedStartRolledBack
  <2>3. QED
    BY <2>1, <2>2 DEF StorageInv, WorkInv, EndsCleanly
<1>2. QED
  BY <1>1, StorageInvariant, PTL
==============================================================================
