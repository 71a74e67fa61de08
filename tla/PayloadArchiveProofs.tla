------------------------- MODULE PayloadArchiveProofs -------------------------
(***************************************************************************)
(* That no envelope is lost and none survives pseudonymisation, for any     *)
(* number of events, workers, attempts and faults.                          *)
(***************************************************************************)
EXTENDS PayloadArchive, TLAPS

Bodies == {"original", "redacted"}

EventRow == [status : {"none", "processing", "completed"}, attributed : BOOLEAN,
             key : Nat \cup {None}, backend : {"postgres", "external"},
             names : BOOLEAN, versioned : BOOLEAN]
OutboxRow == [status : {"none", "pending", "processing", "delivered", "dead_letter"},
              body : Bodies \cup {None}, holder : Workers \cup {None}, attempts : Nat]
Call == [pc : {"idle", "get", "put", "record", "complete", "fail"},
         event : Events \cup {None}, body : Bodies \cup {None}, version : Nat]

ArchiveTypeOK ==
    /\ events \in [Events -> EventRow]
    /\ payloads \in [Events -> Bodies \cup {None}]
    /\ outbox \in [Events -> OutboxRow]
    /\ objects \in [Events -> Seq(Bodies)]
    /\ erased \in BOOLEAN
    /\ calls \in [Workers -> Call]

\* A delivery works on an event, has an envelope to write, and records a version
\* that was written.
DeliveriesSound ==
    \A w \in Workers :
        /\ calls[w].pc # "idle" => calls[w].event \in Events
        /\ calls[w].pc = "put" => calls[w].body # None
        /\ calls[w].pc = "record" => calls[w].version \in 1..Len(objects[calls[w].event])
        /\ calls[w].pc = "complete" => events[calls[w].event].key # None

\* A pointer names a version, and only a versioned object has several.
PointersSound ==
    \A e \in Events :
        /\ events[e].key # None => events[e].key \in 1..Len(objects[e])
        /\ ~events[e].versioned => Len(objects[e]) <= 1

\* Until the pointer is recorded the envelope is where the backend put it.
HeldLocally ==
    \A e \in Events :
        /\ outbox[e].status = "delivered" => events[e].key # None
        /\ Received(e) /\ events[e].key = None =>
              /\ events[e].backend = "postgres" /\ e \notin purged => payloads[e] # None
              /\ events[e].backend = "external" =>
                     outbox[e].status # "none" /\ outbox[e].body # None

\* Only a received event is attributed.
AttributedLater == \A e \in Events : events[e].attributed => Received(e)

ArchiveInv ==
    /\ ArchiveTypeOK
    /\ DeliveriesSound
    /\ PointersSound
    /\ HeldLocally
    /\ AttributedLater
    /\ NoLocalOriginal

-------------------------------------------------------------------------------
(* Every action keeps the invariant                                         *)

\* A new event's envelope is put where its backend keeps it.
LEMMA ReceiveKeeps ==
    ASSUME NEW e \in Events, ArchiveInv, Receive(e)
    PROVE  ArchiveInv'
<1> USE PayloadArchiveAssumption DEF ArchiveInv
<1>1. ArchiveTypeOK'
  <2>1. [events[e] EXCEPT !.status = "processing"] \in EventRow
    BY DEF ArchiveTypeOK, EventRow
  <2>2. [NoRow EXCEPT !.status = "pending", !.body = "original"] \in OutboxRow
    BY DEF NoRow, OutboxRow, Bodies
  <2>3. QED
    BY <2>1, <2>2 DEF Receive, ArchiveTypeOK, Bodies
<1>2. DeliveriesSound'
    BY <1>1 DEF Receive, NoRow, ArchiveTypeOK, Bodies, DeliveriesSound
<1>3. PointersSound'
    BY <1>1 DEF Receive, NoRow, ArchiveTypeOK, Bodies, PointersSound
<1>4. HeldLocally'
  <2>1. ASSUME NEW x \in Events, x # e
        PROVE  events'[x] = events[x] /\ outbox'[x] = outbox[x] /\ payloads'[x] = payloads[x]
    BY <2>1 DEF Receive, ArchiveTypeOK
  <2>2. events'[e].backend = events[e].backend /\ events'[e].key = events[e].key
    BY DEF Receive, ArchiveTypeOK, EventRow
  <2>3. CASE events[e].backend = "postgres"
    BY <2>1, <2>2, <2>3 DEF Receive, HeldLocally, Received, ArchiveTypeOK, EventRow
  <2>4. CASE events[e].backend = "external"
    <3>1. outbox'[e].status = "pending" /\ outbox'[e].body = "original"
      BY <2>4 DEF Receive, ArchiveTypeOK, NoRow
    <3>2. QED
      BY <2>1, <2>2, <2>4, <3>1 DEF Receive, HeldLocally, Received
  <2>5. QED
    BY <2>3, <2>4 DEF ArchiveTypeOK, EventRow
<1>5. AttributedLater'
    BY <1>1 DEF Receive, NoRow, ArchiveTypeOK, AttributedLater, Received
<1>6. NoLocalOriginal'
    BY <1>1 DEF Receive, NoRow, ArchiveTypeOK, Bodies, NoLocalOriginal, AttributedLater, Received
<1>7. QED
    BY <1>1, <1>2, <1>3, <1>4, <1>5, <1>6

\* The completion of an event enqueues the archive of its payload row.
LEMMA CompleteEventKeeps ==
    ASSUME NEW e \in Events, ArchiveInv, CompleteEvent(e)
    PROVE  ArchiveInv'
<1> USE PayloadArchiveAssumption DEF ArchiveInv
<1>1. ArchiveTypeOK'
  <2>1. [events[e] EXCEPT !.status = "completed"] \in EventRow
    BY DEF ArchiveTypeOK, EventRow
  <2>2. [NoRow EXCEPT !.status = "pending"] \in OutboxRow
    BY DEF NoRow, OutboxRow, Bodies
  <2>3. QED
    BY <2>1, <2>2 DEF CompleteEvent, ArchiveTypeOK
<1>2. DeliveriesSound'
    BY <1>1 DEF CompleteEvent, NoRow, ArchiveTypeOK, Bodies, DeliveriesSound
<1>3. PointersSound'
    BY <1>1 DEF CompleteEvent, NoRow, ArchiveTypeOK, Bodies, PointersSound
<1>4. HeldLocally'
    BY <1>1 DEF CompleteEvent, NoRow, ArchiveTypeOK, Bodies, HeldLocally, Received
<1>5. AttributedLater'
    BY <1>1 DEF CompleteEvent, NoRow, ArchiveTypeOK, AttributedLater, Received
<1>6. NoLocalOriginal'
    BY <1>1 DEF CompleteEvent, NoRow, ArchiveTypeOK, Bodies, NoLocalOriginal, AttributedLater, Received
<1>7. QED
    BY <1>1, <1>2, <1>3, <1>4, <1>5, <1>6

\* An event attributed to an erased subject is redacted with the attribution.
LEMMA AttributeKeeps ==
    ASSUME NEW e \in Events, ArchiveInv, Attribute(e)
    PROVE  ArchiveInv'
<1> USE PayloadArchiveAssumption DEF ArchiveInv
<1>1. ArchiveTypeOK'
  <2>1. [events[e] EXCEPT !.attributed = TRUE] \in EventRow
    BY DEF ArchiveTypeOK, EventRow
  <2>2. [outbox[e] EXCEPT !.body = AfterAttribution(@)] \in OutboxRow
    BY DEF ArchiveTypeOK, OutboxRow, AfterAttribution, Redacted, Bodies
  <2>3. AfterAttribution(payloads[e]) \in Bodies \cup {None}
    BY DEF ArchiveTypeOK, AfterAttribution, Redacted, Bodies
  <2>4. QED
    BY <2>1, <2>2, <2>3 DEF Attribute, ArchiveTypeOK
<1>2. DeliveriesSound'
    BY <1>1 DEF Attribute, AfterAttribution, Redacted, ArchiveTypeOK, Bodies, DeliveriesSound
<1>3. PointersSound'
    BY <1>1 DEF Attribute, AfterAttribution, Redacted, ArchiveTypeOK, Bodies, PointersSound
<1>4. HeldLocally'
    BY <1>1 DEF Attribute, AfterAttribution, Redacted, ArchiveTypeOK, Bodies, HeldLocally, Received
<1>5. AttributedLater'
    BY <1>1 DEF Attribute, AfterAttribution, Redacted, ArchiveTypeOK, AttributedLater, Received
<1>6. NoLocalOriginal'
    BY <1>1 DEF Attribute, AfterAttribution, Redacted, ArchiveTypeOK, Bodies, NoLocalOriginal, AttributedLater, Received
<1>7. QED
    BY <1>1, <1>2, <1>3, <1>4, <1>5, <1>6

\* Retention of payload rows.
LEMMA PurgePayloadKeeps ==
    ASSUME NEW e \in Events, ArchiveInv, PurgePayload(e)
    PROVE  ArchiveInv'
<1> USE PayloadArchiveAssumption DEF ArchiveInv
<1>1. ArchiveTypeOK'
    BY DEF PurgePayload, ArchiveTypeOK, Bodies
<1>2. DeliveriesSound'
    BY <1>1 DEF PurgePayload, ArchiveTypeOK, Bodies, DeliveriesSound
<1>3. PointersSound'
    BY <1>1 DEF PurgePayload, ArchiveTypeOK, Bodies, PointersSound
<1>4. HeldLocally'
    BY <1>1 DEF PurgePayload, ArchiveTypeOK, Bodies, HeldLocally, Received
<1>5. AttributedLater'
    BY <1>1 DEF PurgePayload, ArchiveTypeOK, AttributedLater, Received
<1>6. NoLocalOriginal'
    BY <1>1 DEF PurgePayload, ArchiveTypeOK, Bodies, NoLocalOriginal, AttributedLater, Received
<1>7. QED
    BY <1>1, <1>2, <1>3, <1>4, <1>5, <1>6

\* Retention of outbox rows leaves what is required.
LEMMA PurgeOutboxKeeps ==
    ASSUME NEW e \in Events, ArchiveInv, PurgeOutbox(e)
    PROVE  ArchiveInv'
<1> USE PayloadArchiveAssumption DEF ArchiveInv
<1>1. ArchiveTypeOK'
  <2>1. NoRow \in OutboxRow
    BY DEF NoRow, OutboxRow
  <2>2. QED
    BY <2>1 DEF PurgeOutbox, ArchiveTypeOK
<1>2. DeliveriesSound'
    BY <1>1 DEF PurgeOutbox, Prunable, NoRow, ArchiveTypeOK, Bodies, DeliveriesSound
<1>3. PointersSound'
    BY <1>1 DEF PurgeOutbox, Prunable, NoRow, ArchiveTypeOK, Bodies, PointersSound
<1>4. HeldLocally'
    BY <1>1 DEF PurgeOutbox, Prunable, NoRow, ArchiveTypeOK, Bodies, HeldLocally, Received
<1>5. AttributedLater'
    BY <1>1 DEF PurgeOutbox, Prunable, NoRow, ArchiveTypeOK, AttributedLater, Received
<1>6. NoLocalOriginal'
    BY <1>1 DEF PurgeOutbox, Prunable, NoRow, ArchiveTypeOK, Bodies, NoLocalOriginal, AttributedLater, Received
<1>7. QED
    BY <1>1, <1>2, <1>3, <1>4, <1>5, <1>6

\* The erasure of the subject redacts every local copy attributed to it.
LEMMA PseudonymizeKeeps ==
    ASSUME ArchiveInv, Pseudonymize
    PROVE  ArchiveInv'
<1> USE PayloadArchiveAssumption DEF ArchiveInv
<1>1. ArchiveTypeOK'
  <2>1. ASSUME NEW e \in Events
        PROVE  /\ [outbox[e] EXCEPT !.body = Redacted(@)] \in OutboxRow
               /\ Redacted(payloads[e]) \in Bodies \cup {None}
    BY DEF ArchiveTypeOK, OutboxRow, Redacted, Bodies
  <2>2. QED
    BY <2>1 DEF Pseudonymize, ArchiveTypeOK
<1>2. DeliveriesSound'
    BY <1>1 DEF Pseudonymize, Found, Redacted, ArchiveTypeOK, Bodies, DeliveriesSound
<1>3. PointersSound'
    BY <1>1 DEF Pseudonymize, Found, Redacted, ArchiveTypeOK, Bodies, PointersSound
<1>4. HeldLocally'
    BY <1>1 DEF Pseudonymize, Found, Redacted, ArchiveTypeOK, Bodies, HeldLocally, Received
<1>5. AttributedLater'
    BY <1>1 DEF Pseudonymize, Found, Redacted, ArchiveTypeOK, AttributedLater, Received
<1>6. NoLocalOriginal'
    BY <1>1 DEF Pseudonymize, Found, Redacted, ArchiveTypeOK, Bodies, NoLocalOriginal, AttributedLater, Received
<1>7. QED
    BY <1>1, <1>2, <1>3, <1>4, <1>5, <1>6

\* A claim hands the envelope of the row to the delivery.
LEMMA ClaimKeeps ==
    ASSUME NEW w \in Workers, NEW e \in Events, ArchiveInv, Claim(w, e)
    PROVE  ArchiveInv'
<1> USE PayloadArchiveAssumption DEF ArchiveInv
<1>1. ArchiveTypeOK'
  <2>1. [outbox[e] EXCEPT !.status = "processing", !.holder = w, !.attempts = @ + 1] \in OutboxRow
    <3>1. outbox[e] \in OutboxRow
      BY DEF ArchiveTypeOK
    <3>2. outbox[e].attempts + 1 \in Nat
      BY <3>1 DEF OutboxRow
    <3>3. QED
      BY <3>1, <3>2 DEF OutboxRow
  <2>2. [Idle EXCEPT !.pc = "get", !.event = e, !.body = outbox[e].body] \in Call
    BY DEF ArchiveTypeOK, OutboxRow, Call, Idle
  <2>3. QED
    BY <2>1, <2>2 DEF Claim, ArchiveTypeOK
<1>2. DeliveriesSound'
    BY <1>1 DEF Claim, Claimable, Abandoned, Idle, ArchiveTypeOK, Bodies, DeliveriesSound
<1>3. PointersSound'
    BY <1>1 DEF Claim, Claimable, Abandoned, Idle, ArchiveTypeOK, Bodies, PointersSound
<1>4. HeldLocally'
    BY <1>1 DEF Claim, Claimable, Abandoned, Idle, ArchiveTypeOK, Bodies, HeldLocally, Received
<1>5. AttributedLater'
    BY <1>1 DEF Claim, Claimable, Abandoned, Idle, ArchiveTypeOK, AttributedLater, Received
<1>6. NoLocalOriginal'
    BY <1>1 DEF Claim, Claimable, Abandoned, Idle, ArchiveTypeOK, Bodies, NoLocalOriginal, AttributedLater, Received
<1>7. QED
    BY <1>1, <1>2, <1>3, <1>4, <1>5, <1>6

\* A delivery settles on the envelope to write, or finds the pointer recorded.
LEMMA GetPayloadKeeps ==
    ASSUME NEW w \in Workers, ArchiveInv, GetPayload(w)
    PROVE  ArchiveInv'
<1> USE PayloadArchiveAssumption DEF ArchiveInv
<1>0. calls[w].event \in Events
    BY DEF GetPayload, DeliveriesSound
<1>1. ArchiveTypeOK'
  <2>1. ASSUME NEW pc \in {"complete", "put", "fail"}, NEW b \in Bodies \cup {None}
        PROVE  /\ [calls[w] EXCEPT !.pc = pc] \in Call
               /\ [calls[w] EXCEPT !.body = b, !.pc = pc] \in Call
    BY DEF ArchiveTypeOK, Call
  <2>2. calls[w].body \in Bodies \cup {None} /\ payloads[calls[w].event] \in Bodies \cup {None}
    BY <1>0 DEF ArchiveTypeOK, Call
  <2>3. calls' \in [Workers -> Call]
    <3> DEFINE read == IF Topic(w) = "received" THEN calls[w].body ELSE payloads[calls[w].event]
               kept == IF events[calls[w].event].key # None THEN None ELSE read
               pc == AfterGet(events[calls[w].event].key, read)
    <3>1. kept \in Bodies \cup {None} /\ pc \in {"complete", "put", "fail"}
      BY <2>2 DEF AfterGet
    <3>2. \/ calls' = [calls EXCEPT ![w] = [calls[w] EXCEPT !.body = kept, !.pc = pc]]
          \/ calls' = [calls EXCEPT ![w] = [calls[w] EXCEPT !.pc = "fail"]]
      BY DEF GetPayload, Goto, ArchiveTypeOK, Call
    <3>3. [calls[w] EXCEPT !.body = kept, !.pc = pc] \in Call
      BY <2>1, <3>1
    <3>4. [calls[w] EXCEPT !.pc = "fail"] \in Call
      BY <2>1
    <3> HIDE DEF kept, pc
    <3>5. QED
      BY <3>2, <3>3, <3>4 DEF ArchiveTypeOK
  <2>4. QED
    BY <2>3 DEF GetPayload, ArchiveTypeOK
<1>2. DeliveriesSound'
  <2>1. /\ \A v \in Workers \ {w} : calls'[v] = calls[v]
        /\ calls'[w].event = calls[w].event
        /\ UNCHANGED <<events, objects>>
    BY DEF GetPayload, Goto, ArchiveTypeOK, Call
  <2>2. /\ calls'[w].pc \in {"complete", "put", "fail"}
        /\ calls'[w].pc = "complete" => events[calls[w].event].key # None
        /\ calls'[w].pc = "put" => calls'[w].body # None
    BY DEF GetPayload, Goto, AfterGet, ArchiveTypeOK, Call
  <2>3. QED
    BY <1>0, <2>1, <2>2 DEF DeliveriesSound
<1>3. PointersSound'
    BY <1>1 DEF GetPayload, AfterGet, Topic, Goto, ArchiveTypeOK, Bodies, PointersSound
<1>4. HeldLocally'
    BY <1>1 DEF GetPayload, AfterGet, Topic, Goto, ArchiveTypeOK, Bodies, HeldLocally, Received
<1>5. AttributedLater'
    BY <1>1 DEF GetPayload, AfterGet, Topic, Goto, ArchiveTypeOK, AttributedLater, Received
<1>6. NoLocalOriginal'
    BY <1>1 DEF GetPayload, AfterGet, Topic, Goto, ArchiveTypeOK, Bodies, NoLocalOriginal, AttributedLater, Received
<1>7. QED
    BY <1>1, <1>2, <1>3, <1>4, <1>5, <1>6

\* A write of the object, whether or not its reply arrives.
LEMMA PutObjectKeeps ==
    ASSUME NEW w \in Workers, ArchiveInv, PutObject(w)
    PROVE  ArchiveInv'
<1> USE PayloadArchiveAssumption DEF ArchiveInv
<1>0. calls[w].event \in Events /\ calls[w].body \in Bodies
    BY DEF PutObject, DeliveriesSound, ArchiveTypeOK, Call
<1>w. /\ Written(calls[w].event, calls[w].body) \in [Events -> Seq(Bodies)]
      /\ \A e \in Events \ {calls[w].event} :
            Written(calls[w].event, calls[w].body)[e] = objects[e]
      /\ Len(Written(calls[w].event, calls[w].body)[calls[w].event])
            = IF events[calls[w].event].versioned THEN Len(objects[calls[w].event]) + 1 ELSE 1
    BY <1>0 DEF Written, ArchiveTypeOK
<1>1. ArchiveTypeOK'
  <2>1. ASSUME NEW pc \in {"record", "fail"}, NEW n \in Nat
        PROVE  /\ [calls[w] EXCEPT !.pc = pc] \in Call
               /\ [calls[w] EXCEPT !.pc = pc, !.version = n] \in Call
    BY DEF ArchiveTypeOK, Call
  <2>2. objects' \in [Events -> Seq(Bodies)]
    BY <1>w DEF PutObject, ArchiveTypeOK
  <2>3. Len(objects'[calls[w].event]) \in Nat
    BY <1>0, <2>2
  <2>4. calls' \in [Workers -> Call]
    BY <2>1, <2>3 DEF PutObject, Goto, ArchiveTypeOK
  <2>5. QED
    BY <2>2, <2>4 DEF PutObject, ArchiveTypeOK
<1>l. \A e \in Events : /\ Len(objects[e]) \in Nat
                        /\ Len(objects'[e]) = Len(objects[e]) \/ e = calls[w].event
                        /\ Len(objects'[e]) = Len(objects[e])
                             \/ Len(objects'[e]) = IF events[e].versioned THEN Len(objects[e]) + 1 ELSE 1
    BY <1>0, <1>w DEF PutObject, ArchiveTypeOK
<1>2. DeliveriesSound'
  <2>1. \A v \in Workers \ {w} : calls'[v] = calls[v]
    BY DEF PutObject, Goto, ArchiveTypeOK
  <2>2. /\ calls'[w].pc \in {"record", "fail"}
        /\ calls'[w].event = calls[w].event
        /\ calls'[w].pc = "record" =>
              /\ objects' = Written(calls[w].event, calls[w].body)
              /\ calls'[w].version = Len(objects'[calls[w].event])
    BY DEF PutObject, Goto, ArchiveTypeOK, Call
  <2>3. calls'[w].pc = "record" => calls'[w].version \in 1..Len(objects'[calls[w].event])
    BY <1>0, <1>w, <1>l, <2>2
  <2>4. \A e \in Events, n \in Nat : n \in 1..Len(objects[e]) => n \in 1..Len(objects'[e])
    BY <1>l DEF PointersSound
  <2>5. UNCHANGED events
    BY DEF PutObject
  <2>6. \A v \in Workers : calls[v].version \in Nat
    BY DEF ArchiveTypeOK, Call
  <2>7. ASSUME NEW v \in Workers \ {w}, calls'[v].pc = "record"
        PROVE  calls'[v].version \in 1..Len(objects'[calls'[v].event])
    BY <2>1, <2>4, <2>6, <2>7 DEF DeliveriesSound
  <2>8. QED
    BY <1>0, <2>1, <2>2, <2>3, <2>5, <2>7 DEF DeliveriesSound
<1>3. PointersSound'
    BY <1>l DEF PutObject, PointersSound, ArchiveTypeOK, EventRow
<1>4. HeldLocally'
    BY <1>1 DEF PutObject, Written, Goto, ArchiveTypeOK, Bodies, HeldLocally, Received
<1>5. AttributedLater'
    BY <1>1 DEF PutObject, Written, Goto, ArchiveTypeOK, AttributedLater, Received
<1>6. NoLocalOriginal'
    BY <1>1 DEF PutObject, Written, Goto, ArchiveTypeOK, Bodies, NoLocalOriginal, AttributedLater, Received
<1>7. QED
    BY <1>1, <1>2, <1>3, <1>4, <1>5, <1>6

\* The pointer is recorded once, and names a version that was written.
LEMMA RecordKeeps ==
    ASSUME NEW w \in Workers, ArchiveInv, Record(w)
    PROVE  ArchiveInv'
<1> USE PayloadArchiveAssumption DEF ArchiveInv
<1>0. calls[w].event \in Events /\ calls[w].version \in 1..Len(objects[calls[w].event])
    BY DEF Record, DeliveriesSound
<1>n. calls[w].version \in Nat /\ calls[w].version # None
    BY DEF ArchiveTypeOK, Call
<1>c. /\ \A v \in Workers \ {w} : calls'[v] = calls[v]
      /\ calls'[w].event = calls[w].event
      /\ calls'[w].pc \in {"complete", "fail"}
      /\ calls' \in [Workers -> Call]
  <2>1. ASSUME NEW pc \in {"complete", "fail"} PROVE [calls[w] EXCEPT !.pc = pc] \in Call
    BY DEF ArchiveTypeOK, Call
  <2>2. PICK pc \in {"complete", "fail"} : calls' = [calls EXCEPT ![w] = [calls[w] EXCEPT !.pc = pc]]
    BY DEF Record, Goto, ArchiveTypeOK
  <2>3. QED
    BY <2>1, <2>2 DEF ArchiveTypeOK, Call
<1>e. \/ /\ events[calls[w].event].key = None
         /\ events' = [events EXCEPT ![calls[w].event] =
                         [events[calls[w].event] EXCEPT !.key = calls[w].version]]
         /\ payloads' = [payloads EXCEPT ![calls[w].event] = None]
      \/ /\ UNCHANGED <<events, payloads>>
         /\ calls'[w].pc = "complete" => events[calls[w].event].key # None
    BY DEF Record, Goto, ArchiveTypeOK, Call
<1>k. /\ events' \in [Events -> EventRow]
      /\ payloads' \in [Events -> Bodies \cup {None}]
      /\ \A e \in Events :
           /\ events'[e].status = events[e].status
           /\ events'[e].attributed = events[e].attributed
           /\ events'[e].backend = events[e].backend
           /\ events'[e].versioned = events[e].versioned
           /\ \/ events'[e].key = events[e].key
              \/ e = calls[w].event /\ events'[e].key = calls[w].version
           /\ \/ payloads'[e] = payloads[e]
              \/ payloads'[e] = None /\ events'[e].key # None
           /\ events[e].key # None => events'[e].key # None
  <2>1. events[calls[w].event] \in EventRow
    BY <1>0 DEF ArchiveTypeOK
  <2>2. [events[calls[w].event] EXCEPT !.key = calls[w].version] \in EventRow
    BY <1>n, <2>1 DEF EventRow
  <2>3. CASE UNCHANGED <<events, payloads>>
    <3>1. events' = events /\ payloads' = payloads
      BY <2>3
    <3>2. events' \in [Events -> EventRow] /\ payloads' \in [Events -> Bodies \cup {None}]
      BY <3>1 DEF ArchiveTypeOK
    <3>3. QED
      BY <3>1, <3>2
  <2>4. CASE /\ events' = [events EXCEPT ![calls[w].event] =
                             [events[calls[w].event] EXCEPT !.key = calls[w].version]]
             /\ payloads' = [payloads EXCEPT ![calls[w].event] = None]
    <3>1. events' \in [Events -> EventRow] /\ payloads' \in [Events -> Bodies \cup {None}]
      BY <2>2, <2>4 DEF ArchiveTypeOK
    <3>2. \A e \in Events \ {calls[w].event} : events'[e] = events[e] /\ payloads'[e] = payloads[e]
      BY <2>4 DEF ArchiveTypeOK
    <3>3. /\ events'[calls[w].event] = [events[calls[w].event] EXCEPT !.key = calls[w].version]
          /\ payloads'[calls[w].event] = None
      BY <1>0, <2>4 DEF ArchiveTypeOK
    <3>4. /\ events'[calls[w].event].status = events[calls[w].event].status
          /\ events'[calls[w].event].attributed = events[calls[w].event].attributed
          /\ events'[calls[w].event].backend = events[calls[w].event].backend
          /\ events'[calls[w].event].versioned = events[calls[w].event].versioned
          /\ events'[calls[w].event].key = calls[w].version
      BY <2>1, <3>3 DEF EventRow
    <3>5. QED
      BY <1>n, <3>1, <3>2, <3>3, <3>4
  <2>5. QED
    BY <1>e, <2>3, <2>4
<1>u. UNCHANGED <<outbox, objects, erased, purged>>
    BY DEF Record
<1>1. ArchiveTypeOK'
    BY <1>c, <1>k, <1>u DEF ArchiveTypeOK
<1>2. DeliveriesSound'
  <2>1. calls'[w].pc = "complete" => events'[calls[w].event].key # None
    BY <1>0, <1>n, <1>e, <1>k DEF ArchiveTypeOK, EventRow
  <2>2. QED
    BY <1>0, <1>c, <1>k, <1>u, <2>1 DEF DeliveriesSound
<1>3. PointersSound'
    BY <1>0, <1>k, <1>u DEF PointersSound
<1>4. HeldLocally'
    BY <1>k, <1>u DEF HeldLocally, Received
<1>5. AttributedLater'
    BY <1>k DEF AttributedLater, Received
<1>6. NoLocalOriginal'
    BY <1>k, <1>u DEF NoLocalOriginal
<1>7. QED
    BY <1>1, <1>2, <1>3, <1>4, <1>5, <1>6

\* A row is reported delivered when the pointer is recorded.
LEMMA ReportCompleteKeeps ==
    ASSUME NEW w \in Workers, ArchiveInv, ReportComplete(w)
    PROVE  ArchiveInv'
<1> USE PayloadArchiveAssumption DEF ArchiveInv
<1>0. calls[w].event \in Events
    BY DEF ReportComplete, DeliveriesSound
<1>1. ArchiveTypeOK'
  <2>1. [outbox[calls[w].event] EXCEPT !.status = "delivered"] \in OutboxRow
    BY <1>0 DEF ArchiveTypeOK, OutboxRow
  <2>2. Idle \in Call
    BY DEF Idle, Call
  <2>3. QED
    BY <1>0, <2>1, <2>2 DEF ReportComplete, ArchiveTypeOK
<1>2. DeliveriesSound'
    BY <1>1 DEF ReportComplete, Holds, Idle, ArchiveTypeOK, Bodies, DeliveriesSound
<1>3. PointersSound'
    BY <1>1 DEF ReportComplete, Holds, Idle, ArchiveTypeOK, Bodies, PointersSound
<1>4. HeldLocally'
    BY <1>1 DEF ReportComplete, Holds, Idle, ArchiveTypeOK, Bodies, HeldLocally, Received, DeliveriesSound
<1>5. AttributedLater'
    BY <1>1 DEF ReportComplete, Holds, Idle, ArchiveTypeOK, AttributedLater, Received
<1>6. NoLocalOriginal'
    BY <1>1 DEF ReportComplete, Holds, Idle, ArchiveTypeOK, Bodies, NoLocalOriginal, AttributedLater, Received
<1>7. QED
    BY <1>1, <1>2, <1>3, <1>4, <1>5, <1>6

\* A failed delivery leaves the row.
LEMMA ReportFailKeeps ==
    ASSUME NEW w \in Workers, ArchiveInv, ReportFail(w)
    PROVE  ArchiveInv'
<1> USE PayloadArchiveAssumption DEF ArchiveInv
<1>0. calls[w].event \in Events
    BY DEF ReportFail, DeliveriesSound
<1>1. ArchiveTypeOK'
  <2>1. [outbox[calls[w].event] EXCEPT !.status = AfterFailure(outbox[calls[w].event].attempts)] \in OutboxRow
    BY <1>0 DEF ArchiveTypeOK, OutboxRow, AfterFailure
  <2>2. Idle \in Call
    BY DEF Idle, Call
  <2>3. QED
    BY <1>0, <2>1, <2>2 DEF ReportFail, ArchiveTypeOK
<1>2. DeliveriesSound'
    BY <1>1 DEF ReportFail, Holds, AfterFailure, Idle, ArchiveTypeOK, Bodies, DeliveriesSound
<1>3. PointersSound'
    BY <1>1 DEF ReportFail, Holds, AfterFailure, Idle, ArchiveTypeOK, Bodies, PointersSound
<1>4. HeldLocally'
    BY <1>1 DEF ReportFail, Holds, AfterFailure, Idle, ArchiveTypeOK, Bodies, HeldLocally, Received
<1>5. AttributedLater'
    BY <1>1 DEF ReportFail, Holds, AfterFailure, Idle, ArchiveTypeOK, AttributedLater, Received
<1>6. NoLocalOriginal'
    BY <1>1 DEF ReportFail, Holds, AfterFailure, Idle, ArchiveTypeOK, Bodies, NoLocalOriginal, AttributedLater, Received
<1>7. QED
    BY <1>1, <1>2, <1>3, <1>4, <1>5, <1>6

\* A delivery dies.
LEMMA CrashKeeps ==
    ASSUME NEW w \in Workers, ArchiveInv, Crash(w)
    PROVE  ArchiveInv'
<1> USE PayloadArchiveAssumption DEF ArchiveInv
<1>1. ArchiveTypeOK'
  <2>1. Idle \in Call
    BY DEF Idle, Call
  <2>2. QED
    BY <2>1 DEF Crash, ArchiveTypeOK
<1>2. DeliveriesSound'
    BY <1>1 DEF Crash, Idle, ArchiveTypeOK, Bodies, DeliveriesSound
<1>3. PointersSound'
    BY <1>1 DEF Crash, Idle, ArchiveTypeOK, Bodies, PointersSound
<1>4. HeldLocally'
    BY <1>1 DEF Crash, Idle, ArchiveTypeOK, Bodies, HeldLocally, Received
<1>5. AttributedLater'
    BY <1>1 DEF Crash, Idle, ArchiveTypeOK, AttributedLater, Received
<1>6. NoLocalOriginal'
    BY <1>1 DEF Crash, Idle, ArchiveTypeOK, Bodies, NoLocalOriginal, AttributedLater, Received
<1>7. QED
    BY <1>1, <1>2, <1>3, <1>4, <1>5, <1>6

\* The initial states satisfy the invariant.
LEMMA InitHolds == Init => ArchiveInv
<1> SUFFICES ASSUME Init PROVE ArchiveInv
    OBVIOUS
<1> USE PayloadArchiveAssumption DEF Init
<1>1. ArchiveTypeOK
  <2>1. Idle \in Call /\ NoRow \in OutboxRow
    BY DEF Idle, NoRow, Call, OutboxRow
  <2>2. events \in [Events -> EventRow]
    BY DEF EventRow
  <2>3. <<>> \in Seq(Bodies)
    OBVIOUS
  <2>4. QED
    BY <2>1, <2>2, <2>3 DEF ArchiveTypeOK
<1>2. \A e \in Events : /\ events[e].status = "none" /\ events[e].attributed = FALSE
                        /\ events[e].key = None /\ outbox[e].status = "none"
                        /\ objects[e] = <<>>
    BY DEF NoRow
<1>4. \A w \in Workers : calls[w].pc = "idle"
    BY DEF Idle
<1>5. DeliveriesSound /\ HeldLocally /\ AttributedLater /\ NoLocalOriginal
    BY <1>2, <1>4 DEF DeliveriesSound, HeldLocally, AttributedLater, NoLocalOriginal, Received
<1>6. PointersSound
  <2>1. \A e \in Events : Len(objects[e]) = 0
    BY <1>2
  <2>2. QED
    BY <1>2, <2>1, 0 <= 1 DEF PointersSound
<1>3. QED
    BY <1>1, <1>5, <1>6 DEF ArchiveInv

\* Every step keeps the invariant.
LEMMA StepKeeps == ArchiveInv /\ [Next]_vars => ArchiveInv'
<1> SUFFICES ASSUME ArchiveInv, [Next]_vars PROVE ArchiveInv'
    OBVIOUS
<1>1. CASE UNCHANGED vars
    BY <1>1 DEF vars, ArchiveInv, ArchiveTypeOK, DeliveriesSound, PointersSound, HeldLocally,
                AttributedLater, NoLocalOriginal, Received
<1>2. ASSUME NEW e \in Events,
             Receive(e) \/ CompleteEvent(e) \/ Attribute(e) \/ PurgePayload(e) \/ PurgeOutbox(e)
      PROVE  ArchiveInv'
    BY <1>2, ReceiveKeeps, CompleteEventKeeps, AttributeKeeps, PurgePayloadKeeps, PurgeOutboxKeeps
<1>3. CASE Pseudonymize
    BY <1>3, PseudonymizeKeeps
<1>4. ASSUME NEW w \in Workers, Step(w) \/ Crash(w) PROVE ArchiveInv'
    BY <1>4, GetPayloadKeeps, PutObjectKeeps, RecordKeeps, ReportCompleteKeeps, ReportFailKeeps,
       CrashKeeps DEF Step
<1>5. ASSUME NEW w \in Workers, NEW e \in Events, Claim(w, e) PROVE ArchiveInv'
    BY <1>5, ClaimKeeps
<1>6. QED
    BY <1>1, <1>2, <1>3, <1>4, <1>5 DEF Next

\* What the invariant says of the copies: the payload row, the outbox row or the
\* object the pointer names is one.
LEMMA InvKeepsEnvelope == ArchiveInv => EnvelopeKept
<1> SUFFICES ASSUME ArchiveInv, NEW e \in Events, Received(e), e \notin purged
             PROVE  Copies(e) # {None}
    BY DEF EnvelopeKept
<1> USE PayloadArchiveAssumption DEF ArchiveInv
<1>1. CASE events[e].key # None
  <2>1. events[e].key \in DOMAIN objects[e] /\ objects[e][events[e].key] \in Bodies
    BY <1>1 DEF PointersSound, ArchiveTypeOK
  <2>2. objects[e][events[e].key] \in Copies(e)
    BY <1>1, <2>1 DEF Copies
  <2>3. QED
    BY <2>1, <2>2 DEF Bodies
<1>2. CASE events[e].key = None
  <2>1. events[e].backend \in {"postgres", "external"}
    BY DEF ArchiveTypeOK, EventRow
  <2>3. payloads[e] # None \/ (outbox[e].status # "delivered" /\ outbox[e].body # None)
    BY <1>2, <2>1 DEF HeldLocally
  <2>2. QED
    BY <2>3 DEF Copies
<1>3. QED
    BY <1>1, <1>2

\* However deliveries crash, overrun their claims, lose replies or race retention,
\* a received envelope has a reachable copy until its own retention removes it
\* (storage_handlers.go, archive_billing_event_payload, run_storage_maintenance).
THEOREM EnvelopesKept == Spec => []EnvelopeKept
<1>1. Spec => []ArchiveInv
    BY InitHolds, StepKeeps, PTL DEF Spec
<1>2. QED
    BY <1>1, InvKeepsEnvelope, PTL

\* Whichever of attribution and pseudonymisation comes first, and whatever is in
\* delivery, no local copy of an erased subject's event holds the original
\* (attribute_billing_event_subject, pseudonymize_financial_subject).
THEOREM OriginalsErased == Spec => []NoLocalOriginal
<1>1. ArchiveInv => NoLocalOriginal
    BY DEF ArchiveInv
<1>2. QED
    BY <1>1, InitHolds, StepKeeps, PTL DEF Spec
===============================================================================
