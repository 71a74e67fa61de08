---------------------------- MODULE PayloadArchive ----------------------------
(***************************************************************************)
(* Where the envelope of a provider's billing event is kept: the row of     *)
(* billing_event_payloads, the outbox row of an event received for an       *)
(* external backend, and the object a worker writes to the archive and then *)
(* records in billing_events.  Workers of several processes deliver, their  *)
(* claims run out, replies are lost, retention removes rows, and the         *)
(* subject an event belongs to is pseudonymised at some point, before or     *)
(* after the event was attributed to it.                                    *)
(*                                                                         *)
(* A database function is one action; the handler is split where it calls   *)
(* the database or the object store.  An envelope is "original" or          *)
(* "redacted".                                                              *)
(***************************************************************************)
EXTENDS Naturals, Sequences

CONSTANTS
    Events,       \* billing events, all of one subject
    Workers,      \* deliveries that may run at the same time
    AttemptLimit, \* OutboxWorkerOptions.AttemptLimit
    MaxFaults,    \* bound: lost requests and replies, crashes, overrun claims
    None

ASSUME PayloadArchiveAssumption ==
    /\ AttemptLimit \in Nat \ {0} /\ MaxFaults \in Nat
    /\ None \notin Nat \cup {"original", "redacted"}

VARIABLES
    events,   \* billing_events: status, whether attributed, archive pointer; the
              \* backend of its process, whether its envelope names the subject
              \* and whether its bucket keeps versions of an object
    payloads, \* billing_event_payloads: the envelope or None
    outbox,   \* event_outbox: the event's row
    objects,  \* the versions of the event's object in the archive
    erased,   \* whether the subject is pseudonymised
    purged,   \* history: payload rows removed by retention
    calls,    \* the workers' deliveries
    faults

vars == <<events, payloads, outbox, objects, erased, purged, calls, faults>>

Idle  == [pc |-> "idle", event |-> None, body |-> None, version |-> 0]
NoRow == [status |-> "none", body |-> None, holder |-> None, attempts |-> 0]

Fault    == faults < MaxFaults /\ faults' = faults + 1
Received(e) == events[e].status # "none"

------------------------------------------------------------------------------
(* The database                                                            *)

\* claim_billing_event for a new event: its envelope goes to the payload table
\* or, for an external backend, into a required outbox row.
Receive(e) ==
    /\ events[e].status = "none"
    /\ events' = [events EXCEPT ![e].status = "processing"]
    /\ IF events[e].backend = "postgres"
       THEN /\ payloads' = [payloads EXCEPT ![e] = "original"]
            /\ UNCHANGED outbox
       ELSE /\ outbox' = [outbox EXCEPT ![e] =
                   [NoRow EXCEPT !.status = "pending", !.body = "original"]]
            /\ UNCHANGED payloads
    /\ UNCHANGED <<objects, erased, purged, calls, faults>>

\* complete_billing_event: the trigger enqueues the archive of a payload that
\* PostgreSQL keeps.
CompleteEvent(e) ==
    /\ events[e].status = "processing"
    /\ events' = [events EXCEPT ![e].status = "completed"]
    /\ outbox' = IF events[e].backend = "postgres"
                 THEN [outbox EXCEPT ![e] = [NoRow EXCEPT !.status = "pending"]]
                 ELSE outbox
    /\ UNCHANGED <<payloads, objects, erased, purged, calls, faults>>

Redacted(body) == IF body = None THEN None ELSE "redacted"

\* Wrong on purpose: the copy of an event attributed late is left alone.
AfterAttributionKept(body) == body

\* What attribute_billing_event_subject leaves of a local copy.
AfterAttribution(body) == IF erased THEN Redacted(body) ELSE body

\* attribute_billing_event_subject.
Attribute(e) ==
    /\ Received(e) /\ ~events[e].attributed
    /\ events' = [events EXCEPT ![e].attributed = TRUE]
    /\ payloads' = [payloads EXCEPT ![e] = AfterAttribution(@)]
    /\ outbox' = [outbox EXCEPT ![e].body = AfterAttribution(@)]
    /\ UNCHANGED <<objects, erased, purged, calls, faults>>

\* The local copies pseudonymize_financial_subject finds: by the event's
\* subject, or by the account an original envelope names.
Found(e, body) ==
    events[e].attributed \/ (events[e].names /\ body = "original")

\* pseudonymize_financial_subject, which may be called again.
Pseudonymize ==
    /\ erased' = TRUE
    /\ payloads' = [e \in Events |->
           IF Found(e, payloads[e]) THEN Redacted(payloads[e]) ELSE payloads[e]]
    /\ outbox' = [e \in Events |->
           IF Found(e, outbox[e].body)
           THEN [outbox[e] EXCEPT !.body = Redacted(@)] ELSE outbox[e]]
    /\ UNCHANGED <<events, objects, purged, calls, faults>>

\* run_storage_maintenance: a payload past its retention is deleted.
PurgePayload(e) ==
    /\ payloads[e] # None
    /\ payloads' = [payloads EXCEPT ![e] = None]
    /\ purged' = purged \cup {e}
    /\ UNCHANGED <<events, outbox, objects, erased, calls, faults>>

\* Wrong on purpose: every old row goes.
PrunableAny(e) == TRUE

\* The outbox rows retention may delete: delivered, or not required.
Prunable(e) == outbox[e].status = "delivered" \/ outbox[e].body = None

\* run_storage_maintenance: an outbox row past its retention is deleted.
PurgeOutbox(e) ==
    /\ outbox[e].status # "none"
    /\ Prunable(e)
    /\ outbox' = [outbox EXCEPT ![e] = NoRow]
    /\ UNCHANGED <<events, payloads, objects, erased, purged, calls, faults>>

------------------------------------------------------------------------------
(* Delivery                                                                *)

\* A row that may be claimed: pending, or with a claim whose delivery died; a
\* claim may also run out under a delivery that goes on.
Abandoned(e) ==
    /\ outbox[e].status = "processing"
    /\ calls[outbox[e].holder].event # e

Claimable(e) ==
    \/ (outbox[e].status = "pending" \/ Abandoned(e)) /\ UNCHANGED faults
    \/ outbox[e].status = "processing" /\ ~Abandoned(e) /\ Fault

Claim(w, e) ==
    /\ calls[w] = Idle
    /\ Claimable(e)
    /\ outbox' = [outbox EXCEPT ![e].status = "processing", ![e].holder = w,
                                ![e].attempts = @ + 1]
    /\ calls' = [calls EXCEPT ![w] =
           [Idle EXCEPT !.pc = "get", !.event = e, !.body = outbox[e].body]]
    /\ UNCHANGED <<events, payloads, objects, erased, purged>>

Goto(w, pc) == calls' = [calls EXCEPT ![w].pc = pc]

\* An event received for an external backend carries its envelope.
Topic(w) == IF calls[w].body = None THEN "completed" ELSE "received"

\* What a delivery does next, given the pointer and the envelope it has read:
\* an event whose pointer is recorded is done, one without an envelope is an
\* error.
AfterGet(key, body) ==
    CASE key # None -> "complete"
      [] key = None /\ body # None -> "put"
      [] OTHER -> "fail"

\* Handle: GetBillingEventPayload, and the payload it settles on.
GetPayload(w) ==
    LET e == calls[w].event
        body == IF Topic(w) = "received" THEN calls[w].body ELSE payloads[e] IN
    /\ calls[w].pc = "get"
    /\ \/ /\ calls' = [calls EXCEPT
                 ![w].body = IF events[e].key # None THEN None ELSE body,
                 ![w].pc = AfterGet(events[e].key, body)]
          /\ UNCHANGED faults
       \/ Goto(w, "fail") /\ Fault
    /\ UNCHANGED <<events, payloads, outbox, objects, erased, purged>>

\* The objects after a write of the envelope.
Written(e, body) ==
    IF events[e].versioned THEN [objects EXCEPT ![e] = Append(@, body)]
    ELSE [objects EXCEPT ![e] = <<body>>]

\* Archive: PutObject answers, or fails before or after the object is written.
PutObject(w) ==
    LET e == calls[w].event IN
    /\ calls[w].pc = "put"
    /\ \/ /\ objects' = Written(e, calls[w].body)
          /\ calls' = [calls EXCEPT ![w].pc = "record",
                                    ![w].version = Len(objects'[e])]
          /\ UNCHANGED faults
       \/ /\ Fault /\ Goto(w, "fail")
          /\ objects' \in {objects, Written(e, calls[w].body)}
    /\ UNCHANGED <<events, payloads, outbox, erased, purged>>

\* archive_billing_event_payload: the pointer is written once; the payload row
\* goes with the same transaction.
Record(w) ==
    LET e == calls[w].event IN
    /\ calls[w].pc = "record"
    /\ \/ /\ events[e].key = None
          /\ events' = [events EXCEPT ![e].key = calls[w].version]
          /\ payloads' = [payloads EXCEPT ![e] = None]
          /\ \/ Goto(w, "complete") /\ UNCHANGED faults
             \/ Goto(w, "fail") /\ Fault
       \/ /\ events[e].key # None
          /\ Goto(w, IF events[e].key = calls[w].version THEN "complete" ELSE "fail")
          /\ UNCHANGED <<events, payloads, faults>>
       \/ /\ Goto(w, "fail") /\ Fault
          /\ UNCHANGED <<events, payloads>>
    /\ UNCHANGED <<outbox, objects, erased, purged>>

\* Whether the row is still the claim of w.
Holds(w) ==
    LET row == outbox[calls[w].event] IN
    row.status = "processing" /\ row.holder = w

\* Complete and Fail report on a claim that is still held; a report on another
\* one changes nothing.
ReportComplete(w) ==
    /\ calls[w].pc = "complete"
    /\ outbox' = IF Holds(w)
                 THEN [outbox EXCEPT ![calls[w].event].status = "delivered"]
                 ELSE outbox
    /\ calls' = [calls EXCEPT ![w] = Idle]
    /\ UNCHANGED <<events, payloads, objects, erased, purged, faults>>

\* Wrong on purpose: a row that is given up counts as delivered.
AfterFailureDropped(n) == IF n >= AttemptLimit THEN "delivered" ELSE "pending"

\* The status of a row after its delivery failed for the nth time.
AfterFailure(n) == IF n >= AttemptLimit THEN "dead_letter" ELSE "pending"

ReportFail(w) ==
    /\ calls[w].pc = "fail"
    /\ outbox' = IF Holds(w)
                 THEN [outbox EXCEPT ![calls[w].event].status =
                           AfterFailure(outbox[calls[w].event].attempts)]
                 ELSE outbox
    /\ calls' = [calls EXCEPT ![w] = Idle]
    /\ UNCHANGED <<events, payloads, objects, erased, purged, faults>>

\* The process of w dies.
Crash(w) ==
    /\ calls[w] # Idle
    /\ Fault
    /\ calls' = [calls EXCEPT ![w] = Idle]
    /\ UNCHANGED <<events, payloads, outbox, objects, erased, purged>>

------------------------------------------------------------------------------
Init ==
    /\ events \in [Events ->
           [status : {"none"}, attributed : {FALSE}, key : {None},
            backend : {"postgres", "external"}, names : BOOLEAN,
            versioned : BOOLEAN]]
    /\ payloads = [e \in Events |-> None]
    /\ outbox = [e \in Events |-> NoRow]
    /\ objects = [e \in Events |-> <<>>]
    /\ erased = FALSE /\ purged = {}
    /\ calls = [w \in Workers |-> Idle]
    /\ faults = 0

Step(w) ==
    \/ GetPayload(w) \/ PutObject(w) \/ Record(w)
    \/ ReportComplete(w) \/ ReportFail(w)

Next ==
    \/ \E e \in Events : Receive(e) \/ CompleteEvent(e) \/ Attribute(e)
                         \/ PurgePayload(e) \/ PurgeOutbox(e)
    \/ Pseudonymize
    \/ \E w \in Workers : Step(w) \/ Crash(w) \/ \E e \in Events : Claim(w, e)

Spec == Init /\ [][Next]_vars

\* The workers poll, and a delivery's process keeps running.
FairSpec ==
    /\ Spec
    /\ \A w \in Workers : WF_vars(Step(w))
    /\ \A e \in Events : WF_vars(\E w \in Workers : Claim(w, e))

------------------------------------------------------------------------------
(* Properties                                                              *)

\* The copies of an envelope that a replay or an operator can reach: the
\* payload row, an outbox row that still has to be delivered, and the object
\* the event's pointer names.
Copies(e) ==
    {payloads[e]}
    \cup (IF outbox[e].status # "delivered" THEN {outbox[e].body} ELSE {})
    \cup (IF events[e].key = None THEN {}
          ELSE {objects[e][v] : v \in {events[e].key} \cap DOMAIN objects[e]})

\* A received envelope is never lost: until retention deletes the payload row
\* that PostgreSQL was to keep, one reachable copy exists, whatever crashes,
\* replies are lost or claims overrun between the write of the object, the
\* record of its pointer and the report of the delivery.
EnvelopeKept ==
    \A e \in Events : Received(e) /\ e \notin purged => Copies(e) # {None}

\* A row reported delivered has its envelope in the archive, also when another
\* worker wrote and recorded it.
DeliveredIsArchived ==
    \A e \in Events : outbox[e].status = "delivered" => events[e].key # None

\* Once a subject is pseudonymised no local copy of an event attributed to it
\* holds the original, whichever of attribution and pseudonymisation was first.
NoLocalOriginal ==
    \A e \in Events :
        erased /\ events[e].attributed =>
            payloads[e] # "original" /\ outbox[e].body # "original"

\* An envelope received for an external backend reaches the archive or the dead
\* letters, where an operator finds it, however deliveries crash, overrun their
\* claims or meet a pointer that another one recorded.
SentIsArchived ==
    \A e \in Events :
        Received(e) /\ events[e].backend = "external"
            ~> events[e].key # None \/ outbox[e].status = "dead_letter"

\* What the comment in pseudonymize_financial_subject says of the archive:
\* "Already archived objects remain referenced for a separately confirmed
\* external erasure workflow".  When the delivery is over, an object with the
\* original envelope is the one the event points to.
OriginalsReferenced ==
    \A e \in Events :
        erased /\ outbox[e].status = "delivered" /\ (\A w \in Workers : calls[w] = Idle) =>
            \A v \in DOMAIN objects[e] :
                objects[e][v] = "original" => events[e].key = v

==============================================================================
