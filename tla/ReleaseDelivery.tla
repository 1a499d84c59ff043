--------------------------- MODULE ReleaseDelivery ---------------------------
(***************************************************************************)
(* How a release published or withdrawn in the Control Service reaches the *)
(* release projection of the Environment Service: the transactional Outbox *)
(* (persistence-sqlx ledger.rs), Control's dispatchers (messaging.rs),     *)
(* JetStream, and the release consumers with their Inbox and watermark     *)
(* (messaging.rs and container_provider.rs of environment-service).        *)
(*                                                                         *)
(* Every database transaction is one action, except that the Inbox looks   *)
(* for a duplicate before it locks the watermark row: those are two steps, *)
(* since another consumer may commit between them.  A retry of a request   *)
(* with the same idempotency key replays the stored result and is no step. *)
(***************************************************************************)
EXTENDS Naturals

CONSTANTS
    Releases,       \* release ids
    Dispatchers,    \* processes of the Control Service
    Consumers,      \* processes of the Environment Service, one durable consumer
    MaxCopies,      \* bound: copies of one event JetStream stores
    MaxDeliver,     \* 10 in the deployment: deliveries of one message (--max-deliver)
    MaxFailures     \* bound: failed publications, transactions, acknowledgements, kills

ASSUME DeliveryAssumption ==
    /\ MaxCopies \in Nat \ {0}
    /\ MaxDeliver \in Nat \ {0}
    /\ MaxFailures \in Nat

VARIABLES
    released,       \* control.environment_template_releases (1) and release_withdrawals (2)
    outbox,         \* control.outbox_events
    dispatchers,    \* the local state of each dispatch_once
    stream,         \* JetStream: stored messages the consumer has not settled
    copies,         \* JetStream: copies of an event stored so far
    deliveries,     \* JetStream: deliveries of each message so far
    inbox,          \* environment.inbox_events
    watermark,      \* environment.inbox_watermarks
    projection,     \* aggregate_sequence of environment.release_projections, 0: no row
    consumers,      \* the local state of each process_next
    quarantine,     \* events sent to the quarantine subject
    failures        \* failures so far

control == <<released, outbox>>
jetstream == <<stream, copies, deliveries>>
environment == <<inbox, watermark, projection>>
vars == <<control, dispatchers, jetstream, environment, consumers, quarantine, failures>>

-----------------------------------------------------------------------------

\* aggregate_sequence 1 is the publication of a release, 2 its withdrawal.
Events == [release : Releases, sequence : 1..2]

Messages == [event : Events, copy : 1..MaxCopies]

Event(r, n) == [release |-> r, sequence |-> n]

OutboxStates == {"absent", "pending", "published"}

Idle == [pc |-> "idle"]

DispatcherState == [pc : {"idle"}] \cup [pc : {"fetched", "acknowledged"}, event : Events]

ConsumerState ==
    [pc : {"idle"}] \cup [pc : {"received", "fresh", "settle", "reject"}, message : Messages]

Dispatching(d, pc) == [pc |-> pc, event |-> dispatchers[d].event]

Consuming(c, pc) == [pc |-> pc, message |-> consumers[c].message]

Init ==
    /\ released = [r \in Releases |-> 0]
    /\ outbox = [e \in Events |-> "absent"]
    /\ dispatchers = [d \in Dispatchers |-> Idle]
    /\ stream = {}
    /\ copies = [e \in Events |-> 0]
    /\ deliveries = [m \in Messages |-> 0]
    /\ inbox = {}
    /\ watermark = [r \in Releases |-> 0]
    /\ projection = [r \in Releases |-> 0]
    /\ consumers = [c \in Consumers |-> Idle]
    /\ quarantine = {}
    /\ failures = 0

-----------------------------------------------------------------------------
(* Control: the release and its event are written in one transaction. *)

CreateRelease(r) ==
    /\ released[r] = 0
    /\ released' = [released EXCEPT ![r] = 1]
    /\ outbox' = [outbox EXCEPT ![Event(r, 1)] = "pending"]
    /\ UNCHANGED <<dispatchers, jetstream, environment, consumers, quarantine, failures>>

\* A second withdrawal is a DecisionConflict.
WithdrawRelease(r) ==
    /\ released[r] = 1
    /\ released' = [released EXCEPT ![r] = 2]
    /\ outbox' = [outbox EXCEPT ![Event(r, 2)] = "pending"]
    /\ UNCHANGED <<dispatchers, jetstream, environment, consumers, quarantine, failures>>

-----------------------------------------------------------------------------
(* Control's dispatchers *)

\* The row lock of a dispatcher's open transaction.
Locked(e) == \E d \in Dispatchers : dispatchers[d] # Idle /\ dispatchers[d].event = e

\* The oldest pending row that is not locked.  A withdrawal is created after its
\* publication; rows of different releases come in any order.
Fetch(d, e) ==
    /\ dispatchers[d] = Idle
    /\ outbox[e] = "pending"
    /\ ~Locked(e)
    /\ \A f \in Events :
           f.release = e.release /\ f.sequence < e.sequence /\ outbox[f] = "pending" => Locked(f)
    /\ dispatchers' = [dispatchers EXCEPT ![d] = [pc |-> "fetched", event |-> e]]
    /\ UNCHANGED <<control, jetstream, environment, consumers, quarantine, failures>>

\* External: JetStream stores the message, or recognises the message id of a copy it has
\* stored within its duplicate window.
Store(e) ==
    \/ /\ copies[e] < MaxCopies
       /\ stream' = stream \cup {[event |-> e, copy |-> copies[e] + 1]}
       /\ copies' = [copies EXCEPT ![e] = @ + 1]
       /\ UNCHANGED deliveries
    \/ /\ copies[e] > 0
       /\ UNCHANGED jetstream

\* send_publish and its acknowledgement.
Publish(d) ==
    /\ dispatchers[d].pc = "fetched"
    /\ Store(dispatchers[d].event)
    /\ dispatchers' = [dispatchers EXCEPT ![d] = Dispatching(d, "acknowledged")]
    /\ UNCHANGED <<control, environment, consumers, quarantine, failures>>

\* Mutant: the row is marked before the acknowledgement.
MarkPublishedEarly(d) ==
    /\ dispatchers[d] # Idle
    /\ outbox' = [outbox EXCEPT ![dispatchers[d].event] = "published"]
    /\ dispatchers' = [dispatchers EXCEPT ![d] = Idle]
    /\ UNCHANGED <<released, jetstream, environment, consumers, quarantine, failures>>

\* published_at is set and the transaction committed.
MarkPublished(d) ==
    /\ dispatchers[d].pc = "acknowledged"
    /\ outbox' = [outbox EXCEPT ![dispatchers[d].event] = "published"]
    /\ dispatchers' = [dispatchers EXCEPT ![d] = Idle]
    /\ UNCHANGED <<released, jetstream, environment, consumers, quarantine, failures>>

\* The publication fails or times out, after JetStream stored it or not, or the process ends:
\* the transaction is rolled back and the row stays pending.
DispatchFails(d) ==
    /\ dispatchers[d] # Idle
    /\ failures < MaxFailures
    /\ failures' = failures + 1
    /\ \/ dispatchers[d].pc = "fetched" /\ Store(dispatchers[d].event)
       \/ UNCHANGED jetstream
    /\ dispatchers' = [dispatchers EXCEPT ![d] = Idle]
    /\ UNCHANGED <<control, environment, consumers, quarantine>>

-----------------------------------------------------------------------------
(* Environment's release consumers *)

\* The next message: a first delivery, a redelivery after a Nak, or one that another process
\* has not settled within the acknowledgement wait.  The durable consumer is created with a
\* limit on the deliveries of one message: past it the message stays stored and is not
\* delivered any more.
Receive(c, m) ==
    /\ consumers[c] = Idle
    /\ m \in stream /\ deliveries[m] < MaxDeliver
    /\ deliveries' = [deliveries EXCEPT ![m] = @ + 1]
    /\ consumers' = [consumers EXCEPT ![c] = [pc |-> "received", message |-> m]]
    /\ UNCHANGED <<control, dispatchers, stream, copies, environment, quarantine, failures>>

\* InboxStore::accept first looks for the event id, without a lock.
CheckDuplicate(c) ==
    /\ consumers[c].pc = "received"
    /\ consumers' = [consumers EXCEPT ![c] =
           Consuming(c, IF consumers[c].message.event \in inbox THEN "settle" ELSE "fresh")]
    /\ UNCHANGED <<control, dispatchers, jetstream, environment, quarantine, failures>>

\* The sequence against the watermark, whose row is locked.
InboxDecision(e) ==
    IF e.sequence < watermark[e.release] + 1 THEN "Stale"
    ELSE IF e.sequence > watermark[e.release] + 1 THEN "Gap"
    ELSE "Accepted"

\* A publication inserts the projection row, a withdrawal updates the row of sequence 1.
Projects(e) == projection[e.release] = e.sequence - 1

Advance(e) == watermark' = [watermark EXCEPT ![e.release] = e.sequence]

\* Accepted, and the projection written in the same transaction.
AcceptEvent(c) ==
    LET e == consumers[c].message.event
    IN  /\ consumers[c].pc = "fresh"
        /\ InboxDecision(e) = "Accepted"
        /\ Projects(e)
        /\ inbox' = inbox \cup {e}
        /\ Advance(e)
        /\ projection' = [projection EXCEPT ![e.release] = e.sequence]
        /\ consumers' = [consumers EXCEPT ![c] = Consuming(c, "settle")]
        /\ UNCHANGED <<control, dispatchers, jetstream, quarantine, failures>>

\* A stale event is acknowledged, a gap is a Nak, an event that does not fit the projection
\* is quarantined.
AfterRefusal(c) ==
    LET decision == InboxDecision(consumers[c].message.event)
    IN  IF decision = "Gap" THEN Idle
        ELSE Consuming(c, IF decision = "Stale" THEN "settle" ELSE "reject")

\* The event is not applied and the transaction leaves nothing behind.
RefuseEvent(c) ==
    /\ consumers[c].pc = "fresh"
    /\ InboxDecision(consumers[c].message.event) = "Accepted"
           => ~Projects(consumers[c].message.event)
    /\ consumers' = [consumers EXCEPT ![c] = AfterRefusal(c)]
    /\ UNCHANGED <<control, dispatchers, jetstream, environment, quarantine, failures>>

\* double_ack, or quarantine and then Term.
Settle(c) ==
    /\ consumers[c].pc \in {"settle", "reject"}
    /\ stream' = stream \ {consumers[c].message}
    /\ quarantine' = IF consumers[c].pc = "reject"
                     THEN quarantine \cup {consumers[c].message.event} ELSE quarantine
    /\ consumers' = [consumers EXCEPT ![c] = Idle]
    /\ UNCHANGED <<control, dispatchers, copies, deliveries, environment, failures>>

\* A database error (Nak), a lost acknowledgement, or the end of the process: the message
\* stays in the stream.
ConsumeFails(c) ==
    /\ consumers[c] # Idle
    /\ failures < MaxFailures
    /\ failures' = failures + 1
    /\ consumers' = [consumers EXCEPT ![c] = Idle]
    /\ UNCHANGED <<control, dispatchers, jetstream, environment, quarantine>>

-----------------------------------------------------------------------------

DispatcherStep(d) == (\E e \in Events : Fetch(d, e)) \/ Publish(d) \/ MarkPublished(d)

ConsumerStep(c) == CheckDuplicate(c) \/ AcceptEvent(c) \/ RefuseEvent(c) \/ Settle(c)

Next ==
    \/ \E r \in Releases : CreateRelease(r) \/ WithdrawRelease(r)
    \/ \E d \in Dispatchers : DispatcherStep(d) \/ DispatchFails(d)
    \/ \E c \in Consumers : (\E m \in Messages : Receive(c, m)) \/ ConsumerStep(c) \/ ConsumeFails(c)

Spec == Init /\ [][Next]_vars

-----------------------------------------------------------------------------
(* Properties *)

\* Every table, message and local state has its type.
TypeOK ==
    /\ released \in [Releases -> 0..2]
    /\ outbox \in [Events -> OutboxStates]
    /\ dispatchers \in [Dispatchers -> DispatcherState]
    /\ stream \subseteq Messages
    /\ copies \in [Events -> 0..MaxCopies]
    /\ deliveries \in [Messages -> 0..MaxDeliver]
    /\ inbox \subseteq Events
    /\ watermark \in [Releases -> 0..2]
    /\ projection \in [Releases -> 0..2]
    /\ consumers \in [Consumers -> ConsumerState]
    /\ quarantine \subseteq Events
    /\ failures \in Nat

\* What a committed event still has ahead of it, or behind it.
Underway(e) == e \in inbox \/ \E m \in stream : m.event = e

\* No event is lost between the two databases: one that Control has committed is pending in
\* the Outbox, stored and not settled in JetStream, or applied, whichever publication,
\* acknowledgement or process failed (dispatch_once marks a row only after JetStream has
\* acknowledged it, process_next settles a message only after the commit).  A message that
\* has used up its deliveries is not lost in this sense, though nobody reads it any more.
NothingLost ==
    \A e \in Events :
        e.sequence <= released[e.release] => outbox[e] = "pending" \/ Underway(e)

\* Redelivered, duplicated and reordered events are applied once and in order: the projection
\* is where the watermark is, never ahead of Control, and the Inbox holds exactly the events
\* up to it (InboxStore::accept, in the transaction of the projection).
ProjectionFollows ==
    \A r \in Releases :
        /\ projection[r] = watermark[r]
        /\ watermark[r] <= released[r]
        /\ \A n \in 1..2 : Event(r, n) \in inbox <=> n <= watermark[r]

\* No release event is quarantined: an event the Inbox accepts fits the projection, so
\* ReleaseProjectionError::IdentityMismatch and the Term that would block the release for
\* ever do not arise.
NeverRejected == quarantine = {}

\* The event is stored and nobody will read it any more: every message that carries it has
\* used up its deliveries and is in no consumer's hands.
Abandoned(e) ==
    /\ outbox[e] = "published" /\ e \notin inbox
    /\ \E m \in stream : m.event = e
    /\ \A m \in stream :
           m.event = e => /\ deliveries[m] = MaxDeliver
                          /\ \A c \in Consumers : consumers[c] # Idle => consumers[c].message # m

\* A publication or withdrawal is eventually seen by the Environment Service, or it or the
\* event before it was delivered as often as JetStream delivers a message: nothing but used-up
\* deliveries keeps a committed event from the projection (dispatch_once, process_next).
Delivered ==
    \A r \in Releases, n \in 1..2 :
        released[r] >= n ~> projection[r] >= n \/ \E k \in 1..n : Abandoned(Event(r, k))

\* Every committed release event is applied exactly once and in order, or still under way.
ReleasesDelivered == NothingLost /\ ProjectionFollows /\ NeverRejected

=============================================================================
