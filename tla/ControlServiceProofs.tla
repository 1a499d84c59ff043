------------------------- MODULE ControlServiceProofs -------------------------
(***************************************************************************)
(* Proofs about the Control Service, for any number of writers, clients,   *)
(* workers, consumers, handlers, candidates and faults.  The parts share   *)
(* no state, so each has an inductive invariant of its own.                *)
(***************************************************************************)
EXTENDS ControlService, FiniteSetTheorems, SequenceTheorems, WellFoundedInduction, TLAPS

-----------------------------------------------------------------------------
(***************************************************************************)
(* The delivery of release events                                          *)
(***************************************************************************)

\* The Outbox has the rows of what Control has committed.
OutboxFilled ==
    \A e \in Events : outbox[e] # "absent" <=> e.sequence <= released[e.release]

\* A row that was published, and an event JetStream once stored, is not lost.
StoredUnderway ==
    \A e \in Events : outbox[e] = "published" \/ copies[e] > 0 => Underway(e)

StreamCommitted ==
    \A m \in stream : m.event.sequence <= released[m.event.release]

DispatchersHold ==
    \A d \in Dispatchers :
        dispatchers[d].pc # "idle" =>
            /\ outbox[dispatchers[d].event] # "absent"
            /\ dispatchers[d].pc = "acknowledged" => Underway(dispatchers[d].event)

\* A consumer is about to acknowledge only what is applied, and never to reject.
ConsumersHold ==
    \A c \in Consumers :
        consumers[c].pc # "idle" =>
            /\ consumers[c].message.event.sequence <= released[consumers[c].message.event.release]
            /\ consumers[c].pc = "settle" => consumers[c].message.event \in inbox
            /\ consumers[c].pc # "reject"

DeliveryInv ==
    /\ TypeOK
    /\ OutboxFilled
    /\ StoredUnderway
    /\ StreamCommitted
    /\ DispatchersHold
    /\ ConsumersHold
    /\ ProjectionFollows
    /\ NeverRejected

-----------------------------------------------------------------------------

\* Every conjunct of the invariant holds of the empty system.
LEMMA InitDelivery == Init => DeliveryInv
<1> SUFFICES ASSUME Init PROVE DeliveryInv
    OBVIOUS
<1> USE DeliveryAssumption DEF Init, Idle, Event, Events, Messages
<1>1. TypeOK
    BY DEF TypeOK, DispatcherState, ConsumerState, OutboxStates
<1>2. OutboxFilled /\ StoredUnderway /\ StreamCommitted
    BY DEF OutboxFilled, StoredUnderway, StreamCommitted
<1>3. DispatchersHold /\ ConsumersHold
    BY DEF DispatchersHold, ConsumersHold
<1>4. ProjectionFollows /\ NeverRejected
    BY DEF ProjectionFollows, NeverRejected
<1> QED BY <1>1, <1>2, <1>3, <1>4 DEF DeliveryInv

\* What a dispatcher holds has its type.
LEMMA DispatcherHeld ==
    ASSUME TypeOK, NEW d \in Dispatchers, dispatchers[d].pc # "idle"
    PROVE  /\ dispatchers[d].event \in Events
           /\ dispatchers[d].pc \in {"fetched", "acknowledged"}
BY DEF TypeOK, DispatcherState

\* What a consumer holds has its type.
LEMMA ConsumerHeld ==
    ASSUME TypeOK, NEW c \in Consumers, consumers[c].pc # "idle"
    PROVE  /\ consumers[c].message \in Messages
           /\ consumers[c].message.event \in Events
           /\ consumers[c].pc \in {"received", "fresh", "settle", "reject"}
BY DEF TypeOK, ConsumerState, Messages

\* Only an idle process is Idle.
LEMMA DispatcherIdle ==
    ASSUME TypeOK, NEW d \in Dispatchers
    PROVE  dispatchers[d] = Idle <=> dispatchers[d].pc = "idle"
BY DEF TypeOK, DispatcherState, Idle

\* The same of a consumer.
LEMMA ConsumerIdle ==
    ASSUME TypeOK, NEW c \in Consumers
    PROVE  consumers[c] = Idle <=> consumers[c].pc = "idle"
BY DEF TypeOK, ConsumerState, Idle

\* The event of a release and a sequence.
LEMMA EventIsEvent ==
    ASSUME NEW r \in Releases, NEW n \in 1..2
    PROVE  /\ Event(r, n) \in Events
           /\ Event(r, n).release = r
           /\ Event(r, n).sequence = n
BY DEF Event, Events

\* An event is determined by its release and sequence.
LEMMA EventFields ==
    ASSUME NEW e \in Events
    PROVE  /\ e.release \in Releases
           /\ e.sequence \in 1..2
           /\ e = Event(e.release, e.sequence)
BY DEF Event, Events

-----------------------------------------------------------------------------
(* Control *)

\* A committed change of a release writes the event that announces it, and nothing else.
LEMMA ControlStep ==
    ASSUME DeliveryInv, NEW r \in Releases, NEW n \in 1..2,
           released[r] = n - 1,
           released' = [released EXCEPT ![r] = n],
           outbox' = [outbox EXCEPT ![Event(r, n)] = "pending"],
           UNCHANGED <<dispatchers, jetstream, environment, consumers, quarantine, failures>>
    PROVE  DeliveryInv'
<1> USE DEF DeliveryInv
<1>1. Event(r, n) \in Events /\ Event(r, n).release = r /\ Event(r, n).sequence = n
    BY EventIsEvent
<1>2. \A e \in Events : e # Event(r, n) => outbox'[e] = outbox[e]
    BY <1>1 DEF TypeOK
<1>3. outbox'[Event(r, n)] = "pending" /\ outbox[Event(r, n)] = "absent"
    BY <1>1 DEF TypeOK, OutboxFilled
<1>4. \A q \in Releases : released'[q] >= released[q] /\ released[q] \in 0..2 /\ released'[q] \in 0..2
    BY DEF TypeOK
<1>5. TypeOK'
    BY <1>1 DEF TypeOK, OutboxStates, jetstream, environment
<1>6. OutboxFilled'
    <2> SUFFICES ASSUME NEW e \in Events
                 PROVE  outbox'[e] # "absent" <=> e.sequence <= released'[e.release]
        BY DEF OutboxFilled
    <2>1. e.release \in Releases /\ e.sequence \in 1..2 /\ e = Event(e.release, e.sequence)
        BY EventFields
    <2>2. CASE e = Event(r, n)
        BY <2>2, <1>1, <1>3 DEF TypeOK
    <2>3. CASE e # Event(r, n)
        <3>1. outbox'[e] = outbox[e]
            BY <2>3, <1>2
        <3>2. CASE e.release # r
            BY <3>1, <3>2, <2>1 DEF OutboxFilled, TypeOK
        <3>3. CASE e.release = r
            <4>1. e.sequence # n
                BY <2>1, <2>3, <3>3
            <4> QED BY <3>1, <3>3, <4>1, <2>1 DEF OutboxFilled, TypeOK
        <3> QED BY <3>2, <3>3
    <2> QED BY <2>2, <2>3
<1>7. \A e \in Events : Underway(e) <=> Underway(e)'
    BY DEF Underway, jetstream, environment
<1>8. StoredUnderway'
    BY <1>2, <1>3, <1>7 DEF StoredUnderway, jetstream
<1>9. StreamCommitted'
    <2> SUFFICES ASSUME NEW m \in stream PROVE m.event.sequence <= released'[m.event.release]
        BY DEF StreamCommitted, jetstream
    <2>1. m.event \in Events
        BY DEF TypeOK, Messages
    <2> QED BY <2>1, <1>4, EventFields DEF StreamCommitted
<1>10. DispatchersHold'
    <2> SUFFICES ASSUME NEW d \in Dispatchers, dispatchers[d].pc # "idle"
                 PROVE  /\ outbox'[dispatchers[d].event] # "absent"
                        /\ dispatchers[d].pc = "acknowledged" => Underway(dispatchers[d].event)'
        BY DEF DispatchersHold
    <2>1. dispatchers[d].event \in Events
        BY DispatcherHeld
    <2> QED BY <2>1, <1>2, <1>3, <1>7 DEF DispatchersHold
<1>11. ConsumersHold'
    <2> SUFFICES ASSUME NEW c \in Consumers, consumers[c].pc # "idle"
                 PROVE  /\ consumers[c].message.event.sequence
                             <= released'[consumers[c].message.event.release]
                        /\ consumers[c].pc = "settle" => consumers[c].message.event \in inbox
                        /\ consumers[c].pc # "reject"
        BY DEF ConsumersHold, environment
    <2>1. consumers[c].message.event \in Events
        BY ConsumerHeld
    <2> QED BY <2>1, <1>4, EventFields DEF ConsumersHold
<1>12. ProjectionFollows'
    BY <1>4 DEF ProjectionFollows, TypeOK, environment
<1>13. NeverRejected'
    BY DEF NeverRejected
<1> QED BY <1>5, <1>6, <1>8, <1>9, <1>10, <1>11, <1>12, <1>13

-----------------------------------------------------------------------------
(* Dispatchers and JetStream *)

\* Once JetStream has acknowledged an event, it holds a copy or the event is applied: a copy
\* it recognises as a duplicate was settled only after that.
LEMMA StoreStep ==
    ASSUME DeliveryInv, NEW e \in Events, outbox[e] # "absent", Store(e)
    PROVE  /\ stream' \subseteq Messages
           /\ copies' \in [Events -> 0..MaxCopies]
           /\ deliveries' = deliveries
           /\ stream \subseteq stream'
           /\ \A m \in stream' : m \in stream \/ m.event = e
           /\ \A f \in Events : copies'[f] > 0 => copies[f] > 0 \/ f = e
           /\ e \in inbox \/ \E m \in stream' : m.event = e
<1> USE DeliveryAssumption DEF DeliveryInv
<1>1. copies[e] \in 0..MaxCopies
    BY DEF TypeOK
<1>2. CASE /\ copies[e] < MaxCopies
           /\ stream' = stream \cup {[event |-> e, copy |-> copies[e] + 1]}
           /\ copies' = [copies EXCEPT ![e] = @ + 1]
           /\ UNCHANGED deliveries
    <2>1. [event |-> e, copy |-> copies[e] + 1] \in Messages
        BY <1>1, <1>2 DEF Messages
    <2> QED BY <1>1, <1>2, <2>1 DEF TypeOK
<1>3. CASE copies[e] > 0 /\ UNCHANGED jetstream
    BY <1>3 DEF TypeOK, StoredUnderway, Underway, jetstream
<1> QED BY <1>2, <1>3 DEF Store

\* A step of a dispatcher: it may store a message of the row it holds, mark that row once it
\* is underway, and moves on.
LEMMA DispatcherMove ==
    ASSUME DeliveryInv, NEW d \in Dispatchers, NEW next \in DispatcherState,
           dispatchers' = [dispatchers EXCEPT ![d] = next],
           next.pc # "idle" =>
               /\ outbox[next.event] # "absent"
               /\ next.pc = "acknowledged" =>
                      next.event \in inbox \/ \E m \in stream' : m.event = next.event,
           outbox' \in [Events -> OutboxStates],
           \A e \in Events :
               \/ outbox'[e] = outbox[e]
               \/ outbox[e] # "absent" /\ outbox'[e] = "published" /\ Underway(e),
           stream' \subseteq Messages,
           copies' \in [Events -> 0..MaxCopies],
           stream \subseteq stream',
           \A m \in stream' : m \in stream \/ outbox[m.event] # "absent",
           \A e \in Events : copies'[e] > 0 =>
               copies[e] > 0 \/ e \in inbox \/ \E m \in stream' : m.event = e,
           failures' \in Nat,
           UNCHANGED <<released, deliveries, environment, consumers, quarantine>>
    PROVE  DeliveryInv'
<1> USE DEF DeliveryInv
<1>1. TypeOK'
    BY DEF TypeOK, environment
<1>2. \A e \in Events : Underway(e) => Underway(e)'
    BY DEF Underway, environment
<1>3. \A e \in Events : (e \in inbox \/ \E m \in stream' : m.event = e) => Underway(e)'
    BY DEF Underway, environment
<1>4. OutboxFilled'
    BY DEF OutboxFilled
<1>5. StoredUnderway'
    BY <1>2, <1>3 DEF StoredUnderway
<1>6. StreamCommitted'
    <2> SUFFICES ASSUME NEW m \in stream' PROVE m.event.sequence <= released[m.event.release]
        BY DEF StreamCommitted
    <2>1. m.event \in Events
        BY DEF Messages
    <2> QED BY <2>1 DEF StreamCommitted, OutboxFilled
<1>7. DispatchersHold'
    <2> SUFFICES ASSUME NEW x \in Dispatchers, dispatchers'[x].pc # "idle"
                 PROVE  /\ outbox'[dispatchers'[x].event] # "absent"
                        /\ dispatchers'[x].pc = "acknowledged" => Underway(dispatchers[x].event)'
        BY DEF DispatchersHold
    <2>1. CASE x = d
        <3>1. dispatchers'[x] = next
            BY <2>1 DEF TypeOK
        <3>2. next.event \in Events
            BY <3>1 DEF DispatcherState
        <3> QED BY <3>1, <3>2, <1>3
    <2>2. CASE x # d
        <3>1. dispatchers'[x] = dispatchers[x]
            BY <2>2 DEF TypeOK
        <3>2. dispatchers[x].event \in Events
            BY <3>1, DispatcherHeld
        <3> QED BY <3>1, <3>2, <1>2 DEF DispatchersHold
    <2> QED BY <2>1, <2>2
<1>8. ConsumersHold' /\ ProjectionFollows' /\ NeverRejected'
    BY DEF ConsumersHold, ProjectionFollows, NeverRejected, environment
<1> QED BY <1>1, <1>4, <1>5, <1>6, <1>7, <1>8

\* Every step of a dispatcher keeps the invariant.
LEMMA DispatcherSteps ==
    ASSUME DeliveryInv, NEW d \in Dispatchers, DispatcherStep(d) \/ DispatchFails(d)
    PROVE  DeliveryInv'
<1>1. TypeOK
    BY DEF DeliveryInv
<1>2. Idle \in DispatcherState /\ Idle.pc = "idle"
    BY DEF Idle, DispatcherState
<1>3. ASSUME dispatchers[d].pc # "idle"
      PROVE  /\ dispatchers[d].event \in Events
             /\ outbox[dispatchers[d].event] # "absent"
             /\ dispatchers[d].pc = "acknowledged" => Underway(dispatchers[d].event)
    BY <1>3, <1>1, DispatcherHeld DEF DeliveryInv, DispatchersHold
<1>4. ASSUME NEW e \in Events, Fetch(d, e) PROVE DeliveryInv'
    <2> DEFINE next == [pc |-> "fetched", event |-> e]
    <2>1. next \in DispatcherState /\ next.pc = "fetched" /\ next.event = e
        BY DEF DispatcherState
    <2>2. dispatchers' = [dispatchers EXCEPT ![d] = next] /\ outbox[e] = "pending"
        BY <1>4 DEF Fetch
    <2>3. UNCHANGED <<control, jetstream, environment, consumers, quarantine, failures>>
        BY <1>4 DEF Fetch
    <2> HIDE DEF next
    <2> QED BY <1>1, <2>1, <2>2, <2>3, DispatcherMove DEF TypeOK, control, jetstream
<1>5. CASE Publish(d)
    <2> DEFINE next == Dispatching(d, "acknowledged")
               e == dispatchers[d].event
    <2>1. e \in Events /\ outbox[e] # "absent"
        BY <1>5, <1>3 DEF Publish
    <2>2. next \in DispatcherState /\ next.pc = "acknowledged" /\ next.event = e
        BY <2>1 DEF DispatcherState, Dispatching
    <2>3. dispatchers' = [dispatchers EXCEPT ![d] = next] /\ Store(e)
        BY <1>5 DEF Publish
    <2>4. UNCHANGED <<control, environment, consumers, quarantine, failures>>
        BY <1>5 DEF Publish
    <2> HIDE DEF next, e
    <2>5. /\ stream' \subseteq Messages
          /\ copies' \in [Events -> 0..MaxCopies]
          /\ deliveries' = deliveries
          /\ stream \subseteq stream'
          /\ \A m \in stream' : m \in stream \/ m.event = e
          /\ \A f \in Events : copies'[f] > 0 => copies[f] > 0 \/ f = e
          /\ e \in inbox \/ \E m \in stream' : m.event = e
        BY <2>1, <2>3, StoreStep
    <2> QED BY <1>1, <2>1, <2>2, <2>3, <2>4, <2>5, DispatcherMove DEF TypeOK, control
<1>6. CASE MarkPublished(d)
    <2> DEFINE e == dispatchers[d].event
    <2>1. e \in Events /\ outbox[e] # "absent" /\ Underway(e)
        BY <1>6, <1>3 DEF MarkPublished
    <2>2. /\ dispatchers' = [dispatchers EXCEPT ![d] = Idle]
          /\ outbox' = [outbox EXCEPT ![e] = "published"]
        BY <1>6 DEF MarkPublished
    <2>3. UNCHANGED <<released, jetstream, environment, consumers, quarantine, failures>>
        BY <1>6 DEF MarkPublished
    <2> HIDE DEF e
    <2>4. /\ outbox' \in [Events -> OutboxStates]
          /\ \A f \in Events :
                 \/ outbox'[f] = outbox[f]
                 \/ outbox[f] # "absent" /\ outbox'[f] = "published" /\ Underway(f)
        BY <1>1, <2>1, <2>2 DEF TypeOK, OutboxStates
    <2> QED BY <1>1, <1>2, <2>2, <2>3, <2>4, DispatcherMove DEF TypeOK, jetstream
<1>7. CASE DispatchFails(d)
    <2> DEFINE e == dispatchers[d].event
    <2>1. dispatchers[d].pc # "idle"
        BY <1>7, <1>1, DispatcherIdle DEF DispatchFails
    <2>2. e \in Events /\ outbox[e] # "absent"
        BY <2>1, <1>3
    <2>3. /\ dispatchers' = [dispatchers EXCEPT ![d] = Idle]
          /\ UNCHANGED <<control, environment, consumers, quarantine>>
          /\ failures' \in Nat
          /\ Store(e) \/ UNCHANGED jetstream
        BY <1>7, <1>1 DEF DispatchFails, TypeOK
    <2> HIDE DEF e
    <2>4. CASE Store(e)
        <3>1. /\ stream' \subseteq Messages
              /\ copies' \in [Events -> 0..MaxCopies]
              /\ deliveries' = deliveries
              /\ stream \subseteq stream'
              /\ \A m \in stream' : m \in stream \/ m.event = e
              /\ \A f \in Events : copies'[f] > 0 => copies[f] > 0 \/ f = e
              /\ e \in inbox \/ \E m \in stream' : m.event = e
            BY <2>2, <2>4, StoreStep
        <3> QED BY <1>1, <1>2, <2>2, <2>3, <3>1, DispatcherMove DEF TypeOK, control
    <2>5. CASE UNCHANGED jetstream
        BY <1>1, <1>2, <2>3, <2>5, DispatcherMove DEF TypeOK, control, jetstream
    <2> QED BY <2>3, <2>4, <2>5
<1> QED BY <1>4, <1>5, <1>6, <1>7 DEF DispatcherStep

-----------------------------------------------------------------------------
(* Consumers *)

\* A step of a consumer that leaves its database alone: it settles at most a message whose
\* event is applied.
LEMMA ConsumerMove ==
    ASSUME DeliveryInv, NEW c \in Consumers, NEW next \in ConsumerState,
           consumers' = [consumers EXCEPT ![c] = next],
           next.pc # "idle" =>
               /\ next.message.event.sequence <= released[next.message.event.release]
               /\ next.pc = "settle" => next.message.event \in inbox
               /\ next.pc # "reject",
           stream' \subseteq stream,
           \A m \in stream : m \in stream' \/ m.event \in inbox,
           failures' \in Nat,
           deliveries' \in [Messages -> 0..MaxDeliver],
           UNCHANGED <<control, dispatchers, copies, environment, quarantine>>
    PROVE  DeliveryInv'
<1> USE DEF DeliveryInv
<1>1. TypeOK'
    BY DEF TypeOK, control, environment
<1>2. \A e \in Events : Underway(e) => Underway(e)'
    BY DEF Underway, environment
<1>3. OutboxFilled' /\ StoredUnderway' /\ StreamCommitted'
    BY <1>2 DEF OutboxFilled, StoredUnderway, StreamCommitted, control
<1>4. DispatchersHold'
    <2> SUFFICES ASSUME NEW d \in Dispatchers, dispatchers[d].pc # "idle"
                 PROVE  /\ outbox[dispatchers[d].event] # "absent"
                        /\ dispatchers[d].pc = "acknowledged" => Underway(dispatchers[d].event)'
        BY DEF DispatchersHold, control
    <2>1. dispatchers[d].event \in Events
        BY DispatcherHeld
    <2>2. Underway(dispatchers[d].event) => Underway(dispatchers[d].event)'
        BY <2>1, <1>2
    <2> QED BY <2>2 DEF DispatchersHold
<1>5. ConsumersHold'
    <2> SUFFICES ASSUME NEW x \in Consumers, consumers'[x].pc # "idle"
                 PROVE  /\ consumers'[x].message.event.sequence
                             <= released[consumers'[x].message.event.release]
                        /\ consumers'[x].pc = "settle" => consumers'[x].message.event \in inbox
                        /\ consumers'[x].pc # "reject"
        BY DEF ConsumersHold, control, environment
    <2>1. CASE x = c
        BY <2>1 DEF TypeOK
    <2>2. CASE x # c
        BY <2>2 DEF TypeOK, ConsumersHold
    <2> QED BY <2>1, <2>2
<1>6. ProjectionFollows' /\ NeverRejected'
    BY DEF ProjectionFollows, NeverRejected, control, environment
<1> QED BY <1>1, <1>3, <1>4, <1>5, <1>6

\* An event the Inbox accepts is the next of its release, and fits the projection.
LEMMA Decided ==
    ASSUME DeliveryInv, NEW e \in Events
    PROVE  /\ InboxDecision(e) = "Stale" => e \in inbox
           /\ InboxDecision(e) = "Accepted" =>
                  e.sequence = watermark[e.release] + 1 /\ Projects(e)
           /\ InboxDecision(e) \in {"Stale", "Gap", "Accepted"}
<1>1. e.release \in Releases /\ e.sequence \in 1..2 /\ e = Event(e.release, e.sequence)
    BY EventFields
<1>2. /\ watermark[e.release] \in 0..2
      /\ projection[e.release] = watermark[e.release]
      /\ e.sequence <= watermark[e.release] => e \in inbox
    BY <1>1 DEF DeliveryInv, TypeOK, ProjectionFollows
<1> QED BY <1>1, <1>2 DEF InboxDecision, Projects

\* The transaction that applies an event advances watermark, Inbox and projection together.
LEMMA AcceptStep ==
    ASSUME DeliveryInv, NEW c \in Consumers, AcceptEvent(c)
    PROVE  DeliveryInv'
<1> DEFINE e == consumers[c].message.event
           r == e.release
           n == e.sequence
           next == Consuming(c, "settle")
<1>1. TypeOK /\ consumers[c].pc = "fresh"
    BY DEF DeliveryInv, AcceptEvent
<1>2. consumers[c].message \in Messages /\ e \in Events /\ n <= released[r]
    BY <1>1, ConsumerHeld DEF DeliveryInv, ConsumersHold
<1>3. r \in Releases /\ n \in 1..2 /\ e = Event(r, n)
    BY <1>2, EventFields
<1>4. n = watermark[r] + 1
    BY <1>2, Decided DEF AcceptEvent
<1>5. /\ inbox' = inbox \cup {e}
      /\ watermark' = [watermark EXCEPT ![r] = n]
      /\ projection' = [projection EXCEPT ![r] = n]
      /\ consumers' = [consumers EXCEPT ![c] = next]
      /\ UNCHANGED <<control, dispatchers, jetstream, quarantine, failures>>
    BY DEF AcceptEvent, Advance
<1>6. /\ next \in ConsumerState
      /\ next.pc = "settle"
      /\ next.message.event = e
    BY <1>2 DEF Consuming, ConsumerState
<1> HIDE DEF e, r, n, next
<1>7. TypeOK'
    BY <1>1, <1>2, <1>3, <1>5, <1>6 DEF TypeOK, control, jetstream
<1>8. \A f \in Events : Underway(f) => Underway(f)'
    BY <1>5 DEF Underway, jetstream
<1>9. OutboxFilled' /\ StoredUnderway' /\ StreamCommitted' /\ NeverRejected'
    BY <1>5, <1>8 DEF DeliveryInv, OutboxFilled, StoredUnderway, StreamCommitted, NeverRejected,
                      control, jetstream
<1>10. DispatchersHold'
    <2> SUFFICES ASSUME NEW d \in Dispatchers, dispatchers[d].pc # "idle"
                 PROVE  /\ outbox[dispatchers[d].event] # "absent"
                        /\ dispatchers[d].pc = "acknowledged" => Underway(dispatchers[d].event)'
        BY <1>5 DEF DispatchersHold, control
    <2>1. dispatchers[d].event \in Events
        BY <1>1, DispatcherHeld
    <2>2. Underway(dispatchers[d].event) => Underway(dispatchers[d].event)'
        BY <2>1, <1>8, <1>5
    <2> QED BY <2>2 DEF DeliveryInv, DispatchersHold
<1>11. ConsumersHold'
    <2> SUFFICES ASSUME NEW x \in Consumers, consumers'[x].pc # "idle"
                 PROVE  /\ consumers'[x].message.event.sequence
                             <= released[consumers'[x].message.event.release]
                        /\ consumers'[x].pc = "settle" => consumers'[x].message.event \in inbox'
                        /\ consumers'[x].pc # "reject"
        BY <1>5 DEF ConsumersHold, control
    <2>1. CASE x = c
        <3>1. consumers'[x] = next
            BY <2>1, <1>1, <1>5 DEF TypeOK
        <3>2. n <= released[r] /\ n = e.sequence /\ r = e.release
            BY <1>2 DEF n, r
        <3> QED BY <3>1, <3>2, <1>5, <1>6
    <2>2. CASE x # c
        <3>1. consumers'[x] = consumers[x]
            BY <2>2, <1>1, <1>5 DEF TypeOK
        <3> QED BY <3>1, <1>5 DEF DeliveryInv, ConsumersHold
    <2> QED BY <2>1, <2>2
<1>12. ProjectionFollows'
    <2> SUFFICES ASSUME NEW q \in Releases
                 PROVE  /\ projection'[q] = watermark'[q]
                        /\ watermark'[q] <= released[q]
                        /\ \A k \in 1..2 : Event(q, k) \in inbox' <=> k <= watermark'[q]
        BY <1>5 DEF ProjectionFollows, control
    <2>1. /\ projection[q] = watermark[q]
          /\ watermark[q] <= released[q]
          /\ \A k \in 1..2 : Event(q, k) \in inbox <=> k <= watermark[q]
        BY DEF DeliveryInv, ProjectionFollows
    <2>2. CASE q = r
        <3>1. watermark'[q] = n /\ projection'[q] = n /\ n <= released[q] /\ watermark[q] = n - 1
            BY <2>2, <1>1, <1>2, <1>3, <1>4, <1>5 DEF TypeOK
        <3>2. ASSUME NEW k \in 1..2 PROVE Event(q, k) \in inbox' <=> k <= n
            <4>1. Event(q, k) = e <=> k = n
                BY <1>3, <2>2, EventIsEvent
            <4> QED BY <4>1, <3>1, <2>1, <1>3, <1>5
        <3> QED BY <3>1, <3>2
    <2>3. CASE q # r
        <3>1. watermark'[q] = watermark[q] /\ projection'[q] = projection[q]
            BY <2>3, <1>1, <1>5 DEF TypeOK
        <3>2. ASSUME NEW k \in 1..2 PROVE Event(q, k) # e
            BY <1>3, <2>3, EventIsEvent
        <3> QED BY <3>1, <3>2, <2>1, <1>5
    <2> QED BY <2>2, <2>3
<1> QED BY <1>7, <1>9, <1>10, <1>11, <1>12 DEF DeliveryInv

\* Every step of a consumer keeps the invariant.
LEMMA ConsumerSteps ==
    ASSUME DeliveryInv, NEW c \in Consumers,
           (\E m \in Messages : Receive(c, m)) \/ ConsumerStep(c) \/ ConsumeFails(c)
    PROVE  DeliveryInv'
<1>1. TypeOK
    BY DEF DeliveryInv
<1>2. Idle \in ConsumerState /\ Idle.pc = "idle"
    BY DEF Idle, ConsumerState
<1>3. ASSUME consumers[c].pc # "idle"
      PROVE  /\ consumers[c].message \in Messages
             /\ consumers[c].message.event \in Events
             /\ consumers[c].message.event.sequence
                    <= released[consumers[c].message.event.release]
             /\ consumers[c].pc = "settle" => consumers[c].message.event \in inbox
             /\ consumers[c].pc # "reject"
    BY <1>3, <1>1, ConsumerHeld DEF DeliveryInv, ConsumersHold
<1>4. ASSUME NEW m \in Messages, Receive(c, m) PROVE DeliveryInv'
    <2> DEFINE next == [pc |-> "received", message |-> m]
    <2>1. next \in ConsumerState /\ next.pc = "received" /\ next.message = m
        BY DEF ConsumerState
    <2>2. /\ consumers' = [consumers EXCEPT ![c] = next]
          /\ m.event.sequence <= released[m.event.release]
          /\ UNCHANGED <<control, dispatchers, stream, copies, environment, quarantine, failures>>
        BY <1>4 DEF Receive, DeliveryInv, StreamCommitted
    <2>3. deliveries' \in [Messages -> 0..MaxDeliver]
        BY <1>1, <1>4, DeliveryAssumption DEF Receive, TypeOK
    <2> HIDE DEF next
    <2> QED BY <1>1, <2>1, <2>2, <2>3, ConsumerMove DEF TypeOK
<1>5. CASE CheckDuplicate(c)
    <2> DEFINE pc == IF consumers[c].message.event \in inbox THEN "settle" ELSE "fresh"
               next == Consuming(c, pc)
    <2>1. /\ consumers[c].message \in Messages
          /\ consumers[c].message.event.sequence
                 <= released[consumers[c].message.event.release]
        BY <1>5, <1>3 DEF CheckDuplicate
    <2>2. /\ next \in ConsumerState
          /\ next.pc \in {"settle", "fresh"}
          /\ next.pc = "settle" => consumers[c].message.event \in inbox
          /\ next.message = consumers[c].message
        BY <2>1 DEF ConsumerState, Consuming
    <2>3. /\ consumers' = [consumers EXCEPT ![c] = next]
          /\ UNCHANGED <<control, dispatchers, jetstream, environment, quarantine, failures>>
        BY <1>5 DEF CheckDuplicate
    <2> HIDE DEF next
    <2> QED BY <1>1, <2>1, <2>2, <2>3, ConsumerMove DEF TypeOK, jetstream
<1>6. CASE AcceptEvent(c)
    BY <1>6, AcceptStep
<1>7. CASE RefuseEvent(c)
    <2> DEFINE e == consumers[c].message.event
               next == AfterRefusal(c)
    <2>1. /\ consumers[c].message \in Messages
          /\ e \in Events
          /\ e.sequence <= released[e.release]
        BY <1>7, <1>3 DEF RefuseEvent
    <2>2. /\ InboxDecision(e) = "Stale" => e \in inbox
          /\ InboxDecision(e) \in {"Stale", "Gap"}
        BY <1>7, <2>1, Decided DEF RefuseEvent
    <2>3. /\ next \in ConsumerState
          /\ next.pc \in {"idle", "settle"}
          /\ next.pc = "settle" => e \in inbox /\ next.message = consumers[c].message
        BY <1>2, <2>1, <2>2 DEF AfterRefusal, Consuming, ConsumerState
    <2>4. /\ consumers' = [consumers EXCEPT ![c] = next]
          /\ UNCHANGED <<control, dispatchers, jetstream, environment, quarantine, failures>>
        BY <1>7 DEF RefuseEvent
    <2> HIDE DEF next
    <2> QED BY <1>1, <2>1, <2>3, <2>4, ConsumerMove DEF TypeOK, jetstream
<1>8. CASE Settle(c)
    <2> DEFINE m == consumers[c].message
    <2>1. consumers[c].pc = "settle" /\ m.event \in inbox
        BY <1>8, <1>3 DEF Settle
    <2>2. /\ consumers' = [consumers EXCEPT ![c] = Idle]
          /\ stream' = stream \ {m}
          /\ UNCHANGED <<control, dispatchers, copies, deliveries, environment, quarantine,
                         failures>>
        BY <1>8, <2>1 DEF Settle
    <2> HIDE DEF m
    <2> QED BY <1>1, <1>2, <2>1, <2>2, ConsumerMove DEF TypeOK
<1>9. CASE ConsumeFails(c)
    <2>1. /\ consumers' = [consumers EXCEPT ![c] = Idle]
          /\ failures' \in Nat
          /\ UNCHANGED <<control, dispatchers, jetstream, environment, quarantine>>
        BY <1>9, <1>1 DEF ConsumeFails, TypeOK
    <2> QED BY <1>1, <1>2, <2>1, ConsumerMove DEF TypeOK, jetstream
<1> QED BY <1>4, <1>5, <1>6, <1>7, <1>8, <1>9 DEF ConsumerStep

-----------------------------------------------------------------------------

\* The invariant is kept by every step.
LEMMA NextDelivery == DeliveryInv /\ [Next]_vars => DeliveryInv'
<1> SUFFICES ASSUME DeliveryInv, [Next]_vars PROVE DeliveryInv'
    OBVIOUS
<1>1. ASSUME NEW r \in Releases, CreateRelease(r) PROVE DeliveryInv'
    <2>1. 1 \in 1..2 /\ released[r] = 1 - 1
        BY <1>1 DEF CreateRelease
    <2> QED BY <1>1, <2>1, ControlStep, Zenon DEF CreateRelease
<1>2. ASSUME NEW r \in Releases, WithdrawRelease(r) PROVE DeliveryInv'
    <2>1. 2 \in 1..2 /\ released[r] = 2 - 1
        BY <1>2 DEF WithdrawRelease
    <2> QED BY <1>2, <2>1, ControlStep, Zenon DEF WithdrawRelease
<1>3. ASSUME NEW d \in Dispatchers, DispatcherStep(d) \/ DispatchFails(d) PROVE DeliveryInv'
    BY <1>3, DispatcherSteps
<1>4. ASSUME NEW c \in Consumers,
             (\E m \in Messages : Receive(c, m)) \/ ConsumerStep(c) \/ ConsumeFails(c)
      PROVE  DeliveryInv'
    BY <1>4, ConsumerSteps
<1>5. CASE UNCHANGED vars
    BY <1>5 DEF vars, control, jetstream, environment, DeliveryInv, TypeOK, OutboxFilled,
                StoredUnderway, StreamCommitted, DispatchersHold, ConsumersHold,
                ProjectionFollows, NeverRejected, Underway
<1> QED BY <1>1, <1>2, <1>3, <1>4, <1>5 DEF Next

\* The invariant holds throughout.
LEMMA DeliveryInvariant == Spec => []DeliveryInv
BY InitDelivery, NextDelivery, PTL DEF Spec

\* No release event is lost between the two databases, however many processes dispatch and
\* consume, and whatever is duplicated, redelivered or fails.
THEOREM ReleaseNeverLost == Spec => []NothingLost
<1>1. DeliveryInv => NothingLost
    BY DEF DeliveryInv, TypeOK, OutboxStates, OutboxFilled, StoredUnderway, NothingLost
<1> QED BY <1>1, DeliveryInvariant, PTL

\* Release events are applied once, in order and never ahead of Control.
THEOREM ProjectionInOrder == Spec => []ProjectionFollows
BY DeliveryInvariant, PTL DEF DeliveryInv

\* No release event is ever quarantined.
THEOREM ReleaseNeverRejected == Spec => []NeverRejected
BY DeliveryInvariant, PTL DEF DeliveryInv

\* Every committed release event is under way or applied, once and in order.
THEOREM ReleasesAlwaysDelivered == Spec => []ReleasesDelivered
BY ReleaseNeverLost, ProjectionInOrder, ReleaseNeverRejected, PTL DEF ReleasesDelivered

-----------------------------------------------------------------------------
(***************************************************************************)
(* The events of a course                                                  *)
(***************************************************************************)

\* The committed events are a prefix of the sequences, and the one transaction that has
\* inserted holds the next one.
SequenceFits ==
  /\ \A n \in Sequences1 : eventRow[n] = "none" <=> n > lastSequence
  /\ \A w \in Writers : appended[w] # 0 => appended[w] = lastSequence + 1
  /\ \A w, v \in Writers : appended[w] # 0 /\ appended[v] # 0 => w = v

\* A client has every live event up to its last, and what is pending for it begins right
\* after that and leaves no live event out.
ClientFits(c) ==
  /\ c.last <= lastSequence
  /\ c.open => c.cursor = c.last
  /\ ~c.open => c.pending = {}
  /\ \A n \in c.pending : n > c.last /\ n <= lastSequence
  /\ \A n \in Sequences1 : n <= c.last /\ eventRow[n] = "live" => n \in c.seen
  /\ \A m \in c.pending, n \in Sequences1 :
       n > c.last /\ n < m /\ eventRow[n] = "live" => n \in c.pending

CourseInv ==
  /\ CourseTypeOK
  /\ SequenceFits
  /\ \A r \in Clients : ClientFits(client[r])

ClientState ==
  [open : BOOLEAN, cursor : 0..MaxCourseEvents, pending : SUBSET Sequences1,
   last : 0..MaxCourseEvents, seen : SUBSET Sequences1]

\* An empty course.
LEMMA InitCourse == CourseInit => CourseInv
<1> SUFFICES ASSUME CourseInit PROVE CourseInv
  OBVIOUS
<1>1. MaxCourseEvents \in Nat /\ MaxDrops \in Nat
  BY CourseAssumption
<1>2. NewClient \in ClientState
  BY <1>1 DEF NewClient, ClientState
<1>3. CourseTypeOK
  BY <1>1, <1>2 DEF CourseInit, CourseTypeOK, ClientState, Sequences1
<1>4. SequenceFits
  BY <1>1 DEF CourseInit, SequenceFits, Sequences1
<1>5. ClientFits(NewClient)
  BY <1>1 DEF CourseInit, ClientFits, NewClient, Sequences1
<1> QED BY <1>3, <1>4, <1>5 DEF CourseInv, CourseInit

\* A client is left as it is by a step under which no event up to the last one becomes live.
LEMMA ClientStands ==
  ASSUME CourseInv, CourseTypeOK', NEW c \in ClientState, ClientFits(c),
         lastSequence <= lastSequence',
         \A n \in Sequences1 : n <= lastSequence /\ eventRow'[n] = "live" => eventRow[n] = "live"
  PROVE  ClientFits(c)'
<1>1. lastSequence \in Nat /\ lastSequence' \in Nat
  BY CourseAssumption DEF CourseInv, CourseTypeOK
<1>2. c.last \in Nat /\ c.pending \subseteq Sequences1 /\ Sequences1 \subseteq Nat
  BY CourseAssumption DEF ClientState, Sequences1
<1>0. c.last <= lastSequence /\ \A n \in c.pending : n \in Nat /\ n <= lastSequence
  BY <1>2 DEF ClientFits
<1>3. /\ c.last <= lastSequence'
      /\ \A n \in c.pending : n <= lastSequence'
  BY <1>0, <1>1, <1>2
<1>4. \A n \in Sequences1 : n <= c.last /\ eventRow'[n] = "live" => eventRow[n] = "live"
  <2> SUFFICES ASSUME NEW n \in Sequences1, n <= c.last, eventRow'[n] = "live"
               PROVE  eventRow[n] = "live"
    OBVIOUS
  <2>1. n <= lastSequence
    BY <1>0, <1>1, <1>2
  <2> QED BY <2>1
<1>5. \A m \in c.pending, n \in Sequences1 :
        n < m /\ eventRow'[n] = "live" => eventRow[n] = "live"
  <2> SUFFICES ASSUME NEW m \in c.pending, NEW n \in Sequences1, n < m, eventRow'[n] = "live"
               PROVE  eventRow[n] = "live"
    OBVIOUS
  <2>1. m <= lastSequence /\ m \in Nat /\ n \in Nat
    BY <1>2 DEF ClientFits
  <2>2. n <= lastSequence
    BY <1>1, <2>1
  <2> QED BY <2>2
<1> QED BY <1>3, <1>4, <1>5 DEF ClientFits

\* The steps of the writers and of retention.
LEMMA WriterKeeps ==
  ASSUME CourseInv,
         \/ \E w \in Writers : AppendSse(w) \/ AppendCommits(w) \/ AppendAborts(w)
         \/ \E n \in Sequences1 : EventExpires(n)
         \/ PurgeExpiredSse
  PROVE  CourseInv'
<1>1. /\ MaxCourseEvents \in Nat /\ lastSequence \in 0..MaxCourseEvents
      /\ Sequences1 \subseteq Nat /\ Sequences1 = 1..MaxCourseEvents
  BY CourseAssumption DEF CourseInv, CourseTypeOK, Sequences1
<1>2. SequenceFits /\ CourseTypeOK
  BY DEF CourseInv
<1>3. /\ client' = client /\ CourseTypeOK' /\ SequenceFits'
      /\ lastSequence <= lastSequence'
      /\ \A n \in Sequences1 :
           n <= lastSequence /\ eventRow'[n] = "live" => eventRow[n] = "live"
  <2>1. ASSUME NEW w \in Writers, AppendSse(w) PROVE <1>3
    <3>1. /\ UNCHANGED <<eventRow, lastSequence, client, drops>>
          /\ appended' = [appended EXCEPT ![w] = lastSequence + 1]
          /\ \A v \in Writers : appended[v] = 0
          /\ lastSequence + 1 \in 0..MaxCourseEvents
      BY <1>1, <2>1 DEF AppendSse
    <3>2. CourseTypeOK'
      BY <1>2, <3>1 DEF CourseTypeOK
    <3>3. SequenceFits'
      BY <1>2, <3>1 DEF SequenceFits, CourseTypeOK
    <3> QED BY <1>1, <3>1, <3>2, <3>3
  <2>2. ASSUME NEW w \in Writers, AppendCommits(w) PROVE <1>3
    <3>1. appended[w] = lastSequence + 1 /\ appended[w] \in Sequences1
      BY <1>1, <1>2, <2>2 DEF AppendCommits, SequenceFits, CourseTypeOK
    <3>2. Greatest({lastSequence, appended[w]}) = lastSequence + 1
      BY <1>1, <3>1 DEF Greatest
    <3>3. /\ UNCHANGED <<client, drops>>
          /\ eventRow' = [eventRow EXCEPT ![lastSequence + 1] = "live"]
          /\ lastSequence' = lastSequence + 1
          /\ appended' = [appended EXCEPT ![w] = 0]
      BY <2>2, <3>1, <3>2 DEF AppendCommits
    <3>4. CourseTypeOK'
      BY <1>1, <1>2, <3>1, <3>3 DEF CourseTypeOK
    <3>5. \A v \in Writers : appended'[v] = 0
      BY <1>2, <2>2, <3>3 DEF SequenceFits, CourseTypeOK, AppendCommits
    <3>6. \A n \in Sequences1 : eventRow'[n] = IF n = lastSequence + 1 THEN "live" ELSE eventRow[n]
      BY <1>2, <3>3 DEF CourseTypeOK
    <3>7. SequenceFits'
      BY <1>1, <1>2, <3>3, <3>5, <3>6 DEF SequenceFits
    <3> QED BY <1>1, <3>3, <3>4, <3>6, <3>7
  <2>3. ASSUME NEW w \in Writers, AppendAborts(w) PROVE <1>3
    <3>1. /\ UNCHANGED <<eventRow, lastSequence, client, drops>>
          /\ appended' = [appended EXCEPT ![w] = 0]
      BY <2>3 DEF AppendAborts
    <3>2. CourseTypeOK'
      BY <1>1, <1>2, <3>1 DEF CourseTypeOK
    <3>3. SequenceFits'
      BY <1>2, <3>1 DEF SequenceFits, CourseTypeOK
    <3> QED BY <1>1, <3>1, <3>2, <3>3
  <2>4. ASSUME /\ UNCHANGED <<lastSequence, appended, client, drops>>
               /\ eventRow' \in [Sequences1 -> {"none", "live", "expired", "purged"}]
               /\ \A n \in Sequences1 : \/ eventRow'[n] = eventRow[n]
                                        \/ /\ eventRow[n] # "none"
                                           /\ eventRow'[n] \in {"expired", "purged"}
        PROVE  <1>3
    <3>1. CourseTypeOK' /\ SequenceFits'
      BY <1>2, <2>4 DEF SequenceFits, CourseTypeOK
    <3> QED BY <1>1, <2>4, <3>1
  <2>5. ASSUME NEW n \in Sequences1, EventExpires(n) PROVE <1>3
    BY <1>2, <2>4, <2>5 DEF EventExpires, CourseTypeOK
  <2>6. ASSUME PurgeExpiredSse PROVE <1>3
    BY <1>2, <2>4, <2>6 DEF PurgeExpiredSse, CourseTypeOK
  <2> QED BY <2>1, <2>2, <2>3, <2>5, <2>6
<1>4. ASSUME NEW r \in Clients PROVE ClientFits(client[r])'
  <2>1. client[r] \in ClientState /\ ClientFits(client[r])
    BY DEF CourseInv, CourseTypeOK, ClientState
  <2>2. PICK c \in ClientState : c = client[r]
    BY <2>1
  <2>3. ClientFits(c)'
    BY <1>3, <2>1, <2>2, ClientStands
  <2>4. c = client'[r]
    BY <1>3, <2>2
  <2> QED BY <2>3, <2>4 DEF ClientFits
<1> QED BY <1>3, <1>4 DEF CourseInv

\* A page has no gap: the live events before one of a page are in it.
LEMMA PageClosed ==
  ASSUME CourseTypeOK, NEW cursor \in Nat
  PROVE  /\ SsePage(cursor) \subseteq Sequences1
         /\ \A n \in SsePage(cursor) : n > cursor /\ eventRow[n] = "live"
         /\ \A m \in SsePage(cursor), n \in Sequences1 :
              n > cursor /\ n < m /\ eventRow[n] = "live" => n \in SsePage(cursor)
<1> DEFINE after == {n \in Sequences1 : n > cursor /\ eventRow[n] = "live"}
           upTo(n) == {m \in after : m <= n}
<1>1. SsePage(cursor) = {n \in after : Cardinality(upTo(n)) <= PageLimit}
  BY DEF SsePage
<1>2. Sequences1 \subseteq Nat /\ IsFiniteSet(Sequences1) /\ PageLimit \in Nat
  BY CourseAssumption, FS_Interval DEF Sequences1
<1>3. ASSUME NEW m \in SsePage(cursor), NEW n \in after, n < m PROVE n \in SsePage(cursor)
  <2>1. m \in Nat /\ n \in Nat /\ m \in after
    BY <1>1, <1>2
  <2>2. upTo(n) \subseteq upTo(m) /\ upTo(m) \subseteq Sequences1
    <3>1. ASSUME NEW x \in upTo(n) PROVE x \in upTo(m)
      <4>1. x \in after /\ x <= n /\ x \in Nat
        BY <1>2
      <4>2. x <= m
        BY <1>3, <2>1, <4>1
      <4> QED BY <4>1, <4>2
    <3>2. upTo(m) \subseteq after /\ after \subseteq Sequences1
      OBVIOUS
    <3> HIDE DEF upTo
    <3> QED BY <3>1, <3>2
  <2>3. IsFiniteSet(upTo(m))
    <3> HIDE DEF upTo
    <3> QED BY <1>2, <2>2, FS_Subset
  <2>4. /\ Cardinality(upTo(n)) <= Cardinality(upTo(m))
        /\ Cardinality(upTo(n)) \in Nat /\ Cardinality(upTo(m)) \in Nat
    <3> HIDE DEF upTo
    <3> QED BY <2>2, <2>3, FS_Subset, FS_CardinalityType
  <2>5. Cardinality(upTo(m)) <= PageLimit
    BY <1>1
  <2> HIDE DEF upTo
  <2>6. Cardinality(upTo(n)) <= PageLimit
    BY <1>2, <2>4, <2>5
  <2> QED BY <1>1, <2>6
<1> QED BY <1>1, <1>3

\* A client that changes fits again, and the others are not concerned.
LEMMA OneClient ==
  ASSUME CourseInv, NEW r \in Clients, NEW c \in ClientState, ClientFits(c),
         client' = [client EXCEPT ![r] = c], UNCHANGED <<eventRow, lastSequence, appended>>,
         drops' \in 0..MaxDrops
  PROVE  CourseInv'
<1>1. CourseTypeOK /\ SequenceFits /\ \A q \in Clients : ClientFits(client[q])
  BY DEF CourseInv
<1>2. CourseTypeOK'
  BY <1>1 DEF CourseTypeOK, ClientState
<1>3. SequenceFits'
  BY <1>1 DEF SequenceFits
<1>4. \A q \in Clients : client'[q] = IF q = r THEN c ELSE client[q]
  BY <1>1 DEF CourseTypeOK
<1>5. \A q \in Clients : ClientFits(client'[q])
  BY <1>1, <1>4
<1>6. \A x : ClientFits(x)' <=> ClientFits(x)
  BY DEF ClientFits
<1> QED BY <1>2, <1>3, <1>5, <1>6 DEF CourseInv

\* The steps of the readers.
LEMMA ReaderKeeps ==
  ASSUME CourseInv, NEW r \in Clients, ReaderStep(r) \/ StreamEnds(r)
  PROVE  CourseInv'
<1> DEFINE c == client[r]
<1>1. c \in ClientState /\ ClientFits(c) /\ CourseTypeOK /\ SequenceFits
  BY DEF CourseInv, CourseTypeOK, ClientState
<1>2. /\ MaxCourseEvents \in Nat /\ lastSequence \in Nat /\ drops \in 0..MaxDrops
      /\ Sequences1 \subseteq Nat /\ c.last \in Nat /\ c.cursor \in Nat
      /\ c.pending \subseteq Sequences1
  BY <1>1, CourseAssumption DEF CourseTypeOK, ClientState, Sequences1
<1>3. ASSUME NEW d \in ClientState, d.open, d.cursor = c.last, d.last = c.last,
             d.pending = SsePage(c.last), d.seen = c.seen
      PROVE  ClientFits(d)
  <2>1. \A n \in SsePage(c.last) : n \in Sequences1 /\ n > c.last /\ eventRow[n] = "live"
    BY <1>1, <1>2, PageClosed
  <2>2. \A n \in SsePage(c.last) : n <= lastSequence
    <3> SUFFICES ASSUME NEW n \in SsePage(c.last) PROVE n <= lastSequence
      OBVIOUS
    <3>1. n \in Nat /\ ~(n > lastSequence)
      BY <1>1, <1>2, <2>1 DEF SequenceFits
    <3> QED BY <1>2, <3>1
  <2>3. \A m \in SsePage(c.last), n \in Sequences1 :
          n > c.last /\ n < m /\ eventRow[n] = "live" => n \in SsePage(c.last)
    BY <1>1, <1>2, PageClosed
  <2> QED BY <1>1, <1>3, <2>1, <2>2, <2>3 DEF ClientFits
<1>4. SsePage(c.last) \subseteq Sequences1
  BY <1>1, <1>2, PageClosed
<1>5. CASE OpenStream(r)
  <2>1. CASE CursorCurrent(c.last)
    <3> DEFINE d == [c EXCEPT !.open = TRUE, !.cursor = c.last, !.pending = SsePage(c.last)]
    <3>1. d \in ClientState /\ d.open /\ d.cursor = c.last /\ d.last = c.last
          /\ d.pending = SsePage(c.last) /\ d.seen = c.seen
      BY <1>1, <1>4 DEF ClientState
    <3>2. client' = [client EXCEPT ![r] = d] /\ UNCHANGED <<eventRow, lastSequence, appended, drops>>
      BY <1>5, <2>1 DEF OpenStream
    <3> HIDE DEF d, c
    <3> QED BY <1>2, <1>3, <3>1, <3>2, OneClient
  <2>2. CASE ~CursorCurrent(c.last)
    <3>1. client' = [client EXCEPT ![r] = NewClient]
          /\ UNCHANGED <<eventRow, lastSequence, appended, drops>>
      BY <1>5, <2>2 DEF OpenStream
    <3>2. NewClient \in ClientState /\ ClientFits(NewClient)
      BY <1>2 DEF NewClient, ClientState, ClientFits, Sequences1
    <3> QED BY <1>2, <3>1, <3>2, OneClient
  <2> QED BY <2>1, <2>2
<1>6. CASE SendEvent(r)
  <2>1. PICK n \in c.pending :
             /\ \A m \in c.pending : n <= m
             /\ client' = [client EXCEPT ![r] =
                  [c EXCEPT !.cursor = n, !.pending = c.pending \ {n}, !.last = n,
                            !.seen = c.seen \cup {n}]]
    BY <1>6 DEF SendEvent
  <2> DEFINE d == [c EXCEPT !.cursor = n, !.pending = c.pending \ {n}, !.last = n,
                            !.seen = c.seen \cup {n}]
  <2>2. n \in Sequences1 /\ n \in 0..MaxCourseEvents
    BY <1>2 DEF Sequences1
  <2>3. d \in ClientState /\ d.open = c.open /\ d.cursor = n /\ d.last = n
        /\ d.pending = c.pending \ {n} /\ d.seen = c.seen \cup {n}
    BY <1>1, <2>2 DEF ClientState
  <2>4. c.open /\ UNCHANGED <<eventRow, lastSequence, appended, drops>>
    BY <1>6 DEF SendEvent
  <2>5. client' = [client EXCEPT ![r] = d]
    BY <2>1
  <2> HIDE DEF d
  <2>6. \A m \in d.pending : m > n /\ m <= lastSequence
    BY <1>1, <1>2, <2>1, <2>2, <2>3 DEF ClientFits
  <2>7. \A m \in Sequences1 : m <= n /\ eventRow[m] = "live" => m \in d.seen
    <3> SUFFICES ASSUME NEW m \in Sequences1, m <= n, eventRow[m] = "live"
                 PROVE  m = n \/ m \in c.seen
      BY <2>3
    <3>1. CASE m <= c.last
      BY <1>1, <3>1 DEF ClientFits
    <3>2. CASE m > c.last /\ m < n
      <4>1. m \in c.pending
        BY <1>1, <3>2 DEF ClientFits
      <4> QED BY <1>2, <2>1, <2>2, <3>2, <4>1
    <3> QED BY <1>2, <2>2, <3>1, <3>2
  <2>8. \A m \in d.pending, k \in Sequences1 :
          k > n /\ k < m /\ eventRow[k] = "live" => k \in d.pending
    <3> SUFFICES ASSUME NEW m \in d.pending, NEW k \in Sequences1, k > n, k < m,
                        eventRow[k] = "live"
                 PROVE  k \in c.pending /\ k # n
      BY <2>3
    <3>1. m \in c.pending /\ n > c.last
      BY <1>1, <2>3 DEF ClientFits
    <3>2. k > c.last /\ k # n
      BY <1>2, <2>2, <3>1
    <3> QED BY <1>1, <3>1, <3>2 DEF ClientFits
  <2>9. ClientFits(d)
    BY <1>1, <2>3, <2>4, <2>6, <2>7, <2>8 DEF ClientFits
  <2> QED BY <1>2, <2>3, <2>4, <2>5, <2>9, OneClient
<1>7. CASE PollPage(r)
  <2>0. c.open /\ c.cursor = c.last /\ c.pending = {}
    BY <1>1, <1>7 DEF PollPage, ClientFits
  <2>1. CASE CursorCurrent(c.cursor)
    <3> DEFINE d == [c EXCEPT !.pending = SsePage(c.cursor)]
    <3>1. d \in ClientState /\ d.open = c.open /\ d.cursor = c.cursor /\ d.last = c.last
          /\ d.pending = SsePage(c.last) /\ d.seen = c.seen
      BY <1>1, <1>4, <2>0 DEF ClientState
    <3>2. client' = [client EXCEPT ![r] = d] /\ UNCHANGED <<eventRow, lastSequence, appended, drops>>
      BY <1>7, <2>1 DEF PollPage
    <3> HIDE DEF d, c
    <3> QED BY <1>2, <1>3, <2>0, <3>1, <3>2, OneClient
  <2>2. CASE ~CursorCurrent(c.cursor)
    <3> DEFINE d == [c EXCEPT !.open = FALSE]
    <3>1. d \in ClientState /\ d.open = FALSE /\ d.last = c.last
          /\ d.pending = c.pending /\ d.seen = c.seen
      BY <1>1 DEF ClientState
    <3>2. client' = [client EXCEPT ![r] = d] /\ UNCHANGED <<eventRow, lastSequence, appended, drops>>
      BY <1>7, <2>2 DEF PollPage
    <3> HIDE DEF d, c
    <3>3. ClientFits(d)
      BY <1>1, <2>0, <3>1 DEF ClientFits
    <3> QED BY <1>2, <3>1, <3>2, <3>3, OneClient
  <2> QED BY <2>1, <2>2
<1>8. CASE StreamEnds(r)
  <2> DEFINE d == [c EXCEPT !.open = FALSE, !.pending = {}]
  <2>1. d \in ClientState /\ d.open = FALSE /\ d.last = c.last /\ d.pending = {} /\ d.seen = c.seen
    BY <1>1 DEF ClientState
  <2>2. client' = [client EXCEPT ![r] = d] /\ UNCHANGED <<eventRow, lastSequence, appended>>
    BY <1>8 DEF StreamEnds
  <2>3. drops' \in 0..MaxDrops
    BY <1>2, <1>8, CourseAssumption DEF StreamEnds
  <2> HIDE DEF d, c
  <2>4. ClientFits(d)
    BY <1>1, <2>1 DEF ClientFits
  <2> QED BY <2>1, <2>2, <2>3, <2>4, OneClient
<1> QED BY <1>5, <1>6, <1>7, <1>8 DEF ReaderStep

\* Every step of the course keeps the invariant.
LEMMA CourseKeeps == CourseInv /\ (CourseStep \/ UNCHANGED courseVars) => CourseInv'
<1>1. CourseInv /\ CourseStep => CourseInv'
  BY WriterKeeps, ReaderKeeps DEF CourseStep
<1>2. CourseInv /\ UNCHANGED courseVars => CourseInv'
  BY DEF courseVars, CourseInv, CourseTypeOK, SequenceFits, ClientFits
<1> QED BY <1>1, <1>2

\* The invariant says what a client may rely on.
LEMMA CourseImplies == CourseInv => SseNoLoss
<1> SUFFICES ASSUME CourseInv, NEW r \in Clients, NEW n \in 1..client[r].last,
                    eventRow[n] = "none" \/ eventRow[n] = "live"
             PROVE  n \in client[r].seen
  BY DEF SseNoLoss
<1>1. client[r].last \in 0..MaxCourseEvents /\ client[r].last <= lastSequence
      /\ lastSequence \in 0..MaxCourseEvents /\ MaxCourseEvents \in Nat
  BY CourseAssumption DEF CourseInv, CourseTypeOK, ClientFits
<1>2. n \in Sequences1 /\ n <= client[r].last /\ ~(n > lastSequence)
  BY <1>1 DEF Sequences1
<1> QED BY <1>2 DEF CourseInv, SequenceFits, ClientFits

-----------------------------------------------------------------------------
(***************************************************************************)
(* Uploads.  The version of a file on record is written once, and only by  *)
(* a worker that has read it; nothing is deleted unless the session has    *)
(* failed, which it stays.                                                 *)
(***************************************************************************)

SessionState ==
  [state : {"none", "pending", "completing", "completed", "failed"},
   open : BOOLEAN, holder : Completers \cup {Nobody}, live : BOOLEAN]

CompleterState ==
  [step : {"idle", "renew", "read", "record", "failing"}, file : 1..FileCount + 1,
   version : 0..MaxVersions, frozen : [Files -> 0..MaxVersions]]

\* Verified once, though perhaps deleted since.
Verified(f, v) == v # 0 /\ objects[f][v] \in {"declared", "deleted"}

RecordsFit ==
  /\ \A f \in Files, v \in Versions :
       orphans[f][v] # 0 \/ objects[f][v] = "deleted" => session.state = "failed"
  /\ \A f \in Files : fileRow[f] # 0 => Verified(f, fileRow[f])
  /\ session.state = "completing" => session.holder \in Completers

\* What a worker has frozen is on record, for every file before the one it is at.
CompleterFits(w) ==
  /\ w.step \in {"read", "record"} => w.file \in Files
  /\ w.step = "record" => Verified(w.file, w.version)
  /\ \A f \in Files : f < w.file => w.frozen[f] # 0
  /\ \A f \in Files : w.frozen[f] # 0 => fileRow[f] = w.frozen[f]

UploadInv ==
  /\ UploadTypeOK
  /\ RecordsFit
  /\ PackageWhole
  /\ \A p \in Completers : CompleterFits(completer[p])

\* The numbers of files and versions.
LEMMA UploadNumbers ==
  /\ FileCount \in Nat \ {0} /\ MaxVersions \in Nat \ {0} /\ MaxLapses \in Nat
  /\ MaxCleanupAttempts \in Nat /\ Files \subseteq Nat /\ Versions \subseteq Nat
  /\ Versions \subseteq 0..MaxVersions /\ 1 \in Files
  /\ \A v \in 0..MaxVersions : v # 0 => v \in Versions
  /\ \A f \in 1..FileCount + 1 : f <= FileCount => f \in Files
BY UploadAssumption DEF Files, Versions

\* A worker with nothing in memory fits whatever is on record.
LEMMA FreshCompleter ==
  ASSUME NEW w \in CompleterState, w.step \notin {"read", "record"}, w.file = 1,
         w.frozen = NoPackage
  PROVE  CompleterFits(w)
<1>1. \A f \in Files : w.frozen[f] = 0 /\ ~(f < w.file)
  BY UploadNumbers DEF NoPackage, Files
<1> QED BY <1>1 DEF CompleterFits

\* The worker that has just ended, and the one that has just begun.
LEMMA IdleType ==
  /\ IdleCompleter \in CompleterState /\ CompleterFits(IdleCompleter)
  /\ [IdleCompleter EXCEPT !.step = "renew"] \in CompleterState
  /\ CompleterFits([IdleCompleter EXCEPT !.step = "renew"])
<1>1. NoPackage \in [Files -> 0..MaxVersions] /\ 1 \in 1..FileCount + 1 /\ 0 \in 0..MaxVersions
  BY UploadNumbers DEF NoPackage
<1>2. IdleCompleter \in CompleterState
  BY <1>1 DEF IdleCompleter, CompleterState
<1>3. [IdleCompleter EXCEPT !.step = "renew"] \in CompleterState
  BY <1>2 DEF CompleterState
<1>4. /\ IdleCompleter.step = "idle" /\ IdleCompleter.file = 1 /\ IdleCompleter.frozen = NoPackage
      /\ [IdleCompleter EXCEPT !.step = "renew"].step = "renew"
      /\ [IdleCompleter EXCEPT !.step = "renew"].file = 1
      /\ [IdleCompleter EXCEPT !.step = "renew"].frozen = NoPackage
  BY DEF IdleCompleter
<1> QED BY <1>2, <1>3, <1>4, FreshCompleter

\* Nothing is on record of a session nobody has asked for.
LEMMA InitUpload == UploadInit => UploadInv
<1> SUFFICES ASSUME UploadInit PROVE UploadInv
  OBVIOUS
<1>1. UploadTypeOK
  BY UploadNumbers, IdleType
     DEF UploadInit, UploadTypeOK, CompleterState, NoPackage, Contents, Nobody
<1>2. RecordsFit /\ PackageWhole
  BY DEF UploadInit, RecordsFit, PackageWhole
<1>3. \A p \in Completers : CompleterFits(completer[p])
  BY IdleType DEF UploadInit
<1> QED BY <1>1, <1>2, <1>3 DEF UploadInv

\* A step that leaves the records alone, keeps a failed session failed and completes none.
LEMMA RecordsStand ==
  ASSUME UploadInv, session' \in SessionState, key' \in {"absent", "in_progress", "completed"},
         completer' \in [Completers -> CompleterState], lapses' \in 0..MaxLapses,
         UNCHANGED <<fileRow, objects, package, orphans>>,
         session.state = "failed" => session'.state = "failed",
         session'.state = "completed" => session.state = "completed",
         session'.state = "completing" => session'.holder \in Completers,
         \A p \in Completers : CompleterFits(completer'[p])
  PROVE  UploadInv'
<1>1. UploadTypeOK /\ RecordsFit /\ PackageWhole
  BY DEF UploadInv
<1>2. UploadTypeOK'
  BY <1>1 DEF UploadTypeOK, SessionState, CompleterState
<1>3. RecordsFit' /\ PackageWhole'
  BY <1>1 DEF RecordsFit, PackageWhole, Verified
<1>4. (\A p \in Completers : CompleterFits(completer[p]))'
  BY DEF CompleterFits, Verified
<1> QED BY <1>2, <1>3, <1>4 DEF UploadInv

\* The same, when one worker moves or none does.
LEMMA WorkerStands ==
  ASSUME UploadInv, session' \in SessionState, key' \in {"absent", "in_progress", "completed"},
         lapses' \in 0..MaxLapses,
         UNCHANGED <<fileRow, objects, package, orphans>>,
         session.state = "failed" => session'.state = "failed",
         session'.state = "completed" => session.state = "completed",
         session'.state = "completing" => session'.holder \in Completers,
         \/ completer' = completer
         \/ \E p \in Completers, w \in CompleterState :
              CompleterFits(w) /\ completer' = [completer EXCEPT ![p] = w]
  PROVE  UploadInv'
<1>1. completer \in [Completers -> CompleterState] /\ \A p \in Completers : CompleterFits(completer[p])
  BY DEF UploadInv, UploadTypeOK, CompleterState
<1>2. completer' \in [Completers -> CompleterState]
  BY <1>1
<1>3. \A p \in Completers : CompleterFits(completer'[p])
  BY <1>1
<1> QED BY <1>2, <1>3, RecordsStand

\* The session begins, its time passes, or a lease runs out.
LEMMA SessionKeeps ==
  ASSUME UploadInv, CreateUpload \/ UploadExpires \/ CompletionLeaseLapses
  PROVE  UploadInv'
<1>1. session \in SessionState /\ lapses \in 0..MaxLapses /\ RecordsFit
      /\ key \in {"absent", "in_progress", "completed"} /\ MaxLapses \in Nat
  BY UploadNumbers DEF UploadInv, UploadTypeOK, SessionState
<1>2. CASE CreateUpload
  <2>1. session' \in SessionState /\ session'.state = "pending"
    BY <1>1, <1>2 DEF CreateUpload, SessionState
  <2> QED BY <1>1, <1>2, <2>1, WorkerStands DEF CreateUpload
<1>3. CASE UploadExpires
  <2>1. session' \in SessionState /\ session'.state = session.state /\ session'.holder = session.holder
    BY <1>1, <1>3 DEF UploadExpires, SessionState
  <2> QED BY <1>1, <1>3, <2>1, WorkerStands DEF UploadExpires, RecordsFit
<1>4. CASE CompletionLeaseLapses
  <2>1. session' \in SessionState /\ session'.state = session.state /\ session'.holder = session.holder
    BY <1>1, <1>4 DEF CompletionLeaseLapses, SessionState
  <2>2. lapses' \in 0..MaxLapses
    BY <1>1, <1>4 DEF CompletionLeaseLapses
  <2> QED BY <1>1, <1>4, <2>1, <2>2, WorkerStands DEF CompletionLeaseLapses, RecordsFit
<1> QED BY <1>2, <1>3, <1>4

\* A worker takes the session, gives up, stops, renews its lease or reads an object.
LEMMA ClaimKeeps ==
  ASSUME UploadInv, NEW p \in Completers, ReserveCompletion(p) \/ ReclaimCompletion(p)
  PROVE  UploadInv'
<1>1. session \in SessionState /\ lapses \in 0..MaxLapses
  BY DEF UploadInv, UploadTypeOK, SessionState
<1>2. session.state \in {"pending", "completing"} /\ Claimed(p)
  BY DEF ReserveCompletion, ReclaimCompletion
<1>3. session' \in SessionState /\ session'.state = "completing" /\ session'.holder = p
  BY <1>1, <1>2 DEF Claimed, SessionState
<1> QED BY <1>1, <1>2, <1>3, IdleType, WorkerStands DEF Claimed

\* A worker that ends with an error or with its process.
LEMMA LeavingKeeps ==
  ASSUME UploadInv, NEW p \in Completers, GiveUp(p) \/ CompleterStops(p)
  PROVE  UploadInv'
<1>1. session \in SessionState /\ lapses \in 0..MaxLapses /\ MaxLapses \in Nat /\ RecordsFit
      /\ key \in {"absent", "in_progress", "completed"}
  BY UploadNumbers DEF UploadInv, UploadTypeOK, SessionState
<1>2. /\ UNCHANGED <<session, key, fileRow, objects, package, orphans>>
      /\ completer' = [completer EXCEPT ![p] = IdleCompleter]
      /\ lapses' \in 0..MaxLapses
  BY <1>1 DEF GiveUp, CompleterStops
<1> QED BY <1>1, <1>2, IdleType, WorkerStands DEF RecordsFit

\* The version an object has, if it has one, is one of its versions.
LEMMA GreatestExists ==
  ASSUME NEW N \in Nat, NEW S \in SUBSET (1..N), S # {}
  PROVE  \E v \in S : \A w \in S : w <= v
<1> DEFINE T == {n \in Nat : \E v \in S : n = N - v}
           R == OpToRel(<, Nat)
<1>0. PICK s \in S : TRUE
  OBVIOUS
<1>1. T \subseteq Nat /\ T # {}
  <2>1. N - s \in Nat /\ s \in S
    BY <1>0
  <2> QED BY <2>1
<1>2. IsWellFoundedOn(R, Nat)
  BY NatLessThanWellFounded
<1>3. PICK x \in T : \A y \in T : ~(<<y, x>> \in R)
  <2> HIDE DEF T, R
  <2> QED BY <1>1, <1>2, WFMin
<1>4. \A y \in T : ~(y < x)
  BY <1>1, <1>3 DEF OpToRel
<1>5. PICK v \in S : x = N - v
  BY <1>3
<1>6. ASSUME NEW w \in S PROVE w <= v
  <2>1. N - w \in Nat /\ v \in 1..N /\ w \in 1..N
    OBVIOUS
  <2>2. N - w \in T
    BY <2>1
  <2>3. ~(N - w < N - v)
    BY <1>4, <1>5, <2>2
  <2> QED BY <2>1, <2>3
<1> QED BY <1>6

\* freeze_current and read_verified name a version of the object.
LEMMA VersionType ==
  ASSUME UploadTypeOK, NEW f \in Files
  PROVE  VersionToRead(f) \in 0..MaxVersions
<1> DEFINE there == {v \in Versions : objects[f][v] \in {"declared", "other"}}
<1>1. MaxVersions \in Nat /\ there \in SUBSET (1..MaxVersions)
  BY UploadNumbers DEF Versions
<1>2. CurrentVersion(f) = IF there = {} THEN 0 ELSE CHOOSE v \in there : \A w \in there : w <= v
  BY DEF CurrentVersion
<1> HIDE DEF there
<1>3. there # {} => \E v \in there : \A w \in there : w <= v
  BY <1>1, GreatestExists
<1>4. there # {} => (CHOOSE v \in there : \A w \in there : w <= v) \in there
  BY <1>3
<1>5. there \subseteq 0..MaxVersions /\ 0 \in 0..MaxVersions
  BY <1>1
<1>6. CurrentVersion(f) \in 0..MaxVersions
  BY <1>2, <1>4, <1>5
<1> QED BY <1>6 DEF VersionToRead, UploadTypeOK

\* A worker renews its lease, or reads an object.
LEMMA ReadKeeps ==
  ASSUME UploadInv, NEW p \in Completers, RenewCompletionLease(p) \/ ReadObject(p)
  PROVE  UploadInv'
<1> DEFINE c == completer[p]
<1>1. session \in SessionState /\ lapses \in 0..MaxLapses /\ MaxLapses \in Nat /\ RecordsFit
      /\ key \in {"absent", "in_progress", "completed"} /\ UploadTypeOK
      /\ c \in CompleterState /\ CompleterFits(c)
  BY UploadNumbers DEF UploadInv, UploadTypeOK, SessionState, CompleterState
<1>2. completer \in [Completers -> CompleterState]
  BY <1>1 DEF UploadTypeOK, CompleterState
<1>3. CASE RenewCompletionLease(p)
  <2>1. CASE GiveUp(p)
    BY <2>1, LeavingKeeps
  <2>2. CASE ~GiveUp(p)
    <3> DEFINE w == [c EXCEPT !.step = "read"]
    <3>1. /\ UNCHANGED <<session, key, fileRow, objects, package, orphans, lapses>>
          /\ completer' = [completer EXCEPT ![p] = w] /\ c.file <= FileCount
      BY <1>3, <2>2 DEF RenewCompletionLease
    <3>2. w \in CompleterState /\ w.step = "read" /\ w.file = c.file /\ w.frozen = c.frozen
      BY <1>1 DEF CompleterState
    <3>3. c.file \in Files
      BY <1>1, <3>1, UploadNumbers DEF CompleterState
    <3> HIDE DEF w, c
    <3>4. CompleterFits(w)
      BY <1>1, <3>2, <3>3 DEF CompleterFits
    <3> QED BY <1>1, <3>1, <3>2, <3>4, WorkerStands DEF RecordsFit
  <2> QED BY <2>1, <2>2
<1>4. CASE ReadObject(p)
  <2> DEFINE f == c.file
             v == VersionToRead(f)
  <2>1. c.step = "read" /\ f \in Files
    BY <1>1, <1>4 DEF ReadObject, CompleterFits
  <2>2. v \in 0..MaxVersions
    BY <1>1, <2>1, VersionType
  <2>3. UNCHANGED <<session, key, fileRow, objects, package, orphans>>
    BY <1>4 DEF ReadObject
  <2>4. CASE ReadVerified(f, v) /\ completer' = [completer EXCEPT ![p].step = "record", ![p].version = v]
             /\ UNCHANGED lapses
    <3> DEFINE w == [c EXCEPT !.step = "record", !.version = v]
    <3>1. completer' = [completer EXCEPT ![p] = w]
      BY <1>2, <2>4 DEF CompleterState
    <3>2. w \in CompleterState /\ w.step = "record" /\ w.file = f /\ w.frozen = c.frozen /\ w.version = v
      BY <1>1, <2>2 DEF CompleterState
    <3>3. Verified(f, v)
      BY <2>4 DEF ReadVerified, Verified
    <3> HIDE DEF w, c, v
    <3>4. CompleterFits(w)
      BY <1>1, <2>1, <3>2, <3>3 DEF CompleterFits
    <3>5. UNCHANGED lapses
      BY <2>4
    <3> QED BY <1>1, <2>3, <3>1, <3>2, <3>4, <3>5, WorkerStands DEF RecordsFit
  <2>5. CASE completer' = [completer EXCEPT ![p].step = "failing"] /\ lapses' \in 0..MaxLapses
    <3> DEFINE w == [c EXCEPT !.step = "failing"]
    <3>1. completer' = [completer EXCEPT ![p] = w]
      BY <1>2, <2>5 DEF CompleterState
    <3>2. w \in CompleterState /\ w.step = "failing" /\ w.file = f /\ w.frozen = c.frozen
      BY <1>1 DEF CompleterState
    <3> HIDE DEF w, c, v
    <3>3. CompleterFits(w)
      BY <1>1, <3>2 DEF CompleterFits
    <3> QED BY <1>1, <2>3, <2>5, <3>1, <3>2, <3>3, WorkerStands DEF RecordsFit
  <2>6. lapses' \in 0..MaxLapses
    BY <1>1, <1>4 DEF ReadObject
  <2> QED BY <1>4, <2>4, <2>5, <2>6 DEF ReadObject
<1> QED BY <1>3, <1>4


\* record_frozen_version: the row of the file gets the version that was read, once.
LEMMA RecordKeeps ==
  ASSUME UploadInv, NEW p \in Completers, RecordFrozenVersion(p)
  PROVE  UploadInv'
<1> DEFINE c == completer[p]
           f == c.file
           v == c.version
<1>1. /\ UploadTypeOK /\ RecordsFit /\ c \in CompleterState /\ CompleterFits(c)
      /\ completer \in [Completers -> CompleterState]
      /\ \A q \in Completers : CompleterFits(completer[q])
  BY DEF UploadInv, UploadTypeOK, CompleterState
<1>2. c.step = "record" /\ f \in Files /\ Verified(f, v) /\ v \in 0..MaxVersions
  BY <1>1 DEF RecordFrozenVersion, CompleterFits, CompleterState
<1>3. CASE GiveUp(p)
  BY <1>3, LeavingKeeps
<1>4. CASE ~GiveUp(p)
  <2> DEFINE w == [step |-> "renew", file |-> f + 1, version |-> 0,
                   frozen |-> [c.frozen EXCEPT ![f] = v]]
  <2>1. /\ Fenced(p) /\ fileRow[f] \in {0, v}
        /\ fileRow' = [fileRow EXCEPT ![f] = v]
        /\ completer' = [completer EXCEPT ![p] = w]
        /\ UNCHANGED <<session, key, objects, package, orphans, lapses>>
    BY <1>4 DEF RecordFrozenVersion
  <2>2. f \in Nat /\ f + 1 \in 1..FileCount + 1 /\ 0 \in 0..MaxVersions
        /\ \A g \in Files : g \in Nat
    BY <1>2, UploadNumbers DEF Files
  <2>3. /\ w.step = "renew" /\ w.file = f + 1 /\ w.frozen = [c.frozen EXCEPT ![f] = v]
        /\ w \in CompleterState
    BY <1>1, <1>2, <2>2 DEF CompleterState
  <2>4. /\ fileRow' \in [Files -> 0..MaxVersions]
        /\ \A g \in Files : fileRow'[g] = IF g = f THEN v ELSE fileRow[g]
        /\ \A g \in Files : fileRow[g] # 0 => fileRow'[g] = fileRow[g]
    BY <1>1, <1>2, <2>1 DEF UploadTypeOK
  <2>5. \A g \in Files : w.frozen[g] = IF g = f THEN v ELSE c.frozen[g]
    BY <1>1, <2>3 DEF CompleterState
  <2>6. completer' \in [Completers -> CompleterState]
        /\ \A q \in Completers : completer'[q] = IF q = p THEN w ELSE completer[q]
    BY <1>1, <2>1, <2>3
  <2> HIDE DEF w
  <2>7. UploadTypeOK'
    BY <1>1, <2>1, <2>4, <2>6 DEF UploadTypeOK, CompleterState
  <2>8. RecordsFit' /\ PackageWhole'
    <3>1. session.state = "completing"
      BY <2>1 DEF Fenced
    <3>2. \A g \in Files : fileRow'[g] # 0 => Verified(g, fileRow'[g])
      BY <1>1, <1>2, <2>4 DEF RecordsFit
    <3> QED BY <1>1, <2>1, <3>1, <3>2 DEF RecordsFit, PackageWhole, Verified
  <2>9. ASSUME NEW q \in Completers PROVE CompleterFits(completer[q])'
    <3>1. CASE q = p
      <4>1. \A g \in Files : g < f + 1 => w.frozen[g] # 0
        <5> SUFFICES ASSUME NEW g \in Files, g < f + 1 PROVE w.frozen[g] # 0
          OBVIOUS
        <5>1. g = f \/ g < f
          BY <2>2
        <5> QED BY <1>1, <1>2, <2>5, <5>1 DEF CompleterFits, Verified
      <4>2. \A g \in Files : w.frozen[g] # 0 => fileRow'[g] = w.frozen[g]
        BY <1>1, <2>4, <2>5 DEF CompleterFits
      <4>3. completer'[q] = w
        BY <2>6, <3>1
      <4> QED BY <2>3, <4>1, <4>2, <4>3 DEF CompleterFits
    <3>2. CASE q # p
      <4>1. completer'[q] = completer[q] /\ CompleterFits(completer[q])
        BY <1>1, <2>6, <3>2
      <4>2. \A g \in Files : completer[q].frozen[g] # 0 => fileRow'[g] = completer[q].frozen[g]
        BY <2>4, <4>1 DEF CompleterFits
      <4> QED BY <2>1, <4>1, <4>2 DEF CompleterFits, Verified
    <3> QED BY <3>1, <3>2
  <2> QED BY <2>7, <2>8, <2>9 DEF UploadInv
<1> QED BY <1>3, <1>4

\* commit_completed_package: every file of the package is on record and verified, and nothing
\* of a session that is being completed has been deleted.
LEMMA CommitKeeps ==
  ASSUME UploadInv, NEW p \in Completers, CommitCompletedPackage(p)
  PROVE  UploadInv'
<1> DEFINE c == completer[p]
<1>1. /\ UploadTypeOK /\ RecordsFit /\ c \in CompleterState /\ CompleterFits(c)
      /\ completer \in [Completers -> CompleterState] /\ session \in SessionState
      /\ \A q \in Completers : CompleterFits(completer[q])
  BY DEF UploadInv, UploadTypeOK, CompleterState, SessionState
<1>2. CASE GiveUp(p)
  BY <1>2, LeavingKeeps
<1>3. CASE ~GiveUp(p)
  <2>1. /\ Fenced(p) /\ fileRow = c.frozen /\ c.file > FileCount
        /\ package' = c.frozen
        /\ session' = [session EXCEPT !.state = "completed", !.holder = Nobody, !.live = FALSE]
        /\ key' = "completed"
        /\ completer' = [completer EXCEPT ![p] = IdleCompleter]
        /\ UNCHANGED <<fileRow, objects, orphans, lapses>>
    BY <1>3 DEF CommitCompletedPackage
  <2>2. session' \in SessionState /\ session'.state = "completed" /\ session.state = "completing"
    BY <1>1, <2>1 DEF SessionState, Fenced
  <2>3. completer' \in [Completers -> CompleterState]
        /\ \A q \in Completers : completer'[q] \in {IdleCompleter, completer[q]}
    BY <1>1, <2>1, IdleType
  <2>4. UploadTypeOK'
    BY <1>1, <2>1, <2>2, <2>3 DEF UploadTypeOK, SessionState, CompleterState
  <2>5. RecordsFit'
    BY <1>1, <2>1, <2>2 DEF RecordsFit, Verified
  <2>6. PackageWhole'
    <3> SUFFICES ASSUME NEW f \in Files
                 PROVE  LET v == c.frozen[f]
                        IN v # 0 /\ fileRow[f] = v /\ objects[f][v] = "declared" /\ orphans[f][v] = 0
      BY <2>1 DEF PackageWhole
    <3>1. f < c.file
      BY <1>1, <2>1, UploadNumbers DEF CompleterState, Files
    <3>2. c.frozen[f] # 0 /\ fileRow[f] = c.frozen[f] /\ c.frozen[f] \in 0..MaxVersions
      BY <1>1, <3>1 DEF CompleterFits, CompleterState
    <3>3. c.frozen[f] \in Versions
      BY <3>2, UploadNumbers
    <3>4. objects[f][c.frozen[f]] \in {"declared", "deleted"}
      BY <1>1, <3>2 DEF RecordsFit, Verified
    <3> QED BY <1>1, <2>2, <3>2, <3>3, <3>4 DEF RecordsFit
  <2>7. ASSUME NEW q \in Completers PROVE CompleterFits(completer[q])'
    BY <1>1, <2>1, <2>3, IdleType DEF CompleterFits, Verified
  <2> QED BY <2>4, <2>5, <2>6, <2>7 DEF UploadInv
<1> QED BY <1>2, <1>3

\* fail_upload: the session fails, and only then is anything scheduled for deletion.
LEMMA FailKeeps ==
  ASSUME UploadInv, NEW p \in Completers, FailUpload(p)
  PROVE  UploadInv'
<1> DEFINE c == completer[p]
<1>1. /\ UploadTypeOK /\ RecordsFit /\ session \in SessionState
      /\ completer \in [Completers -> CompleterState]
      /\ \A q \in Completers : CompleterFits(completer[q])
  BY DEF UploadInv, UploadTypeOK, CompleterState, SessionState
<1>2. CASE GiveUp(p)
  BY <1>2, LeavingKeeps
<1>3. CASE ~GiveUp(p)
  <2>1. /\ Fenced(p)
        /\ session' = [session EXCEPT !.state = "failed", !.holder = Nobody, !.live = FALSE]
        /\ orphans' = [f \in Files |-> [v \in Versions |->
             IF orphans[f][v] = 0 /\ c.frozen[f] = v THEN 1 ELSE orphans[f][v]]]
        /\ key' = "absent"
        /\ completer' = [completer EXCEPT ![p] = IdleCompleter]
        /\ UNCHANGED <<fileRow, objects, package, lapses>>
    BY <1>3 DEF FailUpload
  <2>2. session' \in SessionState /\ session'.state = "failed"
    BY <1>1, <2>1 DEF SessionState
  <2>3. completer' \in [Completers -> CompleterState]
        /\ \A q \in Completers : completer'[q] \in {IdleCompleter, completer[q]}
    BY <1>1, <2>1, IdleType
  <2>4. orphans' \in [Files -> [Versions -> 0..MaxCleanupAttempts + 1]]
    <3>1. 1 \in 0..MaxCleanupAttempts + 1
      BY UploadNumbers
    <3>2. \A f \in Files, v \in Versions : orphans[f][v] \in 0..MaxCleanupAttempts + 1
      BY <1>1 DEF UploadTypeOK
    <3> QED BY <2>1, <3>1, <3>2
  <2>5. UploadTypeOK'
    BY <1>1, <2>1, <2>2, <2>3, <2>4 DEF UploadTypeOK, SessionState, CompleterState
  <2>6. RecordsFit' /\ PackageWhole'
    BY <1>1, <2>1, <2>2 DEF RecordsFit, Verified, PackageWhole
  <2>7. ASSUME NEW q \in Completers PROVE CompleterFits(completer[q])'
    BY <1>1, <2>1, <2>3, IdleType DEF CompleterFits, Verified
  <2> QED BY <2>5, <2>6, <2>7 DEF UploadInv
<1> QED BY <1>2, <1>3

\* The client puts a version that was not there, and the cleanup deletes a version of a failed
\* session or fails to: neither touches what a package may be made of.
LEMMA ObjectsKeep ==
  ASSUME UploadInv,
         \/ \E f \in Files, what \in {"declared", "other"} : PutObject(f, what)
         \/ \E f \in Files, v \in Versions : CleanupDeletes(f, v) \/ CleanupFails(f, v)
  PROVE  UploadInv'
<1>1. /\ UploadTypeOK /\ RecordsFit /\ PackageWhole
      /\ \A q \in Completers : CompleterFits(completer[q])
  BY DEF UploadInv
<1>2. ASSUME /\ UNCHANGED <<session, key, fileRow, completer, package, lapses>>
             /\ objects' \in [Files -> [Versions -> Contents]]
             /\ orphans' \in [Files -> [Versions -> 0..MaxCleanupAttempts + 1]]
             /\ \A f \in Files, v \in Versions :
                  /\ orphans'[f][v] # 0 => orphans[f][v] # 0
                  /\ \/ objects'[f][v] = objects[f][v]
                     \/ objects[f][v] = "absent" /\ objects'[f][v] # "deleted"
                     \/ orphans[f][v] # 0 /\ objects'[f][v] = "deleted"
      PROVE  UploadInv'
  <2>1. UploadTypeOK'
    BY <1>1, <1>2 DEF UploadTypeOK
  <2>2. \A f \in Files, v \in 0..MaxVersions : Verified(f, v) => Verified(f, v)'
    <3> SUFFICES ASSUME NEW f \in Files, NEW v \in 0..MaxVersions, Verified(f, v)
                 PROVE  Verified(f, v)'
      OBVIOUS
    <3>1. v \in Versions
      BY UploadNumbers DEF Verified
    <3> QED BY <1>2, <3>1 DEF Verified
  <2>3. RecordsFit'
    <3>1. \A f \in Files : fileRow[f] \in 0..MaxVersions
      BY <1>1 DEF UploadTypeOK
    <3>2. \A f \in Files : fileRow[f] # 0 => Verified(f, fileRow[f])'
      BY <1>1, <1>2, <2>2, <3>1 DEF RecordsFit
    <3> QED BY <1>1, <1>2, <3>2 DEF RecordsFit
  <2>4. PackageWhole'
    <3> SUFFICES ASSUME session.state = "completed", NEW f \in Files
                 PROVE  LET v == package[f]
                        IN v # 0 /\ fileRow[f] = v /\ objects'[f][v] = "declared" /\ orphans'[f][v] = 0
      BY <1>2 DEF PackageWhole
    <3>1. /\ package[f] # 0 /\ fileRow[f] = package[f] /\ objects[f][package[f]] = "declared"
          /\ orphans[f][package[f]] = 0 /\ package[f] \in Versions
      BY <1>1, UploadNumbers DEF PackageWhole, UploadTypeOK
    <3> QED BY <1>2, <3>1
  <2>5. ASSUME NEW q \in Completers PROVE CompleterFits(completer[q])'
    <3>1. CompleterFits(completer[q]) /\ completer'[q] = completer[q]
          /\ completer[q].version \in 0..MaxVersions
      BY <1>1, <1>2 DEF UploadTypeOK
    <3>2. completer[q].step = "record" =>
            Verified(completer[q].file, completer[q].version)'
      BY <1>2, <2>2, <3>1 DEF CompleterFits
    <3> QED BY <1>2, <3>1, <3>2 DEF CompleterFits
  <2> QED BY <2>1, <2>3, <2>4, <2>5 DEF UploadInv
<1>3. ASSUME NEW f \in Files, NEW what \in {"declared", "other"}, PutObject(f, what)
      PROVE  UploadInv'
  <2>1. PICK v \in Versions : objects[f][v] = "absent" /\ objects' = [objects EXCEPT ![f][v] = what]
    BY <1>3 DEF PutObject
  <2>2. objects' \in [Files -> [Versions -> Contents]]
        /\ \A g \in Files, u \in Versions :
             objects'[g][u] = IF g = f /\ u = v THEN what ELSE objects[g][u]
    BY <1>1, <2>1 DEF UploadTypeOK, Contents
  <2> QED BY <1>1, <1>2, <1>3, <2>1, <2>2 DEF PutObject, UploadTypeOK
<1>4. ASSUME NEW f \in Files, NEW v \in Versions, CleanupDeletes(f, v) PROVE UploadInv'
  <2>1. objects' \in [Files -> [Versions -> Contents]]
        /\ \A g \in Files, u \in Versions :
             objects'[g][u] = IF g = f /\ u = v THEN "deleted" ELSE objects[g][u]
    BY <1>1, <1>4 DEF CleanupDeletes, UploadTypeOK, Contents
  <2>2. orphans' \in [Files -> [Versions -> 0..MaxCleanupAttempts + 1]]
        /\ \A g \in Files, u \in Versions :
             orphans'[g][u] = IF g = f /\ u = v THEN 0 ELSE orphans[g][u]
    BY <1>1, <1>4, UploadNumbers DEF CleanupDeletes, UploadTypeOK
  <2> QED BY <1>2, <1>4, <2>1, <2>2 DEF CleanupDeletes
<1>5. ASSUME NEW f \in Files, NEW v \in Versions, CleanupFails(f, v) PROVE UploadInv'
  <2>1. orphans[f][v] + 1 \in 0..MaxCleanupAttempts + 1 /\ orphans[f][v] # 0
    BY <1>5, UploadNumbers DEF CleanupFails
  <2>2. orphans' \in [Files -> [Versions -> 0..MaxCleanupAttempts + 1]]
        /\ \A g \in Files, u \in Versions :
             orphans'[g][u] = IF g = f /\ u = v THEN orphans[f][v] + 1 ELSE orphans[g][u]
    BY <1>1, <1>5, <2>1 DEF CleanupFails, UploadTypeOK
  <2> QED BY <1>1, <1>2, <1>5, <2>1, <2>2 DEF CleanupFails, UploadTypeOK
<1> QED BY <1>3, <1>4, <1>5

\* Every step of the uploads keeps the invariant.
LEMMA UploadKeeps == UploadInv /\ (UploadStep \/ UNCHANGED uploadVars) => UploadInv'
<1>1. UploadInv /\ UploadStep => UploadInv'
  <2> SUFFICES ASSUME UploadInv, UploadStep PROVE UploadInv'
    OBVIOUS
  <2>1. ASSUME NEW p \in Completers,
               ReserveCompletion(p) \/ ReclaimCompletion(p) \/ CompleterStep(p) \/ CompleterStops(p)
        PROVE  UploadInv'
    BY <2>1, ClaimKeeps, LeavingKeeps, ReadKeeps, RecordKeeps, CommitKeeps, FailKeeps
       DEF CompleterStep
  <2> QED BY <2>1, SessionKeeps, ObjectsKeep DEF UploadStep
<1>2. UploadInv /\ UNCHANGED uploadVars => UploadInv'
  BY DEF uploadVars, UploadInv, UploadTypeOK, RecordsFit, PackageWhole, CompleterFits, Verified
<1> QED BY <1>1, <1>2

\* A worker that was overtaken changes nothing but its own memory.
LEMMA OvertakenStays ==
  ASSUME UploadInv, UploadStep, NEW p \in Completers, session.holder # p,
         completer'[p] # completer[p], completer[p].step # "idle"
  PROVE  UNCHANGED <<session, fileRow, package, orphans>>
<1>1. completer \in [Completers -> CompleterState] /\ ~Fenced(p)
  BY DEF UploadInv, UploadTypeOK, CompleterState, Fenced
<1>3. completer' # completer
  OBVIOUS
<1>4. PICK q \in Completers :
        ReserveCompletion(q) \/ ReclaimCompletion(q) \/ CompleterStep(q) \/ CompleterStops(q)
  BY <1>3 DEF UploadStep, CreateUpload, UploadExpires, CompletionLeaseLapses, PutObject,
              CleanupDeletes, CleanupFails
<1>5. \E w : completer' = [completer EXCEPT ![q] = w]
  BY <1>4
     DEF ReserveCompletion, ReclaimCompletion, Claimed, CompleterStep, CompleterStops, GiveUp,
         RenewCompletionLease, ReadObject, RecordFrozenVersion, CommitCompletedPackage, FailUpload
<1>6. q = p
  BY <1>1, <1>5
<1>7. CompleterStep(p) \/ CompleterStops(p)
  BY <1>4, <1>6 DEF ReserveCompletion, ReclaimCompletion
<1> QED
  BY <1>1, <1>7
     DEF CompleterStep, CompleterStops, GiveUp, RenewCompletionLease, ReadObject,
         RecordFrozenVersion, CommitCompletedPackage, FailUpload


-----------------------------------------------------------------------------
(***************************************************************************)
(* The projection of agent runs.  Every view of a run that a handler, a    *)
(* consumer or the projection holds is the run at some revision, and a     *)
(* revision is used up by what tracks there are to claim and to complete.  *)
(***************************************************************************)

AgentRunState ==
  [revision : Nat, state : RunStates \cup {"none"}, waiting : 0..2, busy : 0..2, cancel : BOOLEAN]

\* The revisions a run has had, and may still have before its next retry.
Spent(a) == a.revision + 2 * a.waiting + a.busy + (IF a.cancel THEN 0 ELSE 1)

AgentFits(a, n) ==
  /\ a.waiting + a.busy <= 2
  /\ a.state \in Ended => a.busy = 0
  /\ a.state = "none" <=> a.revision = 0
  /\ Spent(a) <= 6 + 3 * n

\* A view is the run as it was at its revision.
TrueView(v) ==
  v.revision # 0 => v.revision <= Len(runHistory) /\ runHistory[v.revision] = v.state

RunInv ==
  /\ RunTypeOK
  /\ AgentFits(agentRun, retries)
  /\ Len(runHistory) = agentRun.revision
  /\ TrueView(View) /\ TrueView(runProjection)
  /\ \A k \in RunConsumers : TrueView(runConsumer[k].view)
  /\ \A h \in RunDesks : TrueView(runDesk[h])
  /\ \A n \in 1..runWatermark : runEvents[n].revision <= runProjection.revision

\* The bound on revisions is the one the retries leave.
LEMMA RevisionBound ==
  ASSUME NEW a \in AgentRunState, NEW n \in 0..MaxRetries, AgentFits(a, n)
  PROVE  a.revision \in 0..MaxRevision
<1>1. /\ a.revision \in Nat /\ a.waiting \in Nat /\ a.busy \in Nat /\ MaxRetries \in Nat /\ n \in Nat
      /\ n <= MaxRetries
  BY RunAssumption DEF AgentRunState
<1>2. a.revision <= 6 + 3 * n
  <2>1. CASE a.cancel
    BY <1>1, <2>1 DEF AgentFits, Spent
  <2>2. CASE ~a.cancel
    BY <1>1, <2>2 DEF AgentFits, Spent
  <2> QED BY <2>1, <2>2
<1> QED BY <1>1, <1>2 DEF MaxRevision

\* An appended element comes after the others.
LEMMA AppendedLast ==
  ASSUME NEW S, NEW s \in Seq(S), NEW e \in S
  PROVE  /\ Append(s, e) \in Seq(S) /\ Len(Append(s, e)) = Len(s) + 1 /\ Len(s) \in Nat
         /\ Append(s, e)[Len(s) + 1] = e
         /\ \A i \in 1..Len(s) : Append(s, e)[i] = s[i]
BY AppendProperties, LenProperties

\* Nothing has been requested.
LEMMA InitRun == RunInit => RunInv
<1> SUFFICES ASSUME RunInit PROVE RunInv
  OBVIOUS
<1>1. MaxRetries \in Nat /\ MaxRevision \in Nat
  BY RunAssumption DEF MaxRevision
<1>2. runHistory \in Seq(RunStates) /\ Len(runHistory) = 0 /\ runEvents \in Seq(Views)
      /\ Len(runEvents) = 0
  BY DEF RunInit
<1>3. NoView \in Views /\ NoView.revision = 0
  BY <1>1 DEF NoView, Views
<1>4. RunTypeOK
  BY <1>1, <1>2, <1>3 DEF RunInit, RunTypeOK, FreeConsumer
<1>5. AgentFits(agentRun, retries) /\ View.revision = 0
  BY DEF RunInit, AgentFits, Spent, View, Ended, Completed
<1> QED BY <1>2, <1>3, <1>4, <1>5 DEF RunInv, RunInit, TrueView, FreeConsumer

\* Types of the parts.
LEMMA RunTypes ==
  ASSUME RunInv
  PROVE  /\ agentRun \in AgentRunState /\ retries \in 0..MaxRetries /\ View \in Views
         /\ runHistory \in Seq(RunStates) /\ runEvents \in Seq(Views)
         /\ Len(runHistory) \in Nat /\ Len(runEvents) \in Nat /\ MaxRetries \in Nat
         /\ MaxRevision \in Nat /\ View.revision = agentRun.revision /\ View.state = agentRun.state
<1>1. MaxRetries \in Nat /\ MaxRevision \in Nat
  BY RunAssumption DEF MaxRevision
<1>2. /\ agentRun \in [revision : 0..MaxRevision, state : RunStates \cup {"none"},
                       waiting : 0..2, busy : 0..2, cancel : BOOLEAN]
      /\ runHistory \in Seq(RunStates) /\ runEvents \in Seq(Views) /\ retries \in 0..MaxRetries
  BY DEF RunInv, RunTypeOK
<1>3. agentRun \in AgentRunState
  BY <1>1, <1>2 DEF AgentRunState
<1>4. View \in Views /\ View.revision = agentRun.revision /\ View.state = agentRun.state
  BY <1>2 DEF View, Views
<1> QED BY <1>1, <1>2, <1>3, <1>4, LenProperties

\* The run gets a new revision, announced or not: earlier views stay true.
LEMMA RunRevised ==
  ASSUME RunInv, NEW a \in AgentRunState, agentRun' = a, NEW n \in 0..MaxRetries, retries' = n,
         a.revision = agentRun.revision + 1, a.state \in RunStates, AgentFits(a, n),
         runHistory' = Append(runHistory, a.state),
         \/ Unannounced
         \/ /\ runEvents' = Append(runEvents, [revision |-> agentRun.revision + 1, state |-> a.state])
            /\ runStream' = runStream \cup {Len(runEvents) + 1},
         UNCHANGED <<runWatermark, runProjection, runConsumer, runQuarantine>>,
         \A h \in RunDesks :
           \/ runDesk'[h] = runDesk[h]
           \/ runDesk'[h] = [revision |-> a.revision, state |-> a.state],
         runDesk' = [h \in RunDesks |-> runDesk'[h]]
  PROVE  RunInv'
<1> DEFINE v == [revision |-> a.revision, state |-> a.state]
<1>0. RunTypeOK /\ TrueView(runProjection) /\ Len(runHistory) = agentRun.revision
      /\ \A k \in RunConsumers : TrueView(runConsumer[k].view)
      /\ \A h \in RunDesks : TrueView(runDesk[h])
      /\ \A i \in 1..runWatermark : runEvents[i].revision <= runProjection.revision
  BY DEF RunInv
<1>1. /\ runHistory \in Seq(RunStates) /\ runEvents \in Seq(Views)
      /\ Len(runHistory) \in Nat /\ Len(runEvents) \in Nat
  BY RunTypes
<1>2. /\ runHistory' \in Seq(RunStates) /\ Len(runHistory') = Len(runHistory) + 1
      /\ runHistory'[Len(runHistory) + 1] = a.state
      /\ \A i \in 1..Len(runHistory) : runHistory'[i] = runHistory[i]
  BY <1>1, AppendedLast
<1>3. a.revision \in 0..MaxRevision /\ v \in Views /\ a \in AgentRunState
  BY RevisionBound DEF Views
<1>4. /\ runEvents' \in Seq(Views) /\ Len(runEvents') \in Nat /\ Len(runEvents) <= Len(runEvents')
      /\ \A i \in 1..Len(runEvents) : runEvents'[i] = runEvents[i]
      /\ runStream' \subseteq 1..Len(runEvents')
  <2>1. runStream \subseteq 1..Len(runEvents)
    BY <1>0 DEF RunTypeOK
  <2>2. CASE Unannounced
    BY <1>1, <2>1, <2>2 DEF Unannounced
  <2>3. CASE /\ runEvents' = Append(runEvents, v)
             /\ runStream' = runStream \cup {Len(runEvents) + 1}
    <3>1. /\ runEvents' \in Seq(Views) /\ Len(runEvents') = Len(runEvents) + 1
          /\ \A i \in 1..Len(runEvents) : runEvents'[i] = runEvents[i]
      BY <1>1, <1>3, <2>3, AppendedLast
    <3> QED BY <1>1, <2>1, <2>3, <3>1
  <2> QED BY <2>2, <2>3
<1>5. RunTypeOK'
  <2>1. agentRun' \in [revision : 0..MaxRevision, state : RunStates \cup {"none"},
                       waiting : 0..2, busy : 0..2, cancel : BOOLEAN]
    BY <1>3 DEF AgentRunState
  <2>2. 1..Len(runEvents) \subseteq 1..Len(runEvents') /\ 0..Len(runEvents) \subseteq 0..Len(runEvents')
    BY <1>1, <1>4
  <2>3. runDesk' \in [RunDesks -> Views]
    BY <1>0, <1>3 DEF RunTypeOK
  <2>4. runConsumer \in [RunConsumers -> [event : 0..Len(runEvents'), view : Views]]
    BY <1>0, <2>2 DEF RunTypeOK
  <2>5. runWatermark' \in 0..Len(runEvents') /\ runQuarantine' \subseteq 1..Len(runEvents')
    BY <1>0, <2>2 DEF RunTypeOK
  <2>6. runHistory' \in Seq(RunStates) /\ runProjection' \in Views /\ retries' \in 0..MaxRetries
    BY <1>0, <1>2 DEF RunTypeOK
  <2> QED BY <1>4, <2>1, <2>3, <2>4, <2>5, <2>6 DEF RunTypeOK
<1>6. \A w \in Views : TrueView(w) => TrueView(w)'
  <2> SUFFICES ASSUME NEW w \in Views, TrueView(w), w.revision # 0
               PROVE  w.revision <= Len(runHistory') /\ runHistory'[w.revision] = w.state
    BY DEF TrueView
  <2>1. w.revision \in Nat /\ w.revision <= Len(runHistory) /\ runHistory[w.revision] = w.state
    BY DEF TrueView, Views, MaxRevision
  <2>2. w.revision \in 1..Len(runHistory)
    BY <1>1, <2>1
  <2> QED BY <1>1, <1>2, <2>1, <2>2
<1>7. TrueView(v)'
  BY <1>0, <1>1, <1>2 DEF TrueView
<1>8. TrueView(View)' /\ TrueView(runProjection)'
  <2>1. View' = v
    BY DEF View
  <2>2. TrueView(View)'
    BY <1>7, <2>1 DEF TrueView
  <2>3. PICK w \in Views : w = runProjection
    BY <1>0 DEF RunTypeOK
  <2>4. TrueView(w)'
    BY <1>0, <1>6, <2>3
  <2> QED BY <2>2, <2>3, <2>4 DEF TrueView
<1>9. ASSUME NEW k \in RunConsumers PROVE TrueView(runConsumer[k].view)'
  <2>1. PICK w \in Views : w = runConsumer[k].view
    BY <1>0 DEF RunTypeOK
  <2>2. TrueView(w)' /\ w = runConsumer'[k].view
    BY <1>0, <1>6, <2>1
  <2> QED BY <2>2 DEF TrueView
<1>10. ASSUME NEW h \in RunDesks PROVE TrueView(runDesk[h])'
  <2>1. PICK w \in Views : w = runDesk[h]
    BY <1>0 DEF RunTypeOK
  <2>5. TrueView(w)
    BY <2>1, Zenon DEF RunInv
  <2>2. TrueView(w)'
    BY <1>6, <2>5
  <2>3. CASE runDesk'[h] = w
    BY <2>2, <2>3 DEF TrueView
  <2>4. CASE runDesk'[h] = v
    BY <1>7, <2>4 DEF TrueView
  <2> QED BY <2>1, <2>3, <2>4
<1>11. \A i \in 1..runWatermark' : runEvents'[i].revision <= runProjection'.revision
  <2>1. runWatermark \in 0..Len(runEvents)
    BY <1>0 DEF RunTypeOK
  <2>2. 1..runWatermark \subseteq 1..Len(runEvents)
    BY <1>1, <2>1
  <2>3. runWatermark' = runWatermark /\ runProjection' = runProjection
    OBVIOUS
  <2>4. \A i \in 1..runWatermark : runEvents'[i] = runEvents[i]
    BY <1>4, <2>2
  <2>5. \A i \in 1..runWatermark : runEvents[i].revision <= runProjection.revision
    BY Zenon DEF RunInv
  <2>6. \A i \in 1..runWatermark : runEvents'[i].revision <= runProjection.revision
    BY <2>4, <2>5
  <2> QED BY <2>3, <2>6
<1>12. Len(runHistory') = agentRun'.revision /\ AgentFits(agentRun', retries')
  BY <1>0, <1>1, <1>2
<1> QED BY <1>5, <1>8, <1>9, <1>10, <1>11, <1>12 DEF RunInv


\* A step that leaves the run's revisions: what is newly held is a view that was held.
LEMMA RunStands ==
  ASSUME RunInv, UNCHANGED <<runHistory, runEvents>>,
         agentRun'.revision = agentRun.revision, agentRun'.state = agentRun.state,
         RunTypeOK', AgentFits(agentRun', retries'),
         TrueView(runProjection'), runProjection'.revision >= runProjection.revision,
         \A k \in RunConsumers : TrueView(runConsumer'[k].view),
         \A h \in RunDesks : TrueView(runDesk'[h]),
         \/ runWatermark' = runWatermark
         \/ /\ runWatermark' = runWatermark + 1
            /\ runEvents[runWatermark + 1].revision <= runProjection'.revision
  PROVE  RunInv'
<1>1. \A w : TrueView(w) <=> (w.revision # 0 =>
               w.revision <= Len(runHistory') /\ runHistory'[w.revision] = w.state)
  BY DEF TrueView
<1>2. TrueView(runProjection)' /\ (\A k \in RunConsumers : TrueView(runConsumer[k].view)')
      /\ (\A h \in RunDesks : TrueView(runDesk[h])')
  BY <1>1 DEF TrueView
<1>3. TrueView(View) /\ View' = View
  BY DEF RunInv, View
<1>4. TrueView(View)'
  BY <1>1, <1>3 DEF TrueView
<1>5. \A n \in 1..runWatermark' : runEvents'[n].revision <= runProjection'.revision
  <2>1. /\ runWatermark \in Nat /\ runProjection.revision \in Nat /\ runProjection'.revision \in Nat
        /\ runEvents \in Seq(Views) /\ runWatermark \in 0..Len(runEvents)
    BY RunAssumption DEF RunInv, RunTypeOK, Views, MaxRevision
  <2>2. \A n \in 1..runWatermark : runEvents[n].revision \in Nat
    <3>1. \A n \in 1..Len(runEvents) : runEvents[n] \in Views
      BY <2>1, ElementOfSeq
    <3> QED BY <2>1, <3>1, RunAssumption DEF Views, MaxRevision
  <2>3. \A n \in 1..runWatermark : runEvents[n].revision <= runProjection.revision
    BY DEF RunInv
  <2>4. \A n \in 1..runWatermark : runEvents[n].revision <= runProjection'.revision
    BY <2>1, <2>2, <2>3
  <2>5. \A n \in 1..runWatermark' : n \in 1..runWatermark \/ (n = runWatermark + 1 /\ runWatermark' = runWatermark + 1)
    BY <2>1
  <2> QED BY <2>4, <2>5
<1>6. Len(runHistory)' = agentRun'.revision
  BY DEF RunInv
<1> QED BY <1>2, <1>4, <1>5, <1>6 DEF RunInv

\* What the handlers hold.
LEMMA RunHeld ==
  ASSUME RunInv
  PROVE  /\ TrueView(NoView) /\ NoView \in Views /\ TrueView(View) /\ View \in Views
         /\ TrueView(runProjection) /\ runProjection \in Views
         /\ runProjection.revision \in Nat
         /\ \A h \in RunDesks : TrueView(runDesk[h]) /\ runDesk[h] \in Views
                                  /\ runDesk[h].revision \in Nat
         /\ \A k \in RunConsumers : TrueView(runConsumer[k].view) /\ runConsumer[k].view \in Views
                                      /\ runConsumer[k].event \in 0..Len(runEvents)
                                      /\ runConsumer[k].view.revision \in Nat
         /\ runDesk \in [RunDesks -> Views]
         /\ runConsumer \in [RunConsumers -> [event : 0..Len(runEvents), view : Views]]
         /\ FreeConsumer \in [event : 0..Len(runEvents), view : Views]
<1>1. MaxRevision \in Nat /\ View \in Views /\ Len(runEvents) \in Nat
  BY RunTypes
<1>2. NoView \in Views /\ TrueView(NoView)
  BY <1>1 DEF NoView, Views, TrueView
<1>3. \A w \in Views : w.revision \in Nat
  BY <1>1 DEF Views
<1>4. runProjection \in Views /\ runDesk \in [RunDesks -> Views]
      /\ runConsumer \in [RunConsumers -> [event : 0..Len(runEvents), view : Views]]
  BY DEF RunInv, RunTypeOK
<1>5. FreeConsumer \in [event : 0..Len(runEvents), view : Views]
  BY <1>1, <1>2 DEF FreeConsumer
<1> QED BY <1>1, <1>2, <1>3, <1>4, <1>5 DEF RunInv

\* The handlers of createAgentRun.
LEMMA DesksKeep ==
  ASSUME RunInv, NEW h \in RunDesks, ProjectAgentRun(h) \/ CreateStops(h)
  PROVE  RunInv'
<1>1. /\ UNCHANGED <<agentRun, runHistory, runEvents, runStream, runWatermark, runConsumer,
                     runQuarantine, retries>>
      /\ runDesk' = [runDesk EXCEPT ![h] = NoView]
      /\ \/ runProjection' = runProjection
         \/ runProjection' = runDesk[h] /\ runDesk[h].revision > runProjection.revision
  BY DEF ProjectAgentRun, CreateStops
<1>2. runProjection' \in Views /\ TrueView(runProjection')
      /\ runProjection'.revision >= runProjection.revision
  BY <1>1, RunHeld
<1>3. runDesk' \in [RunDesks -> Views] /\ \A g \in RunDesks : TrueView(runDesk'[g])
  BY <1>1, RunHeld
<1>4. \A k \in RunConsumers : TrueView(runConsumer'[k].view)
  BY <1>1, RunHeld
<1>5. RunTypeOK'
  BY <1>1, <1>2, <1>3 DEF RunInv, RunTypeOK
<1>6. AgentFits(agentRun', retries')
  BY <1>1 DEF RunInv
<1> QED BY <1>1, <1>2, <1>3, <1>4, <1>5, <1>6, RunStands

\* The consumers of the run's events.
LEMMA ConsumersKeep ==
  ASSUME RunInv, NEW k \in RunConsumers,
         \/ \E n \in 1..Len(runEvents) : ReadBack(k, n)
         \/ SettleRunEvent(k) \/ RunEventWaits(k) \/ RunEventStays(k)
  PROVE  RunInv'
<1> DEFINE Held == [event : 0..Len(runEvents), view : Views]
<1>1. /\ UNCHANGED <<agentRun, runHistory, runEvents, runDesk, retries>>
      /\ \E w \in Held : runConsumer' = [runConsumer EXCEPT ![k] = w] /\ TrueView(w.view)
  <2>1. FreeConsumer \in Held /\ TrueView(FreeConsumer.view)
    BY RunHeld DEF FreeConsumer
  <2>2. CASE \E n \in 1..Len(runEvents) : ReadBack(k, n)
    <3>1. PICK n \in 1..Len(runEvents) : ReadBack(k, n)
      BY <2>2
    <3>2. \E w \in Views : w \in {runProjection, View}
            /\ runConsumer' = [runConsumer EXCEPT ![k] = [event |-> n, view |-> w]]
      BY <3>1, RunHeld DEF ReadBack
    <3>3. n \in 0..Len(runEvents) /\ TrueView(runProjection) /\ TrueView(View)
      BY RunHeld, RunTypes
    <3>4. PICK w \in Views :
            /\ w \in {runProjection, View}
            /\ runConsumer' = [runConsumer EXCEPT ![k] = [event |-> n, view |-> w]]
      BY <3>2
    <3>5. [event |-> n, view |-> w] \in Held /\ TrueView([event |-> n, view |-> w].view)
      BY <3>3, <3>4
    <3>6. UNCHANGED <<agentRun, runHistory, runEvents, runDesk, retries>>
      BY <3>1 DEF ReadBack
    <3> QED BY <3>4, <3>5, <3>6
  <2>3. CASE SettleRunEvent(k) \/ RunEventWaits(k) \/ RunEventStays(k)
    BY <2>1, <2>3 DEF SettleRunEvent, ConsumeAgentRunEvent, QuarantineRunEvent, RunEventWaits,
                      RunEventStays, LeaveRunEvent, ReturnRunEvent
  <2> QED BY <2>2, <2>3
<1>2. runConsumer' \in [RunConsumers -> Held] /\ \A j \in RunConsumers : TrueView(runConsumer'[j].view)
  BY <1>1, RunHeld
<1>3. /\ runProjection' \in Views /\ TrueView(runProjection')
      /\ runProjection'.revision >= runProjection.revision
      /\ runWatermark' \in 0..Len(runEvents)
      /\ \/ runWatermark' = runWatermark
         \/ /\ runWatermark' = runWatermark + 1
            /\ runEvents[runWatermark + 1].revision <= runProjection'.revision
  <2>1. runWatermark \in 0..Len(runEvents) /\ Len(runEvents) \in Nat
    BY RunTypes DEF RunInv, RunTypeOK
  <2>2. CASE UNCHANGED <<runWatermark, runProjection>>
    BY <2>1, <2>2, RunHeld
  <2>3. CASE ~UNCHANGED <<runWatermark, runProjection>>
    <3>1. /\ runConsumer[k].event = runWatermark + 1 /\ runWatermark' = runConsumer[k].event
          /\ runConsumer[k].view = runEvents[runConsumer[k].event]
          /\ ProjectReadBack(runConsumer[k].view)
      BY <2>3 DEF ReadBack, SettleRunEvent, ConsumeAgentRunEvent, QuarantineRunEvent, RunEventWaits,
                  RunEventStays, LeaveRunEvent, ReturnRunEvent, EventMatchesRun
    <3>2. /\ runProjection' \in Views /\ TrueView(runProjection')
          /\ runProjection'.revision >= runProjection.revision
          /\ runProjection'.revision >= runConsumer[k].view.revision
      BY <3>1, RunHeld DEF ProjectReadBack
    <3>3. runConsumer[k].event \in 0..Len(runEvents)
      BY RunHeld
    <3> QED BY <3>1, <3>2, <3>3
  <2> QED BY <2>2, <2>3
<1>4. runStream' \subseteq runStream
  BY DEF ReadBack, SettleRunEvent, ConsumeAgentRunEvent, QuarantineRunEvent, RunEventWaits,
         RunEventStays, LeaveRunEvent, ReturnRunEvent, AcknowledgeRunEvent
<1>5. runQuarantine' \subseteq 1..Len(runEvents)
  <2>1. \/ runQuarantine' = runQuarantine
        \/ /\ runConsumer[k].event # 0
           /\ runQuarantine' = runQuarantine \cup {runConsumer[k].event}
    BY DEF ReadBack, SettleRunEvent, ConsumeAgentRunEvent, QuarantineRunEvent, RunEventWaits,
           RunEventStays, LeaveRunEvent, ReturnRunEvent
  <2>2. runConsumer[k].event \in 0..Len(runEvents) /\ Len(runEvents) \in Nat
        /\ runQuarantine \subseteq 1..Len(runEvents)
    BY RunHeld, RunTypes DEF RunInv, RunTypeOK
  <2>3. runConsumer[k].event # 0 => runConsumer[k].event \in 1..Len(runEvents)
    BY <2>2
  <2> HIDE DEF Held
  <2> QED BY <2>1, <2>2, <2>3, Zenon
<1>6. RunTypeOK'
  BY <1>1, <1>2, <1>3, <1>4, <1>5 DEF RunInv, RunTypeOK
<1>7. AgentFits(agentRun', retries') /\ \A h \in RunDesks : TrueView(runDesk'[h])
  BY <1>1, RunHeld DEF RunInv
<1> QED BY <1>1, <1>2, <1>3, <1>6, <1>7, RunStands

\* The run at its next revision, and a request to cancel.
LEMMA RevisedRecord ==
  ASSUME agentRun \in AgentRunState
  PROVE  /\ \A s, n, m : Revised(s, n, m) =>
              /\ agentRun' = [revision |-> agentRun.revision + 1, state |-> s, waiting |-> n,
                              busy |-> m, cancel |-> agentRun.cancel]
              /\ runHistory' = Append(runHistory, s)
         /\ CancelAgentRun /\ agentRun.state = "running" =>
              agentRun' = [revision |-> agentRun.revision + 1, state |-> "cancelling",
                           waiting |-> agentRun.waiting, busy |-> agentRun.busy, cancel |-> TRUE]
<1>1. DOMAIN agentRun = {"revision", "state", "waiting", "busy", "cancel"}
      /\ agentRun = [f \in DOMAIN agentRun |-> agentRun[f]]
  BY DEF AgentRunState
<1>2. ASSUME NEW s, NEW n, NEW m, Revised(s, n, m)
      PROVE  /\ agentRun' = [revision |-> agentRun.revision + 1, state |-> s, waiting |-> n,
                              busy |-> m, cancel |-> agentRun.cancel]
             /\ runHistory' = Append(runHistory, s)
  BY <1>1, <1>2 DEF Revised
<1>3. ASSUME CancelAgentRun, agentRun.state = "running"
      PROVE  agentRun' = [revision |-> agentRun.revision + 1, state |-> "cancelling",
                          waiting |-> agentRun.waiting, busy |-> agentRun.busy, cancel |-> TRUE]
  BY <1>1, <1>3 DEF CancelAgentRun
<1> QED BY <1>2, <1>3

\* The Agent Service, and the requests to it.
LEMMA AgentKeeps ==
  ASSUME RunInv,
         \/ AgentClaims \/ CancelAgentRun \/ RetryAgentRun
         \/ \E state \in RunStates : AgentCompletes(state)
         \/ \E h \in RunDesks : CallCreate(h)
  PROVE  RunInv'
<1> DEFINE a == agentRun
           After(s, n, m, c) == [revision |-> a.revision + 1, state |-> s, waiting |-> n,
                                 busy |-> m, cancel |-> c]
<1>1. /\ a \in AgentRunState /\ retries \in 0..MaxRetries /\ MaxRetries \in Nat
      /\ AgentFits(a, retries)
  BY RunTypes DEF RunInv
<1>2. /\ a.revision \in Nat /\ a.waiting \in 0..2 /\ a.busy \in 0..2 /\ a.cancel \in BOOLEAN
      /\ a.state \in RunStates \cup {"none"} /\ a.waiting + a.busy <= 2
      /\ (a.state \in Ended => a.busy = 0) /\ (a.state = "none" <=> a.revision = 0)
      /\ Spent(a) <= 6 + 3 * retries /\ retries \in Nat
  BY <1>1 DEF AgentRunState, AgentFits
<1>3. runDesk = [h \in RunDesks |-> runDesk[h]]
  BY RunHeld
<1>4. CASE AgentClaims
  <2> DEFINE s == IF a.cancel THEN "cancelling" ELSE "running"
             b == After(s, a.waiting - 1, a.busy + 1, a.cancel)
  <2>0. /\ s \in RunStates /\ s \notin Ended /\ s # "none" /\ a.waiting - 1 \in 0..2
        /\ a.busy + 1 \in 0..2
    BY <1>2, <1>4 DEF AgentClaims, RunStates, Ended, Completed
  <2>1. /\ b \in AgentRunState /\ b.revision = a.revision + 1 /\ b.waiting = a.waiting - 1
        /\ b.busy = a.busy + 1 /\ b.cancel = a.cancel /\ b.state = s /\ s \in RunStates /\ s \notin Ended
        /\ s # "none"
    BY <1>2, <2>0 DEF AgentRunState
  <2>2. AgentFits(b, retries)
    BY <1>2, <2>1 DEF AgentFits, Spent
  <2>3. /\ agentRun' = b /\ runHistory' = Append(runHistory, b.state) /\ Unannounced
        /\ UNCHANGED <<runWatermark, runProjection, runConsumer, runDesk, runQuarantine, retries>>
    BY <1>1, <1>4, <2>1, RevisedRecord DEF AgentClaims
  <2> HIDE DEF b
  <2> QED BY <1>1, <1>3, <2>1, <2>2, <2>3, RunRevised
<1>5. ASSUME NEW s \in RunStates, AgentCompletes(s) PROVE RunInv'
  <2>1. PICK n \in 0..2, m \in 0..2 :
          /\ n = a.waiting /\ m = a.busy - 1 /\ (s \in Ended => m = 0)
          /\ Revised(s, n, m) /\ (Announce(s) \/ Unannounced)
    BY <1>2, <1>5 DEF AgentCompletes
  <2> DEFINE b == After(s, n, m, a.cancel)
  <2>2. /\ b \in AgentRunState /\ b.revision = a.revision + 1 /\ b.waiting = a.waiting
        /\ b.busy = a.busy - 1 /\ b.cancel = a.cancel /\ b.state = s
    BY <1>2, <2>1 DEF AgentRunState
  <2>3. s # "none"
    BY DEF RunStates
  <2>4. AgentFits(b, retries)
    <3>1. s \in Ended => b.busy = 0
      BY <2>1, <2>2
    <3>2. Spent(b) = Spent(a)
      <4> DEFINE x == IF a.cancel THEN 0 ELSE 1
      <4>1. /\ x \in 0..1
            /\ Spent(b) = (a.revision + 1) + 2 * a.waiting + (a.busy - 1) + x
            /\ Spent(a) = a.revision + 2 * a.waiting + a.busy + x
        BY <2>2 DEF Spent
      <4> HIDE DEF x, b
      <4> QED BY <1>2, <4>1
    <3>3. b.waiting + b.busy <= 2 /\ b.revision # 0
      BY <1>2, <2>2
    <3> QED BY <1>2, <2>2, <2>3, <3>1, <3>2, <3>3 DEF AgentFits
  <2>5. /\ agentRun' = b /\ runHistory' = Append(runHistory, b.state)
        /\ UNCHANGED <<runWatermark, runProjection, runConsumer, runDesk, runQuarantine, retries>>
        /\ \/ Unannounced
           \/ /\ runEvents' = Append(runEvents, [revision |-> a.revision + 1, state |-> b.state])
              /\ runStream' = runStream \cup {Len(runEvents) + 1}
    BY <1>1, <1>5, <2>1, <2>2, RevisedRecord DEF AgentCompletes, Announce
  <2> HIDE DEF b
  <2> QED BY <1>1, <1>3, <2>2, <2>4, <2>5, RunRevised
<1>6. ASSUME NEW h \in RunDesks, CallCreate(h) PROVE RunInv'
  <2>1. CASE a.state = "none"
    <3> DEFINE b == After("requested", 2, 0, a.cancel)
    <3>1. /\ b \in AgentRunState /\ b.revision = 1 /\ b.waiting = 2 /\ b.revision = a.revision + 1
          /\ b.busy = 0 /\ b.cancel = a.cancel /\ b.state = "requested" /\ "requested" \in RunStates
          /\ "requested" \notin Ended
      <4>1. "requested" \in RunStates /\ "requested" \notin Ended /\ a.revision + 1 = 1
        BY <1>2, <2>1 DEF RunStates, Ended, Completed
      <4>2. 2 \in 0..2 /\ 0 \in 0..2
        OBVIOUS
      <4> QED BY <1>2, <4>1, <4>2 DEF AgentRunState
    <3>2. AgentFits(b, retries)
      BY <1>2, <3>1 DEF AgentFits, Spent
    <3>3. /\ agentRun' = b /\ runHistory' = Append(runHistory, b.state)
          /\ UNCHANGED <<runWatermark, runProjection, runConsumer, runQuarantine, retries>>
          /\ runEvents' = Append(runEvents, [revision |-> a.revision + 1, state |-> b.state])
          /\ runStream' = runStream \cup {Len(runEvents) + 1}
          /\ runDesk' = [runDesk EXCEPT ![h] = [revision |-> b.revision, state |-> b.state]]
      <4>1. Revised("requested", 2, 0) /\ Announce("requested")
        BY <1>6, <2>1 DEF CallCreate
      <4>2. agentRun' = b /\ runHistory' = Append(runHistory, "requested")
        BY <1>1, <4>1, RevisedRecord
      <4> HIDE DEF b
      <4> QED BY <1>6, <2>1, <3>1, <4>1, <4>2 DEF CallCreate, Announce
    <3> HIDE DEF b
    <3>4. /\ runDesk' = [g \in RunDesks |-> runDesk'[g]]
          /\ \A g \in RunDesks : \/ runDesk'[g] = runDesk[g]
                                 \/ runDesk'[g] = [revision |-> b.revision, state |-> b.state]
      BY <1>3, <3>3
    <3> QED BY <1>1, <3>1, <3>2, <3>3, <3>4, RunRevised
  <2>2. CASE a.state # "none"
    <3>1. /\ UNCHANGED <<agentRun, runHistory, runEvents, runStream, runWatermark, runProjection,
                         runConsumer, runQuarantine, retries>>
          /\ runDesk' = [runDesk EXCEPT ![h] = View]
      BY <1>6, <2>2 DEF CallCreate
    <3>2. runDesk' \in [RunDesks -> Views] /\ \A g \in RunDesks : TrueView(runDesk'[g])
      BY <3>1, RunHeld
    <3>3. /\ TrueView(runProjection') /\ runProjection'.revision >= runProjection.revision
          /\ \A k \in RunConsumers : TrueView(runConsumer'[k].view)
      BY <3>1, RunHeld
    <3>4. RunTypeOK'
      BY <3>1, <3>2 DEF RunInv, RunTypeOK
    <3>5. AgentFits(agentRun', retries')
      BY <1>1, <3>1
    <3> QED BY <3>1, <3>2, <3>3, <3>4, <3>5, RunStands
  <2> QED BY <2>1, <2>2
<1>7. CASE CancelAgentRun
  <2>1. CASE a.state = "running"
    <3> DEFINE b == After("cancelling", a.waiting, a.busy, TRUE)
    <3>1. /\ b \in AgentRunState /\ b.revision = a.revision + 1 /\ b.waiting = a.waiting
          /\ b.busy = a.busy /\ b.cancel = TRUE /\ b.state = "cancelling"
          /\ "cancelling" \in RunStates /\ "cancelling" \notin Ended /\ a.cancel = FALSE
      <4>1. "cancelling" \in RunStates /\ "cancelling" \notin Ended
        BY DEF RunStates, Ended, Completed
      <4>2. a.cancel = FALSE
        BY <1>2, <1>7 DEF CancelAgentRun
      <4>3. TRUE \in BOOLEAN /\ a.waiting \in 0..2 /\ a.busy \in 0..2
        BY <1>2
      <4> QED BY <1>2, <4>1, <4>2, <4>3 DEF AgentRunState
    <3>2. AgentFits(b, retries)
      BY <1>2, <3>1 DEF AgentFits, Spent
    <3>3. /\ agentRun' = b /\ runHistory' = Append(runHistory, b.state) /\ Unannounced
          /\ UNCHANGED <<runWatermark, runProjection, runConsumer, runDesk, runQuarantine, retries>>
      BY <1>1, <1>7, <2>1, <3>1, RevisedRecord DEF CancelAgentRun
    <3> HIDE DEF b
    <3> QED BY <1>1, <1>3, <3>1, <3>2, <3>3, RunRevised
  <2>2. CASE a.state # "running"
    <3>1. /\ agentRun' = [a EXCEPT !.cancel = TRUE]
          /\ UNCHANGED <<runHistory, runEvents, runStream, runWatermark, runProjection, runDesk,
                         runConsumer, runQuarantine, retries>>
      BY <1>7, <2>2 DEF CancelAgentRun, Unannounced
    <3>2. /\ agentRun'.revision = a.revision /\ agentRun'.state = a.state
          /\ agentRun'.waiting = a.waiting /\ agentRun'.busy = a.busy /\ agentRun'.cancel = TRUE
      BY <1>1, <3>1 DEF AgentRunState
    <3>3. AgentFits(agentRun', retries)
      BY <1>2, <3>2 DEF AgentFits, Spent
    <3>4. /\ TrueView(runProjection') /\ runProjection'.revision >= runProjection.revision
          /\ \A k \in RunConsumers : TrueView(runConsumer'[k].view)
          /\ \A g \in RunDesks : TrueView(runDesk'[g])
      BY <3>1, RunHeld
    <3>5. RunTypeOK'
      BY <3>1 DEF RunInv, RunTypeOK
    <3>6. AgentFits(agentRun', retries')
      BY <3>1, <3>3
    <3> QED BY <3>1, <3>2, <3>4, <3>5, <3>6, RunStands
  <2> QED BY <2>1, <2>2
<1>8. CASE RetryAgentRun
  <2> DEFINE b == After(a.state, 1, 0, a.cancel)
  <2>1. /\ b \in AgentRunState /\ b.revision = a.revision + 1 /\ b.waiting = 1
        /\ b.busy = 0 /\ b.cancel = a.cancel /\ b.state = a.state /\ a.state \in RunStates
        /\ a.waiting = 0 /\ a.busy = 0 /\ a.state # "none"
    <3>1. /\ a.state \in RunStates /\ a.state # "none" /\ a.waiting = 0 /\ a.busy = 0
      BY <1>2, <1>8 DEF RetryAgentRun, RunStates, Ended, Completed
    <3>2. 1 \in 0..2 /\ 0 \in 0..2
      OBVIOUS
    <3> QED BY <1>2, <3>1, <3>2 DEF AgentRunState
  <2>2. retries + 1 \in 0..MaxRetries
    BY <1>1, <1>8 DEF RetryAgentRun
  <2>3. AgentFits(b, retries + 1)
    BY <1>2, <2>1 DEF AgentFits, Spent
  <2>4. /\ agentRun' = b /\ runHistory' = Append(runHistory, b.state) /\ Unannounced
        /\ retries' = retries + 1
        /\ UNCHANGED <<runWatermark, runProjection, runConsumer, runDesk, runQuarantine>>
    BY <1>1, <1>8, <2>1, RevisedRecord DEF RetryAgentRun
  <2> HIDE DEF b
  <2> QED BY <1>1, <1>3, <2>1, <2>2, <2>3, <2>4, RunRevised
<1> QED BY <1>4, <1>5, <1>6, <1>7, <1>8

\* Every step about the run keeps the invariant, and no step takes the projection back.
LEMMA RunKeeps == RunInv /\ (RunStep \/ UNCHANGED runVars) => RunInv'
<1>1. RunInv /\ RunStep => RunInv'
  BY AgentKeeps, DesksKeep, ConsumersKeep DEF RunStep
<1>2. RunInv /\ UNCHANGED runVars => RunInv'
  BY DEF runVars, RunInv, RunTypeOK, AgentFits, Spent, TrueView, View
<1> QED BY <1>1, <1>2

LEMMA ProjectionSteps == RunInv /\ RunStep => runProjection'.revision >= runProjection.revision
<1> SUFFICES ASSUME RunInv, RunStep PROVE runProjection'.revision >= runProjection.revision
  OBVIOUS
<1>1. CASE runProjection' = runProjection
  BY <1>1, RunHeld
<1>2. ASSUME NEW h \in RunDesks, ProjectAgentRun(h)
      PROVE  runProjection'.revision >= runProjection.revision
  BY <1>2, RunHeld DEF ProjectAgentRun
<1>3. ASSUME NEW k \in RunConsumers, ConsumeAgentRunEvent(k)
      PROVE  runProjection'.revision >= runProjection.revision
  BY <1>3, RunHeld DEF ConsumeAgentRunEvent, ProjectReadBack
<1> QED
  BY <1>1, <1>2, <1>3
     DEF RunStep, AgentClaims, CancelAgentRun, RetryAgentRun, AgentCompletes, CallCreate,
         CreateStops, ReadBack, SettleRunEvent, QuarantineRunEvent, RunEventWaits, RunEventStays,
         LeaveRunEvent, ReturnRunEvent

\* The invariant has the property.
LEMMA RunImplies == RunInv => RunTypeOK /\ ProjectionCurrent
BY DEF RunInv, ProjectionCurrent, TrueView

-----------------------------------------------------------------------------
(***************************************************************************)
(* Candidates and releases.  What a handler has read under its locks still *)
(* holds when it commits.                                                  *)
(***************************************************************************)

\* What the transaction of a desk relies on.
DeskFits(d, w) ==
  /\ w.does = "decide" => approval[w.candidate] = NoApproval
  /\ w.does = "release" =>
       /\ w.candidate \in EnvironmentCandidates /\ IsReleaseEligible(d, w.candidate)
       /\ candidatePolicy[w.candidate] = activePolicy /\ ArtifactAvailable(w.candidate)
  /\ w.does = "publish" => w.candidate \in EvaluationCandidates

\* Two decisions are about different candidates.
DecideApart ==
  \A d, e \in Desks : d # e /\ desk[d].does = "decide" /\ desk[e].does = "decide" =>
                        desk[d].candidate # desk[e].candidate

\* A build that the Agent Service ended was requested.
BuildFits(c) ==
  /\ build[c] # "none" <=> approval[c].decision = "approved"
  /\ build[c] \in {"none", "requested", agentBuild[c]}
  /\ agentBuild[c] \in {"none", "succeeded", "failed", "cancelled"}
  /\ agentBuild[c] # "none" => build[c] # "none"
  /\ c \in rejectedBuilds => agentBuild[c] = "succeeded"

CandidateInv ==
  /\ ReleaseTypeOK
  /\ DecideApart
  /\ \A d \in Desks : DeskFits(d, desk[d])
  /\ \A c \in ContainerCandidates : BuildFits(c)

LEMMA InitCandidate == ReleaseInit => CandidateInv
<1> SUFFICES ASSUME ReleaseInit PROVE CandidateInv
  OBVIOUS
<1>1. /\ 0 \in 0..MaxPolicies /\ 0 \in 0..MaxTrust /\ 1 \in 1..MaxTrust
      /\ NoApproval \in Approvals /\ FreeDesk \in DeskStates
  BY ReleaseAssumption DEF NoApproval, Approvals, DeskStates
<1>2. \A d \in Desks : desk[d] = FreeDesk
  BY DEF ReleaseInit
<1>3. FreeDesk.does = "nothing"
  BY DEF FreeDesk
<1>4. releases \in Seq([candidate : EnvironmentCandidates, withdrawn : BOOLEAN])
  BY DEF ReleaseInit
<1>5. ReleaseTypeOK
  BY <1>1, <1>4 DEF ReleaseInit, ReleaseTypeOK, BuildStates
<1>6. DecideApart /\ \A d \in Desks : DeskFits(d, desk[d])
  BY <1>2, <1>3 DEF DecideApart, DeskFits
<1>7. \A c \in ContainerCandidates : BuildFits(c)
  BY DEF ReleaseInit, BuildFits, NoApproval, Candidates, EnvironmentCandidates
<1> QED BY <1>5, <1>6, <1>7 DEF CandidateInv

\* What a desk's record looks like.
LEMMA DeskShape ==
  ASSUME CandidateInv, NEW d \in Desks
  PROVE  /\ desk[d].does \in {"nothing", "decide", "release", "publish"}
         /\ desk[d].does # "nothing" => desk[d].candidate \in Candidates
         /\ desk[d].does = "decide" => desk[d].decision \in Decisions
         /\ FreeDesk.does = "nothing" /\ FreeDesk \in DeskStates
<1>1. desk[d] \in DeskStates
  BY DEF CandidateInv, ReleaseTypeOK
<1> QED BY <1>1 DEF DeskStates, FreeDesk

\* The course's policy, the deployment's trust, a new candidate.
LEMMA CourseChangesKeep ==
  ASSUME CandidateInv,
         ActivatePolicy \/ (\E d \in Desks : Redeploy(d)) \/ \E c \in Candidates : InsertCandidate(c)
  PROVE  CandidateInv'
<1>1. UNCHANGED <<approval, build, agentBuild, unsettled, desk, releases, evaluationReleases,
                  rejectedBuilds>>
  BY DEF ActivatePolicy, Redeploy, InsertCandidate
<1>2. /\ activePolicy \in Nat /\ activePolicy \in 0..MaxPolicies /\ MaxPolicies \in Nat
      /\ MaxTrust \in Nat /\ trustRevision \in [Desks -> 1..MaxTrust]
      /\ candidatePolicy \in [Candidates -> 0..MaxPolicies]
  BY ReleaseAssumption DEF CandidateInv, ReleaseTypeOK
<1>3. /\ activePolicy' \in 0..MaxPolicies /\ trustRevision' \in [Desks -> 1..MaxTrust]
      /\ candidatePolicy' \in [Candidates -> 0..MaxPolicies]
  <2>1. CASE ActivatePolicy
    BY <1>2, <2>1 DEF ActivatePolicy
  <2>2. CASE \E d \in Desks : Redeploy(d)
    BY <1>2, <2>2 DEF Redeploy
  <2>3. ASSUME NEW c \in Candidates, InsertCandidate(c)
        PROVE  /\ activePolicy' \in 0..MaxPolicies /\ trustRevision' \in [Desks -> 1..MaxTrust]
               /\ candidatePolicy' \in [Candidates -> 0..MaxPolicies]
    <3>1. PICK revision \in 1..activePolicy : candidatePolicy' = [candidatePolicy EXCEPT ![c] = revision]
      BY <2>3 DEF InsertCandidate
    <3>2. revision \in 0..MaxPolicies
      BY <1>2
    <3> QED BY <1>2, <2>3, <3>1, <3>2 DEF InsertCandidate
  <2> QED BY <2>1, <2>2, <2>3
<1>4. ReleaseTypeOK' /\ DecideApart' /\ \A c \in ContainerCandidates : BuildFits(c)'
  BY <1>1, <1>3 DEF CandidateInv, ReleaseTypeOK, DecideApart, BuildFits
<1>5. ASSUME NEW d \in Desks PROVE DeskFits(d, desk[d])'
  <2>1. DeskFits(d, desk[d]) /\ desk[d].does \in {"nothing", "decide", "release", "publish"}
        /\ FreeDesk.does = "nothing"
    BY DeskShape DEF CandidateInv
  <2>2. CASE desk[d].does # "release"
    BY <1>1, <2>1, <2>2 DEF DeskFits
  <2>3. CASE desk[d].does = "release"
    <3>1. CASE \E e \in Desks : Redeploy(e)
      <4>1. PICK e \in Desks : Redeploy(e)
        BY <3>1
      <4>2. desk[e].does = "nothing" /\ UNCHANGED <<activePolicy, candidatePolicy>>
            /\ \A f \in Desks : f # e => trustRevision'[f] = trustRevision[f]
        BY <1>2, <2>1, <4>1 DEF Redeploy
      <4>3. d # e
        BY <2>3, <4>2
      <4> QED BY <1>1, <2>1, <2>3, <4>2, <4>3 DEF DeskFits, IsReleaseEligible, ArtifactAvailable
    <3>2. CASE \E c \in Candidates : InsertCandidate(c)
      <4>1. PICK c \in Candidates : InsertCandidate(c)
        BY <3>2
      <4>2. candidatePolicy[c] = 0 /\ activePolicy # 0
            /\ UNCHANGED <<activePolicy, trustRevision>>
            /\ \A e \in Candidates : e # c => candidatePolicy'[e] = candidatePolicy[e]
        BY <1>2, <4>1 DEF InsertCandidate
      <4>3. desk[d].candidate \in Candidates /\ desk[d].candidate # c
        BY <2>1, <2>3, <4>2 DEF DeskFits, Candidates
      <4> QED BY <1>1, <2>1, <2>3, <4>2, <4>3 DEF DeskFits, IsReleaseEligible, ArtifactAvailable
    <3> QED BY <2>1, <2>3, <3>1, <3>2 DEF ActivatePolicy, CourseLockFree
  <2> QED BY <2>2, <2>3
<1> QED BY <1>4, <1>5 DEF CandidateInv

\* The Agent Service and the consumer of its build events.
LEMMA BuildsKeep ==
  ASSUME CandidateInv, NEW c \in ContainerCandidates,
         \/ \E verdict \in {"succeeded", "failed", "cancelled"} : AgentEndsBuild(c, verdict)
         \/ \E answer \in Readback : ConsumeBuildCompleted(c, answer)
         \/ ConsumeBuildFailed(c)
  PROVE  CandidateInv'
<1>1. UNCHANGED <<activePolicy, trustRevision, candidatePolicy, approval, desk, releases,
                  evaluationReleases>>
  BY DEF AgentEndsBuild, ConsumeBuildCompleted, ConsumeBuildFailed
<1>2. /\ build \in [ContainerCandidates -> BuildStates] /\ unsettled \subseteq ContainerCandidates
      /\ agentBuild \in [ContainerCandidates -> BuildStates] /\ rejectedBuilds \subseteq ContainerCandidates
      /\ \A e \in ContainerCandidates : BuildFits(e)
  BY DEF CandidateInv, ReleaseTypeOK
<1> DEFINE Stand ==
             /\ build' \in [ContainerCandidates -> BuildStates] /\ unsettled' \subseteq ContainerCandidates
             /\ agentBuild' \in [ContainerCandidates -> BuildStates]
             /\ rejectedBuilds' \subseteq ContainerCandidates
             /\ \A e \in ContainerCandidates : BuildFits(e)'
             /\ \A e \in ContainerCandidates : build[e] = "succeeded" => build'[e] = "succeeded"
<1>3. Stand
  <2>1. ASSUME NEW verdict \in {"succeeded", "failed", "cancelled"}, AgentEndsBuild(c, verdict)
        PROVE  Stand
    <3>1. /\ agentBuild' \in [ContainerCandidates -> BuildStates] /\ agentBuild'[c] = verdict
          /\ \A e \in ContainerCandidates : e # c => agentBuild'[e] = agentBuild[e]
          /\ UNCHANGED <<build, rejectedBuilds>> /\ unsettled' \subseteq ContainerCandidates
          /\ build[c] # "none" /\ agentBuild[c] = "none"
      BY <1>2, <2>1 DEF AgentEndsBuild, BuildStates
    <3> QED BY <1>1, <1>2, <3>1 DEF BuildFits
  <2>2. ASSUME NEW answer \in Readback, ConsumeBuildCompleted(c, answer) PROVE Stand
    <3>1. /\ agentBuild' = agentBuild /\ agentBuild[c] = "succeeded"
          /\ unsettled' \subseteq unsettled
          /\ rejectedBuilds' \subseteq rejectedBuilds \cup {c}
      BY <2>2 DEF ConsumeBuildCompleted, SettleOrReturn
    <3>2. \/ build' = build
          \/ build' = [build EXCEPT ![c] = "succeeded"] /\ build[c] # "none"
      BY <2>2 DEF ConsumeBuildCompleted, ProjectArtifact
    <3>3. build' \in [ContainerCandidates -> BuildStates]
          /\ (\A e \in ContainerCandidates : e # c => build'[e] = build[e])
          /\ (build'[c] = build[c] \/ (build'[c] = "succeeded" /\ build[c] # "none"))
      BY <1>2, <3>2 DEF BuildStates
    <3> QED BY <1>1, <1>2, <3>1, <3>3 DEF BuildFits
  <2>3. CASE ConsumeBuildFailed(c)
    <3>0. agentBuild[c] \in {"failed", "cancelled"} /\ build[c] \in {"requested", agentBuild[c]}
      BY <1>2, <2>3 DEF ConsumeBuildFailed, BuildFits
    <3>1. /\ UNCHANGED <<agentBuild, rejectedBuilds>> /\ agentBuild[c] \in {"failed", "cancelled"}
          /\ unsettled' \subseteq unsettled /\ build[c] \in {"requested", agentBuild[c]}
          /\ build' = [build EXCEPT ![c] = agentBuild[c]]
      BY <2>3, <3>0 DEF ConsumeBuildFailed, ProjectBuildFailure, SettleOrReturn
    <3>2. build' \in [ContainerCandidates -> BuildStates] /\ build'[c] = agentBuild[c]
          /\ \A e \in ContainerCandidates : e # c => build'[e] = build[e]
      BY <1>2, <3>1
    <3> QED BY <1>1, <1>2, <3>1, <3>2 DEF BuildFits
  <2> QED BY <2>1, <2>2, <2>3
<1>4. ReleaseTypeOK' /\ DecideApart'
  BY <1>1, <1>3 DEF CandidateInv, ReleaseTypeOK, DecideApart
<1>5. ASSUME NEW d \in Desks PROVE DeskFits(d, desk[d])'
  BY <1>1, <1>3 DEF CandidateInv, DeskFits, IsReleaseEligible, ArtifactAvailable
<1> QED BY <1>3, <1>4, <1>5 DEF CandidateInv

\* A desk opens a transaction, or ends one without writing a row of a candidate.
LEMMA DesksMove ==
  ASSUME CandidateInv, NEW d \in Desks, NEW w \in DeskStates, desk' = [desk EXCEPT ![d] = w],
         UNCHANGED <<activePolicy, trustRevision, candidatePolicy, approval, build, agentBuild,
                     unsettled, rejectedBuilds>>,
         releases' \in Seq([candidate : EnvironmentCandidates, withdrawn : BOOLEAN]),
         evaluationReleases' \subseteq EvaluationCandidates,
         DeskFits(d, w),
         w.does = "decide" =>
           \A e \in Desks : desk[e].does = "decide" => desk[e].candidate # w.candidate
  PROVE  CandidateInv'
<1>1. /\ desk' \in [Desks -> DeskStates] /\ desk'[d] = w
      /\ \A e \in Desks : e # d => desk'[e] = desk[e]
  BY DEF CandidateInv, ReleaseTypeOK
<1>2. ReleaseTypeOK'
  BY <1>1 DEF CandidateInv, ReleaseTypeOK
<1>3. DecideApart'
  BY <1>1 DEF CandidateInv, DecideApart
<1>4. ASSUME NEW e \in Desks PROVE DeskFits(e, desk[e])'
  <2>1. DeskFits(e, desk'[e])
    BY <1>1 DEF CandidateInv
  <2> QED BY <2>1 DEF DeskFits, IsReleaseEligible, ArtifactAvailable
<1>5. \A c \in ContainerCandidates : BuildFits(c)'
  BY DEF CandidateInv, BuildFits
<1> QED BY <1>2, <1>3, <1>4, <1>5 DEF CandidateInv

\* A decision is committed: no other desk decides on the candidate, and none releases it.
LEMMA DecideKeeps ==
  ASSUME CandidateInv, NEW d \in Desks, DecideCommits(d)
  PROVE  CandidateInv'
<1>1. PICK c \in Candidates, s \in Decisions : c = desk[d].candidate /\ s = desk[d].decision
  BY DeskShape DEF DecideCommits
<1> DEFINE a == [decision |-> s, policy |-> candidatePolicy[c], trust |-> trustRevision[d]]
<1>2. /\ desk[d].does = "decide" /\ approval' = [approval EXCEPT ![c] = a]
      /\ RequestBuild(c, s) /\ desk' = [desk EXCEPT ![d] = FreeDesk]
      /\ UNCHANGED <<activePolicy, trustRevision, candidatePolicy, agentBuild, unsettled, releases,
                     evaluationReleases, rejectedBuilds>>
  BY <1>1 DEF DecideCommits
<1>3. /\ approval \in [Candidates -> Approvals] /\ build \in [ContainerCandidates -> BuildStates]
      /\ desk \in [Desks -> DeskStates] /\ approval[c] = NoApproval
      /\ candidatePolicy[c] \in 0..MaxPolicies /\ trustRevision[d] \in 0..MaxTrust
  BY <1>1, <1>2, ReleaseAssumption DEF CandidateInv, ReleaseTypeOK, DeskFits
<1>4. a \in Approvals
  BY <1>3 DEF Approvals
<1>5. /\ approval' \in [Candidates -> Approvals] /\ approval'[c].decision = s
      /\ \A e \in Candidates : e # c => approval'[e] = approval[e]
  BY <1>2, <1>3, <1>4
<1>6. /\ build' \in [ContainerCandidates -> BuildStates]
      /\ \A e \in ContainerCandidates :
           build'[e] = IF e = c /\ s = "approved" THEN "requested" ELSE build[e]
  BY <1>2, <1>3 DEF RequestBuild, BuildStates
<1>7. /\ desk' \in [Desks -> DeskStates] /\ desk'[d] = FreeDesk /\ FreeDesk.does = "nothing"
      /\ \A e \in Desks : e # d => desk'[e] = desk[e]
  BY <1>2, <1>3, DeskShape
<1>8. ReleaseTypeOK'
  BY <1>2, <1>5, <1>6, <1>7 DEF CandidateInv, ReleaseTypeOK
<1>9. DecideApart'
  BY <1>7 DEF CandidateInv, DecideApart
<1>10. ASSUME NEW e \in ContainerCandidates PROVE BuildFits(e)'
  <2>1. BuildFits(e) /\ e \in Candidates
    BY DEF CandidateInv, Candidates, EnvironmentCandidates
  <2>2. CASE e # c
    BY <1>2, <1>5, <1>6, <2>1, <2>2 DEF BuildFits
  <2>3. CASE e = c
    <3>1. build[e] = "none" /\ agentBuild[e] = "none"
      BY <1>3, <2>1, <2>3 DEF BuildFits, NoApproval
    <3>2. build'[e] = IF s = "approved" THEN "requested" ELSE "none"
      BY <1>6, <2>3, <3>1
    <3>3. approval'[e].decision = s /\ agentBuild'[e] = "none" /\ rejectedBuilds' = rejectedBuilds
      BY <1>2, <1>5, <2>3, <3>1
    <3> QED BY <2>1, <3>1, <3>2, <3>3 DEF BuildFits
  <2> QED BY <2>2, <2>3
<1>11. ASSUME NEW e \in Desks PROVE DeskFits(e, desk[e])'
  <2>1. CASE e = d
    BY <1>7, <2>1 DEF DeskFits
  <2>2. CASE e # d
    <3>1. /\ desk'[e] = desk[e] /\ DeskFits(e, desk[e])
          /\ desk[e].does # "nothing" => desk[e].candidate \in Candidates
          /\ desk[e].does \in {"nothing", "decide", "release", "publish"}
      BY <1>7, <2>2, DeskShape DEF CandidateInv
    <3>2. CASE desk[e].does = "decide"
      <4>1. desk[e].candidate # c
        BY <1>1, <1>2, <2>2, <3>2 DEF CandidateInv, DecideApart
      <4> QED BY <1>5, <3>1, <3>2, <4>1 DEF DeskFits
    <3>3. CASE desk[e].does = "release"
      <4>1. desk[e].candidate # c
        BY <1>3, <3>1, <3>3 DEF DeskFits, IsReleaseEligible, NoApproval
      <4> QED BY <1>2, <1>5, <1>6, <3>1, <3>3, <4>1 DEF DeskFits, IsReleaseEligible, ArtifactAvailable
    <3>4. CASE desk[e].does \in {"nothing", "publish"}
      BY <3>1, <3>4 DEF DeskFits
    <3> QED BY <3>1, <3>2, <3>3, <3>4
  <2> QED BY <2>1, <2>2
<1> QED BY <1>8, <1>9, <1>10, <1>11 DEF CandidateInv

\* The handlers.
LEMMA HandlersKeep ==
  ASSUME CandidateInv, NEW d \in Desks,
         \/ \E c \in Candidates, decision \in Decisions : DecideReads(d, c, decision)
         \/ \E c \in EnvironmentCandidates : ReleaseReads(d, c)
         \/ \E c \in EvaluationCandidates : PrepareEvaluationRelease(d, c)
         \/ DecideCommits(d) \/ ReleaseCommits(d) \/ PublishEvaluationRelease(d) \/ DeskAborts(d)
  PROVE  CandidateInv'
<1> DEFINE Rows == [candidate : EnvironmentCandidates, withdrawn : BOOLEAN]
<1>1. /\ releases \in Seq(Rows) /\ evaluationReleases \subseteq EvaluationCandidates
      /\ FreeDesk \in DeskStates /\ FreeDesk.does = "nothing" /\ DeskFits(d, FreeDesk)
  BY DeskShape DEF CandidateInv, ReleaseTypeOK, DeskFits
<1>2. ASSUME NEW c \in Candidates, NEW s \in Decisions, DecideReads(d, c, s) PROVE CandidateInv'
  <2> DEFINE w == [does |-> "decide", candidate |-> c, decision |-> s]
  <2>1. w \in DeskStates /\ w.does = "decide" /\ w.candidate = c
    BY DEF DeskStates
  <2>2. DeskFits(d, w) /\ \A e \in Desks : desk[e].does = "decide" => desk[e].candidate # w.candidate
    BY <1>2, <2>1 DEF DecideReads, DeskFits, ForUpdate
  <2>3. desk' = [desk EXCEPT ![d] = w]
        /\ UNCHANGED <<activePolicy, trustRevision, candidatePolicy, approval, build, agentBuild,
                       unsettled, releases, evaluationReleases, rejectedBuilds>>
    BY <1>2 DEF DecideReads
  <2> HIDE DEF w, Rows
  <2> QED BY <1>1, <2>1, <2>2, <2>3, DesksMove DEF Rows
<1>3. ASSUME NEW c \in EnvironmentCandidates, ReleaseReads(d, c) PROVE CandidateInv'
  <2> DEFINE w == [does |-> "release", candidate |-> c]
  <2>1. w \in DeskStates /\ w.does = "release" /\ w.candidate = c
    BY DEF DeskStates, Candidates
  <2>2. DeskFits(d, w)
    BY <1>3, <2>1 DEF ReleaseReads, DeskFits, IsReleaseEligible
  <2>3. desk' = [desk EXCEPT ![d] = w]
        /\ UNCHANGED <<activePolicy, trustRevision, candidatePolicy, approval, build, agentBuild,
                       unsettled, releases, evaluationReleases, rejectedBuilds>>
    BY <1>3 DEF ReleaseReads
  <2> HIDE DEF w, Rows
  <2> QED BY <1>1, <2>1, <2>2, <2>3, DesksMove DEF Rows
<1>4. ASSUME NEW c \in EvaluationCandidates, PrepareEvaluationRelease(d, c) PROVE CandidateInv'
  <2> DEFINE w == [does |-> "publish", candidate |-> c]
  <2>1. w \in DeskStates /\ w.does = "publish" /\ w.candidate = c
    BY DEF DeskStates, Candidates
  <2>2. DeskFits(d, w)
    BY <2>1 DEF DeskFits
  <2>3. desk' = [desk EXCEPT ![d] = w]
        /\ UNCHANGED <<activePolicy, trustRevision, candidatePolicy, approval, build, agentBuild,
                       unsettled, releases, evaluationReleases, rejectedBuilds>>
    BY <1>4 DEF PrepareEvaluationRelease
  <2> HIDE DEF w, Rows
  <2> QED BY <1>1, <2>1, <2>2, <2>3, DesksMove DEF Rows
<1>5. CASE ReleaseCommits(d) \/ PublishEvaluationRelease(d) \/ DeskAborts(d)
  <2>1. /\ desk' = [desk EXCEPT ![d] = FreeDesk]
        /\ UNCHANGED <<activePolicy, trustRevision, candidatePolicy, approval, build, agentBuild,
                       unsettled, rejectedBuilds>>
    BY <1>5 DEF ReleaseCommits, PublishEvaluationRelease, DeskAborts
  <2>2. DeskFits(d, desk[d])
    BY DEF CandidateInv
  <2>3. releases' \in Seq(Rows)
    <3>1. CASE ReleaseCommits(d)
      <4>1. [candidate |-> desk[d].candidate, withdrawn |-> FALSE] \in Rows
        BY <2>2, <3>1 DEF ReleaseCommits, DeskFits
      <4> HIDE DEF Rows
      <4> QED BY <1>1, <3>1, <4>1, AppendProperties DEF ReleaseCommits
    <3>2. CASE ~ReleaseCommits(d)
      BY <1>1, <1>5, <3>2 DEF PublishEvaluationRelease, DeskAborts
    <3> QED BY <3>1, <3>2
  <2>4. evaluationReleases' \subseteq EvaluationCandidates
    BY <1>1, <1>5, <2>2 DEF ReleaseCommits, PublishEvaluationRelease, DeskAborts, DeskFits
  <2> HIDE DEF Rows
  <2> QED BY <1>1, <2>1, <2>3, <2>4, DesksMove DEF Rows
<1> QED BY <1>2, <1>3, <1>4, <1>5, DecideKeeps

\* A version is withdrawn.
LEMMA WithdrawKeeps ==
  ASSUME CandidateInv, NEW v \in 1..Len(releases), WithdrawVersion(v)
  PROVE  CandidateInv' /\ DOMAIN releases' = DOMAIN releases
<1> DEFINE Rows == [candidate : EnvironmentCandidates, withdrawn : BOOLEAN]
           r == [releases[v] EXCEPT !.withdrawn = TRUE]
<1>1. releases \in Seq(Rows)
  BY DEF CandidateInv, ReleaseTypeOK
<1>2. releases[v] \in Rows
  BY <1>1, ElementOfSeq
<1>3. r \in Rows
  BY <1>2
<1>4. releases' = [releases EXCEPT ![v] = r]
  BY DEF WithdrawVersion
<1>5. releases' \in Seq(Rows) /\ DOMAIN releases' = DOMAIN releases
  <2> HIDE DEF Rows, r
  <2> QED BY <1>1, <1>3, <1>4, ExceptSeq
<1> QED
  BY <1>5 DEF WithdrawVersion, CandidateInv, ReleaseTypeOK, DecideApart, DeskFits, BuildFits,
              IsReleaseEligible, ArtifactAvailable

LEMMA CandidateKeeps == CandidateInv /\ (ReleaseStep \/ UNCHANGED releaseVars) => CandidateInv'
<1>1. CandidateInv /\ ReleaseStep => CandidateInv'
  BY CourseChangesKeep, BuildsKeep, HandlersKeep, WithdrawKeeps DEF ReleaseStep
<1>2. CandidateInv /\ UNCHANGED releaseVars => CandidateInv'
  BY DEF releaseVars, CandidateInv, ReleaseTypeOK, DecideApart, DeskFits, BuildFits,
         IsReleaseEligible, ArtifactAvailable
<1> QED BY <1>1, <1>2

LEMMA CandidateImplies == CandidateInv => ReleaseTypeOK /\ BuildOfApproval /\ BuildVerdictHolds
<1> SUFFICES ASSUME CandidateInv PROVE ReleaseTypeOK /\ BuildOfApproval /\ BuildVerdictHolds
  OBVIOUS
<1>1. ReleaseTypeOK /\ \A c \in ContainerCandidates : BuildFits(c)
  BY DEF CandidateInv
<1>2. rejectedBuilds \subseteq ContainerCandidates
  BY <1>1 DEF ReleaseTypeOK
<1>3. BuildOfApproval
  BY <1>1 DEF BuildFits, BuildOfApproval
<1>4. BuildVerdictHolds
  BY <1>1, <1>2 DEF BuildFits, BuildVerdictHolds
<1> QED BY <1>1, <1>3, <1>4

\* A new release is current: only a desk that holds the course's lock appends one.
LEMMA NewReleaseCurrent ==
  ASSUME CandidateInv, ReleaseStep, NEW v \in DOMAIN releases' \ DOMAIN releases
  PROVE  LET c == releases'[v].candidate
         IN /\ \E d \in Desks : desk'[d] # desk[d] /\ IsReleaseEligible(d, c)
            /\ candidatePolicy[c] = activePolicy
            /\ c \in ContainerCandidates => build[c] = "succeeded"
<1>1. releases' # releases
  OBVIOUS
<1>2. PICK d \in Desks : ReleaseCommits(d)
  BY <1>1, WithdrawKeeps
     DEF ReleaseStep, ActivatePolicy, Redeploy, InsertCandidate, AgentEndsBuild,
         ConsumeBuildCompleted, ConsumeBuildFailed, DecideReads, ReleaseReads,
         PrepareEvaluationRelease, DecideCommits, PublishEvaluationRelease, DeskAborts
<1> DEFINE Rows == [candidate : EnvironmentCandidates, withdrawn : BOOLEAN]
           r == [candidate |-> desk[d].candidate, withdrawn |-> FALSE]
<1>3. DeskFits(d, desk[d]) /\ desk[d].does = "release" /\ releases' = Append(releases, r)
      /\ releases \in Seq(Rows)
  BY <1>2 DEF ReleaseCommits, CandidateInv, ReleaseTypeOK
<1>4. r \in Rows /\ r.candidate = desk[d].candidate
  BY <1>3 DEF DeskFits
<1>5. releases'[v] = r
  <2> HIDE DEF Rows, r
  <2>1. /\ releases' \in Seq(Rows) /\ Len(releases') = Len(releases) + 1 /\ Len(releases) \in Nat
        /\ releases'[Len(releases) + 1] = r
    BY <1>3, <1>4, AppendedLast
  <2>2. DOMAIN releases' = 1..Len(releases') /\ DOMAIN releases = 1..Len(releases)
    BY <1>3, <2>1, LenProperties
  <2>3. v = Len(releases) + 1
    BY <2>1, <2>2
  <2> QED BY <2>1, <2>3
<1>6. desk'[d] # desk[d]
  BY <1>2, <1>3, DeskShape DEF ReleaseCommits, CandidateInv, ReleaseTypeOK
<1> QED BY <1>3, <1>4, <1>5, <1>6 DEF DeskFits, ArtifactAvailable

\* A decision is not replaced.
LEMMA DecisionKept ==
  ASSUME CandidateInv, ReleaseStep, NEW c \in Candidates, approval[c] # NoApproval
  PROVE  approval'[c] = approval[c]
<1>1. CASE approval' = approval
  BY <1>1
<1>2. ASSUME NEW d \in Desks, DecideCommits(d) PROVE approval'[c] = approval[c]
  <2>1. desk[d].does = "decide" /\ approval[desk[d].candidate] = NoApproval
    BY <1>2 DEF DecideCommits, CandidateInv, DeskFits
  <2> QED BY <1>2, <2>1 DEF DecideCommits
<1> QED
  BY <1>1, <1>2
     DEF ReleaseStep, ActivatePolicy, Redeploy, InsertCandidate, AgentEndsBuild,
         ConsumeBuildCompleted, ConsumeBuildFailed, DecideReads, ReleaseReads, WithdrawVersion,
         PrepareEvaluationRelease, ReleaseCommits, PublishEvaluationRelease, DeskAborts

-----------------------------------------------------------------------------
(***************************************************************************)
(* The service                                                             *)
(***************************************************************************)

ControlInv ==
  /\ DeliveryInv /\ UploadInv /\ RunInv /\ CandidateInv /\ CourseInv
  /\ part \in Parts

\* A step is a step of one part that leaves the others.
LEMMA ControlParts ==
  ASSUME [ControlNext]_controlVars
  PROVE  /\ [Next]_vars
         /\ UploadStep \/ UNCHANGED uploadVars
         /\ RunStep \/ UNCHANGED runVars
         /\ ReleaseStep \/ UNCHANGED releaseVars
         /\ CourseStep \/ UNCHANGED courseVars
         /\ UNCHANGED part
<1>1. CASE ControlNext
  BY <1>1 DEF ControlNext, OfDelivery, OfUploads, OfRuns, OfCandidates, OfEvents
<1>2. CASE UNCHANGED controlVars
  BY <1>2 DEF controlVars
<1> QED BY <1>1, <1>2

LEMMA ControlInvariant == ControlSpec => []ControlInv
<1>1. ControlInit => ControlInv
  BY InitDelivery, InitUpload, InitRun, InitCandidate, InitCourse DEF ControlInit, ControlInv
<1>2. ControlInv /\ [ControlNext]_controlVars => ControlInv'
  <2> SUFFICES ASSUME ControlInv, [ControlNext]_controlVars PROVE ControlInv'
    OBVIOUS
  <2>1. DeliveryInv'
    BY ControlParts, NextDelivery DEF ControlInv
  <2>2. UploadInv'
    BY ControlParts, UploadKeeps DEF ControlInv
  <2>3. RunInv'
    BY ControlParts, RunKeeps DEF ControlInv
  <2>4. CandidateInv'
    BY ControlParts, CandidateKeeps DEF ControlInv
  <2>5. CourseInv'
    BY ControlParts, CourseKeeps DEF ControlInv
  <2> QED BY <2>1, <2>2, <2>3, <2>4, <2>5, ControlParts DEF ControlInv
<1> QED BY <1>1, <1>2, PTL DEF ControlSpec

\* What Control stores of others' work is what they did, whatever order handlers, workers and
\* consumers come in: a completed package holds verified files, the projection of a run is the run
\* as it was at some revision and no older than the inbox, and a build has the verdict the
\* Agent Service gave it.
THEOREM ProjectionsAlwaysSound == ControlSpec => []ProjectionsSound
<1>1. ControlInv => ProjectionsSound
  BY RunImplies, CandidateImplies
     DEF ControlInv, ProjectionsSound, ControlTypeOK, DeliveryInv, UploadInv, CourseInv
<1> QED BY <1>1, ControlInvariant, PTL

\* A client of a course's event stream misses no live event, for any number of writers that
\* commit in any order, of clients, of page limits and of removals of old events.
THEOREM SseNeverLoses == ControlSpec => []SseNoLoss
<1>1. ControlInv => SseNoLoss
  BY CourseImplies DEF ControlInv
<1> QED BY <1>1, ControlInvariant, PTL

\* A release committed by Control reaches the Environment Service once and in order, also as a
\* part of the whole service.
THEOREM ControlDelivers == ControlSpec => []ReleasesDelivered
<1>1. DeliveryInv => NothingLost
  BY DEF DeliveryInv, TypeOK, OutboxStates, OutboxFilled, StoredUnderway, NothingLost
<1>2. ControlInv => ReleasesDelivered
  BY <1>1 DEF ControlInv, DeliveryInv, ReleasesDelivered
<1> QED BY <1>2, ControlInvariant, PTL

\* No step of a worker that was overtaken, of a late answer or of a second teacher takes back
\* what is stored, and every release is current at the moment it is committed.
THEOREM ControlStepsAlwaysHold == ControlSpec => ControlSteps
<1>1. ControlInv /\ [ControlNext]_controlVars =>
        [\A p \in Completers :
           session.holder # p /\ completer'[p] # completer[p] /\ completer[p].step # "idle"
             => UNCHANGED <<session, fileRow, package, orphans>>]_uploadVars
  BY ControlParts, OvertakenStays DEF ControlInv
<1>2. ControlInv /\ [ControlNext]_controlVars =>
        [runProjection'.revision >= runProjection.revision]_runVars
  BY ControlParts, ProjectionSteps DEF ControlInv
<1>3. ControlInv /\ [ControlNext]_controlVars =>
        [\A v \in DOMAIN releases' \ DOMAIN releases :
           LET c == releases'[v].candidate
           IN /\ \E d \in Desks : desk'[d] # desk[d] /\ IsReleaseEligible(d, c)
              /\ candidatePolicy[c] = activePolicy
              /\ c \in ContainerCandidates => build[c] = "succeeded"]_releaseVars
  BY ControlParts, NewReleaseCurrent DEF ControlInv
<1>4. ControlInv /\ [ControlNext]_controlVars =>
        [\A c \in Candidates : approval[c] # NoApproval => approval'[c] = approval[c]]_releaseVars
  BY ControlParts, DecisionKept DEF ControlInv
<1>5. ControlSpec => TakenOverStays
  BY <1>1, ControlInvariant, PTL DEF ControlSpec, TakenOverStays
<1>6. ControlSpec => ProjectionAdvances
  BY <1>2, ControlInvariant, PTL DEF ControlSpec, ProjectionAdvances
<1>7. ControlSpec => ReleaseCurrent
  BY <1>3, ControlInvariant, PTL DEF ControlSpec, ReleaseCurrent
<1>8. ControlSpec => DecisionStands
  BY <1>4, ControlInvariant, PTL DEF ControlSpec, DecisionStands
<1> QED BY <1>5, <1>6, <1>7, <1>8 DEF ControlSteps

===============================================================================
