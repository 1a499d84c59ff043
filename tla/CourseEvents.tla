---------------------------- MODULE CourseEvents ----------------------------
(***************************************************************************)
(* The event stream of a course: the transactions of the Control Service   *)
(* that append to it (append_sse), the handlers that stream it to clients  *)
(* (events and sse_page), and retention (purge_expired_sse).               *)
(*                                                                         *)
(* created_at is the start of the writing transaction, so that an event    *)
(* may expire before one with a smaller sequence.  A client remembers the  *)
(* id of the last event it received and resumes there; when the service    *)
(* answers that the cursor has expired it takes a snapshot and begins      *)
(* again.                                                                  *)
(***************************************************************************)
EXTENDS Naturals, FiniteSets

CONSTANTS
  Writers,         \* transactions that append an event
  Clients,         \* clients of the stream
  MaxCourseEvents, \* bound: events of the course
  PageLimit,       \* events of one page
  MaxDrops         \* bound: connections lost or at the end of their authorization

ASSUME CourseAssumption ==
  MaxCourseEvents \in Nat /\ PageLimit \in Nat \ {0} /\ MaxDrops \in Nat

VARIABLES
  eventRow,      \* control.sse_events
  lastSequence,  \* control.sse_course_cursors
  appended,      \* the sequence each open transaction has inserted, 0: none
  client,        \* each client and the stream that serves it
  drops

courseVars == <<eventRow, lastSequence, appended, client, drops>>

-----------------------------------------------------------------------------

Sequences1 == 1..MaxCourseEvents

NewClient == [open |-> FALSE, cursor |-> 0, pending |-> {}, last |-> 0, seen |-> {}]

CourseTypeOK ==
  /\ eventRow \in [Sequences1 -> {"none", "live", "expired", "purged"}]
  /\ lastSequence \in 0..MaxCourseEvents
  /\ appended \in [Writers -> 0..MaxCourseEvents]
  /\ client \in [Clients -> [open : BOOLEAN, cursor : 0..MaxCourseEvents,
                            pending : SUBSET Sequences1, last : 0..MaxCourseEvents,
                            seen : SUBSET Sequences1]]
  /\ drops \in 0..MaxDrops

CourseInit ==
  /\ eventRow = [n \in Sequences1 |-> "none"]
  /\ lastSequence = 0
  /\ appended = [w \in Writers |-> 0]
  /\ client = [r \in Clients |-> NewClient]
  /\ drops = 0

-----------------------------------------------------------------------------
(* Writers *)

Greatest(S) == CHOOSE n \in S : \A m \in S : m <= n

\* Mutant: the sequence is taken from a counter that nobody holds until the commit.
AppendSseUnlocked(w) ==
  LET next == Greatest({lastSequence} \cup {appended[v] : v \in Writers}) + 1
  IN /\ appended[w] = 0
     /\ next <= MaxCourseEvents
     /\ appended' = [appended EXCEPT ![w] = next]
     /\ UNCHANGED <<eventRow, lastSequence, client, drops>>

\* append_sse: the upsert locks the cursor of the course until the transaction ends.
AppendSse(w) ==
  /\ \A v \in Writers : appended[v] = 0
  /\ lastSequence < MaxCourseEvents
  /\ appended' = [appended EXCEPT ![w] = lastSequence + 1]
  /\ UNCHANGED <<eventRow, lastSequence, client, drops>>

\* The transaction commits: the event and the cursor become visible together.
AppendCommits(w) ==
  /\ appended[w] # 0
  /\ eventRow' = [eventRow EXCEPT ![appended[w]] = "live"]
  /\ lastSequence' = Greatest({lastSequence, appended[w]})
  /\ appended' = [appended EXCEPT ![w] = 0]
  /\ UNCHANGED <<client, drops>>

\* It is rolled back, and the cursor of the course with it.
AppendAborts(w) ==
  /\ appended[w] # 0
  /\ appended' = [appended EXCEPT ![w] = 0]
  /\ UNCHANGED <<eventRow, lastSequence, client, drops>>

-----------------------------------------------------------------------------
(* Retention *)

\* sse_retention_seconds after created_at.
EventExpires(n) ==
  /\ eventRow[n] = "live"
  /\ eventRow' = [eventRow EXCEPT ![n] = "expired"]
  /\ UNCHANGED <<lastSequence, appended, client, drops>>

\* purge_expired_sse.
PurgeExpiredSse ==
  /\ \E n \in Sequences1 : eventRow[n] = "expired"
  /\ eventRow' = [n \in Sequences1 |-> IF eventRow[n] = "expired" THEN "purged" ELSE eventRow[n]]
  /\ UNCHANGED <<lastSequence, appended, client, drops>>

-----------------------------------------------------------------------------
(* Readers *)

\* sse_page: a cursor is at most the last sequence, and its event has not expired.
CursorCurrent(cursor) ==
  cursor <= lastSequence /\ (cursor # 0 => eventRow[cursor] = "live")

\* sse_page: the first PageLimit events after the cursor that have not expired (ORDER BY
\* sequence LIMIT).
SsePage(cursor) ==
  LET after == {n \in Sequences1 : n > cursor /\ eventRow[n] = "live"}
  IN {n \in after : Cardinality({m \in after : m <= n}) <= PageLimit}

\* events, after authorize_decision: the first page is read for the client's
\* Last-Event-ID.  An expired cursor is an error, after which the client begins
\* again.
OpenStream(r) ==
  /\ ~client[r].open
  /\ client' = [client EXCEPT ![r] =
       IF CursorCurrent(client[r].last)
       THEN [client[r] EXCEPT !.open = TRUE, !.cursor = client[r].last,
                              !.pending = SsePage(client[r].last)]
       ELSE NewClient]
  /\ UNCHANGED <<eventRow, lastSequence, appended, drops>>

\* The stream's state moves to the next pending record, which the client receives: the
\* page is in the order of the sequences.
SendEvent(r) ==
  /\ client[r].open
  /\ \E n \in client[r].pending :
       /\ \A m \in client[r].pending : n <= m
       /\ client' = [client EXCEPT ![r] =
            [client[r] EXCEPT !.cursor = n, !.pending = client[r].pending \ {n}, !.last = n,
                              !.seen = client[r].seen \cup {n}]]
  /\ UNCHANGED <<eventRow, lastSequence, appended, drops>>

\* Without pending records the stream reads the next page, each second; an error
\* ends it.
PollPage(r) ==
  /\ client[r].open /\ client[r].pending = {}
  /\ client' = [client EXCEPT ![r] =
       IF CursorCurrent(client[r].cursor)
       THEN [client[r] EXCEPT !.pending = SsePage(client[r].cursor)]
       ELSE [client[r] EXCEPT !.open = FALSE]]
  /\ UNCHANGED <<eventRow, lastSequence, appended, drops>>

\* valid_until of the authorization, or the connection, ends: pending records, and
\* one that was on its way, are lost with it.
StreamEnds(r) ==
  /\ client[r].open /\ drops < MaxDrops
  /\ drops' = drops + 1
  /\ client' = [client EXCEPT ![r] = [client[r] EXCEPT !.open = FALSE, !.pending = {}]]
  /\ UNCHANGED <<eventRow, lastSequence, appended>>

ReaderStep(r) == OpenStream(r) \/ SendEvent(r) \/ PollPage(r)

CourseStep ==
  \/ \E w \in Writers : AppendSse(w) \/ AppendCommits(w) \/ AppendAborts(w)
  \/ \E n \in Sequences1 : EventExpires(n)
  \/ PurgeExpiredSse
  \/ \E r \in Clients : ReaderStep(r) \/ StreamEnds(r)

-----------------------------------------------------------------------------
(* Properties *)

\* A client misses nothing that is still kept: whatever transactions commit around its
\* reads, every unexpired event up to the last one it received was received too, since
\* sequences become visible in their order (the row lock of append_sse).
SseNoLoss ==
  \A r \in Clients : \A n \in 1..client[r].last :
    eventRow[n] = "none" \/ eventRow[n] = "live" => n \in client[r].seen

\* An event reaches every client that keeps its stream open, or expires: an idle stream
\* whose cursor expires, a lost connection and the end of an authorization only delay it.
EventReaches ==
  \A r \in Clients, n \in Sequences1 :
    eventRow[n] = "live" ~> eventRow[n] # "live" \/ n \in client[r].seen

=============================================================================
