--------------------------- MODULE RunProjections ---------------------------
(***************************************************************************)
(* An agent run as the Control Service sees it: the handlers that create,  *)
(* cancel and retry the run through the Agent Service, the run's events,   *)
(* and the consumers that read the run back and project it.                *)
(*                                                                         *)
(* The Agent Service's run is reduced to its state, its revision and how   *)
(* many of its two tracks wait for a worker or have one (AgentRuns has the *)
(* rest).  A track that is claimed raises the revision without an event.   *)
(***************************************************************************)
EXTENDS Naturals, Sequences

CONSTANTS
  RunConsumers,   \* consumers of the run's events
  RunDesks,       \* handlers of createAgentRun
  MaxRetries      \* bound: tracks retried

ASSUME RunAssumption == MaxRetries \in Nat

VARIABLES
  agentRun,       \* agent.agent_runs of the Agent Service
  runHistory,     \* the state of the run at each revision, in order
  runEvents,      \* agent.outbox_events: revision and state of each event
  runStream,      \* JetStream: the events that are still to be delivered
  runWatermark,   \* control.inbox_watermarks; the inbox holds the events up to it
  runProjection,  \* control.agent_run_projections, revision 0: no row
  runConsumer,    \* the local state of each process_next
  runDesk,        \* the run that each create_agent_run has from the Agent Service
  runQuarantine,  \* events in quarantine
  retries

runVars == <<agentRun, runHistory, runEvents, runStream, runWatermark, runProjection,
             runConsumer, runDesk, runQuarantine, retries>>

-----------------------------------------------------------------------------

RunStates == {"requested", "running", "cancelling", "succeeded", "partially_succeeded", "failed"}
Completed == {"succeeded", "partially_succeeded"}
Ended == Completed \cup {"failed"}

\* Each retry is one more revision, claim and completion.
MaxRevision == 6 + 3 * MaxRetries

Views == [revision : 0..MaxRevision, state : RunStates \cup {"none"}]
NoView == [revision |-> 0, state |-> "none"]
View == [revision |-> agentRun.revision, state |-> agentRun.state]

FreeConsumer == [event |-> 0, view |-> NoView]

RunTypeOK ==
  /\ agentRun \in [revision : 0..MaxRevision, state : RunStates \cup {"none"},
                   waiting : 0..2, busy : 0..2, cancel : BOOLEAN]
  /\ runHistory \in Seq(RunStates)
  /\ runEvents \in Seq(Views)
  /\ runStream \subseteq 1..Len(runEvents)
  /\ runWatermark \in 0..Len(runEvents)
  /\ runProjection \in Views
  /\ runConsumer \in [RunConsumers -> [event : 0..Len(runEvents), view : Views]]
  /\ runDesk \in [RunDesks -> Views]
  /\ runQuarantine \subseteq 1..Len(runEvents)
  /\ retries \in 0..MaxRetries

RunInit ==
  /\ agentRun = [revision |-> 0, state |-> "none", waiting |-> 0, busy |-> 0,
                 cancel |-> FALSE]
  /\ runHistory = <<>>
  /\ runEvents = <<>>
  /\ runStream = {}
  /\ runWatermark = 0
  /\ runProjection = NoView
  /\ runConsumer = [k \in RunConsumers |-> FreeConsumer]
  /\ runDesk = [h \in RunDesks |-> NoView]
  /\ runQuarantine = {}
  /\ retries = 0

-----------------------------------------------------------------------------
(* The Agent Service *)

\* The run at its next revision.
Revised(state, waiting, busy) ==
  /\ agentRun' = [agentRun EXCEPT !.revision = @ + 1, !.state = state,
                                  !.waiting = waiting, !.busy = busy]
  /\ runHistory' = Append(runHistory, state)

Announce(state) ==
  /\ runEvents' = Append(runEvents, [revision |-> agentRun.revision + 1, state |-> state])
  /\ runStream' = runStream \cup {Len(runEvents) + 1}

Unannounced == UNCHANGED <<runEvents, runStream>>

\* claim_track and append_claimed_attempt; a track whose worker is lost is claimed
\* again, which raises the revision once more and is left out.
AgentClaims ==
  /\ agentRun.waiting > 0
  /\ Revised(IF agentRun.cancel THEN "cancelling" ELSE "running",
             agentRun.waiting - 1, agentRun.busy + 1)
  /\ Unannounced
  /\ UNCHANGED <<runWatermark, runProjection, runConsumer, runDesk, runQuarantine, retries>>

\* complete_track: the last track ends the run, with an event.
AgentCompletes(state) ==
  /\ agentRun.busy > 0
  /\ \/ /\ agentRun.busy = 1 /\ agentRun.waiting = 0 /\ state \in Ended
        /\ Revised(state, 0, 0)
        /\ Announce(state)
     \/ /\ agentRun.busy + agentRun.waiting = 2 /\ state = agentRun.state
        /\ Revised(state, agentRun.waiting, agentRun.busy - 1)
        /\ Unannounced
  /\ UNCHANGED <<runWatermark, runProjection, runConsumer, runDesk, runQuarantine, retries>>

-----------------------------------------------------------------------------
(* Control's handlers *)

\* AgentClient::create in create_agent_run_for_class: the first request creates the
\* run with its event, a repeated one is answered with the run as it is now.
CallCreate(h) ==
  /\ runDesk[h] = NoView
  /\ IF agentRun.state = "none"
     THEN /\ Revised("requested", 2, 0)
          /\ Announce("requested")
     ELSE UNCHANGED <<agentRun, runHistory, runEvents, runStream>>
  /\ runDesk' = [runDesk EXCEPT ![h] =
       IF agentRun.state = "none" THEN [revision |-> 1, state |-> "requested"] ELSE View]
  /\ UNCHANGED <<runWatermark, runProjection, runConsumer, runQuarantine, retries>>

\* project_agent_run: a later revision is written, an earlier one changes nothing and
\* is reported when it is not the one projected.
ProjectAgentRun(h) ==
  /\ runDesk[h] # NoView
  /\ runProjection' = IF runDesk[h].revision > runProjection.revision THEN runDesk[h]
                      ELSE runProjection
  /\ runDesk' = [runDesk EXCEPT ![h] = NoView]
  /\ UNCHANGED <<agentRun, runHistory, runEvents, runStream, runWatermark, runConsumer,
                 runQuarantine, retries>>

\* The process or the connection ends between the two.
CreateStops(h) ==
  /\ runDesk[h] # NoView
  /\ runDesk' = [runDesk EXCEPT ![h] = NoView]
  /\ UNCHANGED <<agentRun, runHistory, runEvents, runStream, runWatermark, runProjection,
                 runConsumer, runQuarantine, retries>>

\* The caller's If-Match is the revision projected here and the one of the Agent Service.
RevisionMatches == runProjection.revision # 0 /\ runProjection.revision = agentRun.revision

\* cancel_agent_run: a run that has a worker is revised, one that has none only
\* remembers the request; the answer is not projected.
CancelAgentRun ==
  /\ RevisionMatches
  /\ agentRun.state \notin Ended /\ ~agentRun.cancel
  /\ IF agentRun.state = "running"
     THEN /\ agentRun' = [agentRun EXCEPT !.revision = @ + 1, !.state = "cancelling",
                                          !.cancel = TRUE]
          /\ runHistory' = Append(runHistory, "cancelling")
     ELSE /\ agentRun' = [agentRun EXCEPT !.cancel = TRUE]
          /\ UNCHANGED runHistory
  /\ Unannounced
  /\ UNCHANGED <<runWatermark, runProjection, runConsumer, runDesk, runQuarantine, retries>>

\* retry_agent_run of a track that has not succeeded: the run keeps its state, there
\* is no event and the answer is not projected.
RetryAgentRun ==
  /\ RevisionMatches
  /\ agentRun.state \in {"partially_succeeded", "failed"} /\ agentRun.waiting = 0
  /\ retries < MaxRetries
  /\ retries' = retries + 1
  /\ Revised(agentRun.state, 1, 0)
  /\ Unannounced
  /\ UNCHANGED <<runWatermark, runProjection, runConsumer, runDesk, runQuarantine>>

-----------------------------------------------------------------------------
(* Control's consumers *)

\* process_next, at any delivery of the event: a requested run is read from the projection, else from the Agent
\* Service; the outcome of one that has ended from the Agent Service.
ReadBack(k, n) ==
  /\ runConsumer[k] = FreeConsumer
  /\ n \in runStream
  /\ runConsumer' = [runConsumer EXCEPT ![k] =
       [event |-> n,
        view |-> IF runEvents[n].state = "requested" /\ runProjection.revision # 0
                 THEN runProjection ELSE View]]
  /\ UNCHANGED <<agentRun, runHistory, runEvents, runStream, runWatermark, runProjection,
                 runDesk, runQuarantine, retries>>

\* The event's revision and state are those of the run that was read
\* (event_matches_run).
EventMatchesRun(k) == runConsumer[k].view = runEvents[runConsumer[k].event]

\* double_ack, which may be lost.
AcknowledgeRunEvent(n) == runStream' \in {runStream, runStream \ {n}}

\* A Nak, or no answer within the acknowledgement wait: the event is delivered again, unless
\* this was the last of the deliveries its durable consumer is created with (--max-deliver).
\* Their number is left open: any delivery may be the last.
ReturnRunEvent(n) == runStream' \in {runStream, runStream \ {n}}

\* The upsert of consume_agent_run_event.
ProjectReadBack(view) ==
  runProjection' = IF view.revision >= runProjection.revision THEN view ELSE runProjection

\* consume_agent_run_event: the inbox, the projection and the candidates are one
\* transaction.  A duplicate changes nothing and is acknowledged.
ConsumeAgentRunEvent(k) ==
  LET n == runConsumer[k].event
  IN /\ n # 0 /\ EventMatchesRun(k)
     /\ \/ /\ n = runWatermark + 1
           /\ runWatermark' = n
           /\ ProjectReadBack(runConsumer[k].view)
        \/ /\ n <= runWatermark
           /\ UNCHANGED <<runWatermark, runProjection>>
     /\ AcknowledgeRunEvent(n)
     /\ runConsumer' = [runConsumer EXCEPT ![k] = FreeConsumer]
     /\ UNCHANGED <<agentRun, runHistory, runEvents, runDesk, runQuarantine, retries>>

LeaveRunEvent(k) ==
  /\ ReturnRunEvent(runConsumer[k].event)
  /\ runConsumer' = [runConsumer EXCEPT ![k] = FreeConsumer]
  /\ UNCHANGED <<agentRun, runHistory, runEvents, runWatermark, runProjection, runDesk,
                 runQuarantine, retries>>

\* EventSequenceGap: an event that waits for one that is in quarantine, or is delivered no
\* more, uses up its own deliveries.
RunEventWaits(k) ==
  /\ runConsumer[k] # FreeConsumer /\ EventMatchesRun(k)
  /\ runConsumer[k].event > runWatermark + 1
  /\ LeaveRunEvent(k)

\* An error of the database or of the Agent Service, or the end of the process.
RunEventStays(k) == runConsumer[k] # FreeConsumer /\ LeaveRunEvent(k)

\* ProjectionConflict, before the inbox is asked: quarantine, then Term.
QuarantineRunEvent(k) ==
  LET n == runConsumer[k].event
  IN /\ n # 0 /\ ~EventMatchesRun(k)
     /\ runQuarantine' = runQuarantine \cup {n}
     /\ runStream' = runStream \ {n}
     /\ runConsumer' = [runConsumer EXCEPT ![k] = FreeConsumer]
     /\ UNCHANGED <<agentRun, runHistory, runEvents, runWatermark, runProjection, runDesk, retries>>

SettleRunEvent(k) == ConsumeAgentRunEvent(k) \/ QuarantineRunEvent(k)

RunStep ==
  \/ AgentClaims \/ CancelAgentRun \/ RetryAgentRun
  \/ \E state \in RunStates : AgentCompletes(state)
  \/ \E h \in RunDesks : CallCreate(h) \/ ProjectAgentRun(h) \/ CreateStops(h)
  \/ \E k \in RunConsumers :
       \/ (\E n \in 1..Len(runEvents) : ReadBack(k, n))
       \/ SettleRunEvent(k) \/ RunEventWaits(k) \/ RunEventStays(k)

-----------------------------------------------------------------------------
(* Properties *)

\* Whatever order handlers and consumers come in, the projection is the run as it was at
\* some revision, and at least as new as every event in the inbox: an older answer of a
\* create request never hides the outcome.
ProjectionCurrent ==
  /\ runProjection.revision # 0 =>
       runProjection.revision <= Len(runHistory)
         /\ runHistory[runProjection.revision] = runProjection.state
  /\ \A n \in 1..runWatermark : runEvents[n].revision <= runProjection.revision

\* The projection never goes back to an earlier revision (the WHERE of both upserts).
ProjectionAdvances == [][runProjection'.revision >= runProjection.revision]_runVars

=============================================================================
