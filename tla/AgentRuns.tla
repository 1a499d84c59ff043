------------------------------ MODULE AgentRuns ------------------------------
(***************************************************************************)
(* An agent run of the Agent Service (services/agent-service/src/          *)
(* run_store.rs, run_helpers.rs and the Worker of main.rs): ONE run with   *)
(* its two tracks, prepared and executed by the workers of several         *)
(* processes over one database.  A worker takes the dispatch of the run,   *)
(* prepares its input, takes a lease on each track that is due and lets    *)
(* both generate; an error of any step ends its process, which is started  *)
(* again with nothing in memory.                                           *)
(*                                                                         *)
(* A lease token is drawn for every claim: the token of a track is the     *)
(* number of the attempt it was drawn for, and the token of a dispatch is  *)
(* the worker that drew it, for a worker has at most one.                  *)
(***************************************************************************)
EXTENDS AgentProcesses

CONSTANT MaxAttempts  \* bound: the lease of a worker that lives runs out and
                      \* tracks are retried only below this number

ASSUME RunConstants == MaxAttempts \in Nat \ {0}

VARIABLES
  run,         \* agent.agent_runs: state, cancellation_requested_at
  attempts,    \* the attempts of each track in the run's contract
  work,        \* agent.agent_track_work_items
  dispatch,    \* agent.agent_run_dispatches
  checkpoints, \* agent.agent_checkpoints: the sequence numbers in use
  announced,   \* agent.outbox_events of the run, in aggregate_sequence order
  worker       \* the Worker of each process

runVars == <<run, attempts, work, dispatch, checkpoints, announced, worker>>

Tracks         == {"environment", "evaluation"}
TerminalRun    == {"partially_succeeded", "succeeded", "failed", "cancelled"}
AttemptStates  == {"running", "succeeded", "failed", "cancelled"}
Ended          == {"succeeded", "failed", "cancelled"}

IdleWorker == [step |-> "idle", seen |-> "none", lease |-> [t \in Tracks |-> 0],
               generating |-> {}, lost |-> FALSE, cancelled |-> FALSE]

RunTypeOK ==
  /\ run \in [state : {"none", "requested", "running", "cancelling"} \cup TerminalRun,
              cancel : BOOLEAN]
  /\ attempts \in [Tracks -> Seq(AttemptStates)]
  /\ work \in [Tracks -> [state : {"none", "requested", "running"} \cup Ended,
                          attempt : 0..MaxAttempts + MaxStops,
                          holder : Processes \cup {NoProcess}, live : BOOLEAN]]
  /\ dispatch \in [state : {"none", "pending", "preparing", "prepared", "failed"},
                   holder : Processes \cup {NoProcess}, live : BOOLEAN]
  /\ checkpoints \subseteq 1..2 * (MaxAttempts + MaxStops)
  /\ announced \in Seq({"requested", "completed", "failed"})
  /\ worker \in [Processes ->
       [step : {"idle", "claimed", "bound", "environment", "evaluation", "executing"},
        seen : {"none", "requested", "running", "cancelling"} \cup TerminalRun,
        lease : [Tracks -> 0..MaxAttempts + MaxStops], generating : SUBSET Tracks,
        lost : BOOLEAN, cancelled : BOOLEAN]]

RunInit ==
  /\ run = [state |-> "none", cancel |-> FALSE]
  /\ attempts = [t \in Tracks |-> <<>>]
  /\ work = [t \in Tracks |-> [state |-> "none", attempt |-> 0,
                               holder |-> NoProcess, live |-> FALSE]]
  /\ dispatch = [state |-> "none", holder |-> NoProcess, live |-> FALSE]
  /\ checkpoints = {}
  /\ announced = <<>>
  /\ worker = [p \in Processes |-> IdleWorker]

-----------------------------------------------------------------------------
(* The contract of a run *)

LastAttempt(as, t) == IF as[t] = <<>> THEN "none" ELSE as[t][Len(as[t])]

\* AgentRun::derived_state, from the latest attempt of each track.
DerivedState(as) ==
  LET latest    == [t \in Tracks |-> LastAttempt(as, t)]
      succeeded == {t \in Tracks : latest[t] = "succeeded"}
      terminal  == {t \in Tracks : latest[t] \in Ended}
  IN  IF \A t \in Tracks : latest[t] = "none" THEN "requested"
      ELSE IF terminal # Tracks THEN "running"
      ELSE IF succeeded = Tracks THEN "succeeded"
      ELSE IF succeeded # {} THEN "partially_succeeded"
      ELSE IF \A t \in Tracks : latest[t] = "cancelled" THEN "cancelled"
      ELSE "failed"

\* The state written with the attempts as: a run that is to be cancelled and
\* still runs is cancelling.
RunState(as) == IF run.cancel /\ DerivedState(as) = "running" THEN "cancelling"
                                                             ELSE DerivedState(as)

\* checkpoint_sequence: the tracks take turns, so that no two attempts share one.
CheckpointSequence(t, n) == 2 * (n - 1) + (IF t = "environment" THEN 1 ELSE 2)

\* apply_checkpoint: the last attempt of the track takes its outcome.
ApplyCheckpoint(t, outcome) == [attempts EXCEPT ![t][Len(attempts[t])] = outcome]

\* insert_checkpoint, under the number of the attempt that the lease is for.
InsertCheckpoint(t, n) ==
  /\ CheckpointSequence(t, n) \notin checkpoints
  /\ checkpoints' = checkpoints \cup {CheckpointSequence(t, n)}

\* terminal_event and enqueue_run_event: the event of a run that has ended.
TerminalEvent(s) == IF s \in {"succeeded", "partially_succeeded"} THEN "completed" ELSE "failed"
EnqueueRunEvent(s) ==
  announced' = IF s \in TerminalRun THEN Append(announced, TerminalEvent(s)) ELSE announced

-----------------------------------------------------------------------------
(* Requests of the Control Service *)

\* create_run and reserve_dispatch: the run, its two work items, its dispatch
\* and its first event are one transaction; the same request again is answered
\* from the idempotency ledger.
ReserveDispatch ==
  /\ run.state = "none"
  /\ run' = [run EXCEPT !.state = "requested"]
  /\ work' = [t \in Tracks |-> [work[t] EXCEPT !.state = "requested"]]
  /\ dispatch' = [dispatch EXCEPT !.state = "pending"]
  /\ announced' = <<"requested">>
  /\ UNCHANGED <<attempts, checkpoints, worker>>

\* cancel_run and request_cancellation_revisioned: a run that runs is cancelling
\* from now on; one that is only requested keeps its state.
RequestCancellation ==
  /\ run.state \in {"requested", "running", "cancelling"}
  /\ ~run.cancel
  /\ run' = [state |-> IF run.state = "running" THEN "cancelling" ELSE run.state, cancel |-> TRUE]
  /\ UNCHANGED <<attempts, work, dispatch, checkpoints, announced, worker>>

\* retry_track and retry_track_revisioned: a track that ended without success is
\* requested again.  The state of the run, of its dispatch and its cancellation
\* are left as they are.
RetryTrack(t) ==
  /\ run.state \in {"failed", "partially_succeeded", "cancelled"}
  /\ LastAttempt(attempts, t) \in {"failed", "cancelled"}
  /\ work[t].state \in {"failed", "cancelled"}
  /\ work[t].attempt < MaxAttempts
  /\ work' = [work EXCEPT ![t] = [state |-> "requested", attempt |-> work[t].attempt,
                                  holder |-> NoProcess, live |-> FALSE]]
  /\ UNCHANGED <<run, attempts, dispatch, checkpoints, announced, worker>>

-----------------------------------------------------------------------------
(* The preparation of a dispatch *)

\* Some track can be claimed: it is requested, or its lease has run out.
Claimable(t) == work[t].state = "requested" \/ (work[t].state = "running" /\ ~work[t].live)

\* claim_dispatch: a dispatch that nobody prepares and that has work to do.
ClaimDispatch(p) ==
  /\ worker[p].step = "idle"
  /\ \/ dispatch.state \in {"pending", "prepared"}
     \/ dispatch.state = "preparing" /\ ~dispatch.live
  /\ \E t \in Tracks : Claimable(t)
  /\ dispatch' = [state |-> "preparing", holder |-> p, live |-> TRUE]
  /\ worker' = [worker EXCEPT ![p] = [IdleWorker EXCEPT !.step = "claimed", !.seen = run.state]]
  /\ UNCHANGED <<run, attempts, work, checkpoints, announced>>

\* The worker still holds the unexpired lease of the dispatch.
DispatchFenced(p) == dispatch.state = "preparing" /\ dispatch.holder = p /\ dispatch.live

\* An error leaves the Worker's loop: the process ends and is started again.
Exit(p) == worker' = [worker EXCEPT ![p] = IdleWorker]

\* gate.prepare refuses the package, and fail_dispatch_preparation ends both
\* tracks if nothing has been attempted yet; otherwise, and without the lease,
\* it is an error.
FailDispatchPreparation(p) ==
  LET ending == IF run.cancel THEN "cancelled" ELSE "failed"
      fails  == /\ DispatchFenced(p)
                /\ \A t \in Tracks : attempts[t] = <<>> /\ work[t].state = "requested"
  IN  /\ worker[p].step = "claimed"
      /\ \/ /\ fails
            /\ attempts' = [t \in Tracks |-> <<ending>>]
            /\ run' = [run EXCEPT !.state = ending]
            /\ work' = [t \in Tracks |-> [state |-> ending, attempt |-> 1,
                                          holder |-> NoProcess, live |-> FALSE]]
            /\ dispatch' = [state |-> "failed", holder |-> NoProcess, live |-> FALSE]
            /\ EnqueueRunEvent(ending)
            /\ worker' = [worker EXCEPT ![p] = IdleWorker]
         \/ /\ ~fails
            /\ Exit(p)
            /\ UNCHANGED <<run, attempts, work, dispatch, announced>>
      /\ UNCHANGED checkpoints

\* bind_prepared_dispatch: the input is ready, and the lease is given up before
\* a track has been claimed.  The input of a package never changes.
BindPreparedDispatch(p) ==
  /\ worker[p].step = "claimed"
  /\ \/ /\ DispatchFenced(p)
        /\ dispatch' = [state |-> "prepared", holder |-> NoProcess, live |-> FALSE]
        /\ worker' = [worker EXCEPT ![p].step = "bound"]
     \/ /\ ~DispatchFenced(p)
        /\ Exit(p)
        /\ UNCHANGED dispatch
  /\ UNCHANGED <<run, attempts, work, checkpoints, announced>>

\* execute_reserved begins with validate_reserved_run, which refuses a run that
\* had failed or was cancelled when the dispatch was claimed.
ValidateReservedRun(p) ==
  /\ worker[p].step = "bound"
  /\ IF worker[p].seen \in {"failed", "cancelled"}
       THEN Exit(p)
       ELSE worker' = [worker EXCEPT ![p].step = "environment"]
  /\ UNCHANGED <<run, attempts, work, dispatch, checkpoints, announced>>

-----------------------------------------------------------------------------
(* The execution of the tracks *)

\* append_claimed_attempt: an attempt whose lease ran out has failed, and a new
\* one follows it.
AppendClaimedAttempt(t) ==
  LET ended == IF work[t].state = "running"
                 THEN [attempts[t] EXCEPT ![Len(attempts[t])] = "failed"] ELSE attempts[t]
  IN  [attempts EXCEPT ![t] = Append(ended, "running")]

\* claim_track, of the environment first: nothing is claimed of a track that has
\* ended or is leased.
ClaimTrack(p, t) ==
  LET next == IF t = "environment" THEN "evaluation" ELSE "executing"
      n    == work[t].attempt + 1
  IN  /\ worker[p].step = t
      /\ \/ /\ Claimable(t)
            /\ attempts' = AppendClaimedAttempt(t)
            /\ run' = [run EXCEPT !.state = RunState(attempts')]
            /\ work' = [work EXCEPT ![t] = [state |-> "running", attempt |-> n,
                                            holder |-> p, live |-> TRUE]]
            /\ worker' = [worker EXCEPT ![p] = [worker[p] EXCEPT
                 !.step = next, !.lease = [worker[p].lease EXCEPT ![t] = n],
                 !.generating = @ \cup {t}, !.cancelled = @ \/ run.cancel]]
         \/ /\ ~Claimable(t)
            /\ worker' = [worker EXCEPT ![p].step = next]
            /\ UNCHANGED <<run, attempts, work>>
      /\ UNCHANGED <<dispatch, checkpoints, announced>>

\* The row is still the one that worker p claimed, and its lease has not run out.
TrackFenced(p, t) ==
  /\ work[t].state = "running" /\ work[t].live
  /\ work[t].holder = p /\ work[t].attempt = worker[p].lease[t]

\* A track whose lease is lost stops; the other one still runs to its end.
LoseTrack(p, t) ==
  worker' = [worker EXCEPT ![p] = [worker[p] EXCEPT !.generating = @ \ {t}, !.lost = TRUE]]

\* heartbeat_track in execute_track: a cancellation stops both tracks.
HeartbeatTrack(p, t) ==
  /\ worker[p].step = "executing" /\ t \in worker[p].generating
  /\ \/ /\ TrackFenced(p, t)
        /\ run.cancel /\ ~worker[p].cancelled
        /\ worker' = [worker EXCEPT ![p].cancelled = TRUE]
     \/ /\ ~TrackFenced(p, t)
        /\ LoseTrack(p, t)
  /\ UNCHANGED <<run, attempts, work, dispatch, checkpoints, announced>>

\* Mutant: the fencing token is not compared.
CompleteTrackUnfenced(p, t, outcome) ==
  LET as == ApplyCheckpoint(t, outcome)
  IN  /\ worker[p].step = "executing" /\ t \in worker[p].generating
      /\ outcome = "cancelled" => worker[p].cancelled
      /\ attempts' = as
      /\ run' = [run EXCEPT !.state = RunState(as)]
      /\ checkpoints' = checkpoints \cup {CheckpointSequence(t, worker[p].lease[t])}
      /\ work' = [work EXCEPT ![t] = [state |-> outcome, attempt |-> work[t].attempt,
                                      holder |-> NoProcess, live |-> FALSE]]
      /\ EnqueueRunEvent(RunState(as))
      /\ worker' = [worker EXCEPT ![p].generating = @ \ {t}]
      /\ UNCHANGED dispatch

\* complete_track: the outcome, its checkpoint, the state of the run and, when
\* both tracks have ended, its event are committed under the lease.  A
\* generation is cancelled only when it was told so; it may end before.
CompleteTrack(p, t, outcome) ==
  LET as == ApplyCheckpoint(t, outcome)
  IN  /\ worker[p].step = "executing" /\ t \in worker[p].generating
      /\ outcome = "cancelled" => worker[p].cancelled
      /\ \/ /\ TrackFenced(p, t)
            /\ InsertCheckpoint(t, worker[p].lease[t])
            /\ attempts' = as
            /\ run' = [run EXCEPT !.state = RunState(as)]
            /\ work' = [work EXCEPT ![t] = [state |-> outcome, attempt |-> work[t].attempt,
                                            holder |-> NoProcess, live |-> FALSE]]
            /\ EnqueueRunEvent(RunState(as))
            /\ worker' = [worker EXCEPT ![p].generating = @ \ {t}]
         \/ /\ ~TrackFenced(p, t)
            /\ LoseTrack(p, t)
            /\ UNCHANGED <<run, attempts, work, checkpoints, announced>>
      /\ UNCHANGED dispatch

\* execute_reserved has joined both tracks; a lost lease is an error.
ExecutionEnds(p) ==
  /\ worker[p].step = "executing" /\ worker[p].generating = {}
  /\ Exit(p)
  /\ UNCHANGED <<run, attempts, work, dispatch, checkpoints, announced>>

-----------------------------------------------------------------------------
(* Time *)

\* A lease that is not renewed in time runs out, whoever holds it.
DispatchLeaseLapses ==
  /\ dispatch.state = "preparing" /\ dispatch.live
  /\ dispatch' = [dispatch EXCEPT !.live = FALSE]
  /\ UNCHANGED <<run, attempts, work, checkpoints, announced, worker>>

TrackLeaseLapses(t) ==
  /\ work[t].state = "running" /\ work[t].live
  /\ work[t].attempt < MaxAttempts \/ ~(\E p \in Processes : t \in worker[p].generating)
  /\ work' = [work EXCEPT ![t].live = FALSE]
  /\ UNCHANGED <<run, attempts, dispatch, checkpoints, announced, worker>>

\* What a worker does by itself.
WorkerStep(p) ==
  \/ ClaimDispatch(p)
  \/ BindPreparedDispatch(p)
  \/ ValidateReservedRun(p)
  \/ \E t \in Tracks : ClaimTrack(p, t) \/ HeartbeatTrack(p, t)
  \/ \E t \in Tracks, o \in Ended : CompleteTrack(p, t, o)
  \/ ExecutionEnds(p)

RunStep ==
  \/ ReserveDispatch
  \/ RequestCancellation
  \/ \E t \in Tracks : RetryTrack(t) \/ TrackLeaseLapses(t)
  \/ DispatchLeaseLapses
  \/ \E p \in Processes : WorkerStep(p) \/ FailDispatchPreparation(p)
=============================================================================
