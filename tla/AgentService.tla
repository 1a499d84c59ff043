----------------------------- MODULE AgentService -----------------------------
(***************************************************************************)
(* The Agent Service: its runs (AgentRuns), its builds (AgentBuilds) and   *)
(* what a worker does for a track (ClaudeCode).  The three share the       *)
(* processes but no state, so that each behaviour is of one of them; a     *)
(* process, or the build executor, may stop at any time and is started     *)
(* again with nothing in memory.                                           *)
(***************************************************************************)
EXTENDS AgentRuns, AgentBuilds, ClaudeCode

VARIABLES part,     \* what the behaviour is about
          stops     \* the number of times a worker of runs has stopped

vars == <<runVars, buildVars, generationVars, part, stops>>

TypeOK ==
  /\ RunTypeOK
  /\ BuildTypeOK
  /\ GenerationTypeOK
  /\ part \in {"runs", "builds", "generation"}
  /\ stops \in 0..MaxStops

Init ==
  /\ RunInit
  /\ BuildInit
  /\ GenerationInit
  /\ part \in {"runs", "builds", "generation"}
  /\ stops = 0

\* A process stops: what its worker had in memory is gone, and Claude Code with it.
WorkerStops(p) ==
  /\ worker[p] # IdleWorker /\ stops < MaxStops
  /\ stops' = stops + 1
  /\ worker' = [worker EXCEPT ![p] = IdleWorker]
  /\ UNCHANGED <<run, attempts, work, dispatch, checkpoints, announced>>

\* A step of one part leaves the others alone.
OfRuns(A)       == part = "runs" /\ A /\ UNCHANGED <<buildVars, generationVars, part>>
OfBuilds(A)     == part = "builds" /\ A /\ UNCHANGED <<runVars, generationVars, part, stops>>
OfGeneration(A) == part = "generation" /\ A /\ UNCHANGED <<runVars, buildVars, part, stops>>

Next ==
  \/ OfRuns(RunStep /\ UNCHANGED stops)
  \/ \E p \in Processes : OfRuns(WorkerStops(p))
  \/ OfBuilds(BuildStep)
  \/ OfGeneration(GenerationStep)

\* The tracks are tasks of a running program, which kills Claude Code when its time is up: while
\* a track can go on, one does.
GenerationProceeds ==
  OfGeneration(\E t \in TrackKinds :
                 AcquirePermit(t) \/ VerifyRuntimeIdentity(t) \/ InvocationFails(t))

Spec == Init /\ [][Next]_vars /\ WF_vars(GenerationProceeds)

-----------------------------------------------------------------------------
(* Runs *)

(* The row of a track and its attempts in the run's contract agree whatever *)
(* workers have lost their lease in between: append_claimed_attempt and     *)
(* complete_track never meet the InvalidContract they look for.             *)
AttemptsFaithful ==
  \A t \in Tracks :
    LET last == LastAttempt(attempts, t)
    IN  /\ work[t].attempt = Len(attempts[t])
        /\ work[t].state = "running" <=> last = "running"
        /\ work[t].state \in Ended => last = work[t].state
        /\ \A n \in 1..Len(attempts[t]) :
             attempts[t][n] = "succeeded" => CheckpointSequence(t, n) \in checkpoints

(* The state of a run that its readers see is the one its attempts imply,   *)
(* through claims, completions, cancellations and retries (AgentRun::       *)
(* validate refuses every other one), and the last event tells it.          *)
RunTold ==
  /\ run.state # "none" => run.state = RunState(attempts)
  /\ run.state \in TerminalRun => announced[Len(announced)] = TerminalEvent(run.state)

(* An attempt that has succeeded is the last one of its track: neither a    *)
(* worker that lost its lease, nor a retry, replaces the candidate.         *)
SucceededTrackStays ==
  [][\A t \in Tracks : LastAttempt(attempts, t) = "succeeded" => attempts'[t] = attempts[t]]_vars

-----------------------------------------------------------------------------
(* Builds *)

TerminalBuild == {"succeeded", "failed", "cancelled"}

(* A build has one result exactly when it has ended, though several workers *)
(* may have carried it out and commands are delivered again.                *)
BuildSettledOnce == Len(results) = IF command.state \in TerminalBuild THEN 1 ELSE 0

(* A build succeeds only with the generation that the executor's fence is   *)
(* at, closed by a cleanup that really took its candidate tag away: no      *)
(* older worker's answer, no unfinished stage and no mark of an earlier     *)
(* cleanup is taken for it.                                                 *)
SucceededGeneration ==
  command.state = "succeeded" =>
    /\ fence.generation = command.attempt /\ fence.tombstone
    /\ candidate = "cleaned" /\ tag # command.attempt

(* A generation that its cleanup has closed is never opened again: a stage  *)
(* request that a worker gave up, and that arrives afterwards, does not     *)
(* build or publish what nobody would clean up.                             *)
ClosedGenerationStays ==
  [][fence.tombstone /\ fence'.generation = fence.generation =>
       /\ fence'.tombstone
       /\ \A t \in tasks' \ tasks : t.phase \in {"pushed", "orphan"}]_vars

-----------------------------------------------------------------------------
(* Generations *)

(* A candidate is accepted only from one whole answer of one session that   *)
(* used no tool, within every limit of the budget, the cost to the last     *)
(* fraction of a microdollar.                                               *)
CandidateSound ==
  \A t \in TrackKinds : generation[t].outcome = "succeeded" =>
    LET o == accepted[t]
        c == o.envelope.cost
    IN  /\ o.lines \in Orderly /\ Contains(o.lines, "text")
        /\ o.exit = "success" /\ o.document = "valid" /\ ~o.envelope.denials
        /\ o.envelope.success /\ o.envelope.input <= MaxTokens /\ o.envelope.output <= MaxTokens
        /\ o.envelope.turns <= MaxRequests
        /\ c.digits * 10 <= MaxCost * 10^(c.places - c.exponent - 6 + 1)

(* Nothing that the classifier denies, or could not classify, leaves with   *)
(* the input, except inside an archive of which only metadata is sent.      *)
EgressSound ==
  [][gate' = "prepared" /\ gate = "open" =>
       \A i \in 1..Len(files) : files[i].content \in {"text", "context", "context_denied"}]_vars

(* The tracks of a run share the permits, the identity check and the        *)
(* cancellation: once the input is prepared both end, whichever of them     *)
(* waits for the other.                                                     *)
GenerationEnds ==
  gate = "prepared" ~> \A t \in TrackKinds : generation[t].step = "ended"

-----------------------------------------------------------------------------
(* The properties of the service *)

(* Run, tracks, attempts and announced events tell the same story.          *)
RunsFaithful == TypeOK /\ AttemptsFaithful /\ RunTold

(* What is recorded as a result was produced and checked, and recorded once. *)
ResultsSound == BuildSettledOnce /\ SucceededGeneration /\ CandidateSound

(* What is settled is not reopened by a late worker or request, and nothing *)
(* leaves the service that the egress policy holds back.                    *)
SettledStays == SucceededTrackStays /\ ClosedGenerationStays /\ EgressSound

=============================================================================
