----------------------------- MODULE AgentBuilds -----------------------------
(***************************************************************************)
(* A container build of the Agent Service (build_store.rs,                 *)
(* build_pipeline.rs, build_provider.rs, build_executor.rs and the command *)
(* consumer of messaging.rs): ONE build command, the build workers of the  *)
(* service's processes, and the build executor they send stage requests    *)
(* to.  The executor admits a request against a fence of its own in the    *)
(* database, carries it out against BuildKit and the registry, and         *)
(* answers; requests and answers may be lost, or arrive after the worker   *)
(* has given the stage up.                                                 *)
(*                                                                         *)
(* The attempt of a command is the generation of its requests, and it is   *)
(* the worker's lease token too, for both are drawn by the same claim: a   *)
(* worker is named by the attempt that it has claimed.                     *)
(***************************************************************************)
EXTENDS AgentProcesses, FiniteSets

CONSTANT MaxBuildAttempts  \* max_attempts of the build worker; bound: leases run out
                           \* and workers stop only below this number

ASSUME BuildConstants == MaxBuildAttempts \in Nat \ {0}

VARIABLES
  stream,      \* the message that asks for the build
  inbox,       \* its row in agent.inbox_events, and the watermark of the build
  reading,     \* the number of consumers that hold a delivery and have found no such row
  command,     \* agent.build_commands
  results,     \* agent.outbox_events and agent.image_artifacts of the build
  builder,     \* the pipeline of the BuildWorker that claimed each attempt
  passed,      \* the deadlines of the attempts up to this one have passed
  requests,    \* stage requests on their way to the executor: one that it never
               \* admits is lost
  fence,       \* agent.build_executor_fences
  tasks,       \* what the executor is doing
  candidate,   \* agent.build_executor_artifacts: the candidate it knows of
  tag          \* the candidate tag in the registry: the attempt that pushed it

buildVars == <<stream, inbox, reading, command, results, builder, passed, requests, fence, tasks,
               candidate, tag>>

Stages   == {"ensure", "build", "publish", "cleanup"}
Failures == {"unavailable", "rejected", "timed_out", "cancelled", "cleanup_failed"}
Attempts == 1..MaxBuildAttempts

IdleBuilder == [step |-> "idle", sent |-> FALSE, outcome |-> "none",
                cancelled |-> FALSE, lost |-> FALSE]

BuildTypeOK ==
  /\ stream \in {"absent", "published"} /\ inbox \in BOOLEAN /\ reading \in Nat
  /\ command \in [state : {"none", "requested", "running", "succeeded", "failed", "cancelled"},
                  attempt : 0..MaxBuildAttempts, live : BOOLEAN, cancel : BOOLEAN, cleanup_verified : BOOLEAN]
  /\ results \in Seq({"completed", "failed"})
  /\ builder \in [Attempts -> [step : {"idle", "overdue", "record"} \cup Stages, sent : BOOLEAN,
                               outcome : {"none", "succeeded"} \cup Failures,
                               cancelled : BOOLEAN, lost : BOOLEAN]]
  /\ passed \in 0..MaxBuildAttempts
  /\ requests \subseteq [attempt : Attempts, stage : Stages]
  /\ fence \in [generation : 0..MaxBuildAttempts, stage : Stages \cup {"none"},
                tombstone : BOOLEAN, answered : BOOLEAN]
  /\ tasks \subseteq [attempt : Attempts, stage : Stages,
                      phase : {"running", "solving", "pushed", "orphan"}]
  /\ candidate \in {"none", "built", "cleaned"}
  /\ tag \in 0..MaxBuildAttempts

BuildInit ==
  /\ stream = "absent"
  /\ inbox = FALSE /\ reading = 0
  /\ command = [state |-> "none", attempt |-> 0, live |-> FALSE, cancel |-> FALSE,
                cleanup_verified |-> FALSE]
  /\ results = <<>>
  /\ builder = [n \in Attempts |-> IdleBuilder]
  /\ passed = 0
  /\ requests = {}
  /\ fence = [generation |-> 0, stage |-> "none", tombstone |-> FALSE, answered |-> TRUE]
  /\ tasks = {}
  /\ candidate = "none"
  /\ tag = 0

inboxVars    == <<stream, inbox, reading>>
commandVars  == <<inboxVars, command, results>>
executorVars == <<fence, tasks, candidate, tag>>

-----------------------------------------------------------------------------
(* The command *)

\* The Control Service publishes the command of an approved build.
BuildRequested ==
  /\ stream = "absent"
  /\ stream' = "published"
  /\ UNCHANGED <<inbox, reading, command, results, builder, passed, requests, executorVars>>

\* accept_command begins: the message is delivered, to several consumers when its acknowledgement
\* is late, and InboxStore::accept looks for its row before it locks the watermark.  A delivery
\* that finds the row is a duplicate and changes nothing.
FindNoDuplicate ==
  /\ stream = "published" /\ ~inbox /\ reading < Cardinality(Processes)
  /\ reading' = reading + 1
  /\ UNCHANGED <<stream, inbox, command, results, builder, passed, requests, executorVars>>

\* The rest of accept_command, under the lock of the watermark: the first event of the build is
\* accepted with its row and its command; a consumer that waited for the lock finds it stale.
\* The command is the first event of its build, so that a gap is never found.
AcceptCommand ==
  /\ reading > 0
  /\ reading' = reading - 1
  /\ inbox' = TRUE
  /\ command' = IF inbox THEN command ELSE [command EXCEPT !.state = "requested"]
  /\ UNCHANGED <<stream, results, builder, passed, requests, executorVars>>

\* The transaction fails, or the process stops: the message is delivered again.
AcceptFails ==
  /\ reading > 0
  /\ reading' = reading - 1
  /\ UNCHANGED <<stream, inbox, command, results, builder, passed, requests, executorVars>>

\* claim_due by a process that has nothing to do: a command that waits, or one
\* whose lease has run out.  The claims are counted, not limited.
ClaimDue ==
  LET n == command.attempt + 1
  IN  /\ Cardinality({m \in Attempts : builder[m].step # "idle"}) < Cardinality(Processes)
      /\ command.state = "requested" \/ (command.state = "running" /\ ~command.live)
      /\ command' = [command EXCEPT !.state = "running", !.attempt = n, !.live = TRUE]
      /\ builder' = [builder EXCEPT ![n] =
           [IdleBuilder EXCEPT !.step = "ensure", !.cancelled = command.cancel]]
      /\ UNCHANGED <<inboxVars, results, passed, requests, executorVars>>

\* request_cancellation of the Control Service; the worker learns of it with its
\* next heartbeat.
RequestBuildCancellation ==
  /\ command.state \in {"requested", "running"} /\ ~command.cancel
  /\ command' = [command EXCEPT !.cancel = TRUE]
  /\ UNCHANGED <<inboxVars, results, builder, passed, requests, executorVars>>

\* fence_running: the command still runs under the worker's lease.
FenceRunning(n) == command.state = "running" /\ command.live /\ command.attempt = n

\* An error of the build worker ends its process, which is started again.
BuilderExits(n) == builder' = [builder EXCEPT ![n] = IdleBuilder]

\* complete and fail: the row, the artifact and the event in one transaction.
TerminalUpdate(state, event, verified) ==
  /\ command' = [command EXCEPT !.state = state, !.live = FALSE,
                                !.cleanup_verified = verified]
  /\ results' = Append(results, event)

Retryable(outcome) == outcome \in {"unavailable", "timed_out"}

\* complete, schedule_retry (only below max_attempts) and fail, by what the
\* pipeline has ended with.
CompleteBuild(n) ==
  builder[n].outcome = "succeeded" /\ TerminalUpdate("succeeded", "completed", TRUE)

ScheduleRetry(n) ==
  /\ Retryable(builder[n].outcome) /\ n < MaxBuildAttempts
  /\ command' = [command EXCEPT !.state = "requested", !.live = FALSE]
  /\ UNCHANGED results

FailBuild(n) ==
  LET outcome == builder[n].outcome
  IN  /\ outcome # "succeeded"
      /\ ~Retryable(outcome) \/ n >= MaxBuildAttempts
      /\ TerminalUpdate(IF outcome = "cancelled" THEN "cancelled" ELSE "failed", "failed",
                        outcome # "cleanup_failed")

\* run_once after the pipeline has ended: the outcome is recorded under the
\* fence, and dropped without it.
RecordOutcome(n) ==
  /\ builder[n].step = "record"
  /\ \/ /\ builder[n].lost \/ ~FenceRunning(n)
        /\ UNCHANGED <<command, results>>
     \/ /\ ~builder[n].lost /\ FenceRunning(n)
        /\ CompleteBuild(n) \/ ScheduleRetry(n) \/ FailBuild(n)
  /\ BuilderExits(n)
  /\ UNCHANGED <<inboxVars, passed, requests, executorVars>>

-----------------------------------------------------------------------------
(* The pipeline of a worker *)

NextStage == [ensure |-> "build", build |-> "publish", publish |-> "cleanup",
              cleanup |-> "record"]

\* execute_inner after the answer to a stage: the next stage, or the cleanup of
\* what there may be; a cleanup that fails replaces every other error.
After(b, answer) ==
  IF answer = "ok"
    THEN [b EXCEPT !.step = NextStage[b.step], !.sent = FALSE,
                   !.outcome = IF b.step = "publish" THEN "succeeded" ELSE b.outcome]
    ELSE [b EXCEPT !.step = NextStage[IF b.step = "cleanup" THEN "cleanup" ELSE "publish"],
                   !.sent = FALSE,
                   !.outcome = IF b.step = "cleanup" THEN "cleanup_failed" ELSE answer]

\* The answer to a request reaches the worker if it still waits for it.
Answered(r, answer) ==
  IF builder[r.attempt].sent /\ builder[r.attempt].step = r.stage
    THEN [builder EXCEPT ![r.attempt] = After(builder[r.attempt], answer)] ELSE builder

\* NatsBuildSupplyChainProvider::request: a stage that has not been cancelled
\* before it begins; the cleanup is never cancelled.
SendStage(n) ==
  LET b == builder[n]
  IN  /\ b.step \in Stages /\ ~b.sent
      /\ b.cancelled => b.step = "cleanup"
      /\ requests' = requests \cup {[attempt |-> n, stage |-> b.step]}
      /\ builder' = [builder EXCEPT ![n].sent = TRUE]
      /\ UNCHANGED <<commandVars, passed, executorVars>>

\* stage: no answer within stage_timeout.
StageTimesOut(n) ==
  /\ builder[n].step \in Stages /\ builder[n].sent
  /\ builder' = [builder EXCEPT ![n] = After(builder[n], "timed_out")]
  /\ UNCHANGED <<commandVars, passed, requests, executorVars>>

\* stage: the cancellation is looked at before the answer.
StageCancelled(n) ==
  /\ builder[n].step \in Stages \ {"cleanup"} /\ builder[n].cancelled
  /\ builder' = [builder EXCEPT ![n] = After(builder[n], "cancelled")]
  /\ UNCHANGED <<commandVars, passed, requests, executorVars>>

\* execute: the whole pipeline has taken max_duration_milliseconds, and the cleanup is asked for
\* once more, outside that time.
ExecutionTimesOut(n) ==
  /\ builder[n].step \in Stages /\ passed >= n
  /\ builder' = [builder EXCEPT ![n] = [builder[n] EXCEPT !.step = "overdue", !.sent = FALSE,
                                                          !.outcome = "timed_out"]]
  /\ requests' = requests \cup {[attempt |-> n, stage |-> "cleanup"]}
  /\ UNCHANGED <<commandVars, passed, executorVars>>

\* That request has the same deadline: the executor refuses it, or it is not answered in time.
OverdueCleanupFails(n) ==
  /\ builder[n].step = "overdue"
  /\ builder' = [builder EXCEPT ![n] = [builder[n] EXCEPT !.step = "record",
                                                          !.outcome = "cleanup_failed"]]
  /\ UNCHANGED <<commandVars, passed, requests, executorVars>>

\* execute_with_heartbeat: a cancellation is passed on; a worker that has lost
\* its lease cancels the pipeline and waits for its cleanup.
BuildHeartbeat(n) ==
  /\ builder[n].step \in Stages /\ ~builder[n].cancelled
  /\ \/ FenceRunning(n) /\ command.cancel
        /\ builder' = [builder EXCEPT ![n].cancelled = TRUE]
     \/ ~FenceRunning(n)
        /\ builder' = [builder EXCEPT ![n] = [builder[n] EXCEPT !.cancelled = TRUE, !.lost = TRUE]]
  /\ UNCHANGED <<commandVars, passed, requests, executorVars>>

-----------------------------------------------------------------------------
(* The executor *)

\* build_stage_rank
StageRank == [none |-> 0, ensure |-> 1, build |-> 2, publish |-> 3, cleanup |-> 4]

\* What admit finds wrong with a request, in its order; an unanswered request
\* blocks every other one until its deadline.
Refusal(r) ==
  IF passed >= r.attempt \/ r.attempt < fence.generation THEN "rejected"
  ELSE IF ~fence.answered /\ passed < fence.generation THEN "unavailable"
  ELSE IF /\ r.attempt = fence.generation
          /\ fence.tombstone \/ (StageRank[r.stage] < StageRank[fence.stage] /\ r.stage # "cleanup")
       THEN "rejected"
  ELSE "none"

\* Mutant: the tombstone of a generation is not kept.
AdmitWithoutTombstone(r) ==
  /\ r \in requests
  /\ requests' = requests \ {r}
  /\ passed < r.attempt /\ r.attempt >= fence.generation
  /\ fence.answered \/ passed >= fence.generation
  /\ fence' = [generation |-> r.attempt, stage |-> r.stage,
               tombstone |-> r.stage = "cleanup", answered |-> FALSE]
  /\ tasks' = tasks \cup {[attempt |-> r.attempt, stage |-> r.stage,
                           phase |-> IF r.stage = "build" THEN "solving" ELSE "running"]}
  /\ UNCHANGED <<commandVars, builder, passed, candidate, tag>>

\* admit: the fence takes the request before anything is done for it.  The same
\* request again is answered from the fence and changes nothing.
Admit(r) ==
  /\ r \in requests
  /\ requests' = requests \ {r}
  /\ \/ /\ Refusal(r) = "none"
        /\ fence' = [generation |-> r.attempt, stage |-> r.stage,
                     tombstone |-> r.stage = "cleanup", answered |-> FALSE]
        /\ tasks' = tasks \cup {[attempt |-> r.attempt, stage |-> r.stage,
                                 phase |-> IF r.stage = "build" THEN "solving" ELSE "running"]}
        /\ UNCHANGED builder
     \/ /\ Refusal(r) # "none"
        /\ builder' = Answered(r, Refusal(r))
        /\ UNCHANGED <<fence, tasks>>
  /\ UNCHANGED <<commandVars, passed, candidate, tag>>

\* FencedBuildExecutor::execute when the backend is done: the answer is kept
\* unless the fence has moved on, and sent.
Complete(t, answer) ==
  LET current == fence.generation = t.attempt /\ fence.stage = t.stage /\ ~fence.answered
  IN  /\ tasks' = tasks \ {t}
      /\ fence' = IF current THEN [fence EXCEPT !.answered = TRUE] ELSE fence
      /\ builder' = Answered(t, IF current THEN answer ELSE "rejected")

\* ensure_private_project only reads; it may fail.
EnsurePrivateProject(t, answer) ==
  /\ t \in tasks /\ t.stage = "ensure"
  /\ Complete(t, answer)
  /\ UNCHANGED <<commandVars, passed, requests, candidate, tag>>

\* publish reads the pushed image back by its digest; it may fail.
Publish(t, answer) ==
  /\ t \in tasks /\ t.stage = "publish"
  /\ Complete(t, answer)
  /\ UNCHANGED <<commandVars, passed, requests, candidate, tag>>

\* run_buildkit on a thread of its own: the solve pushes the tag.  Nothing stops
\* the thread, whatever becomes of the request it works for.
SolvePushes(t) ==
  /\ t \in tasks /\ t.phase \in {"solving", "orphan"}
  /\ tag' = t.attempt
  /\ tasks' = (tasks \ {t}) \cup (IF t.phase = "solving" THEN {[t EXCEPT !.phase = "pushed"]} ELSE {})
  /\ UNCHANGED <<commandVars, builder, passed, requests, fence, candidate>>

\* The object, the archive, the Dockerfile or the solve is refused.
BuildFails(t, answer) ==
  /\ t \in tasks /\ t.phase = "solving"
  /\ Complete(t, answer)
  /\ UNCHANGED <<commandVars, passed, requests, candidate, tag>>

\* Mutant: the candidate keeps the mark of an earlier cleanup.
PersistBuiltCandidateMarked(t) ==
  /\ t \in tasks /\ t.phase = "pushed"
  /\ candidate' = IF candidate = "cleaned" THEN "cleaned" ELSE "built"
  /\ Complete(t, "ok")
  /\ UNCHANGED <<commandVars, passed, requests, tag>>

\* persist_built_candidate: the executor knows of the candidate only now.
PersistBuiltCandidate(t) ==
  /\ t \in tasks /\ t.phase = "pushed"
  /\ candidate' = "built"
  /\ Complete(t, "ok")
  /\ UNCHANGED <<commandVars, passed, requests, tag>>

\* buildkit_history_digest finds no digest, or the row cannot be written.
BuiltCandidateLost(t, answer) ==
  /\ t \in tasks /\ t.phase = "pushed"
  /\ Complete(t, answer)
  /\ UNCHANGED <<commandVars, passed, requests, candidate, tag>>

\* cleanup: a candidate that it knows of and has not cleaned is untagged, and
\* the registry must list the tag no more.
CleanupCandidate(t) ==
  /\ t \in tasks /\ t.stage = "cleanup"
  /\ candidate' = IF candidate = "built" THEN "cleaned" ELSE candidate
  /\ tag' = IF candidate = "built" THEN 0 ELSE tag
  /\ Complete(t, "ok")
  /\ UNCHANGED <<commandVars, passed, requests>>

\* The registry refuses, or does not get to it; the tag may be gone all the same.
CleanupFails(t) ==
  /\ t \in tasks /\ t.stage = "cleanup" /\ candidate = "built"
  /\ tag' \in {tag, 0}
  /\ Complete(t, "unavailable")
  /\ UNCHANGED <<commandVars, passed, requests, candidate>>

-----------------------------------------------------------------------------
(* Time and failures *)

\* The deadline of the next attempt passes: the executor drops what it does for
\* it, except that the thread of a solve goes on.  A request of the attempt that
\* nobody waits for will change nothing any more.
DeadlinePasses ==
  LET late == {t \in tasks : t.attempt = passed + 1}
  IN  /\ passed < command.attempt
      /\ passed' = passed + 1
      /\ tasks' = (tasks \ late) \cup
                  {[t EXCEPT !.phase = "orphan"] : t \in {l \in late : l.phase = "solving"}}
      /\ requests' = {r \in requests : r.attempt > passed' \/ builder[r.attempt].step = r.stage}
      /\ UNCHANGED <<commandVars, builder, fence, candidate, tag>>

\* lease_expires_at is reached: a worker that lives renews its lease, except
\* when the bound still allows another attempt.
BuildLeaseLapses ==
  /\ command.state = "running" /\ command.live
  /\ \/ command.attempt < MaxBuildAttempts
     \/ builder[command.attempt].step = "idle"
  /\ command' = [command EXCEPT !.live = FALSE]
  /\ UNCHANGED <<inboxVars, results, builder, passed, requests, executorVars>>

\* A worker stops in the middle of its pipeline.
BuilderStops(n) ==
  /\ builder[n].step # "idle" /\ n < MaxBuildAttempts
  /\ BuilderExits(n)
  /\ UNCHANGED <<commandVars, passed, requests, executorVars>>

\* The executor stops: its tasks are gone, their requests stay unanswered.
ExecutorStops ==
  /\ tasks # {}
  /\ tasks' = {}
  /\ UNCHANGED <<commandVars, builder, passed, requests, fence, candidate, tag>>

BuilderStep(n) ==
  \/ SendStage(n) \/ StageTimesOut(n) \/ StageCancelled(n)
  \/ ExecutionTimesOut(n) \/ OverdueCleanupFails(n) \/ BuildHeartbeat(n) \/ RecordOutcome(n)

ExecutorStep ==
  \/ \E r \in requests : Admit(r)
  \/ \E t \in tasks :
       \/ \E a \in {"ok", "unavailable", "rejected"} : EnsurePrivateProject(t, a) \/ Publish(t, a)
       \/ \E a \in {"unavailable", "rejected"} : BuildFails(t, a) \/ BuiltCandidateLost(t, a)
       \/ SolvePushes(t) \/ PersistBuiltCandidate(t)
       \/ CleanupCandidate(t) \/ CleanupFails(t)

BuildStep ==
  \/ BuildRequested
  \/ FindNoDuplicate \/ AcceptCommand \/ AcceptFails
  \/ RequestBuildCancellation
  \/ DeadlinePasses
  \/ BuildLeaseLapses
  \/ ClaimDue
  \/ \E n \in Attempts : BuilderStep(n)
  \/ ExecutorStep
  \/ ExecutorStops
  \/ \E n \in Attempts : BuilderStops(n)
=============================================================================
