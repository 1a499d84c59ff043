--------------------------- MODULE EvaluationService ---------------------------
(***************************************************************************)
(* The Evaluation Service: the freeze of a submission (SubmissionFreeze),  *)
(* the collection of its files (SnapshotCollector), the control plane of   *)
(* evaluation runs (EvaluationRuns), the Kubernetes Jobs of their steps    *)
(* (RunnerJobs) and what runs inside them (RunnerWorkers).  They share     *)
(* identities but no state, so that each behaviour is of one of them.      *)
(***************************************************************************)
EXTENDS SubmissionFreeze, SnapshotCollector, EvaluationRuns, RunnerJobs, RunnerWorkers

VARIABLE part    \* what the behaviour is about

vars == <<freezeVars, snapshotVars, evaluationVars, runnerVars, ojVars, probeVars, part>>

TypeOK ==
  /\ part = "freeze" => FreezeTypeOK
  /\ part = "snapshot" => SnapshotTypeOK
  /\ part = "runs" => EvaluationTypeOK
  /\ part = "runner" => RunnerTypeOK
  /\ part \in {"judge", "probe"} => WorkerTypeOK

Init ==
  /\ FreezeInit
  /\ SnapshotInit
  /\ EvaluationInit
  /\ RunnerInit
  /\ WorkerInit
  /\ part \in {"freeze", "snapshot", "runs", "runner", "judge", "probe"}

OfFreeze(A) ==
  part = "freeze" /\ A /\ UNCHANGED <<snapshotVars, evaluationVars, runnerVars, ojVars, probeVars, part>>
OfSnapshot(A) ==
  part = "snapshot" /\ A /\ UNCHANGED <<freezeVars, evaluationVars, runnerVars, ojVars, probeVars, part>>
OfRuns(A) ==
  part = "runs" /\ A /\ UNCHANGED <<freezeVars, snapshotVars, runnerVars, ojVars, probeVars, part>>
OfRunner(A) ==
  part = "runner" /\ A /\ UNCHANGED <<freezeVars, snapshotVars, evaluationVars, ojVars, probeVars, part>>
OfJudge(A) ==
  part = "judge" /\ A /\ UNCHANGED <<freezeVars, snapshotVars, evaluationVars, runnerVars, probeVars, part>>
OfProbe(A) ==
  part = "probe" /\ A /\ UNCHANGED <<freezeVars, snapshotVars, evaluationVars, runnerVars, ojVars, part>>

Next ==
  \/ OfFreeze(FreezeStep)
  \/ OfSnapshot(SnapshotStep)
  \/ OfRuns(EvaluationStep)
  \/ OfRunner(RunnerStep)
  \/ OfJudge(OjStep)
  \/ OfProbe(ProbeStep)

\* The coordinator is a running loop, pods stop at last, and time passes.  A
\* call that is made again and again, and a cleanup, is carried out once.
Fairness ==
  /\ WF_vars(OfFreeze(ClaimNext \/ CleanupPartialBundle \/ CreateConfig \/ CreateSecret \/ CreateJob
                      \/ MarkFailedPendingCleanup \/ MarkCompleted \/ FailCommandAfterCleanup))
  /\ SF_vars(OfFreeze(Cleanup(TRUE) /\ (CleanupPartialBundle \/ CleanupFailedCommand \/ CleanupSucceededJob)))
  /\ SF_vars(OfFreeze(MarkFailed(TRUE) /\ FailCommandAfterCleanup))
  /\ SF_vars(OfFreeze(CreateSecret \/ MarkCompleted))
  /\ WF_vars(OfFreeze(PodStopped("job") \/ JobGone))
  /\ WF_vars(OfFreeze(CommandDeadlinePasses))

Spec == Init /\ [][Next]_vars /\ Fairness

-----------------------------------------------------------------------------
(* Freezing a submission *)

(* A frozen submission is there only with the attempt, the archive and the  *)
(* event it belongs to, and no attempt of a worker that lost its lease is   *)
(* open or complete beside it.                                              *)
FrozenWhole ==
  /\ result # 0 => /\ freezing.state = "completed" /\ tries[result].state = "completed"
                   /\ result \in objects /\ told = 2
  /\ \A n \in DOMAIN tries :
       /\ tries[n].state \in OpenTry => n = Len(tries) /\ freezing.state = "active"
       /\ tries[n].state = "completed" => n = result
  /\ command.state = "completed" => result # 0

(* A command that is over has left nothing in the cluster except a Job that *)
(* is on its way out, whichever calls were refused before.                  *)
SettledClean ==
  command.state = "completed" \/ (command.state = "failed" /\ command.verified) =>
    bundle.state = "none" /\ (job = "none" \/ deleting)

(* Every command ends, and is cleaned up.                                   *)
SubmissionEnds == command.state = "queued" ~> command.state \in {"completed", "failed"} /\ command.verified

-----------------------------------------------------------------------------
(* Collecting its files *)

(* What is archived is what the manifest allows, within its limits, of the  *)
(* sizes that the preflight reported, whatever the student changes between  *)
(* two requests; no byte of it is from outside a mounted volume.            *)
ArchiveSound ==
  pass = "archived" =>
    /\ \A p \in DOMAIN read : ~Excluded(p) /\ \E r \in manifest.include : Covers(r, p)
    /\ transport = "pvc" => \A p \in DOMAIN read : read[p] # Outside
    /\ \A r \in manifest.required : r.kind = "file" => r.path \in DOMAIN read
    /\ Bytes(read) <= manifest.bytes /\ Cardinality(DOMAIN read) \in 1..manifest.files
    /\ DOMAIN read = DOMAIN report /\ \A p \in DOMAIN read : SizeOf[read[p]] = SizeOf[report[p]]

-----------------------------------------------------------------------------
(* Evaluation runs *)

(* A run that has succeeded passed every step that stops it, and left       *)
(* nothing running and nothing to clean up.                                 *)
SucceededRunSound ==
  run.state = "succeeded" =>
    /\ \A i \in Steps : Stops(i) => steps[i].state = "succeeded"
    /\ \A i \in Steps : \A n \in DOMAIN attempts[i] : attempts[i][n].state # "running" /\ attempts[i][n].cleanup

(* A step is attempted again only after a failure that was cleaned up.      *)
CleanupBeforeRerun ==
  \A i \in DOMAIN attempts : \A n \in 1..(Len(attempts[i]) - 1) :
    attempts[i][n].state = "failed" /\ attempts[i][n].cleanup

(* A step has been attempted only after every step it depends on, and that  *)
(* stops it, succeeded; retries and the restoring of skipped steps included.*)
DependenciesRespected ==
  \A i \in DOMAIN attempts : attempts[i] # <<>> =>
    \A d \in Deps(i) : Stops(d) => steps[d].state = "succeeded"

(* The row of a step and the rows of its attempts agree, whichever workers  *)
(* answer late or are recovered.                                            *)
StepFaithful ==
  \A i \in DOMAIN attempts :
    /\ steps[i].attempt = Len(attempts[i])
    /\ steps[i].state = "running" <=> attempts[i] # <<>> /\ attempts[i][Len(attempts[i])].state = "running"

(* A run with nothing running has a step to claim, or a failure that an     *)
(* operator can see: it does not wait for steps that wait for each other.   *)
RunNeverWedged ==
  /\ run.state \in {"queued", "running"}
  /\ \E i \in Steps : steps[i].state \in Unfinished
  /\ \A i \in Steps : steps[i].state # "running"
  => \E i \in Steps : Claimable(i) \/ (Stops(i) /\ steps[i].state \in {"failed", "cancelled"})

(* Whatever a worker answers within its lease is recorded: the consistency  *)
(* checks of the run and of its steps never turn a valid completion down.   *)
CompletionAccepted ==
  \A i \in DOMAIN attempts : \A n \in DOMAIN attempts[i] :
    attempts[i][n].state = "running" /\ attempts[i][n].live =>
      \A c \in Completions(i) :
        LET s == SkipAfter([steps EXCEPT ![i] = [state |-> c.state, attempt |-> n, score |-> c.score,
                                                 diagnostic |-> c.diagnostic, cleanup |-> c.cleanup]], i)
        IN  ValidateRun(Refresh(run, s)) /\ \A j \in Steps : ValidateStep(j, s[j])

(* What an operator asks for applies to the attempt the operator saw.       *)
MutationCurrent ==
  [][\A q \in requests : VerifyStepCleanup(q) \/ RetryStep(q) => steps[q.step].attempt = q.attempt]_vars

-----------------------------------------------------------------------------
(* The Job of a step *)

(* After a cleanup has said so, nothing of the attempt is left, except what *)
(* an apply that was never answered has brought since.                      *)
CleanedAbsent ==
  answer = "cleaned" => \A k \in Kinds : resources[k] \in {"own", "going"} => k \in arrivedLate

(* An object of another request is never deleted, though it has the same    *)
(* name and appears between two requests of the cleanup.                    *)
OthersKept ==
  [][\A k \in Kinds : resources[k] = "drifted" /\ (k = "jobs" => jobState = "active") =>
       resources'[k] \notin {"absent", "going"}]_vars

(* A Job is reported as completed only with the receipt of its own pod: not *)
(* of one that another request ran under the name, after the Job was gone.  *)
CompletionOwned == [][answer' = "completed" /\ answer # "completed" => runner.owner = "own"]_vars

-----------------------------------------------------------------------------
(* What runs in it *)

(* A test earns all of its points exactly when every case is accepted, and  *)
(* evidence that the worker builds is never refused by its own validation.  *)
OjScored ==
  /\ ojReceipt.status # "evidence_invalid"
  /\ ojStep = "ended" /\ ojRequest.phase = "test" =>
       (ojReceipt.points = ojReceipt.max <=> ojReceipt.status = "accepted")
  /\ ojStep = "ended" /\ ojReceipt.status = "accepted" => \A i \in DOMAIN ojCases : ojCases[i] = "accepted"

(* A probe succeeds only on facts that a run without failure reported from  *)
(* the pinned host; anything else passes no assertion, and is recorded. (A  *)
(* limit of one byte, which is valid, has no room for "{}", no facts.)      *)
ProbeSound ==
  /\ FactsMax > 1 => probeReceipt.status # "evidence_invalid"
  /\ probeReceipt.status = "succeeded" =>
       /\ probeProcess.host = "pinned" /\ probeProcess.success /\ ~probeProcess.exceeded
       /\ \A f \in DOMAIN Assertions :
            f \in DOMAIN probeProcess.document.facts /\ probeProcess.document.facts[f] = Assertions[f]
  /\ probeReceipt.status \notin {"succeeded", "assertions_failed"} => probeReceipt.points = 0

-----------------------------------------------------------------------------
(* The properties of the service *)

(* A submission is frozen whole, of files that its manifest allows, and      *)
(* leaves nothing behind in the cluster.                                     *)
SubmissionSound == TypeOK /\ FrozenWhole /\ SettledClean /\ ArchiveSound

(* A run follows its plan, agrees with its attempts and can always go on.    *)
RunsSound ==
  /\ SucceededRunSound /\ CleanupBeforeRerun /\ DependenciesRespected
  /\ StepFaithful /\ RunNeverWedged /\ CompletionAccepted

(* A Job that was cleaned up is gone, and a receipt says what the runner saw. *)
RunnersSound == CleanedAbsent /\ OjScored /\ ProbeSound

(* No request, deletion or completion acts on an attempt or an object other  *)
(* than the one it was issued for.                                           *)
RequestsFenced == MutationCurrent /\ OthersKept /\ CompletionOwned

=============================================================================
