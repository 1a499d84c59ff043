------------------------------ MODULE RunnerJobs ------------------------------
(***************************************************************************)
(* The Kubernetes Job of one attempt of a step, as the executor of online  *)
(* judge steps and that of probe steps run it (oj_executor.rs,             *)
(* ansible_probe_executor.rs; the two are alike).  An attempt has three    *)
(* resources of one name: a network policy, a ConfigMap and a Job.         *)
(*                                                                         *)
(* The executor's calls are requests of the cluster, one step each.  While *)
(* they go on, the cluster runs the Job's pod, and another request may     *)
(* replace an object by one of its own under the same name ("drifted").    *)
(* A request that is not answered in time may still be carried out later.  *)
(***************************************************************************)
EXTENDS Integers, Sequences, FiniteSets

CONSTANTS MaxCalls,      \* bound on the calls of the executor
          MaxDrift       \* bound on the resources that are replaced

ASSUME RunnerBounds == MaxCalls \in Nat /\ MaxDrift \in Nat

VARIABLES resources,      \* the object of each kind
          jobState,       \* the status of the Job
          runner,         \* [owner, phase]: the Job's pod
          call,           \* what the executor is doing
          answer,         \* what the last call of the executor said
          unanswered,     \* the kinds whose apply was given up and may still come
          arrivedLate,    \* the kinds that came after their apply was given up
          calls, drifts

runnerVars == <<resources, jobState, runner, call, answer, unanswered, arrivedLate, calls, drifts>>

Kinds        == {"networkpolicies", "configmaps", "jobs"}
IsPresent(k) == resources[k] # "absent"

\* The orders in which the code goes through the kinds.
LookOrder    == <<"configmaps", "networkpolicies", "jobs">>
ApplyOrder   == <<"networkpolicies", "configmaps", "jobs">>
CleanupOrder == <<"jobs", "networkpolicies", "configmaps">>   \* cleanup_plan
Orders       == {LookOrder, ApplyOrder, CleanupOrder}

NoRunner == [owner |-> "own", phase |-> "none"]
NoCall   == [phase |-> "idle", left |-> <<>>, seen |-> 0, found |-> "no", after |-> "idle"]

RunnerTypeOK ==
  /\ resources \in [Kinds -> {"absent", "own", "going", "drifted"}]
  /\ jobState \in {"none", "active", "succeeded", "failed", "deadline"}
  /\ runner \in [owner : {"own", "drifted"}, phase : {"none", "running", "succeeded", "failed"}]
  /\ call.phase \in {"idle", "look", "apply", "delete", "verify", "job", "pods"}
  /\ \E s \in Orders, n \in 1..4 : call.left = SubSeq(s, n, 3)
  /\ call.after \in {"idle", "apply", "error", "cleaned"}
  /\ answer \in {"none", "started", "missing", "running", "completed", "failed", "cleaned",
                 "pending", "conflict", "invalid", "error"}
  /\ unanswered \subseteq Kinds /\ arrivedLate \subseteq Kinds
  /\ calls \in 0..MaxCalls /\ drifts \in 0..MaxDrift

RunnerInit ==
  /\ resources = [k \in Kinds |-> "absent"]
  /\ jobState = "none"
  /\ runner = NoRunner
  /\ call = NoCall
  /\ answer = "none"
  /\ unanswered = {} /\ arrivedLate = {}
  /\ calls = 0 /\ drifts = 0

clusterVars == <<resources, jobState, runner>>

Answers(result) == answer' = result /\ call' = NoCall
Goes(next)      == call' = next /\ UNCHANGED answer
Called(next)    == call' = next /\ answer' = "none" /\ calls' = calls + 1

NextKind == Head(call.left)
Onwards  == [call EXCEPT !.left = Tail(@), !.found = "no"]

-----------------------------------------------------------------------------
(* start *)

\* require_runner_default_deny has found the policy of the namespace.
StartAttempt ==
  /\ call = NoCall /\ calls < MaxCalls
  /\ Called([NoCall EXCEPT !.phase = "look", !.left = LookOrder])
  /\ UNCHANGED <<clusterVars, unanswered, arrivedLate, drifts>>

Applying(seen) == [NoCall EXCEPT !.phase = "apply", !.left = ApplyOrder, !.seen = seen]

\* verify_owned: the labels and the hash of the request.
VerifyOwned(owner) == owner \in {"own", "going"}

Cleaning(after, seen) ==
  [NoCall EXCEPT !.phase = "delete", !.left = CleanupOrder, !.after = after, !.seen = seen]

LookAt ==
  /\ call.phase = "look"
  /\ IF call.left # <<>>
     THEN IF IsPresent(NextKind) /\ ~VerifyOwned(resources[NextKind]) THEN Answers("conflict")
          ELSE Goes([Onwards EXCEPT !.seen = IF IsPresent(NextKind) THEN @ + 1 ELSE @])
     ELSE IF call.seen \in 1..2 THEN Goes(Cleaning("apply", 0))
     ELSE Goes(Applying(call.seen))
  /\ UNCHANGED <<clusterVars, unanswered, arrivedLate, calls, drifts>>

\* An object arrives.  A Job cannot be changed once it is there.
Arrive(k) ==
  IF k = "jobs" /\ resources[k] = "absent"
  THEN /\ resources' = [resources EXCEPT ![k] = "own"]
       /\ jobState' = "active"
       /\ runner' = [owner |-> "own", phase |-> "running"]
  ELSE /\ resources' = [resources EXCEPT ![k] = IF k = "jobs" THEN @ ELSE "own"]
       /\ UNCHANGED <<jobState, runner>>

\* apply
ApplyNext ==
  /\ call.phase = "apply"
  /\ IF call.left = <<>> THEN Answers("started") /\ UNCHANGED clusterVars
     ELSE /\ (NextKind = "jobs" => resources[NextKind] # "drifted")
          /\ Arrive(NextKind)
          /\ Goes(Onwards)
  /\ UNCHANGED <<unanswered, arrivedLate, calls, drifts>>

\* An apply is refused, or not answered: what there was no bundle of is removed.
ApplyFails ==
  /\ call.phase = "apply" /\ call.left # <<>>
  /\ \/ UNCHANGED <<clusterVars, unanswered>>
     \/ Arrive(NextKind) /\ UNCHANGED unanswered
     \/ unanswered' = unanswered \cup {NextKind} /\ UNCHANGED clusterVars
  /\ IF call.seen = 3 THEN Answers("error") ELSE Goes(Cleaning("error", 0))
  /\ UNCHANGED <<arrivedLate, calls, drifts>>

-----------------------------------------------------------------------------
(* cancel and cleanup *)

CleanupAttempt ==
  /\ call = NoCall /\ calls < MaxCalls
  /\ Called(Cleaning("cleaned", 0))
  /\ arrivedLate' = {}
  /\ UNCHANGED <<clusterVars, unanswered, drifts>>

\* What the cleanup's answer means to the call it is part of.
CleanupAnswers(result) ==
  IF call.after = "cleaned" THEN Answers(result)
  ELSE IF call.after = "error" THEN Answers(IF result = "cleaned" THEN "error" ELSE "pending")
  ELSE IF result = "cleaned" THEN Goes(Applying(0)) ELSE Answers(result)

\* verify_cleanup_owned, before the object is deleted.
GetForDelete ==
  /\ call.phase = "delete" /\ call.found = "no"
  /\ IF call.left = <<>> THEN Goes([call EXCEPT !.phase = "verify", !.left = CleanupOrder])
     ELSE IF ~IsPresent(NextKind) THEN Goes(Onwards)
     ELSE IF ~VerifyOwned(resources[NextKind]) THEN CleanupAnswers("conflict")
     ELSE Goes([call EXCEPT !.found = "current"])
  /\ UNCHANGED <<clusterVars, unanswered, arrivedLate, calls, drifts>>

\* In the foreground: a Job is there until its pod has gone.
DeleteObject(k) ==
  IF k = "jobs" /\ runner.phase # "none"
  THEN resources' = [resources EXCEPT ![k] = "going"] /\ UNCHANGED <<jobState, runner>>
  ELSE /\ resources' = [resources EXCEPT ![k] = "absent"]
       /\ jobState' = IF k = "jobs" THEN "none" ELSE jobState
       /\ UNCHANGED runner

\* Mutant: the delete names no uid and no resource version.
DeleteWithoutPreconditions ==
  /\ call.phase = "delete" /\ call.found # "no"
  /\ DeleteObject(NextKind) /\ Goes(Onwards)
  /\ UNCHANGED <<unanswered, arrivedLate, calls, drifts>>

\* delete_preconditions: the identity and the version of what was found.
DeleteFound ==
  /\ call.phase = "delete" /\ call.found # "no"
  /\ IF IsPresent(NextKind) THEN call.found = "current" /\ DeleteObject(NextKind) ELSE UNCHANGED clusterVars
  /\ Goes(Onwards)
  /\ UNCHANGED <<unanswered, arrivedLate, calls, drifts>>

\* classify_delete_status: the object is another one, or has changed.
DeleteConflicts ==
  /\ call.phase = "delete" /\ call.found = "stale" /\ IsPresent(NextKind)
  /\ CleanupAnswers("conflict")
  /\ UNCHANGED <<clusterVars, unanswered, arrivedLate, calls, drifts>>

\* Mutant: a deletion that was accepted counts as done.
VerifyDeleted ==
  /\ call.phase = "verify"
  /\ CleanupAnswers("cleaned")
  /\ UNCHANGED <<clusterVars, unanswered, arrivedLate, calls, drifts>>

VerifyAbsent ==
  /\ call.phase = "verify"
  /\ IF call.left = <<>> THEN CleanupAnswers("cleaned")
     ELSE IF ~IsPresent(NextKind) THEN Goes(Onwards)
     ELSE IF ~VerifyOwned(resources[NextKind]) THEN CleanupAnswers("conflict")
     ELSE CleanupAnswers("pending")
  /\ UNCHANGED <<clusterVars, unanswered, arrivedLate, calls, drifts>>

-----------------------------------------------------------------------------
(* observe *)

ObserveAttempt ==
  /\ call = NoCall /\ calls < MaxCalls
  /\ Called([NoCall EXCEPT !.phase = "job"])
  /\ UNCHANGED <<clusterVars, unanswered, arrivedLate, drifts>>

ObserveJob ==
  /\ call.phase = "job"
  /\ IF ~IsPresent("jobs") THEN Answers("missing")
     ELSE IF ~VerifyOwned(resources["jobs"]) THEN Answers("conflict")
     ELSE IF jobState = "active" THEN Answers("running")
     ELSE Goes([call EXCEPT !.phase = "pods", !.after = IF jobState = "succeeded" THEN "cleaned" ELSE "error"])
  /\ UNCHANGED <<clusterVars, unanswered, arrivedLate, calls, drifts>>

\* list_pods: by the label of the attempt.  A Job that has succeeded is believed
\* with the receipt of its one pod; one that has failed, with its reason.
ObservePods ==
  /\ call.phase = "pods"
  /\ Answers(IF runner.phase = "none" THEN "invalid"
            ELSE IF ~VerifyOwned(runner.owner) THEN "conflict"
            ELSE IF call.after = "error" THEN "failed"
            ELSE IF runner.phase = "succeeded" THEN "completed" ELSE "invalid")
  /\ UNCHANGED <<clusterVars, unanswered, arrivedLate, calls, drifts>>

\* A request is refused, or not answered.
RequestFails ==
  /\ call.phase \in {"look", "delete", "verify", "job", "pods"}
  /\ \/ UNCHANGED clusterVars
     \/ call.found = "current" /\ IsPresent(NextKind) /\ DeleteObject(NextKind)
  /\ IF call.after = "error" /\ call.phase \in {"delete", "verify"} THEN Answers("pending") ELSE Answers("error")
  /\ UNCHANGED <<unanswered, arrivedLate, calls, drifts>>

-----------------------------------------------------------------------------
(* The cluster *)

\* What was found is not the last version of the object any more.
ResourceChanged(k) ==
  /\ call' = IF call.found # "no" /\ NextKind = k THEN [call EXCEPT !.found = "stale"] ELSE call
  /\ UNCHANGED answer

RunnerEnds ==
  /\ runner.phase = "running"
  /\ \/ runner' = [runner EXCEPT !.phase = "succeeded"] /\ jobState' = "succeeded"
     \/ runner' = [runner EXCEPT !.phase = "failed"] /\ jobState' = "failed"
     \/ runner' \in {[runner EXCEPT !.phase = "failed"], NoRunner} /\ jobState' = "deadline"
  /\ ResourceChanged("jobs")
  /\ UNCHANGED <<resources, unanswered, arrivedLate, calls, drifts>>

\* The Job goes, and its pod with it: it was deleted, or its time to live is over.
JobCollected ==
  /\ resources["jobs"] = "going" \/ jobState \in {"succeeded", "failed", "deadline"}
  /\ resources' = [resources EXCEPT !["jobs"] = "absent"]
  /\ jobState' = "none"
  /\ runner' = NoRunner
  /\ ResourceChanged("jobs")
  /\ UNCHANGED <<unanswered, arrivedLate, calls, drifts>>

LateApply(k) ==
  /\ k \in unanswered
  /\ k = "jobs" => resources[k] # "drifted"
  /\ Arrive(k)
  /\ unanswered' = unanswered \ {k}
  /\ arrivedLate' = arrivedLate \cup {k}
  /\ ResourceChanged(k)
  /\ UNCHANGED <<calls, drifts>>

\* Another request for the attempt puts an object of its own there.
ReplacedByOther(k) ==
  /\ drifts < MaxDrift
  /\ resources[k] = "absent" \/ (k # "jobs" /\ resources[k] = "own")
  /\ drifts' = drifts + 1
  /\ resources' = [resources EXCEPT ![k] = "drifted"]
  /\ IF k = "jobs"
     THEN jobState' = "active" /\ runner' = [owner |-> "drifted", phase |-> "running"]
     ELSE UNCHANGED <<jobState, runner>>
  /\ ResourceChanged(k)
  /\ UNCHANGED <<unanswered, arrivedLate, calls>>

RunnerStep ==
  \/ StartAttempt \/ LookAt \/ ApplyNext \/ ApplyFails
  \/ CleanupAttempt \/ GetForDelete \/ DeleteFound \/ DeleteConflicts \/ VerifyAbsent
  \/ ObserveAttempt \/ ObserveJob \/ ObservePods \/ RequestFails
  \/ RunnerEnds \/ JobCollected
  \/ \E k \in Kinds : LateApply(k) \/ ReplacedByOther(k)
=============================================================================
