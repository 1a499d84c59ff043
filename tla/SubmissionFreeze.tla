--------------------------- MODULE SubmissionFreeze ---------------------------
(***************************************************************************)
(* How one submission is frozen: the command that a student's request      *)
(* leaves (command_store.rs), the coordinator that carries it out with a   *)
(* Kubernetes Job (coordinator.rs), and the worker in that Job, which      *)
(* collects the files, uploads them and writes the result (worker.rs,      *)
(* freeze.rs, freeze_store.rs).                                            *)
(*                                                                         *)
(* There is one coordinator.  All it knows is in the database and in the   *)
(* cluster, except for where it is in the middle of several calls: at.     *)
(* The Job has one pod, which may outlive the deletion of the Job for a    *)
(* while; the Job's name is free again only when the pod has gone.  A pod  *)
(* whose node is lost is gone as far as the cluster knows, while its       *)
(* worker goes on, beside the worker of a Job that is created next.        *)
(***************************************************************************)
EXTENDS Integers, Sequences

CONSTANTS MaxBundles,         \* the numbers that tell bundles apart
          MaxFreezeAttempts   \* bound on the attempts of the worker

\* One bundle is current, one may be that of the request and two those of pods.
ASSUME FreezeBounds == MaxBundles \in Nat /\ MaxBundles >= 4 /\ MaxFreezeAttempts \in Nat

VARIABLES command,   \* [state, verified]: the row of the command
          late,      \* the command's deadline has passed
          at,        \* where the coordinator is
          bundle,    \* [state, made]: the ConfigMap and the Secret; the number of the last one made
          job,       \* the state of the Job
          deleting,  \* the Job has a deletion timestamp
          pods,      \* [phase, bundle, attempt]: the Job's pod, and one that was lost
          freezing,  \* [state, bundle]: the row of the freeze request, and what it was hashed from
          tries,     \* the rows of its attempts
          objects,   \* the attempts whose archive is in the object store
          result,    \* the attempt that the frozen submission is of, or 0
          told       \* the events of the submission in the Outbox

freezeVars == <<command, late, at, bundle, job, deleting, pods, freezing, tries, objects, result, told>>

Pods  == {"job", "lost"}
NoPod == [phase |-> "none", bundle |-> 0, attempt |-> 0]

OpenTry == {"reserved", "preflighting", "uploading"}

FreezeTypeOK ==
  /\ command \in [state : {"none", "queued", "running", "completed", "failed"}, verified : BOOLEAN]
  /\ late \in BOOLEAN
  /\ at \in {"idle", "config", "secret", "cleaned", "terminal"}
  /\ bundle \in [state : {"none", "partial", "whole"}, made : 0..MaxBundles]
  /\ job \in {"none", "active", "succeeded", "failed"}
  /\ deleting \in BOOLEAN
  /\ pods \in [Pods -> [phase : {"none", "starting", "reserved", "preflighting", "uploading",
                                 "uploaded", "succeeded", "failed"},
                        bundle : 0..MaxBundles, attempt : 0..MaxFreezeAttempts]]
  /\ freezing \in [state : {"none", "active", "retryable", "completed"}, bundle : 0..MaxBundles]
  /\ \A n \in DOMAIN tries : tries[n] \in [state : OpenTry \cup {"completed", "failed"}, live : BOOLEAN]
  /\ objects \subseteq 1..MaxFreezeAttempts
  /\ result \in 0..MaxFreezeAttempts
  /\ told \in 0..2

FreezeInit ==
  /\ command = [state |-> "none", verified |-> FALSE]
  /\ late = FALSE
  /\ at = "idle"
  /\ bundle = [state |-> "none", made |-> 0]
  /\ job = "none"
  /\ deleting = FALSE
  /\ pods = [w \in Pods |-> NoPod]
  /\ freezing = [state |-> "none", bundle |-> 0]
  /\ tries = <<>>
  /\ objects = {}
  /\ result = 0
  /\ told = 0

worker == <<freezing, tries, objects, result>>

-----------------------------------------------------------------------------
(* The command *)

\* freeze_submission: accepting it again finds the row.
Accept ==
  /\ command.state = "none"
  /\ command' = [command EXCEPT !.state = "queued"]
  /\ told' = 1
  /\ UNCHANGED <<late, at, bundle, job, deleting, pods, worker>>

\* command_deadline_exceeded
CommandDeadlinePasses ==
  /\ command.state \in {"queued", "running"} /\ ~late
  /\ late' = TRUE
  /\ UNCHANGED <<command, at, bundle, job, deleting, pods, worker, told>>

ClaimNext ==
  /\ command.state = "queued" /\ at = "idle"
  /\ command' = [command EXCEPT !.state = "running"]
  /\ UNCHANGED <<late, at, bundle, job, deleting, pods, worker, told>>

MarkFailed(verified) ==
  /\ command.state = "running"
  /\ command' = [state |-> "failed", verified |-> verified]

-----------------------------------------------------------------------------
(* The cluster, as the coordinator's calls leave it *)

\* A Job is deleted in the foreground: it is there until its pod has gone.
DeleteJob ==
  IF job = "none" THEN UNCHANGED <<job, deleting>>
  ELSE IF pods["job"].phase = "none" THEN job' = "none" /\ deleting' = FALSE
  ELSE deleting' = TRUE /\ UNCHANGED job

\* cleanup: true when everything else is absent and the Job is absent or going.
Cleanup(done) ==
  /\ DeleteJob
  /\ \E left \in {"none", "partial", "whole"} :
       /\ (left # "none") => (left = bundle.state \/ bundle.state = "whole")
       /\ done <=> left = "none"
       /\ bundle' = [bundle EXCEPT !.state = left]

\* A call is refused, or its answer is lost: what was asked for may have been done.
CleanupRefused ==
  /\ \/ UNCHANGED <<job, deleting, bundle>>
     \/ DeleteJob /\ UNCHANGED bundle
     \/ Cleanup(FALSE)

-----------------------------------------------------------------------------
(* The coordinator: reconcile_once *)

Reconciling == command.state = "running" /\ at = "idle"

\* create_resources finds one of the two objects without the other.
CleanupPartialBundle ==
  /\ Reconciling /\ job = "none" /\ bundle.state = "partial"
  /\ (\E done \in BOOLEAN : Cleanup(done)) \/ CleanupRefused
  /\ UNCHANGED <<command, late, at, pods, worker, told>>

\* The command document holds the time until which the submission is retained,
\* and so no two bundles are the same.
NewBundle ==
  CHOOSE n \in 1..MaxBundles :
    n # freezing.bundle /\ (\A w \in Pods : n # pods[w].bundle)
    /\ \A m \in 1..(n - 1) : m = freezing.bundle \/ \E w \in Pods : m = pods[w].bundle

CreateConfig ==
  /\ Reconciling /\ job = "none" /\ bundle.state = "none"
  /\ bundle' = [state |-> "partial", made |-> NewBundle]
  /\ at' = "config"
  /\ UNCHANGED <<command, late, job, deleting, pods, worker, told>>

CreateSecret ==
  /\ at = "config"
  /\ bundle' = [bundle EXCEPT !.state = "whole"]
  /\ at' = "secret"
  /\ UNCHANGED <<command, late, job, deleting, pods, worker, told>>

CreateJob ==
  /\ \/ at = "secret"
     \/ Reconciling /\ job = "none" /\ bundle.state = "whole"
  /\ job' = "active"
  /\ pods' = [pods EXCEPT !["job"] = [phase |-> "starting", bundle |-> bundle.made, attempt |-> 0]]
  /\ at' = "idle"
  /\ UNCHANGED <<command, late, bundle, deleting, worker, told>>

\* A call of reconcile is refused, or Environment Service answers with what is
\* not the command's binding.  The latter, which is asked for first, and any
\* error of a command that is late, are terminal; else the command is retried.
ReconcileFails ==
  /\ command.state = "running" /\ at \in {"idle", "config", "secret"}
  /\ \E error \in {"refused", "binding_invalid"} :
       /\ error = "binding_invalid" => at = "idle"
       /\ at' = IF late \/ error = "binding_invalid" THEN "terminal" ELSE "idle"
  /\ UNCHANGED <<command, late, bundle, job, deleting, pods, worker, told>>

\* The coordinator is started again; the database cannot be reached, too.
CoordinatorStops ==
  /\ at # "idle"
  /\ at' = "idle"
  /\ UNCHANGED <<command, late, bundle, job, deleting, pods, worker, told>>

\* reconcile: the Job has failed.
MarkFailedPendingCleanup ==
  /\ Reconciling /\ job = "failed"
  /\ MarkFailed(FALSE)
  /\ UNCHANGED <<late, at, bundle, job, deleting, pods, worker, told>>

CleanupFailedCommand ==
  /\ command.state = "failed" /\ ~command.verified /\ at = "idle"
  /\ \/ Cleanup(TRUE) /\ command' = [command EXCEPT !.verified = TRUE]
     \/ (Cleanup(FALSE) \/ CleanupRefused) /\ UNCHANGED command
  /\ UNCHANGED <<late, at, pods, worker, told>>

\* reconcile: the Job has succeeded.
CleanupSucceededJob ==
  /\ Reconciling /\ job = "succeeded"
  /\ \/ Cleanup(TRUE) /\ at' = "cleaned"
     \/ (Cleanup(FALSE) \/ CleanupRefused) /\ UNCHANGED at
  /\ UNCHANGED <<command, late, pods, worker, told>>

MarkCompleted ==
  /\ at = "cleaned" /\ result # 0
  /\ command' = [state |-> "completed", verified |-> TRUE]
  /\ at' = "idle"
  /\ UNCHANGED <<late, bundle, job, deleting, pods, worker, told>>

\* Mutant: only a command within its deadline is failed.
FailCommandWithinDeadline ==
  /\ at = "terminal" /\ at' = "idle"
  /\ \/ Cleanup(TRUE) /\ ~late /\ MarkFailed(TRUE)
     \/ (Cleanup(FALSE) \/ CleanupRefused) /\ UNCHANGED command
  /\ UNCHANGED <<late, pods, worker, told>>

\* What is left undone is tried again by the next pass, whose calls may do better.
FailCommandAfterCleanup ==
  /\ at = "terminal" /\ at' = "idle"
  /\ \/ Cleanup(TRUE) /\ MarkFailed(TRUE)
     \/ (Cleanup(FALSE) \/ CleanupRefused) /\ UNCHANGED command
  /\ UNCHANGED <<late, pods, worker, told>>

-----------------------------------------------------------------------------
(* The worker *)

Move(w, from, to) == pods[w].phase = from /\ pods' = [pods EXCEPT ![w].phase = to]

\* insert_attempt
NewTry(w, rows) ==
  /\ Len(rows) < MaxFreezeAttempts
  /\ tries' = Append(rows, [state |-> "reserved", live |-> TRUE])
  /\ freezing' = [state |-> "active", bundle |-> pods[w].bundle]
  /\ pods' = [pods EXCEPT ![w].phase = "reserved", ![w].attempt = Len(rows) + 1]

\* begin: the hash of the request covers its retention, and so the bundle.
Begin(w) ==
  /\ pods[w].phase = "starting"
  /\ LET conflict == freezing.state # "none" /\ freezing.bundle # pods[w].bundle
         last     == tries[Len(tries)]
     IN  \/ freezing.state = "none" /\ NewTry(w, <<>>)
         \/ conflict /\ Move(w, "starting", "failed") /\ UNCHANGED <<freezing, tries>>
         \/ /\ ~conflict /\ freezing.state = "completed"
            /\ Move(w, "starting", "succeeded") /\ UNCHANGED <<freezing, tries>>
         \/ /\ ~conflict /\ freezing.state = "active" /\ last.live
            /\ Move(w, "starting", "failed") /\ UNCHANGED <<freezing, tries>>
         \/ /\ ~conflict /\ freezing.state = "active" /\ ~last.live
            /\ NewTry(w, [tries EXCEPT ![Len(tries)] = [state |-> "failed", live |-> FALSE]])
         \/ ~conflict /\ freezing.state = "retryable" /\ NewTry(w, tries)
  /\ UNCHANGED <<command, late, at, bundle, job, deleting, objects, result, told>>

\* The attempt is this worker's, in this state, and its lease is running.
Fenced(w, states) ==
  LET n == pods[w].attempt IN n > 0 /\ n <= Len(tries) /\ tries[n].state \in states /\ tries[n].live

\* Mutant: the update names the attempt, and neither its state nor its lease.
TransitionUnfenced(w, from, to) == tries' = [tries EXCEPT ![pods[w].attempt].state = to]

Transition(w, from, to) == Fenced(w, {from}) /\ tries' = [tries EXCEPT ![pods[w].attempt].state = to]

MarkPreflighting(w) ==
  /\ Move(w, "reserved", "preflighting")
  /\ Transition(w, "reserved", "preflighting")
  /\ UNCHANGED <<command, late, at, bundle, job, deleting, freezing, objects, result, told>>

\* The files have been collected (SnapshotCollector).
MarkUploading(w) ==
  /\ Move(w, "preflighting", "uploading")
  /\ Transition(w, "preflighting", "uploading")
  /\ UNCHANGED <<command, late, at, bundle, job, deleting, freezing, objects, result, told>>

\* put_governance_locked, under a key of the attempt, and reading it back.
Upload(w) ==
  /\ Move(w, "uploading", "uploaded")
  /\ objects' = objects \cup {pods[w].attempt}
  /\ UNCHANGED <<command, late, at, bundle, job, deleting, freezing, tries, result, told>>

\* complete: the attempt, the result, the request and the event together.
CompleteFreeze(w) ==
  /\ Move(w, "uploaded", "succeeded")
  /\ Fenced(w, {"uploading"})
  /\ freezing.state = "active" /\ pods[w].attempt = Len(tries)
  /\ tries' = [tries EXCEPT ![pods[w].attempt] = [state |-> "completed", live |-> FALSE]]
  /\ freezing' = [freezing EXCEPT !.state = "completed"]
  /\ result' = pods[w].attempt
  /\ told' = 2
  /\ UNCHANGED <<command, late, at, bundle, job, deleting, objects>>

\* A step fails: the attempt fails with it, unless it has been lost, or the
\* database cannot be reached.
FreezeFails(w) ==
  /\ pods[w].phase \in {"reserved", "preflighting", "uploading", "uploaded"}
  /\ pods' = [pods EXCEPT ![w].phase = "failed"]
  /\ objects' \in {objects, IF pods[w].phase = "uploading" THEN objects \cup {pods[w].attempt} ELSE objects}
  /\ \/ UNCHANGED <<tries, freezing>>
     \/ /\ tries[pods[w].attempt].state \in OpenTry
        /\ tries' = [tries EXCEPT ![pods[w].attempt] = [state |-> "failed", live |-> FALSE]]
        /\ freezing' = [freezing EXCEPT !.state = IF @ = "active" /\ pods[w].attempt = Len(tries)
                                                  THEN "retryable" ELSE @]
  /\ UNCHANGED <<command, late, at, bundle, job, deleting, result, told>>

FreezeLeaseLapses ==
  /\ \E n \in DOMAIN tries :
       /\ tries[n].state \in OpenTry /\ tries[n].live
       /\ tries' = [tries EXCEPT ![n].live = FALSE]
  /\ UNCHANGED <<command, late, at, bundle, job, deleting, pods, freezing, objects, result, told>>

-----------------------------------------------------------------------------
(* Kubernetes *)

\* The Job takes over how its pod has ended.
JobOf(w, end) == IF w = "job" /\ job = "active" THEN end ELSE job

\* The pod is stopped at any time: by the Job's deadline, by its deletion, by
\* the node.
PodStopped(w) ==
  /\ pods[w].phase # "none"
  /\ job' = JobOf(w, "failed")
  /\ pods' = [pods EXCEPT ![w] = NoPod]
  /\ UNCHANGED <<command, late, at, bundle, deleting, worker, told>>

\* The worker ends, and the Job with it.
PodEnds(w) ==
  /\ pods[w].phase \in {"succeeded", "failed"}
  /\ job' = JobOf(w, pods[w].phase)
  /\ pods' = [pods EXCEPT ![w] = NoPod]
  /\ UNCHANGED <<command, late, at, bundle, deleting, worker, told>>

\* The pod of a node that does not answer is removed; its worker goes on.
PodLost ==
  /\ pods["job"].phase \notin {"none", "succeeded", "failed"} /\ pods["lost"] = NoPod
  /\ job' = JobOf("job", "failed")
  /\ pods' = [pods EXCEPT !["job"] = NoPod, !["lost"] = pods["job"]]
  /\ UNCHANGED <<command, late, at, bundle, deleting, worker, told>>

JobGone ==
  /\ deleting /\ pods["job"].phase = "none"
  /\ job' = "none"
  /\ deleting' = FALSE
  /\ UNCHANGED <<command, late, at, bundle, pods, worker, told>>

FreezeStep ==
  \/ Accept \/ CommandDeadlinePasses \/ ClaimNext
  \/ CleanupPartialBundle \/ CreateConfig \/ CreateSecret \/ CreateJob
  \/ ReconcileFails \/ CoordinatorStops
  \/ MarkFailedPendingCleanup \/ CleanupFailedCommand
  \/ CleanupSucceededJob \/ MarkCompleted \/ FailCommandAfterCleanup
  \/ \E w \in Pods :
       \/ Begin(w) \/ MarkPreflighting(w) \/ MarkUploading(w) \/ Upload(w)
       \/ CompleteFreeze(w) \/ FreezeFails(w) \/ PodStopped(w) \/ PodEnds(w)
  \/ FreezeLeaseLapses \/ PodLost \/ JobGone
=============================================================================
