------------------------- MODULE EnvironmentRuntime -------------------------
(***************************************************************************)
(* The Container and the KubeVirt provider of the Environment Service with *)
(* the executor that acts for them on Kubernetes (container_provider.rs,   *)
(* kubevirt_provider.rs, runtime_executor.rs): the reconcile call of one   *)
(* environment, its request on the bus, the executor's fence row, the      *)
(* Kubernetes objects of the environment's namespace, and the row of       *)
(* kubevirt_runtime_observations.                                          *)
(*                                                                         *)
(* A request stands for its id: the hash covers exactly these fields and   *)
(* the plan they determine.  Every Kubernetes request, database            *)
(* transaction and message is a step of its own.  A Kubernetes request     *)
(* takes effect when it is sent or not at all, and never after the         *)
(* deadline of the execution that sent it.                                 *)
(*                                                                         *)
(* A behaviour starts in Provisioning: the three steps before it call no   *)
(* executor.                                                               *)
(***************************************************************************)
EXTENDS EnvironmentProvider, FiniteSets, Functions, Sequences

CONSTANTS
    Runtimes,         \* the runtime kinds of the instance
    RuntimeKinds,     \* the commands the environment receives
    RuntimeBudget,    \* OPERATION_DEADLINE
    RuntimeLease,     \* RECONCILE_LEASE
    MaxTick,          \* bound: the last tick
    LastRequest,      \* bound: the last tick at which a command arrives
    MaxRequested,     \* bound: operations accepted in a behaviour
    MaxFaults,        \* bound: failed requests, killed processes, refused releases
    MaxSteps,         \* bound: provider steps of one operation
    MaxCalls          \* bound: reconcile calls at once

ASSUME RuntimeAssumption ==
    /\ Runtimes \subseteq {"container", "kubevirt"}
    /\ RuntimeKinds \subseteq OperationKinds \ {"Create"}
    /\ {RuntimeBudget, RuntimeLease, MaxTick, LastRequest, MaxRequested, MaxFaults, MaxSteps,
        MaxCalls} \subseteq Nat

VARIABLES
    runtime,     \* the runtime kind of the environment
    tick,        \* the database clock
    inst,        \* the stored aggregate
    requested,   \* operations accepted so far
    lease,       \* token and expiry of the reconcile lease of the current operation
    calls,       \* reconcile calls in progress
    wire,        \* executor requests on the bus
    fence,       \* the row of container_executor_fences or kubevirt_executor_fences
    jobs,        \* executions in the executor
    cluster,     \* the environment's namespace in Kubernetes
    observed,    \* the row of kubevirt_runtime_observations
    faults       \* faults so far

runtimeVars ==
    <<runtime, tick, inst, requested, lease, calls, wire, fence, jobs, cluster, observed,
      faults>>

serviceVars == <<inst, requested, lease>>

-----------------------------------------------------------------------------

NoAnswer == [status |-> "none", vol |-> 0]

Answer(status) == [status |-> status, vol |-> cluster.vol]

Failures == {"unavailable", "rejected"}

NoFence == [present |-> FALSE]

NoRow == [present |-> FALSE]

\* ContainerBackendFence::for_action: the request id covers the operation, its step and attempt.
ContainerFence(e) ==
    [generation |-> e.generation, operation |-> e.operation.id,
     step |-> e.operation.providerStep, attempt |-> e.operation.attempt,
     action |-> NextAction(e), deadline |-> e.operation.deadlineAt]

\* KubeVirtBackendFence::for_action
KubeVirtFence(e) == ContainerFence(e)

FenceOf(e) == IF runtime = "container" THEN ContainerFence(e) ELSE KubeVirtFence(e)

\* The aggregate after Validate, Validate and Build.
Provisioning ==
    LET step(e, s) == ApplyProviderObservation(e, NoEndpoints(s, FALSE))
        created == CreatedInstance(MaxTick + 1, NoLeaseAuthorization, RuntimeBudget)
    IN  step(step(step(created, "Validating"), "Building"), "Provisioning")

RuntimeInit ==
    /\ runtime \in Runtimes
    /\ tick = 0
    /\ inst = Provisioning
    /\ requested = 1
    /\ lease = [token |-> 0, until |-> NoTime]
    /\ calls = {} /\ wire = {} /\ jobs = {}
    /\ fence = NoFence /\ observed = NoRow
    /\ cluster = [ns |-> "absent", vol |-> 0, made |-> 0, bound |-> FALSE,
                  load |-> "none", isolated |-> FALSE]
    /\ faults = 0

Fault == faults < MaxFaults /\ faults' = faults + 1

-----------------------------------------------------------------------------
(* The reconcile call *)

\* The lease columns, revision and operation that save_reconciled checks.
Current(c) ==
    /\ inst.revision = c.snapshot.revision
    /\ inst.operation.id = c.snapshot.operation.id
    /\ lease.token = c.token /\ lease.until > tick

\* save_reconciled: the result of the call is stored, or dropped when the call lost its lease.
Save(c, next) ==
    /\ calls' = calls \ {c}
    /\ IF Current(c) /\ Validate(next)
       THEN inst' = next /\ lease' = [lease EXCEPT !.until = NoTime]
       ELSE UNCHANGED <<inst, lease>>

Failed(e, since, retryable) ==
    IF Retries(e, since, retryable) THEN ApplyRetry(e, "Provider", since + RetryDelay)
    ELSE ApplyProviderFailure(e, "Provider")

Due == Active(inst) /\ inst.operation.nextAttemptAt <= tick /\ lease.until <= tick

\* claim_due of an operation past its deadline: its cleanup is stored.
BeginsCleanup ==
    /\ Due /\ TimedOut(inst, tick)
    /\ TimeoutCleanupAllowed(inst, tick, CleanupDeadline(tick))
    /\ inst' = BeginTimeoutCleanup(inst, tick, CleanupDeadline(tick))
    /\ UNCHANGED <<runtime, tick, requested, lease, calls, wire, fence, jobs, cluster,
                   observed, faults>>

\* ContainerProvider::execute, KubeVirtProvider::execute: the pairs of action and state served.
Served(e) == ContainerObservations(e, NextAction(e)) # {}

\* The call fails before anything is sent, for good.
RefusedCall ==
    /\ Due /\ ~TimedOut(inst, tick)
    /\ inst' = ApplyProviderFailure(inst, "Provider")
    /\ UNCHANGED <<runtime, tick, requested, lease, calls, wire, fence, jobs, cluster,
                   observed>>

\* execute of a pair that is not served.
Refused == ~Served(inst) /\ RefusedCall /\ UNCHANGED faults

\* ContainerProvider::plan of a release that is withdrawn, of another trust revision or
\* identity, or against the security posture; Stop accepts a withdrawn one.
ContainerPlanRefused ==
    runtime = "container" /\ NextAction(inst) \notin {"Stop", "Cleanup"} /\ RefusedCall /\ Fault

\* KubeVirtProvider::plan
KubeVirtPlanRefused ==
    runtime = "kubevirt" /\ NextAction(inst) \notin {"Stop", "Cleanup"} /\ RefusedCall /\ Fault

\* execute of Validate and Build, which call no executor: the observation is applied at once.
Prepares ==
    /\ Due /\ ~TimedOut(inst, tick)
    /\ NextAction(inst) \in {"Validate", "Build"}
    /\ \E obs \in ContainerObservations(inst, NextAction(inst)) :
           inst' = IF ObservationAccepted(inst, obs)
                   THEN Deferred(ApplyProviderObservation(inst, obs), tick)
                   ELSE ApplyProviderFailure(inst, "Provider")
    /\ UNCHANGED <<runtime, tick, requested, lease, calls, wire, fence, jobs, cluster,
                   observed, faults>>

\* claim_due, heartbeat and execute: the request is published.
Call ==
    /\ Due /\ ~TimedOut(inst, tick) /\ Served(inst)
    /\ NextAction(inst) \notin {"Validate", "Build"}
    /\ Cardinality(calls) < MaxCalls
    /\ inst.operation.providerStep <= MaxSteps
    /\ lease' = [token |-> lease.token + 1, until |-> tick + RuntimeLease]
    /\ calls' = calls \cup {[token |-> lease'.token, snapshot |-> inst, since |-> tick,
                             req |-> FenceOf(inst), answer |-> NoAnswer, recorded |-> "no"]}
    /\ wire' = wire \cup {FenceOf(inst)}
    /\ UNCHANGED <<runtime, tick, inst, requested, fence, jobs, cluster, observed, faults>>

\* A request without an answer in time, or with an answer of another executor process that
\* finds the request in progress.  One that was not received is lost, or arrives later.
CallFails(c) ==
    /\ c.answer = NoAnswer
    /\ Save(c, Failed(c.snapshot, c.since, TRUE))
    /\ \/ wire' = wire \ {c.req} /\ UNCHANGED faults
       \/ c.req \in wire /\ Fault /\ UNCHANGED wire
    /\ UNCHANGED <<runtime, tick, requested, fence, jobs, cluster, observed>>

\* NatsContainerProviderBackend::request
ContainerCallFails(c) == runtime = "container" /\ CallFails(c)

\* NatsKubeVirtProviderBackend::request
KubeVirtCallFails(c) == runtime = "kubevirt" /\ CallFails(c)

\* The backend's answer is a failure.
CallRefused(c) ==
    /\ c.answer.status \in Failures
    /\ Save(c, Failed(c.snapshot, c.since, c.answer.status = "unavailable"))
    /\ UNCHANGED <<runtime, tick, requested, wire, fence, jobs, cluster, observed, faults>>

WorkerDies(c) ==
    /\ Fault
    /\ calls' = calls \ {c}
    /\ UNCHANGED <<runtime, tick, serviceVars, wire, fence, jobs, cluster, observed>>

\* ready_observation and the arms of execute.
ObservationOf(c) ==
    CASE c.answer.status = "deleted" -> DeletedObservation
      [] c.answer.status # "deleted" /\ c.req.action = "Stop" -> NoEndpoints("Stopped", TRUE)
      [] c.answer.status = "ready" /\ c.req.action # "Stop" -> ReadyObservation(c.snapshot)
      [] OTHER -> NoEndpoints("Provisioning", FALSE)

\* The observation is applied, or refused as invalid.
Observes(c) ==
    LET obs == ObservationOf(c)
    IN  /\ c.answer.status \notin Failures \cup {"none"}
        /\ runtime = "kubevirt" /\ c.answer.status # "converging" => c.recorded = "yes"
        /\ Save(c, IF ObservationAccepted(c.snapshot, obs)
                   THEN Deferred(ApplyProviderObservation(c.snapshot, obs), c.since)
                   ELSE ApplyProviderFailure(c.snapshot, "Provider"))
        /\ UNCHANGED <<runtime, tick, requested, wire, fence, jobs, cluster, observed, faults>>

-----------------------------------------------------------------------------
(* Commands *)

\* accept_command_in_transaction, not due before the superseded lease has expired.
AcceptCommand(kind) ==
    LET c == [kind |-> kind, expectedRevision |-> inst.revision, acceptedAt |-> tick,
              deadlineAt |-> tick + RuntimeBudget, revocationRecorded |-> TRUE,
              leaseAuthorization |-> NoLeaseAuthorization]
        next == NotBefore(PlanCommand(inst, c, requested + 1),
                          IF Active(inst) THEN lease.until ELSE NoTime)
    IN  /\ requested < MaxRequested /\ tick <= LastRequest
        /\ CommandAllowed(inst, c, tick) /\ Validate(next)
        /\ inst' = next
        /\ requested' = requested + 1
        /\ lease' = [lease EXCEPT !.until = NoTime]
        /\ UNCHANGED <<runtime, tick, calls, wire, fence, jobs, cluster, observed, faults>>

-----------------------------------------------------------------------------
(* The executor: admission, completion, reply *)

Reply(req, answer) ==
    calls' = {IF c.req = req /\ c.answer = NoAnswer THEN [c EXCEPT !.answer = answer] ELSE c :
                 c \in calls}

\* The order of the executor's fence: generation, step, attempt.
OlderRequest(r, s) ==
    \/ r.generation < s.generation
    \/ /\ r.generation = s.generation
       /\ r.step < s.step \/ (r.step = s.step /\ r.attempt < s.attempt)

\* Mutant: an execution that has not answered does not hold the next request back.
AdmissionEager(req) ==
    CASE tick >= req.deadline -> "deadline"
      [] tick < req.deadline /\ fence.present /\ fence.req = req ->
             IF fence.answer # NoAnswer THEN "replay" ELSE "inProgress"
      [] tick < req.deadline /\ fence.present /\ fence.req # req
             /\ OlderRequest(req, fence.req) -> "stale"
      [] OTHER -> "execute"

\* PgContainerExecutorFenceStore::admit
Admission(req) ==
    CASE tick >= req.deadline -> "deadline"
      [] tick < req.deadline /\ ~fence.present -> "execute"
      [] tick < req.deadline /\ fence.present ->
         IF fence.req = req THEN IF fence.answer # NoAnswer THEN "replay" ELSE "inProgress"
         ELSE IF fence.answer = NoAnswer /\ tick < fence.req.deadline THEN "inProgress"
         ELSE IF fence.tombstoned /\ fence.answer.status = "deleted"
              THEN IF req.action = "Cleanup" THEN "replay" ELSE "tombstoned"
         ELSE IF OlderRequest(req, fence.req) THEN "stale"
         ELSE IF req.generation = fence.req.generation
                 /\ req.operation # fence.req.operation THEN "identity"
         ELSE "execute"

\* PgKubeVirtExecutorFenceStore::admit decides alike on its own table.
KubeVirtAdmission(req) == Admission(req)

\* The first Kubernetes request of an execution.
FirstStep(action) ==
    CASE action \in {"Provision", "Reset"} -> "namespace"
      [] action = "Observe" -> "observe"
      [] action = "Start" -> "start"
      [] action = "Stop" -> "stop"
      [] action = "Restart" -> "restart"
      [] action = "Cleanup" -> "readback"

\* container_executor_failure, kubevirt_executor_failure
FenceFailure(verdict) == IF verdict = "inProgress" THEN "unavailable" ELSE "rejected"

\* One request is received: admitted and recorded, replayed, or refused.
Receive(req, verdict) ==
    /\ wire' = wire \ {req}
    /\ CASE verdict = "execute" ->
                /\ fence' = [present |-> TRUE, req |-> req, answer |-> NoAnswer,
                             tombstoned |-> FALSE]
                /\ jobs' = jobs \cup {[req |-> req, pc |-> FirstStep(req.action),
                                       answer |-> NoAnswer]}
                /\ UNCHANGED calls
         [] verdict = "replay" -> Reply(req, fence.answer) /\ UNCHANGED <<fence, jobs>>
         [] OTHER -> Reply(req, [status |-> FenceFailure(verdict), vol |-> 0])
                     /\ UNCHANGED <<fence, jobs>>
    /\ UNCHANGED <<runtime, tick, serviceVars, cluster, observed, faults>>

\* NatsContainerExecutorServer::serve
ReceiveContainer(req) == runtime = "container" /\ Receive(req, Admission(req))

\* NatsKubeVirtExecutorServer::serve
ReceiveKubeVirt(req) == runtime = "kubevirt" /\ Receive(req, KubeVirtAdmission(req))

\* complete: the answer is stored for the request the row names, once, and sent.
Complete(j) ==
    /\ j.pc = "complete"
    /\ jobs' = jobs \ {j}
    /\ IF fence.req = j.req /\ fence.answer = NoAnswer
       THEN /\ fence' = [fence EXCEPT !.answer = j.answer,
                                      !.tombstoned = @ \/ j.answer.status = "deleted"]
            /\ Reply(j.req, j.answer)
       ELSE UNCHANGED fence /\ Reply(j.req, [status |-> "rejected", vol |-> 0])
    /\ UNCHANGED <<runtime, tick, serviceVars, wire, cluster, observed, faults>>

CompleteContainer(j) == runtime = "container" /\ Complete(j)

CompleteKubeVirt(j) == runtime = "kubevirt" /\ Complete(j)

\* The execution is dropped at its deadline: nothing is stored, the caller is refused.
ExecutionTimesOut(j) ==
    /\ j.pc # "complete" /\ tick >= j.req.deadline
    /\ jobs' = jobs \ {j}
    /\ Reply(j.req, [status |-> "rejected", vol |-> 0])
    /\ UNCHANGED <<runtime, tick, serviceVars, wire, fence, cluster, observed, faults>>

\* FencedContainerExecutor::execute
ContainerTimesOut(j) == runtime = "container" /\ ExecutionTimesOut(j)

\* FencedKubeVirtExecutor::execute
KubeVirtTimesOut(j) == runtime = "kubevirt" /\ ExecutionTimesOut(j)

ExecutorStops ==
    /\ jobs # {} /\ Fault
    /\ jobs' = {}
    /\ UNCHANGED <<runtime, tick, serviceVars, calls, wire, fence, cluster, observed>>

-----------------------------------------------------------------------------
(* The executor: Kubernetes *)

\* An execution acts until its deadline.
Running(j) == j.pc # "complete" /\ tick < j.req.deadline

Advance(j, pc) == jobs' = (jobs \ {j}) \cup {[j EXCEPT !.pc = pc]}

Conclude(j, answer) ==
    jobs' = (jobs \ {j}) \cup {[j EXCEPT !.pc = "complete", !.answer = answer]}

executorUnchanged == <<runtime, tick, serviceVars, calls, wire, fence, observed>>

\* External: what the API server answers to a write into the namespace.
NamespaceStatus ==
    CASE cluster.ns = "active" -> "ok"
      [] cluster.ns = "absent" -> "unavailable"
      [] cluster.ns \in {"terminating", "released"} -> "rejected"

\* One write: it succeeds, is refused (status_failure), or its answer is lost, before or
\* after it took effect.
Write(j, status, after, next) ==
    /\ Running(j)
    /\ \/ status = "ok" /\ cluster' = after /\ Advance(j, next) /\ UNCHANGED faults
       \/ status # "ok" /\ Conclude(j, [status |-> status, vol |-> 0])
          /\ UNCHANGED <<cluster, faults>>
       \/ /\ Fault
          /\ cluster' \in {cluster, IF status = "ok" THEN after ELSE cluster}
          /\ Conclude(j, [status |-> "unavailable", vol |-> 0])
    /\ UNCHANGED executorUnchanged

\* One read that ends the execution, goes on, or fails.
Read(j, ends, answer, next) ==
    /\ Running(j)
    /\ \/ ends /\ Conclude(j, answer) /\ UNCHANGED faults
       \/ ~ends /\ next # j.pc /\ Advance(j, next) /\ UNCHANGED faults
       \/ Fault /\ Conclude(j, [status |-> "unavailable", vol |-> 0])
    /\ UNCHANGED <<executorUnchanged, cluster>>

\* External: the namespace is created with the cleanup finalizer.
WithNamespace(c) == IF c.ns = "absent" THEN [c EXCEPT !.ns = "active"] ELSE c

\* External: the volume of the plan is created once.
WithVolume(c) ==
    IF c.vol = 0 THEN [c EXCEPT !.vol = c.made + 1, !.made = c.made + 1, !.bound = FALSE] ELSE c

\* External: the controllers start or stop the workload the object asks for.
WithLoad(c, up) ==
    [c EXCEPT !.load = IF up THEN IF c.load = "running" THEN "running" ELSE "starting"
                       ELSE IF c.load = "stopped" THEN "stopped" ELSE "stopping"]

\* External: what applying one group of a plan's resources does.
Applied(c, group) ==
    CASE group = "namespace" -> WithNamespace(c)
      [] group = "volume" -> WithVolume(c)
      [] group = "policy" -> [c EXCEPT !.isolated = TRUE]
      [] group = "workload" -> WithLoad(c, TRUE)

\* The resources of ContainerProvider::plan, grouped, in their order: the namespace with its
\* finalizer, quota and claim, the network policies, the Deployment.
ContainerPlan == <<"namespace", "volume", "policy", "workload">>

\* The resources of KubeVirtProvider::plan: namespace and quota, the policies with
\* default-deny first, cloud-init and the root disk, the VM that runs at once.
KubeVirtPlan == <<"namespace", "policy", "volume", "workload">>

\* The group applied after this one.
Following(plan, group) ==
    plan[(CHOOSE i \in DOMAIN plan : plan[i] = group) + 1]

ApplyStatus(group) ==
    IF group = "namespace" /\ cluster.ns = "absent" THEN "ok" ELSE NamespaceStatus

\* apply_plan: namespace, pull secret and the others, the claim is awaited, the Deployment.
ApplyPlan(j) ==
    LET next == CASE j.pc = "workload" -> "observe"
                  [] j.pc # "workload" -> Following(ContainerPlan, j.pc)
    IN  /\ runtime = "container" /\ j.pc \in Range(ContainerPlan)
        /\ Write(j, ApplyStatus(j.pc), Applied(cluster, j.pc),
                 IF next = "workload" THEN "claim" ELSE next)

\* wait_for_workspace_claim
WaitForWorkspaceClaim(j) ==
    /\ j.pc = "claim"
    /\ Read(j, FALSE, NoAnswer, IF cluster.bound THEN "workload" ELSE "claim")

\* A Deployment is ready when what is available is what is desired, none included.
WorkloadReady(c) == c.load \in {"running", "stopped"}

\* observe_plan
ObservePlan(j) ==
    /\ runtime = "container" /\ j.pc = "observe"
    /\ Read(j, TRUE, Answer(IF WorkloadReady(cluster) THEN "ready" ELSE "converging"), "observe")

\* scale: the Deployment with its replicas, then observe_plan until it is ready.
Scale(j) ==
    /\ runtime = "container"
    /\ \/ /\ j.pc \in {"start", "stop"}
          /\ Write(j, NamespaceStatus, WithLoad(cluster, j.pc = "start"), "settle")
       \/ j.pc = "settle" /\ Read(j, WorkloadReady(cluster), Answer("ready"), "settle")

\* restart: the revision annotation rolls the Deployment over.
Restart(j) ==
    /\ runtime = "container" /\ j.pc = "restart"
    /\ Write(j, NamespaceStatus, [cluster EXCEPT !.load = "starting"], "observe")

\* apply_kubevirt_plan: in the order of the plan.  A VM stopped through its subresource no
\* longer has the applied run strategy and refuses the apply.
ApplyKubeVirtPlan(j) ==
    /\ runtime = "kubevirt" /\ j.pc \in Range(KubeVirtPlan)
    /\ Write(j, IF j.pc = "workload" /\ cluster.load \in {"stopping", "stopped"}
                THEN "rejected" ELSE ApplyStatus(j.pc),
             Applied(cluster, j.pc),
             IF j.pc = KubeVirtPlan[Len(KubeVirtPlan)] THEN "running"
             ELSE Following(KubeVirtPlan, j.pc))

\* kubevirt_subresource; a conflict of start and stop is no failure.
KubeVirtSubresource(j) ==
    LET up == j.pc \in {"start", "restart"}
        conflict == CASE j.pc = "start" -> cluster.load \in {"starting", "running"}
                      [] j.pc = "stop" -> cluster.load \in {"stopping", "stopped"}
                      [] OTHER -> cluster.load # "running"
    IN  /\ runtime = "kubevirt" /\ j.pc \in {"start", "stop", "restart"}
        /\ Write(j, IF cluster.load = "none" THEN "unavailable"
                    ELSE IF j.pc = "restart" /\ conflict THEN "rejected" ELSE "ok",
                 IF conflict THEN cluster
                 ELSE [cluster EXCEPT !.load = IF up THEN "starting" ELSE "stopping"],
                 IF up THEN "running" ELSE "halted")

\* observe_kubevirt_running, once.
ObserveKubeVirtRunning(j) ==
    /\ runtime = "kubevirt" /\ j.pc = "observe"
    /\ Read(j, TRUE, IF cluster.load = "running" THEN Answer("ready")
                     ELSE [status |-> "unavailable", vol |-> 0], "observe")

\* wait_kubevirt_running: an unavailable observation is read again until the deadline.
WaitKubeVirtRunning(j) ==
    /\ j.pc = "running" /\ Running(j) /\ cluster.load = "running"
    /\ Conclude(j, Answer("ready"))
    /\ UNCHANGED <<executorUnchanged, cluster, faults>>

\* observe_kubevirt_stopped in the loop of Stop.
ObserveKubeVirtStopped(j) ==
    /\ j.pc = "halted" /\ Running(j) /\ cluster.load = "stopped"
    /\ Conclude(j, Answer("stopped"))
    /\ UNCHANGED <<executorUnchanged, cluster, faults>>

\* Mutant: the deletion is answered without reading the namespace again.
DeleteNamespaceAtOnce(j) ==
    \/ /\ j.pc = "readback"
       /\ Read(j, FALSE, NoAnswer, IF cluster.ns = "absent" THEN "evidence" ELSE "delete")
    \/ /\ j.pc = "delete"
       /\ Write(j, "ok", IF cluster.ns = "active" THEN [cluster EXCEPT !.ns = "terminating"]
                         ELSE cluster, "finalizers")
    \/ /\ j.pc = "finalizers"
       /\ Write(j, "ok", IF cluster.ns = "terminating" THEN [cluster EXCEPT !.ns = "released"]
                         ELSE cluster, "evidence")

\* The loop of delete_namespace: read back, delete, clear the finalizers, read back.
NamespaceDeletion(j) ==
    \/ /\ j.pc = "readback"
       /\ Read(j, FALSE, NoAnswer, IF cluster.ns = "absent" THEN "evidence" ELSE "delete")
    \/ /\ j.pc = "delete"
       /\ Write(j, "ok", IF cluster.ns = "active" THEN [cluster EXCEPT !.ns = "terminating"]
                         ELSE cluster, "finalizers")
    \/ /\ j.pc = "finalizers"
       /\ Write(j, "ok", IF cluster.ns = "terminating" THEN [cluster EXCEPT !.ns = "released"]
                         ELSE cluster, "readback")

DeleteNamespace(j) == runtime = "container" /\ NamespaceDeletion(j)

DeleteKubeVirtNamespace(j) == runtime = "kubevirt" /\ NamespaceDeletion(j)

\* verify_namespace_identity: a finalizer of another owner stops the cleanup.
ForeignFinalizer(j) ==
    /\ j.pc = "readback" /\ Running(j) /\ cluster.ns # "absent" /\ Fault
    /\ Conclude(j, [status |-> "rejected", vol |-> 0])
    /\ UNCHANGED <<executorUnchanged, cluster>>

\* write_cleanup_evidence and store_cleanup_document
StoreCleanupDocument(j) ==
    /\ j.pc = "evidence"
    /\ Read(j, TRUE, [status |-> "deleted", vol |-> 0], "evidence")

\* The polling loops read the clock themselves.
LoopEnds(j) ==
    /\ j.pc \in {"claim", "settle", "running", "halted", "readback"}
    /\ tick >= j.req.deadline
    /\ Conclude(j, [status |-> "unavailable", vol |-> 0])
    /\ UNCHANGED <<executorUnchanged, cluster, faults>>

\* External: the volume is bound, the workload converges, the namespace is removed.
KubernetesStep ==
    /\ \/ cluster.vol # 0 /\ ~cluster.bound /\ cluster' = [cluster EXCEPT !.bound = TRUE]
       \/ cluster.load = "starting" /\ cluster' = [cluster EXCEPT !.load = "running"]
       \/ cluster.load = "stopping" /\ cluster' = [cluster EXCEPT !.load = "stopped"]
       \/ /\ cluster.ns = "released"
          /\ cluster' = [cluster EXCEPT !.ns = "absent", !.vol = 0, !.bound = FALSE,
                                        !.load = "none", !.isolated = FALSE]
    /\ UNCHANGED <<runtime, tick, serviceVars, calls, wire, fence, jobs, observed, faults>>

-----------------------------------------------------------------------------
(* The KubeVirt observation store *)

\* fence_tuple: the order of this store is generation, attempt, step.
FenceTupleLater(r, s) ==
    \/ r.generation > s.generation
    \/ r.generation = s.generation /\ r.attempt > s.attempt
    \/ r.generation = s.generation /\ r.attempt = s.attempt /\ r.step > s.step

RecordedState(answer) ==
    CASE answer.status = "ready" -> "running"
      [] answer.status = "stopped" -> "stopped"
      [] answer.status = "deleted" -> "deleted"

\* validate_record_transition
ValidateRecordTransition(c) ==
    CASE c.answer.status = "deleted" -> TRUE
      [] c.answer.status = "stopped" ->
             observed.present /\ observed.state \in {"running", "stopped"}
                 /\ observed.vol = c.answer.vol
      [] c.answer.status = "ready" /\ observed.present ->
             /\ c.req.action = "Start" => observed.state = "stopped"
             /\ c.req.action = "Reset" \/ observed.vol = c.answer.vol
      [] OTHER -> c.req.action \in {"Provision", "Reset", "Observe"}

\* record: an exact replay is accepted, a deleted row and a row that is not older are final.
RecordVerdict(c) ==
    IF observed.present /\ observed.req = c.req
    THEN IF observed.state = RecordedState(c.answer) /\ observed.answer = c.answer
         THEN "replay" ELSE "refused"
    ELSE IF observed.present
            /\ (observed.state = "deleted" \/ ~FenceTupleLater(c.req, observed.req))
         THEN "refused"
    ELSE IF ValidateRecordTransition(c) THEN "write" ELSE "refused"

NewRow(c) ==
    [present |-> TRUE, state |-> RecordedState(c.answer), req |-> c.req, answer |-> c.answer,
     vol |-> IF c.answer.status = "deleted" /\ observed.present THEN observed.vol
             ELSE c.answer.vol]

\* One transaction of the store before the observation is applied.
Record(c) ==
    /\ runtime = "kubevirt" /\ c.recorded = "no"
    /\ LET verdict == RecordVerdict(c)
           to(r) == calls' = (calls \ {c}) \cup {[c EXCEPT !.recorded = r]}
       IN  \/ verdict = "write" /\ observed' = NewRow(c) /\ to("yes") /\ UNCHANGED faults
           \/ verdict = "replay" /\ to("yes") /\ UNCHANGED <<observed, faults>>
           \/ verdict = "refused" /\ to("refused") /\ UNCHANGED <<observed, faults>>
           \/ /\ Fault /\ to("failed")
              /\ observed' \in {observed, IF verdict = "write" THEN NewRow(c) ELSE observed}
    /\ UNCHANGED <<runtime, tick, serviceVars, wire, fence, jobs, cluster>>

RecordRunning(c) == c.answer.status = "ready" /\ Record(c)

RecordStopped(c) == c.answer.status = "stopped" /\ Record(c)

RecordDeleted(c) == c.answer.status = "deleted" /\ Record(c)

\* observation_store_failure: only a database error is retried.
RecordRefused(c) ==
    /\ c.recorded \in {"refused", "failed"}
    /\ Save(c, Failed(c.snapshot, c.since, c.recorded = "failed"))
    /\ UNCHANGED <<runtime, tick, requested, wire, fence, jobs, cluster, observed, faults>>

-----------------------------------------------------------------------------

\* Time passes; a request past its deadline, which admit refuses, is dropped.
Passes ==
    /\ tick < MaxTick
    /\ tick' = tick + 1
    /\ wire' = {req \in wire : req.deadline > tick'}
    /\ UNCHANGED <<runtime, serviceVars, calls, fence, jobs, cluster, observed, faults>>

Execution(j) ==
    \/ ApplyPlan(j) \/ WaitForWorkspaceClaim(j) \/ ObservePlan(j) \/ Scale(j) \/ Restart(j)
    \/ ApplyKubeVirtPlan(j) \/ KubeVirtSubresource(j) \/ ObserveKubeVirtRunning(j)
    \/ WaitKubeVirtRunning(j) \/ ObserveKubeVirtStopped(j)
    \/ DeleteNamespace(j) \/ DeleteKubeVirtNamespace(j) \/ ForeignFinalizer(j)
    \/ StoreCleanupDocument(j) \/ LoopEnds(j)
    \/ CompleteContainer(j) \/ CompleteKubeVirt(j)
    \/ ContainerTimesOut(j) \/ KubeVirtTimesOut(j)

RuntimeNext ==
    \/ Passes \/ KubernetesStep \/ ExecutorStops
    \/ \E kind \in RuntimeKinds : AcceptCommand(kind)
    \/ BeginsCleanup \/ Refused \/ ContainerPlanRefused \/ KubeVirtPlanRefused \/ Prepares \/ Call
    \/ \E c \in calls : ContainerCallFails(c) \/ KubeVirtCallFails(c) \/ CallRefused(c) \/ WorkerDies(c) \/ Observes(c)
                        \/ RecordRunning(c) \/ RecordStopped(c) \/ RecordDeleted(c)
                        \/ RecordRefused(c)
    \/ \E req \in wire : ReceiveContainer(req) \/ ReceiveKubeVirt(req)
    \/ \E j \in jobs : Execution(j)

RuntimeSpec == RuntimeInit /\ [][RuntimeNext]_runtimeVars

-----------------------------------------------------------------------------
(* Properties *)

Request ==
    [generation : Nat, operation : Nat, step : Nat, attempt : Nat,
     action : ReconcileActions, deadline : Nat]

Answers ==
    [status : {"none", "ready", "converging", "stopped", "deleted"} \cup Failures, vol : Nat]

RuntimeTypeOK ==
    /\ runtime \in {"container", "kubevirt"}
    /\ inst \in Instance
    /\ wire \subseteq Request
    /\ \A j \in jobs : j.req \in Request /\ j.answer \in Answers
    /\ \A c \in calls : c.req \in Request /\ c.answer \in Answers
    /\ fence.present => fence.req \in Request /\ fence.answer \in Answers
    /\ cluster.ns \in {"absent", "active", "terminating", "released"}
    /\ cluster.load \in {"none", "starting", "running", "stopping", "stopped"}

\* An execution that may still write to Kubernetes is the one the fence row names: a request
\* that was superseded, by time, by a crash or by a newer operation, has no effect any more.
OneWriter == \A j \in jobs : Running(j) => fence.req = j.req

\* What the aggregate says of a finished operation is what the cluster runs: Ready is running,
\* Stopped is stopped, and a Deleted environment has no namespace and never gets one again.
SteadyTrue ==
    /\ inst.observedState = "Ready" /\ ~Active(inst) => cluster.load = "running"
    /\ inst.observedState = "Stopped" /\ ~Active(inst) => cluster.load = "stopped"
    /\ inst.observedState = "Deleted" => cluster.ns = "absent"

\* A Ready virtual machine has its identity recorded under the current generation, and it is
\* the identity of the machine that runs.
RecordTrue ==
    runtime = "kubevirt" /\ inst.observedState = "Ready" /\ ~Active(inst) =>
        /\ observed.present /\ observed.state = "running"
        /\ observed.req.generation = inst.generation
        /\ observed.vol = cluster.vol

\* No virtual machine exists in a namespace without its network policies, whichever attempts
\* were cut short.  A container restarted after a create that failed has no such guarantee:
\* restart applies the Deployment alone.
Isolated == runtime = "kubevirt" /\ cluster.load # "none" => cluster.isolated

\* The executor refuses no request of the current operation as stale, Freeze apart, which
\* keeps the generation of the operation before it and starts again at step one.
CurrentAdmitted ==
    \A c \in calls :
        Current(c) /\ c.req \in wire /\ c.snapshot.operation.kind # "Freeze" =>
            Admission(c.req) \notin {"stale", "identity", "tombstoned"}

\* At any time one request may write to the cluster, and the current one is not refused.
RuntimeFenced == RuntimeTypeOK /\ OneWriter /\ CurrentAdmitted

\* The cluster runs what the aggregate and the observation store say it does, isolated.
ClusterTrue == SteadyTrue /\ RecordTrue /\ Isolated

=============================================================================
