------------------------- MODULE EnvironmentProvider -------------------------
(***************************************************************************)
(* The pure part of the reconciler (reconciler.rs) and the Provider        *)
(* boundary: the action next_action selects from the persisted aggregate   *)
(* alone, what a Provider may answer, and what run_once makes of the       *)
(* answer.  The Container and the KubeVirt provider have the same control  *)
(* (ContainerProvider::execute, KubeVirtProvider::execute); a remote       *)
(* provider behind NatsEnvironmentProvider may answer anything that        *)
(* deserialises.                                                           *)
(***************************************************************************)
EXTENDS EnvironmentLifecycle

CONSTANTS
    Provider,           \* "container" (Container or KubeVirt) or "remote"
    ProviderTimeout,    \* PROVIDER_TIMEOUT
    RetryDelay          \* RETRY_DELAY

ASSUME ProviderAssumption ==
    /\ Provider \in {"container", "remote"}
    /\ ProviderTimeout \in Nat \ {0}
    /\ RetryDelay \in Nat \ {0}

ReconcileActions ==
    {"Validate", "Build", "Provision", "Observe", "Start", "Stop", "Restart", "Reset",
     "Configure", "Cleanup"}

NoAction == "NoAction"    \* ReconcileError::NoAction

\* Mutant: a start that is still converging is started again.
ProvisioningActionRestarts(e) ==
    CASE e.operation.kind \in RetryKinds -> "Provision"
      [] e.operation.kind = "Create" -> "Provision"
      [] e.operation.kind = "Restart" -> "Restart"
      [] e.operation.kind = "Reset" -> "Reset"
      [] OTHER -> "Start"

\* The action of an operation in Provisioning.
ProvisioningAction(e) ==
    CASE e.operation.kind \in RetryKinds ->
             IF e.operation.retryFromPhase = "Stopped" /\ e.desiredState = "Running"
             THEN "Start" ELSE "Provision"
      [] e.operation.kind = "Create" -> "Provision"
      [] e.operation.kind = "Restart" -> "Restart"
      [] e.operation.kind = "Reset" -> "Reset"
      [] OTHER -> "Observe"

\* Mutant: a stop that failed is not taken up again by a retry.
NextActionNoStopRetry(e) ==
    LET kind == e.operation.kind
        state == e.observedState
    IN  CASE state = "Requested" /\ kind \in {"Create"} \cup RetryKinds -> "Validate"
          [] state = "Validating" /\ kind \in {"Create", "Reset"} \cup RetryKinds -> "Validate"
          [] state = "Building" /\ kind \in {"Create", "Reset"} \cup RetryKinds -> "Build"
          [] state = "Provisioning" -> ProvisioningAction(e)
          [] state = "Stopped" /\ kind = "Start" -> "Start"
          [] state = "Stopping" /\ kind = "Stop" -> "Stop"
          [] state = "Expiring" /\ kind \in {"Expire"} \cup RetryKinds -> "Stop"
          [] state = "Updating" -> IF kind \in RetryKinds THEN "Configure" ELSE "Observe"
          [] state = "Stopped" /\ kind = "Expire" -> "Cleanup"
          [] state = "Deleting" -> "Cleanup"
          [] OTHER -> NoAction

\* next_action on an operation that is not terminal.  The first arm of the code
\* (past its deadline and Deleting) selects what (_, Deleting) selects anyway.
NextAction(e) ==
    LET kind == e.operation.kind
        state == e.observedState
    IN  CASE state = "Requested" /\ kind \in {"Create"} \cup RetryKinds -> "Validate"
          [] state = "Validating" /\ kind \in {"Create", "Reset"} \cup RetryKinds -> "Validate"
          [] state = "Building" /\ kind \in {"Create", "Reset"} \cup RetryKinds -> "Build"
          [] state = "Provisioning" -> ProvisioningAction(e)
          [] state = "Stopped" /\ kind = "Start" -> "Start"
          [] state = "Stopping" /\ kind \in {"Stop"} \cup RetryKinds -> "Stop"
          [] state = "Expiring" /\ kind \in {"Expire"} \cup RetryKinds -> "Stop"
          [] state = "Updating" -> IF kind \in RetryKinds THEN "Configure" ELSE "Observe"
          [] state = "Stopped" /\ kind = "Expire" -> "Cleanup"
          [] state = "Deleting" -> "Cleanup"
          [] OTHER -> NoAction

-----------------------------------------------------------------------------

NoEndpoints(next, complete) ==
    [nextState |-> next, endpoints |-> {}, cleanupEvidence |-> FALSE,
     operationComplete |-> complete]

\* ready_observation on a workload that is ready: one healthy endpoint of the next revision.
ReadyObservation(e) ==
    [nextState |-> "Ready",
     endpoints |-> {[health |-> "Healthy", revision |-> e.revision + 1]},
     cleanupEvidence |-> FALSE, operationComplete |-> TRUE]

DeletedObservation ==
    [nextState |-> "Deleted", endpoints |-> {}, cleanupEvidence |-> TRUE,
     operationComplete |-> TRUE]

\* ready_observation: the workload is ready, or still converging.
RunningObservations(e) == {ReadyObservation(e), NoEndpoints("Provisioning", FALSE)}

\* The successful answers of ContainerProvider::execute; {} is the Rejected fall-through.
ContainerObservations(e, action) ==
    LET state == e.observedState
    IN  CASE action = "Cleanup" /\ state = "Deleting" -> {DeletedObservation}
          [] action = "Validate" /\ state = "Requested" -> {NoEndpoints("Validating", FALSE)}
          [] action = "Validate" /\ state = "Validating" -> {NoEndpoints("Building", FALSE)}
          [] action = "Build" /\ state = "Building" -> {NoEndpoints("Provisioning", FALSE)}
          [] action \in {"Provision", "Reset", "Restart"} /\ state = "Provisioning" ->
                 RunningObservations(e)
          [] action = "Observe" -> RunningObservations(e)
          [] action = "Start" /\ state = "Stopped" -> RunningObservations(e)
          [] action = "Stop" /\ state \in {"Stopping", "Expiring"} ->
                 {NoEndpoints("Stopped", TRUE)}
          [] OTHER -> {}

\* External: a remote provider's answer, one endpoint at most, current, unhealthy or stale.
RemoteObservations(e) ==
    [nextState         : ObservedStates,
     endpoints         : {{}} \cup {{[health |-> h, revision |-> r]} :
                                       h \in {"Healthy", "Unhealthy"},
                                       r \in {e.revision, e.revision + 1}},
     cleanupEvidence   : BOOLEAN,
     operationComplete : BOOLEAN]

ProviderObservations(e, action) ==
    IF Provider = "remote" THEN RemoteObservations(e) ELSE ContainerObservations(e, action)

-----------------------------------------------------------------------------

\* cleanup_deadline: a budget of its own for the cleanup of a timed-out operation.
CleanupDeadline(now) ==
    now + ProviderTimeout * MaxAttempts + RetryDelay * (MaxAttempts - 1) + 1

\* run_once cleans an operation up, once, when its deadline has passed.
TimedOut(e, now) ==
    now > e.operation.deadlineAt /\ e.operation.cleanupStartedAt = NoTime

\* A retryable failure with attempts and time left is scheduled again.
Retries(e, now, retryable) ==
    /\ retryable
    /\ e.operation.attempt < MaxAttempts
    /\ now + RetryDelay <= e.operation.deadlineAt

\* defer_non_terminal_observation: not due again before the retry delay.
Deferred(e, now) ==
    LET at == now + RetryDelay
    IN  IF Active(e)
        THEN [e EXCEPT !.operation.nextAttemptAt =
                 IF at < e.operation.deadlineAt THEN at ELSE e.operation.deadlineAt]
        ELSE e

\* The transition check of apply_provider_observation and the validation after the deferral.
ObservationApplies(e, obs, now) ==
    /\ \/ obs.nextState = e.observedState
       \/ EnsureTransition(e.observedState, obs.nextState)
    /\ Validate(Deferred(ApplyProviderObservation(e, obs), now))

=============================================================================
