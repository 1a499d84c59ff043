------------------------ MODULE EnvironmentLifecycle ------------------------
(***************************************************************************)
(* The pure lifecycle functions of the Environment Service                 *)
(* (services/environment-service/src/lifecycle.rs): what accepting a       *)
(* command, applying a Provider observation, scheduling a retry, failing   *)
(* an operation and timing one out do to the stored aggregate.  A function *)
(* that returns Result is two operators: the guard under which it is Ok    *)
(* and the aggregate it returns.                                           *)
(***************************************************************************)
EXTENDS EnvironmentContract

\* A lifecycle command as plan_command_authorized reads it.
Command ==
    [kind               : OperationKinds \ {"Create"},
     expectedRevision   : Nat,
     acceptedAt         : Nat,
     deadlineAt         : Nat,
     revocationRecorded : BOOLEAN,
     leaseAuthorization : LeaseAuthorization]

\* AppliedProviderObservation
Observation ==
    [nextState         : ObservedStates,
     endpoints         : SUBSET Endpoint,
     cleanupEvidence   : BOOLEAN,
     operationComplete : BOOLEAN]

Active(e) == e.operation.state \in ActiveOperationStates

WithHealth(endpoints, h) == {[p EXCEPT !.health = h] : p \in endpoints}

-----------------------------------------------------------------------------
(* The aggregate a create command stores, and the refresh of its Work Lease *)

\* Mutant: the attempts of a new operation are counted from zero.
CreatedInstanceNoAttempt(eligibility, authorization, deadline) ==
    [desiredState |-> "Running", observedState |-> "Requested", revision |-> 1,
     generation |-> 1, observedGeneration |-> 0, eligibilityExpiresAt |-> eligibility,
     endpoints |-> {}, failedPhase |-> NoPhase, cleanupEvidence |-> FALSE,
     operation |->
        [id |-> 1, kind |-> "Create", state |-> "Accepted", attempt |-> 0,
         providerStep |-> 1, nextAttemptAt |-> 0, acceptedAt |-> 0,
         deadlineAt |-> deadline, cleanupStartedAt |-> NoTime,
         diagnosticCode |-> "None", revocationRecorded |-> FALSE,
         retryFromPhase |-> NoPhase, leaseAuthorization |-> authorization]]

\* build_create_instance at tick 0: the first operation is Create.
CreatedInstance(eligibility, authorization, deadline) ==
    [desiredState         |-> "Running",
     observedState        |-> "Requested",
     revision             |-> 1,
     generation           |-> 1,
     observedGeneration   |-> 0,
     eligibilityExpiresAt |-> eligibility,
     endpoints            |-> {},
     failedPhase          |-> NoPhase,
     cleanupEvidence      |-> FALSE,
     operation            |->
        [id |-> 1, kind |-> "Create", state |-> "Accepted", attempt |-> 1,
         providerStep |-> 1, nextAttemptAt |-> 0, acceptedAt |-> 0,
         deadlineAt |-> deadline, cleanupStartedAt |-> NoTime,
         diagnosticCode |-> "None", revocationRecorded |-> FALSE,
         retryFromPhase |-> NoPhase, leaseAuthorization |-> authorization]]

\* refresh_work_lease takes an Active Lease of a newer revision and a later expiry.
LeaseRefreshable(e, lease, now) ==
    /\ Class = "Work"
    /\ lease.expiresAt > now
    /\ lease.leaseRevision > IF e.operation.leaseAuthorization = NoLeaseAuthorization
                             THEN 1 ELSE e.operation.leaseAuthorization.leaseRevision
    /\ lease.expiresAt > e.eligibilityExpiresAt

RefreshedInstance(e, lease) ==
    [e EXCEPT !.revision = @ + 1,
              !.eligibilityExpiresAt = lease.expiresAt,
              !.operation.leaseAuthorization = lease]

-----------------------------------------------------------------------------
(* plan_command_authorized and its helpers *)

IncrementsGeneration(kind) == kind # "Freeze"

InvalidatesEndpoints(kind) ==
    kind \in {"Stop", "Restart", "Reset", "Freeze"} \cup DestructiveKinds

\* Mutant: a cleanup keeps the desired state.
DesiredStateKeptByCleanup(e, kind) ==
    CASE kind \in {"Start", "Restart"} -> "Running"
      [] kind = "Stop" -> "Stopped"
      [] kind \in DestructiveKinds \ {"Cleanup"} -> "Deleted"
      [] OTHER -> e.desiredState

DesiredState(e, kind) ==
    CASE kind \in {"Start", "Restart"} -> "Running"
      [] kind = "Stop" -> "Stopped"
      [] kind \in DestructiveKinds -> "Deleted"
      [] OTHER -> e.desiredState

\* retry_resume_state; a Deleted or Failed phase cannot be resumed.
RetryResumeState(phase) ==
    CASE phase \in {"Requested", "Validating"} -> "Validating"
      [] phase \in {"Provisioning", "Ready", "Stopped"} -> "Provisioning"
      [] OTHER -> phase

AcceptedObservedState(e, kind) ==
    CASE kind = "Stop" -> "Stopping"
      [] kind = "Reset" /\ e.observedState = "Failed" -> "Validating"
      [] kind = "Restart" \/ (kind = "Reset" /\ e.observedState # "Failed") -> "Provisioning"
      [] kind \in RetryKinds -> RetryResumeState(e.failedPhase)
      [] kind \in {"Cancel", "Delete", "Cleanup"} -> "Deleting"
      [] kind = "Expire" -> "Expiring"
      [] kind = "Freeze" -> "Updating"
      [] OTHER -> e.observedState

\* The kinds that need eligibility, and for Work an Active Lease.
EligibilityKinds == {"Start", "Retry", "Recover", "Reset"}

\* validate_lease_authorization, and no authorization where none is expected.
LeaseAuthorized(c, now) ==
    IF Class = "Work" /\ c.kind \in EligibilityKinds
    THEN c.leaseAuthorization.expiresAt > now
    ELSE c.leaseAuthorization = NoLeaseAuthorization

\* Mutant: published endpoints do not require the Access revocation revision.
CommandAllowedUnrevoked(e, c, now) ==
    /\ c.kind \in EligibilityKinds => e.eligibilityExpiresAt > now
    /\ Active(e) => c.kind \in DestructiveKinds
    /\ e.desiredState = "Deleted" => c.kind \in {"Delete", "Cleanup"} \cup RetryKinds
    /\ EnsureOperationAllowed(e.observedState, c.kind)
    /\ c.kind \in RetryKinds => e.failedPhase \notin {NoPhase, "Deleted", "Failed"}
    /\ LeaseAuthorized(c, now)
    /\ AcceptedObservedState(e, c.kind) # e.observedState =>
           EnsureTransition(e.observedState, AcceptedObservedState(e, c.kind))

\* Mutant: the intent to delete does not restrict later commands.
CommandAllowedUndelete(e, c, now) ==
    /\ c.kind \in EligibilityKinds => e.eligibilityExpiresAt > now
    /\ Active(e) => c.kind \in DestructiveKinds
    /\ EnsureOperationAllowed(e.observedState, c.kind)
    /\ e.endpoints # {} /\ c.kind # "Start" => c.revocationRecorded
    /\ c.kind \in RetryKinds => e.failedPhase \notin {NoPhase, "Deleted", "Failed"}
    /\ LeaseAuthorized(c, now)
    /\ AcceptedObservedState(e, c.kind) # e.observedState =>
           EnsureTransition(e.observedState, AcceptedObservedState(e, c.kind))

\* Every guard of plan_command_authorized, in its order.
CommandAllowed(e, c, now) ==
    /\ c.expectedRevision = e.revision
    /\ c.deadlineAt > c.acceptedAt
    /\ c.kind \in EligibilityKinds => e.eligibilityExpiresAt > now
    /\ Active(e) => c.kind \in DestructiveKinds
    /\ e.desiredState = "Deleted" => c.kind \in {"Delete", "Cleanup"} \cup RetryKinds
    /\ EnsureOperationAllowed(e.observedState, c.kind)
    /\ e.endpoints # {} /\ c.kind # "Start" => c.revocationRecorded
    /\ c.kind \in RetryKinds => e.failedPhase \notin {NoPhase, "Deleted", "Failed"}
    /\ LeaseAuthorized(c, now)
    /\ AcceptedObservedState(e, c.kind) # e.observedState =>
           EnsureTransition(e.observedState, AcceptedObservedState(e, c.kind))

PlannedOperation(e, c, id) ==
    [id                 |-> id,
     kind               |-> c.kind,
     state              |-> IF c.kind = "Cancel" THEN "Cancelling" ELSE "Accepted",
     attempt            |-> 1,
     providerStep       |-> 1,
     nextAttemptAt      |-> c.acceptedAt,
     acceptedAt         |-> c.acceptedAt,
     deadlineAt         |-> c.deadlineAt,
     cleanupStartedAt   |-> NoTime,
     diagnosticCode     |-> "None",
     revocationRecorded |-> c.revocationRecorded,
     retryFromPhase     |-> IF c.kind \in RetryKinds THEN e.failedPhase ELSE NoPhase,
     leaseAuthorization |-> c.leaseAuthorization]

PlannedEndpoints(e, kind) ==
    IF InvalidatesEndpoints(kind)
    THEN WithHealth(e.endpoints, IF kind \in DestructiveKinds THEN "Removed" ELSE "Unhealthy")
    ELSE e.endpoints

PlanCommand(e, c, id) ==
    [e EXCEPT
        !.revision      = @ + 1,
        !.desiredState  = DesiredState(e, c.kind),
        !.observedState = AcceptedObservedState(e, c.kind),
        !.generation    = IF IncrementsGeneration(c.kind) THEN @ + 1 ELSE @,
        !.endpoints     = PlannedEndpoints(e, c.kind),
        !.failedPhase   = NoPhase,
        !.operation     = PlannedOperation(e, c, id)]

Later(s, t) == IF s > t THEN s ELSE t

\* accept_command_in_transaction: not due before the lease it supersedes has expired.
NotBefore(e, t) ==
    [e EXCEPT !.operation.nextAttemptAt = Later(t, @)]

-----------------------------------------------------------------------------
(* apply_provider_observation *)

\* The (operation, from, to) triples of validate_provider_observation.
ObservationMatchesOperation(kind, from, to) ==
    \/ kind \in {"Create"} \cup RetryKinds /\ from = "Requested" /\ to = "Validating"
    \/ kind \in {"Create", "Reset"} \cup RetryKinds /\ from = "Validating" /\ to = "Building"
    \/ kind \in {"Create", "Reset"} \cup RetryKinds /\ from = "Building" /\ to = "Provisioning"
    \/ /\ kind \in {"Create", "Start", "Restart", "Reset"} \cup RetryKinds
       /\ from = "Provisioning" /\ to \in {"Provisioning", "Ready", "Stopped"}
    \/ kind = "Start" /\ from = "Stopped" /\ to \in {"Provisioning", "Ready"}
    \/ kind = "Stop" /\ from = "Stopping" /\ to = "Stopped"
    \/ kind \in {"Freeze"} \cup RetryKinds /\ from = "Updating" /\ to = "Ready"
    \/ kind = "Expire" /\ from = "Expiring" /\ to \in {"Stopped", "Deleting"}
    \/ kind = "Expire" /\ from = "Stopped" /\ to = "Deleting"
    \/ /\ kind \in RetryKinds
       /\ from \in {"Stopping", "Expiring"} /\ to \in {"Stopped", "Deleting"}
    \/ from = "Deleting" /\ to = "Deleted"

\* The steady state the desired state converges to.
TargetState(desired) ==
    CASE desired = "Running" -> "Ready"
      [] desired = "Stopped" -> "Stopped"
      [] desired = "Deleted" -> "Deleted"

ExpireCleanupCheckpoint(e, obs) ==
    /\ e.operation.kind = "Expire"
    /\ e.observedState = "Expiring"
    /\ obs.nextState = "Stopped"
    /\ ~obs.operationComplete

ValidateProviderObservation(e, obs) ==
    LET isTarget == obs.nextState = TargetState(e.desiredState)
    IN  /\ ObservationMatchesOperation(e.operation.kind, e.observedState, obs.nextState)
        /\ obs.nextState \in {"Ready", "Stopped", "Deleted"} =>
               isTarget \/ ExpireCleanupCheckpoint(e, obs)
        /\ obs.operationComplete <=> isTarget

\* Mutant: a completed cleanup is a success, timed out or not.
PreservingCleanupFailureNever(e, obs) == FALSE

\* A timed-out operation keeps its diagnostic and ends Failed after its cleanup.
PreservingCleanupFailure(e, obs) ==
    /\ obs.operationComplete
    /\ obs.nextState = "Deleted"
    /\ e.operation.cleanupStartedAt # NoTime
    /\ e.operation.diagnosticCode # "None"

ObservedOperationState(e, obs) ==
    CASE PreservingCleanupFailure(e, obs) -> "Failed"
      [] ~obs.operationComplete -> "Running"
      [] /\ obs.operationComplete /\ ~PreservingCleanupFailure(e, obs)
         /\ e.operation.kind = "Cancel" -> "Cancelled"
      [] OTHER -> "Succeeded"

ObservedOperation(e, obs) ==
    [e.operation EXCEPT
        !.diagnosticCode = IF PreservingCleanupFailure(e, obs) THEN @ ELSE "None",
        !.state          = ObservedOperationState(e, obs),
        !.providerStep   = IF obs.operationComplete THEN @ ELSE @ + 1]

ApplyProviderObservation(e, obs) ==
    [e EXCEPT
        !.revision           = @ + 1,
        !.observedState      = obs.nextState,
        !.endpoints          = obs.endpoints,
        !.cleanupEvidence    = obs.cleanupEvidence,
        !.observedGeneration = IF obs.operationComplete THEN e.generation ELSE @,
        !.operation          = ObservedOperation(e, obs)]

\* Everything that makes the observation LifecycleError::ProviderObservationInvalid.
ObservationAccepted(e, obs) ==
    /\ ValidateProviderObservation(e, obs)
    /\ Validate(ApplyProviderObservation(e, obs))

-----------------------------------------------------------------------------
(* begin_timeout_cleanup, apply_retry, apply_provider_failure *)

TimeoutCleanupAllowed(e, startedAt, cleanupDeadline) ==
    /\ startedAt >= e.operation.acceptedAt
    /\ cleanupDeadline > startedAt
    /\ e.endpoints # {} => e.operation.revocationRecorded
    /\ e.observedState # "Deleting" => EnsureTransition(e.observedState, "Deleting")

\* A phase of its own, with a new budget of attempts and time.
CleanupOperation(op, startedAt, cleanupDeadline) ==
    [op EXCEPT !.state            = "Cancelling",
               !.attempt          = 1,
               !.providerStep     = @ + 1,
               !.nextAttemptAt    = startedAt,
               !.deadlineAt       = cleanupDeadline,
               !.cleanupStartedAt = startedAt,
               !.diagnosticCode   = "Timeout"]

BeginTimeoutCleanup(e, startedAt, cleanupDeadline) ==
    [e EXCEPT
        !.revision      = @ + 1,
        !.generation    = IF e.desiredState = "Deleted" THEN @ ELSE @ + 1,
        !.desiredState  = "Deleted",
        !.observedState = "Deleting",
        !.endpoints     = WithHealth(@, "Removed"),
        !.operation     = CleanupOperation(e.operation, startedAt, cleanupDeadline)]

RetryAllowed(e, retryAt) ==
    /\ e.operation.attempt < MaxAttempts
    /\ retryAt > e.operation.nextAttemptAt
    /\ retryAt <= e.operation.deadlineAt

RetriedOperation(op, code, retryAt) ==
    [op EXCEPT !.attempt        = @ + 1,
               !.nextAttemptAt  = retryAt,
               !.state          = "Accepted",
               !.diagnosticCode = code]

ApplyRetry(e, code, retryAt) ==
    [e EXCEPT !.revision  = @ + 1,
              !.operation = RetriedOperation(e.operation, code, retryAt)]

FailureAllowed(e) ==
    e.observedState # "Failed" => EnsureTransition(e.observedState, "Failed")

FailedOperation(op, code) == [op EXCEPT !.state = "Failed", !.diagnosticCode = code]

ApplyProviderFailure(e, code) ==
    [e EXCEPT
        !.revision      = @ + 1,
        !.observedState = "Failed",
        !.failedPhase   = e.observedState,
        !.endpoints     = WithHealth(@, "Unhealthy"),
        !.operation     = FailedOperation(e.operation, code)]

=============================================================================
