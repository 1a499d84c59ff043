------------------------- MODULE EnvironmentContract -------------------------
(***************************************************************************)
(* The EnvironmentLifecycle v1 contract: the aggregate the Environment     *)
(* Service stores in environment.environment_instances, the invariants     *)
(* EnvironmentInstance::validate enforces on every read and every write,   *)
(* the allowed observed-state transitions and the operations each state    *)
(* accepts (crates/contracts/src/environment.rs).                          *)
(*                                                                         *)
(* Data abstraction.  Identifiers, labels, trace ids, bindings and the     *)
(* reset target are left out: they are fixed at creation or checked for    *)
(* shape only.  Timestamps are ticks.  A diagnostic code is the class of   *)
(* failure that wrote it.  cleanup_evidence and                            *)
(* access_revocation_revision are kept as "recorded or not".               *)
(***************************************************************************)
EXTENDS Integers

CONSTANTS
    Class,         \* the business class: "Experiment" or "Work" (Work needs a Lease)
    MaxAttempts    \* max_attempts, the Provider calls one phase may spend

ASSUME ContractAssumption ==
    /\ Class \in {"Experiment", "Work"}
    /\ MaxAttempts \in 1..100

DesiredStates == {"Running", "Stopped", "Deleted"}

ObservedStates ==
    {"Requested", "Validating", "Building", "Provisioning", "Ready", "Stopping",
     "Stopped", "Updating", "Failed", "Expiring", "Deleting", "Deleted"}

OperationKinds ==
    {"Create", "Start", "Stop", "Restart", "Reset", "Retry", "Cancel", "Recover",
     "Expire", "Delete", "Cleanup", "Freeze"}

ActiveOperationStates == {"Accepted", "Running", "Cancelling"}

TerminalOperationStates == {"Succeeded", "Failed", "Cancelled"}

OperationStates == ActiveOperationStates \cup TerminalOperationStates

\* A command that may supersede an active operation.
DestructiveKinds == {"Cancel", "Expire", "Delete", "Cleanup"}

RetryKinds == {"Retry", "Recover"}

EndpointHealth == {"Healthy", "Unhealthy", "Removed"}

DiagnosticCodes == {"None", "Timeout", "Provider"}

NoTime == -1            \* an absent (NULL) timestamp

NoPhase == "None"       \* an absent failed_phase or retry_from_phase

NoLeaseAuthorization == [leaseRevision |-> 0, expiresAt |-> 0]

Endpoint == [health : EndpointHealth, revision : Nat]

LeaseAuthorization == [leaseRevision : Nat, expiresAt : Nat]

\* EnvironmentOperation
Operation ==
    [id                 : Nat,
     kind               : OperationKinds,
     state              : OperationStates,
     attempt            : Nat,
     providerStep       : Nat,
     nextAttemptAt      : Nat,
     acceptedAt         : Nat,
     deadlineAt         : Nat,
     cleanupStartedAt   : Nat \cup {NoTime},
     diagnosticCode     : DiagnosticCodes,
     revocationRecorded : BOOLEAN,
     retryFromPhase     : ObservedStates \cup {NoPhase},
     leaseAuthorization : LeaseAuthorization]

\* EnvironmentInstance
Instance ==
    [desiredState         : DesiredStates,
     observedState        : ObservedStates,
     revision             : Nat,
     generation           : Nat,
     observedGeneration   : Nat,
     eligibilityExpiresAt : Nat,
     endpoints            : SUBSET Endpoint,
     failedPhase          : ObservedStates \cup {NoPhase},
     cleanupEvidence      : BOOLEAN,
     operation            : Operation]

-----------------------------------------------------------------------------

\* The counters and the times of an operation are in order.
ValidBounds(e) ==
    /\ e.generation > 0
    /\ e.observedGeneration <= e.generation
    /\ e.operation.attempt \in 1..MaxAttempts
    /\ e.operation.providerStep > 0
    /\ e.operation.deadlineAt > e.operation.acceptedAt
    /\ e.operation.nextAttemptAt >= e.operation.acceptedAt
    /\ e.operation.nextAttemptAt <= e.operation.deadlineAt
    /\ e.operation.cleanupStartedAt # NoTime =>
           /\ e.desiredState = "Deleted"
           /\ e.operation.cleanupStartedAt >= e.operation.acceptedAt
           /\ e.operation.cleanupStartedAt <= e.operation.deadlineAt

\* Failed names the phase it failed in; Retry and Recover name the phase they resume.
ValidPhases(e) ==
    /\ (e.observedState = "Failed") <=> (e.failedPhase # NoPhase)
    /\ (e.operation.kind \in RetryKinds) <=> (e.operation.retryFromPhase # NoPhase)

\* Only a Work operation carries a Resource authorization.
ValidLeaseAuthorization(e) ==
    e.operation.leaseAuthorization # NoLeaseAuthorization => Class = "Work"

\* A destructive operation is stored only with its Access revocation revision.
ValidRevocation(e) ==
    e.operation.kind \in {"Reset", "Stop"} \cup DestructiveKinds =>
        e.operation.revocationRecorded

\* Ready means converged, with healthy endpoints of this very revision.
ValidReady(e) ==
    e.observedState = "Ready" =>
        /\ e.observedGeneration = e.generation
        /\ e.endpoints # {}
        /\ \A p \in e.endpoints : p.health = "Healthy" /\ p.revision = e.revision

ValidTombstone(e) == e.observedState = "Deleted" => e.cleanupEvidence

\* EnvironmentInstance::validate
Validate(e) ==
    /\ ValidBounds(e)
    /\ ValidPhases(e)
    /\ ValidLeaseAuthorization(e)
    /\ ValidRevocation(e)
    /\ ValidReady(e)
    /\ ValidTombstone(e)

\* EnvironmentInstance::ensure_transition
EnsureTransition(from, to) ==
    \/ from = "Requested" /\ to \in {"Validating", "Failed", "Deleting"}
    \/ from = "Validating" /\ to \in {"Building", "Failed", "Deleting"}
    \/ from = "Building" /\ to \in {"Provisioning", "Failed", "Deleting"}
    \/ from = "Provisioning" /\ to \in {"Ready", "Stopped", "Failed", "Deleting"}
    \/ from = "Ready" /\ to \in {"Provisioning", "Stopping", "Updating", "Expiring",
                                 "Deleting", "Failed"}
    \/ from \in {"Stopping", "Expiring"} /\ to \in {"Stopped", "Failed", "Deleting"}
    \/ from = "Stopped" /\ to \in {"Provisioning", "Ready", "Expiring", "Deleting",
                                   "Failed"}
    \/ from = "Updating" /\ to \in {"Ready", "Failed", "Deleting"}
    \/ from = "Failed" /\ to \in {"Validating", "Building", "Provisioning", "Stopping",
                                  "Updating", "Expiring", "Deleting"}
    \/ from = "Deleting" /\ to \in {"Deleted", "Failed"}

\* EnvironmentInstance::ensure_operation_allowed
EnsureOperationAllowed(state, kind) ==
    \/ kind = "Create" /\ state = "Requested"
    \/ kind = "Start" /\ state = "Stopped"
    \/ kind \in {"Stop", "Freeze"} /\ state = "Ready"
    \/ kind \in {"Restart", "Reset"} /\ state \in {"Ready", "Stopped", "Failed"}
    \/ kind \in RetryKinds /\ state = "Failed"
    \/ kind = "Cancel" /\ state \notin {"Deleted", "Deleting"}
    \/ kind = "Expire" /\ state \in {"Ready", "Stopped", "Failed"}
    \/ kind = "Delete" /\ state # "Deleted"
    \/ kind = "Cleanup" /\ state \in {"Expiring", "Deleting", "Failed"}

=============================================================================
