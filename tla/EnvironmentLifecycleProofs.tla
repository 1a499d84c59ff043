---------------------- MODULE EnvironmentLifecycleProofs ----------------------
(***************************************************************************)
(* Facts about the pure lifecycle functions that hold for every aggregate, *)
(* command and observation: each returns an aggregate, one revision later, *)
(* of the same operation unless it is a command.                           *)
(***************************************************************************)
EXTENDS EnvironmentProvider, TLAPS

\* Every observation validate_provider_observation lets through is a transition of the frozen
\* lifecycle, or repeats the state: the second check in apply_provider_observation cannot
\* fail, and so cannot end the process over a Provider's answer.
THEOREM ObservationsAreTransitions ==
    ASSUME NEW e, NEW obs,
           ValidateProviderObservation(e, obs),
           obs.nextState # e.observedState
    PROVE  EnsureTransition(e.observedState, obs.nextState)
BY DEF ValidateProviderObservation, ObservationMatchesOperation, EnsureTransition

-----------------------------------------------------------------------------
(* The functions return aggregates *)

\* mark_endpoints keeps endpoints endpoints.
LEMMA WithHealthType ==
    ASSUME NEW S \in SUBSET Endpoint, NEW h \in EndpointHealth
    PROVE  WithHealth(S, h) \in SUBSET Endpoint
BY DEF WithHealth, Endpoint

\* mark_endpoints marks every endpoint and drops none.
LEMMA WithHealthMarks ==
    ASSUME NEW S \in SUBSET Endpoint, NEW h
    PROVE  /\ \A p \in WithHealth(S, h) : p.health = h
           /\ WithHealth(S, h) # {} => S # {}
<1>1. ASSUME NEW p \in S PROVE [p EXCEPT !.health = h].health = h
  BY DEF Endpoint
<1> QED
  BY <1>1 DEF WithHealth

\* build_create_instance returns an aggregate.
LEMMA CreatedType ==
    ASSUME NEW t \in Nat, NEW a \in LeaseAuthorization, NEW d \in Nat
    PROVE  CreatedInstance(t, a, d) \in Instance
BY DEF CreatedInstance, Instance, Operation, DesiredStates, ObservedStates, OperationKinds,
       OperationStates, ActiveOperationStates, NoPhase, NoTime, DiagnosticCodes

\* The operation apply_retry stores.
LEMMA RetriedOperationFields ==
    ASSUME NEW op \in Operation, NEW code \in DiagnosticCodes, NEW t \in Nat
    PROVE  LET o == RetriedOperation(op, code, t)
           IN  /\ o \in Operation
               /\ o.id = op.id
               /\ o.kind = op.kind
               /\ o.state = "Accepted"
               /\ o.attempt = op.attempt + 1
               /\ o.providerStep = op.providerStep
               /\ o.nextAttemptAt = t
               /\ o.acceptedAt = op.acceptedAt
               /\ o.deadlineAt = op.deadlineAt
               /\ o.cleanupStartedAt = op.cleanupStartedAt
               /\ o.diagnosticCode = code
               /\ o.revocationRecorded = op.revocationRecorded
               /\ o.retryFromPhase = op.retryFromPhase
               /\ o.leaseAuthorization = op.leaseAuthorization
<1>1. op.attempt + 1 \in Nat /\ "Accepted" \in OperationStates
  BY DEF Operation, OperationStates, ActiveOperationStates
<1> QED
  BY <1>1, Zenon DEF RetriedOperation, Operation

\* The operation apply_provider_failure stores.
LEMMA FailedOperationFields ==
    ASSUME NEW op \in Operation, NEW code \in DiagnosticCodes
    PROVE  LET o == FailedOperation(op, code)
           IN  /\ o \in Operation
               /\ o.id = op.id
               /\ o.kind = op.kind
               /\ o.state = "Failed"
               /\ o.attempt = op.attempt
               /\ o.providerStep = op.providerStep
               /\ o.nextAttemptAt = op.nextAttemptAt
               /\ o.acceptedAt = op.acceptedAt
               /\ o.deadlineAt = op.deadlineAt
               /\ o.cleanupStartedAt = op.cleanupStartedAt
               /\ o.diagnosticCode = code
               /\ o.revocationRecorded = op.revocationRecorded
               /\ o.retryFromPhase = op.retryFromPhase
               /\ o.leaseAuthorization = op.leaseAuthorization
<1>1. "Failed" \in OperationStates
  BY DEF OperationStates, TerminalOperationStates
<1> QED
  BY <1>1, Zenon DEF FailedOperation, Operation

\* The operation begin_timeout_cleanup stores.
LEMMA CleanupOperationFields ==
    ASSUME NEW op \in Operation, NEW s \in Nat, NEW d \in Nat
    PROVE  LET o == CleanupOperation(op, s, d)
           IN  /\ o \in Operation
               /\ o.id = op.id
               /\ o.kind = op.kind
               /\ o.state = "Cancelling"
               /\ o.attempt = 1
               /\ o.providerStep = op.providerStep + 1
               /\ o.nextAttemptAt = s
               /\ o.acceptedAt = op.acceptedAt
               /\ o.deadlineAt = d
               /\ o.cleanupStartedAt = s
               /\ o.diagnosticCode = "Timeout"
               /\ o.revocationRecorded = op.revocationRecorded
               /\ o.retryFromPhase = op.retryFromPhase
               /\ o.leaseAuthorization = op.leaseAuthorization
<1>1. /\ op.providerStep + 1 \in Nat /\ 1 \in Nat
      /\ "Cancelling" \in OperationStates /\ "Timeout" \in DiagnosticCodes
  BY DEF Operation, OperationStates, ActiveOperationStates, DiagnosticCodes
<1> QED
  BY <1>1, Zenon DEF CleanupOperation, Operation

\* apply_retry keeps everything but the revision and the operation.
LEMMA RetryFields ==
    ASSUME NEW e \in Instance, NEW code \in DiagnosticCodes, NEW t \in Nat
    PROVE  LET f == ApplyRetry(e, code, t)
           IN  /\ f \in Instance
               /\ f.desiredState = e.desiredState
               /\ f.observedState = e.observedState
               /\ f.revision = e.revision + 1
               /\ f.generation = e.generation
               /\ f.observedGeneration = e.observedGeneration
               /\ f.eligibilityExpiresAt = e.eligibilityExpiresAt
               /\ f.endpoints = e.endpoints
               /\ f.failedPhase = e.failedPhase
               /\ f.cleanupEvidence = e.cleanupEvidence
               /\ f.operation = RetriedOperation(e.operation, code, t)
<1>1. e.revision + 1 \in Nat /\ e.operation \in Operation
  BY DEF Instance
<1>2. RetriedOperation(e.operation, code, t) \in Operation
  BY <1>1, RetriedOperationFields
<1> QED
  BY <1>1, <1>2, Zenon DEF ApplyRetry, Instance

\* apply_provider_failure records the phase that failed and marks the endpoints.
LEMMA FailureFields ==
    ASSUME NEW e \in Instance, NEW code \in DiagnosticCodes
    PROVE  LET f == ApplyProviderFailure(e, code)
           IN  /\ f \in Instance
               /\ f.desiredState = e.desiredState
               /\ f.observedState = "Failed"
               /\ f.revision = e.revision + 1
               /\ f.generation = e.generation
               /\ f.observedGeneration = e.observedGeneration
               /\ f.eligibilityExpiresAt = e.eligibilityExpiresAt
               /\ f.endpoints = WithHealth(e.endpoints, "Unhealthy")
               /\ f.failedPhase = e.observedState
               /\ f.cleanupEvidence = e.cleanupEvidence
               /\ f.operation = FailedOperation(e.operation, code)
<1>1. e.revision + 1 \in Nat /\ e.operation \in Operation
  BY DEF Instance
<1>2. FailedOperation(e.operation, code) \in Operation
  BY <1>1, FailedOperationFields
<1>3. WithHealth(e.endpoints, "Unhealthy") \in SUBSET Endpoint
  BY WithHealthType DEF Instance, EndpointHealth
<1>4. "Failed" \in ObservedStates /\ e.observedState \in ObservedStates \cup {NoPhase}
  BY DEF Instance, ObservedStates
<1> QED
  BY <1>1, <1>2, <1>3, <1>4, Zenon DEF ApplyProviderFailure, Instance

\* begin_timeout_cleanup turns the intent to Deleted, in a new generation if it was not.
LEMMA CleanupFields ==
    ASSUME NEW e \in Instance, NEW s \in Nat, NEW d \in Nat
    PROVE  LET f == BeginTimeoutCleanup(e, s, d)
           IN  /\ f \in Instance
               /\ f.desiredState = "Deleted"
               /\ f.observedState = "Deleting"
               /\ f.revision = e.revision + 1
               /\ f.generation = IF e.desiredState = "Deleted" THEN e.generation ELSE e.generation + 1
               /\ f.observedGeneration = e.observedGeneration
               /\ f.eligibilityExpiresAt = e.eligibilityExpiresAt
               /\ f.endpoints = WithHealth(e.endpoints, "Removed")
               /\ f.failedPhase = e.failedPhase
               /\ f.cleanupEvidence = e.cleanupEvidence
               /\ f.operation = CleanupOperation(e.operation, s, d)
<1>1. e.revision + 1 \in Nat /\ e.operation \in Operation
  BY DEF Instance
<1>2. CleanupOperation(e.operation, s, d) \in Operation
  BY <1>1, CleanupOperationFields
<1>3. WithHealth(e.endpoints, "Removed") \in SUBSET Endpoint
  BY WithHealthType DEF Instance, EndpointHealth
<1>4. /\ "Deleting" \in ObservedStates /\ "Deleted" \in DesiredStates
      /\ (IF e.desiredState = "Deleted" THEN e.generation ELSE e.generation + 1) \in Nat
  BY DEF Instance, ObservedStates, DesiredStates
<1> QED
  BY <1>1, <1>2, <1>3, <1>4, Zenon DEF BeginTimeoutCleanup, Instance

\* The operation apply_provider_observation stores.
LEMMA ObservedOperationFields ==
    ASSUME NEW e \in Instance, NEW obs \in Observation
    PROVE  LET o == ObservedOperation(e, obs)
           IN  /\ o \in Operation
               /\ o.id = e.operation.id
               /\ o.kind = e.operation.kind
               /\ o.state = ObservedOperationState(e, obs)
               /\ o.attempt = e.operation.attempt
               /\ o.providerStep = IF obs.operationComplete
                                  THEN e.operation.providerStep ELSE e.operation.providerStep + 1
               /\ o.nextAttemptAt = e.operation.nextAttemptAt
               /\ o.acceptedAt = e.operation.acceptedAt
               /\ o.deadlineAt = e.operation.deadlineAt
               /\ o.cleanupStartedAt = e.operation.cleanupStartedAt
               /\ o.diagnosticCode = IF PreservingCleanupFailure(e, obs)
                                    THEN e.operation.diagnosticCode ELSE "None"
               /\ o.revocationRecorded = e.operation.revocationRecorded
               /\ o.retryFromPhase = e.operation.retryFromPhase
               /\ o.leaseAuthorization = e.operation.leaseAuthorization
<1>1. e.operation \in Operation
  BY DEF Instance
<1>2. "None" \in DiagnosticCodes /\ ObservedOperationState(e, obs) \in OperationStates
  BY DEF ObservedOperationState, OperationStates, ActiveOperationStates, TerminalOperationStates, DiagnosticCodes
<1>3. (IF obs.operationComplete THEN e.operation.providerStep ELSE e.operation.providerStep + 1) \in Nat
  BY <1>1 DEF Operation
<1>4. (IF PreservingCleanupFailure(e, obs) THEN e.operation.diagnosticCode ELSE "None") \in DiagnosticCodes
  BY <1>1, <1>2 DEF Operation
<1> QED
  BY <1>1, <1>2, <1>3, <1>4, Zenon DEF ObservedOperation, Operation

\* apply_provider_observation takes the state, the endpoints and the evidence from the Provider.
LEMMA ObservationFields ==
    ASSUME NEW e \in Instance, NEW obs \in Observation
    PROVE  LET f == ApplyProviderObservation(e, obs)
           IN  /\ f \in Instance
               /\ f.desiredState = e.desiredState
               /\ f.observedState = obs.nextState
               /\ f.revision = e.revision + 1
               /\ f.generation = e.generation
               /\ f.observedGeneration = IF obs.operationComplete THEN e.generation ELSE e.observedGeneration
               /\ f.eligibilityExpiresAt = e.eligibilityExpiresAt
               /\ f.endpoints = obs.endpoints
               /\ f.failedPhase = e.failedPhase
               /\ f.cleanupEvidence = obs.cleanupEvidence
               /\ f.operation = ObservedOperation(e, obs)
<1>1. e.revision + 1 \in Nat
  BY DEF Instance
<1>2. ObservedOperation(e, obs) \in Operation
  BY ObservedOperationFields
<1>3. (IF obs.operationComplete THEN e.generation ELSE e.observedGeneration) \in Nat
  BY DEF Instance
<1>4. /\ obs.nextState \in ObservedStates /\ obs.endpoints \in SUBSET Endpoint
      /\ obs.cleanupEvidence \in BOOLEAN
  BY DEF Observation
<1> QED
  BY <1>1, <1>2, <1>3, <1>4, Zenon DEF ApplyProviderObservation, Instance

\* refresh_work_lease keeps everything but the revision, the expiry and the authorization.
LEMMA RefreshedFields ==
    ASSUME NEW e \in Instance, NEW a \in LeaseAuthorization
    PROVE  LET f == RefreshedInstance(e, a)
           IN  /\ f \in Instance
               /\ f.desiredState = e.desiredState
               /\ f.observedState = e.observedState
               /\ f.revision = e.revision + 1
               /\ f.generation = e.generation
               /\ f.observedGeneration = e.observedGeneration
               /\ f.eligibilityExpiresAt = a.expiresAt
               /\ f.endpoints = e.endpoints
               /\ f.failedPhase = e.failedPhase
               /\ f.cleanupEvidence = e.cleanupEvidence
               /\ f.operation = [e.operation EXCEPT !.leaseAuthorization = a]
<1>1. e.revision + 1 \in Nat /\ e.operation \in Operation /\ a.expiresAt \in Nat
  BY DEF Instance, LeaseAuthorization
<1>2. [e.operation EXCEPT !.leaseAuthorization = a] \in Operation
  BY <1>1, Zenon DEF Operation
<1> QED
  BY <1>1, <1>2, Zenon DEF RefreshedInstance, Instance

\* The operation plan_command_authorized stores.
LEMMA PlannedOperationType ==
    ASSUME NEW e \in Instance, NEW c \in Command, NEW id \in Nat
    PROVE  PlannedOperation(e, c, id) \in Operation
<1>1. /\ c.kind \in OperationKinds
      /\ (IF c.kind = "Cancel" THEN "Cancelling" ELSE "Accepted") \in OperationStates
      /\ 1 \in Nat /\ NoTime \in Nat \cup {NoTime} /\ "None" \in DiagnosticCodes
      /\ c.acceptedAt \in Nat /\ c.deadlineAt \in Nat /\ c.revocationRecorded \in BOOLEAN
      /\ c.leaseAuthorization \in LeaseAuthorization
  BY DEF Command, OperationStates, ActiveOperationStates, DiagnosticCodes
<1>2. (IF c.kind \in RetryKinds THEN e.failedPhase ELSE NoPhase) \in ObservedStates \cup {NoPhase}
  BY DEF Instance
<1> QED
  BY <1>1, <1>2, Zenon DEF PlannedOperation, Operation

\* A command that needs a failed phase has one to resume from: the state it is accepted in.
LEMMA AcceptedObservedStateType ==
    ASSUME NEW e \in Instance, NEW kind,
           kind \in RetryKinds => e.failedPhase # NoPhase
    PROVE  AcceptedObservedState(e, kind) \in ObservedStates
BY DEF AcceptedObservedState, RetryResumeState, Instance, ObservedStates, RetryKinds, NoPhase

\* plan_command_authorized keeps the counters of the Provider and the evidence.
LEMMA PlannedFields ==
    ASSUME NEW e \in Instance, NEW c \in Command, NEW id \in Nat,
           c.kind \in RetryKinds => e.failedPhase # NoPhase
    PROVE  LET f == PlanCommand(e, c, id)
           IN  /\ f \in Instance
               /\ f.desiredState = DesiredState(e, c.kind)
               /\ f.observedState = AcceptedObservedState(e, c.kind)
               /\ f.revision = e.revision + 1
               /\ f.generation = IF IncrementsGeneration(c.kind) THEN e.generation + 1 ELSE e.generation
               /\ f.observedGeneration = e.observedGeneration
               /\ f.eligibilityExpiresAt = e.eligibilityExpiresAt
               /\ f.endpoints = PlannedEndpoints(e, c.kind)
               /\ f.failedPhase = NoPhase
               /\ f.cleanupEvidence = e.cleanupEvidence
               /\ f.operation = PlannedOperation(e, c, id)
<1>1. /\ e.revision + 1 \in Nat
      /\ (IF IncrementsGeneration(c.kind) THEN e.generation + 1 ELSE e.generation) \in Nat
  BY DEF Instance
<1>2. PlannedOperation(e, c, id) \in Operation
  BY PlannedOperationType
<1>3. AcceptedObservedState(e, c.kind) \in ObservedStates
  BY AcceptedObservedStateType
<1>4. DesiredState(e, c.kind) \in DesiredStates
  BY DEF DesiredState, DesiredStates, Instance
<1>5. PlannedEndpoints(e, c.kind) \in SUBSET Endpoint
  BY WithHealthType DEF PlannedEndpoints, Instance, EndpointHealth
<1>6. NoPhase \in ObservedStates \cup {NoPhase}
  OBVIOUS
<1> QED
  BY <1>1, <1>2, <1>3, <1>4, <1>5, <1>6, Zenon DEF PlanCommand, Instance

\* The deferral of a superseding command moves its first attempt only.
LEMMA NotBeforeFields ==
    ASSUME NEW e \in Instance, NEW t \in Nat \cup {NoTime}
    PROVE  LET f == NotBefore(e, t)
           IN  /\ f \in Instance
               /\ f.desiredState = e.desiredState
               /\ f.observedState = e.observedState
               /\ f.revision = e.revision
               /\ f.generation = e.generation
               /\ f.observedGeneration = e.observedGeneration
               /\ f.eligibilityExpiresAt = e.eligibilityExpiresAt
               /\ f.endpoints = e.endpoints
               /\ f.failedPhase = e.failedPhase
               /\ f.cleanupEvidence = e.cleanupEvidence
               /\ f.operation = [e.operation EXCEPT !.nextAttemptAt = Later(t, e.operation.nextAttemptAt)]
<1>1. e.operation \in Operation /\ Later(t, e.operation.nextAttemptAt) \in Nat
  BY DEF Instance, Operation, Later, NoTime
<1>2. [e.operation EXCEPT !.nextAttemptAt = Later(t, e.operation.nextAttemptAt)] \in Operation
  BY <1>1, Zenon DEF Operation
<1> QED
  BY <1>1, <1>2, Zenon DEF NotBefore, Instance

\* The deferral of a non-terminal observation moves its next attempt only.
LEMMA DeferredFields ==
    ASSUME NEW e \in Instance, NEW now \in Nat
    PROVE  LET f == Deferred(e, now)
           IN  /\ f \in Instance
               /\ f.desiredState = e.desiredState
               /\ f.observedState = e.observedState
               /\ f.revision = e.revision
               /\ f.generation = e.generation
               /\ f.observedGeneration = e.observedGeneration
               /\ f.eligibilityExpiresAt = e.eligibilityExpiresAt
               /\ f.endpoints = e.endpoints
               /\ f.failedPhase = e.failedPhase
               /\ f.cleanupEvidence = e.cleanupEvidence
               /\ f.operation.id = e.operation.id
               /\ f.operation.kind = e.operation.kind
               /\ f.operation.state = e.operation.state
               /\ f.operation.attempt = e.operation.attempt
               /\ f.operation.providerStep = e.operation.providerStep
               /\ f.operation.acceptedAt = e.operation.acceptedAt
               /\ f.operation.deadlineAt = e.operation.deadlineAt
               /\ f.operation.cleanupStartedAt = e.operation.cleanupStartedAt
               /\ f.operation.diagnosticCode = e.operation.diagnosticCode
               /\ f.operation.revocationRecorded = e.operation.revocationRecorded
               /\ f.operation.retryFromPhase = e.operation.retryFromPhase
               /\ f.operation.leaseAuthorization = e.operation.leaseAuthorization
<1> DEFINE at == IF now + RetryDelay < e.operation.deadlineAt
                 THEN now + RetryDelay ELSE e.operation.deadlineAt
           o == [e.operation EXCEPT !.nextAttemptAt = at]
<1>1. e.operation \in Operation /\ at \in Nat
  BY ProviderAssumption DEF Instance, Operation
<1>2. /\ o \in Operation
      /\ o.id = e.operation.id
      /\ o.kind = e.operation.kind
      /\ o.state = e.operation.state
      /\ o.attempt = e.operation.attempt
      /\ o.providerStep = e.operation.providerStep
      /\ o.acceptedAt = e.operation.acceptedAt
      /\ o.deadlineAt = e.operation.deadlineAt
      /\ o.cleanupStartedAt = e.operation.cleanupStartedAt
      /\ o.diagnosticCode = e.operation.diagnosticCode
      /\ o.revocationRecorded = e.operation.revocationRecorded
      /\ o.retryFromPhase = e.operation.retryFromPhase
      /\ o.leaseAuthorization = e.operation.leaseAuthorization
  BY <1>1, Zenon DEF Operation
<1>3. Deferred(e, now) = IF Active(e) THEN [e EXCEPT !.operation = o] ELSE e
  BY Zenon DEF Deferred, Instance
<1> HIDE DEF o
<1> QED
  BY <1>2, <1>3, Zenon DEF Instance

\* What a Provider answers is an observation.
LEMMA ProviderObservationsType ==
    ASSUME NEW e \in Instance, NEW action, NEW obs \in ProviderObservations(e, action)
    PROVE  obs \in Observation
<1>1. CASE Provider = "remote"
  <2>1. e.revision + 1 \in Nat /\ e.revision \in Nat
    BY DEF Instance
  <2> QED
    BY <1>1, <2>1 DEF ProviderObservations, RemoteObservations, Observation, Endpoint,
                      EndpointHealth
<1>2. CASE Provider # "remote"
  <2>1. ReadyObservation(e) \in Observation
    BY DEF ReadyObservation, Observation, Instance, Endpoint, EndpointHealth, ObservedStates
  <2>2. DeletedObservation \in Observation
    BY DEF DeletedObservation, Observation, ObservedStates
  <2>3. \A s \in ObservedStates, b \in BOOLEAN : NoEndpoints(s, b) \in Observation
    BY DEF NoEndpoints, Observation
  <2>4. ContainerObservations(e, action) \in
            {{}, {DeletedObservation}, RunningObservations(e), {NoEndpoints("Stopped", TRUE)},
             {NoEndpoints("Validating", FALSE)}, {NoEndpoints("Building", FALSE)},
             {NoEndpoints("Provisioning", FALSE)}}
    BY DEF ContainerObservations
  <2> QED
    BY <1>2, <2>1, <2>2, <2>3, <2>4 DEF ProviderObservations, RunningObservations, ObservedStates
<1> QED
  BY <1>1, <1>2

\* The cleanup of a timed-out operation has a budget of its own, after now.
LEMMA CleanupDeadlineType ==
    ASSUME NEW now \in Nat
    PROVE  CleanupDeadline(now) \in Nat /\ CleanupDeadline(now) > now
<1>1. \A m, n \in Nat : m * n \in Nat
  OBVIOUS
<1>2. ProviderTimeout * MaxAttempts \in Nat /\ RetryDelay * (MaxAttempts - 1) \in Nat
  BY <1>1, ContractAssumption, ProviderAssumption
<1> DEFINE x == ProviderTimeout * MaxAttempts
           y == RetryDelay * (MaxAttempts - 1)
<1>3. CleanupDeadline(now) = now + x + y + 1
  BY DEF CleanupDeadline
<1> HIDE DEF x, y
<1> QED
  BY <1>2, <1>3 DEF x, y

===============================================================================
