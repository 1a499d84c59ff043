-------------------------- MODULE EnvironmentProofs --------------------------
(***************************************************************************)
(* What an environment keeps, what the Lease that pays for it keeps, and   *)
(* what the cluster is told about it.                                      *)
(*                                                                         *)
(* The first part is about the aggregate specification, for any provider,  *)
(* any budgets, any clock readings and Leases.  The second is about the    *)
(* resource requests, Leases and capacity claims, for any number of        *)
(* requests, workers, failed attempts, renewals and stops.  The third is   *)
(* about the executor and its fence row, for any number of faults, calls   *)
(* and steps of either provider.                                           *)
(***************************************************************************)
EXTENDS EnvironmentAggregate, ResourceLeases, EnvironmentRuntime, EnvironmentLifecycleProofs

\* A command a handler issues is a command.
LEMMA IssuedType ==
    ASSUME env \in Instance, NEW kind \in CommandKinds, NEW revoked \in BOOLEAN,
           NEW a \in Leases \cup {NoLeaseAuthorization}, NEW now \in Times
    PROVE  /\ Issued(kind, revoked, a, now) \in Command
           /\ Issued(kind, revoked, a, now).kind = kind
           /\ Issued(kind, revoked, a, now).acceptedAt = now
<1>1. a \in LeaseAuthorization /\ now \in Nat /\ now + OperationBudget \in Nat
      /\ env.revision \in Nat /\ kind \in OperationKinds \ {"Create"}
  BY AggregateAssumption DEF Instance, NoLeaseAuthorization, LeaseAuthorization
<1> QED
  BY <1>1 DEF Issued, Command

\* The aggregate a create command stores is valid.
LEMMA CreatedValid ==
    ASSUME NEW t \in Nat, NEW a \in LeaseAuthorization,
           ValidLeaseAuthorization(CreatedInstance(t, a, OperationBudget))
    PROVE  Validate(CreatedInstance(t, a, OperationBudget))
BY ContractAssumption, AggregateAssumption
   DEF CreatedInstance, Validate, ValidBounds, ValidPhases, ValidRevocation, ValidReady,
       ValidTombstone, NoTime, NoPhase, RetryKinds, DestructiveKinds

\* What accepting a command does to the row.
LEMMA AcceptFields ==
    ASSUME env \in Instance, NEW c \in Command, NEW now \in Nat, Accept(c, now)
    PROVE  /\ env' \in Instance
           /\ Validate(env')
           /\ env'.revision = env.revision + 1
           /\ env'.desiredState = DesiredState(env, c.kind)
           /\ env'.observedState = AcceptedObservedState(env, c.kind)
           /\ env'.generation = IF IncrementsGeneration(c.kind)
                                THEN env.generation + 1 ELSE env.generation
           /\ env'.observedGeneration = env.observedGeneration
           /\ env'.endpoints = PlannedEndpoints(env, c.kind)
           /\ env'.failedPhase = NoPhase
           /\ env'.cleanupEvidence = env.cleanupEvidence
           /\ env'.operation.id = env.operation.id + 1
           /\ env'.operation.kind = c.kind
           /\ env'.operation.state = IF c.kind = "Cancel" THEN "Cancelling" ELSE "Accepted"
           /\ env'.operation.cleanupStartedAt = NoTime
           /\ env'.operation.diagnosticCode = "None"
           /\ env'.operation.revocationRecorded = c.revocationRecorded
           /\ env'.operation.retryFromPhase =
                  IF c.kind \in RetryKinds THEN env.failedPhase ELSE NoPhase
<1> DEFINE id == env.operation.id + 1
           planned == PlanCommand(env, c, id)
<1>1. env.operation \in Operation /\ id \in Nat
  BY DEF Instance, Operation
<1>2. c.kind \in RetryKinds => env.failedPhase # NoPhase
  BY DEF Accept, CommandAllowed
<1>3. PICK t \in Nat \cup {NoTime} : env' = NotBefore(planned, t)
  BY AggregateAssumption DEF Accept
<1> HIDE DEF id
<1>4. /\ planned \in Instance
      /\ planned.operation = PlannedOperation(env, c, id)
      /\ planned.revision = env.revision + 1
      /\ planned.desiredState = DesiredState(env, c.kind)
      /\ planned.observedState = AcceptedObservedState(env, c.kind)
      /\ planned.generation = IF IncrementsGeneration(c.kind)
                           THEN env.generation + 1 ELSE env.generation
      /\ planned.observedGeneration = env.observedGeneration
      /\ planned.endpoints = PlannedEndpoints(env, c.kind)
      /\ planned.failedPhase = NoPhase
      /\ planned.cleanupEvidence = env.cleanupEvidence
  BY <1>1, <1>2, PlannedFields
<1>5. env'.operation = [planned.operation EXCEPT !.nextAttemptAt = Later(t, planned.operation.nextAttemptAt)]
  BY <1>3, <1>4, NotBeforeFields
<1>6. PlannedOperation(env, c, id) \in Operation
  BY <1>1, PlannedOperationType
<1>7. /\ env'.operation.id = id
      /\ env'.operation.kind = c.kind
      /\ env'.operation.state = IF c.kind = "Cancel" THEN "Cancelling" ELSE "Accepted"
      /\ env'.operation.cleanupStartedAt = NoTime
      /\ env'.operation.diagnosticCode = "None"
      /\ env'.operation.revocationRecorded = c.revocationRecorded
      /\ env'.operation.retryFromPhase =
             IF c.kind \in RetryKinds THEN env.failedPhase ELSE NoPhase
  <2> DEFINE op == PlannedOperation(env, c, id)
             n == Later(t, op.nextAttemptAt)
  <2>1. env'.operation = [op EXCEPT !.nextAttemptAt = n]
    BY <1>4, <1>5
  <2>2. /\ op.id = id /\ op.kind = c.kind
        /\ op.state = IF c.kind = "Cancel" THEN "Cancelling" ELSE "Accepted"
        /\ op.cleanupStartedAt = NoTime /\ op.diagnosticCode = "None"
        /\ op.revocationRecorded = c.revocationRecorded
        /\ op.retryFromPhase = IF c.kind \in RetryKinds THEN env.failedPhase ELSE NoPhase
    BY DEF PlannedOperation
  <2> HIDE DEF op, n
  <2>3. op \in Operation
    BY <1>6 DEF op
  <2> QED
    BY <2>1, <2>2, <2>3 DEF Operation
<1> HIDE DEF planned
<1>8. /\ env' \in Instance
      /\ env'.revision = planned.revision
      /\ env'.desiredState = planned.desiredState
      /\ env'.observedState = planned.observedState
      /\ env'.generation = planned.generation
      /\ env'.observedGeneration = planned.observedGeneration
      /\ env'.endpoints = planned.endpoints
      /\ env'.failedPhase = planned.failedPhase
      /\ env'.cleanupEvidence = planned.cleanupEvidence
  BY <1>3, <1>4, NotBeforeFields
<1>9. Validate(env')
  BY DEF Accept
<1> QED
  BY <1>4, <1>7, <1>8, <1>9 DEF id

\* What a Provider's answer does to the row.
LEMMA ObserveFields ==
    ASSUME env \in Instance, NEW obs \in Observation, NEW now \in Nat, Observe(obs, now)
    PROVE  /\ env' \in Instance
           /\ Validate(env')
           /\ env'.revision = env.revision + 1
           /\ env'.desiredState = env.desiredState
           /\ env'.observedState = obs.nextState
           /\ env'.generation = env.generation
           /\ env'.observedGeneration = IF obs.operationComplete
                                        THEN env.generation ELSE env.observedGeneration
           /\ env'.endpoints = obs.endpoints
           /\ env'.failedPhase = env.failedPhase
           /\ env'.operation.id = env.operation.id
           /\ env'.operation.kind = env.operation.kind
           /\ env'.operation.state = ObservedOperationState(env, obs)
           /\ env'.operation.cleanupStartedAt = env.operation.cleanupStartedAt
           /\ env'.operation.diagnosticCode = IF PreservingCleanupFailure(env, obs)
                                              THEN env.operation.diagnosticCode ELSE "None"
           /\ env'.operation.revocationRecorded = env.operation.revocationRecorded
<1> DEFINE applied == ApplyProviderObservation(env, obs)
<1>1. /\ applied \in Instance
      /\ applied.operation = ObservedOperation(env, obs)
      /\ applied.revision = env.revision + 1
      /\ applied.desiredState = env.desiredState
      /\ applied.observedState = obs.nextState
      /\ applied.generation = env.generation
      /\ applied.observedGeneration = IF obs.operationComplete
                                      THEN env.generation ELSE env.observedGeneration
      /\ applied.endpoints = obs.endpoints
      /\ applied.failedPhase = env.failedPhase
  BY ObservationFields
<1>2. env' = Deferred(applied, now) /\ Validate(env')
  BY DEF Observe, ObservationApplies
<1> HIDE DEF applied
<1>3. /\ ObservedOperation(env, obs).id = env.operation.id
      /\ ObservedOperation(env, obs).kind = env.operation.kind
      /\ ObservedOperation(env, obs).state = ObservedOperationState(env, obs)
      /\ ObservedOperation(env, obs).cleanupStartedAt = env.operation.cleanupStartedAt
      /\ ObservedOperation(env, obs).diagnosticCode =
             IF PreservingCleanupFailure(env, obs) THEN env.operation.diagnosticCode ELSE "None"
      /\ ObservedOperation(env, obs).revocationRecorded = env.operation.revocationRecorded
  BY ObservedOperationFields
<1>4. /\ env' \in Instance
      /\ env'.revision = applied.revision
      /\ env'.desiredState = applied.desiredState
      /\ env'.observedState = applied.observedState
      /\ env'.generation = applied.generation
      /\ env'.observedGeneration = applied.observedGeneration
      /\ env'.endpoints = applied.endpoints
      /\ env'.failedPhase = applied.failedPhase
  BY <1>1, <1>2, DeferredFields
<1>5. /\ env'.operation.id = applied.operation.id
      /\ env'.operation.kind = applied.operation.kind
      /\ env'.operation.state = applied.operation.state
      /\ env'.operation.cleanupStartedAt = applied.operation.cleanupStartedAt
      /\ env'.operation.diagnosticCode = applied.operation.diagnosticCode
      /\ env'.operation.revocationRecorded = applied.operation.revocationRecorded
  BY <1>1, <1>2, DeferredFields
<1>6. /\ env'.operation.id = env.operation.id
      /\ env'.operation.kind = env.operation.kind
      /\ env'.operation.state = ObservedOperationState(env, obs)
      /\ env'.operation.cleanupStartedAt = env.operation.cleanupStartedAt
      /\ env'.operation.diagnosticCode =
             IF PreservingCleanupFailure(env, obs) THEN env.operation.diagnosticCode ELSE "None"
      /\ env'.operation.revocationRecorded = env.operation.revocationRecorded
  BY <1>1, <1>3, <1>5
<1> QED
  BY <1>1, <1>2, <1>4, <1>6

\* What the cleanup of a timed-out operation does to the row.
LEMMA BeginCleanupFields ==
    ASSUME env \in Instance, NEW now \in Nat, BeginCleanup(now)
    PROVE  /\ env' \in Instance
           /\ Validate(env')
           /\ env'.desiredState = "Deleted"
           /\ env'.observedState = "Deleting"
           /\ env'.generation = IF env.desiredState = "Deleted"
                                THEN env.generation ELSE env.generation + 1
           /\ env'.endpoints = WithHealth(env.endpoints, "Removed")
           /\ env'.failedPhase = env.failedPhase
           /\ env'.operation.state = "Cancelling"
           /\ env'.operation.diagnosticCode = "Timeout"
           /\ env'.operation.kind = env.operation.kind
           /\ env'.operation.revocationRecorded = env.operation.revocationRecorded
<1> DEFINE d == CleanupDeadline(now)
<1>1. d \in Nat /\ env.operation \in Operation
  BY CleanupDeadlineType DEF Instance
<1>2. env' = BeginTimeoutCleanup(env, now, d) /\ Validate(env')
  BY DEF BeginCleanup
<1> HIDE DEF d
<1>3. env'.operation = CleanupOperation(env.operation, now, d)
  BY <1>1, <1>2, CleanupFields
<1>4. /\ CleanupOperation(env.operation, now, d).state = "Cancelling"
      /\ CleanupOperation(env.operation, now, d).diagnosticCode = "Timeout"
      /\ CleanupOperation(env.operation, now, d).kind = env.operation.kind
      /\ CleanupOperation(env.operation, now, d).revocationRecorded
             = env.operation.revocationRecorded
  BY <1>1, CleanupOperationFields
<1> QED
  BY <1>1, <1>2, <1>3, <1>4, CleanupFields

-----------------------------------------------------------------------------
(* Type correctness *)

\* Every lifecycle function a step applies is given what it needs.
LEMMA NextCases ==
    ASSUME env \in Instance, AggregateNext
    PROVE  \/ \E c \in Command, now \in Nat : Accept(c, now)
           \/ \E renewed \in LeaseAuthorization, now \in Nat : Refresh(renewed, now)
           \/ \E now \in Nat : BeginCleanup(now)
           \/ \E obs \in Observation, now \in Nat :
                  obs \in ProviderObservations(env, NextAction(env)) /\ Observe(obs, now)
           \/ \E code \in DiagnosticCodes \ {"None"}, now \in Nat : Retry(code, now)
           \/ \E code \in DiagnosticCodes \ {"None"} : Fail(code)
<1>1. /\ Times \subseteq Nat /\ Leases \subseteq LeaseAuthorization
      /\ FailureCodes \subseteq DiagnosticCodes \ {"None"}
  BY AggregateAssumption DEF FailureCodes, DiagnosticCodes
<1>2. CASE \E kind \in CommandKinds, revoked \in BOOLEAN,
              a \in Leases \cup {NoLeaseAuthorization}, now \in Times :
                  Accept(Issued(kind, revoked, a, now), now)
  BY <1>1, <1>2, IssuedType
<1>3. CASE \E obs \in ProviderObservations(env, NextAction(env)), now \in Times :
               Observe(obs, now)
  BY <1>1, <1>3, ProviderObservationsType
<1> QED
  BY <1>1, <1>2, <1>3 DEF AggregateNext

\* A created environment is an aggregate.
LEMMA TypeInit == AggregateInit => AggregateTypeOK
BY CreatedType, CreatedValid, AggregateAssumption DEF AggregateInit, AggregateTypeOK

\* Every step returns a valid aggregate.
LEMMA TypeStep == AggregateTypeOK /\ [AggregateNext]_env => AggregateTypeOK'
<1> SUFFICES ASSUME AggregateTypeOK, [AggregateNext]_env PROVE AggregateTypeOK'
  OBVIOUS
<1> USE DEF AggregateTypeOK
<1>1. ASSUME NEW c \in Command, NEW now \in Nat, Accept(c, now) PROVE AggregateTypeOK'
  BY <1>1, AcceptFields
<1>2. ASSUME NEW renewed \in LeaseAuthorization, NEW now \in Nat, Refresh(renewed, now)
      PROVE  AggregateTypeOK'
  BY <1>2, RefreshedFields DEF Refresh
<1>3. ASSUME NEW now \in Nat, BeginCleanup(now) PROVE AggregateTypeOK'
  BY <1>3, CleanupFields, CleanupDeadlineType DEF BeginCleanup
<1>4. ASSUME NEW obs \in Observation, NEW now \in Nat, Observe(obs, now) PROVE AggregateTypeOK'
  BY <1>4, ObserveFields
<1>5. ASSUME NEW code \in DiagnosticCodes, NEW now \in Nat, Retry(code, now) PROVE AggregateTypeOK'
  <2>1. now + RetryDelay \in Nat
    BY ProviderAssumption
  <2> QED
    BY <1>5, <2>1, RetryFields DEF Retry
<1>6. ASSUME NEW code \in DiagnosticCodes, Fail(code) PROVE AggregateTypeOK'
  BY <1>6, FailureFields DEF Fail
<1>7. CASE UNCHANGED env
  BY <1>7
<1> QED
  BY <1>1, <1>2, <1>3, <1>4, <1>5, <1>6, <1>7, NextCases

\* The aggregate has its type and passes EnvironmentInstance::validate after every operation
\* of the service.
THEOREM TypeCorrect == AggregateSpec => []AggregateTypeOK
BY TypeInit, TypeStep, PTL DEF AggregateSpec

-----------------------------------------------------------------------------
(* How an operation ends *)

\* Once its timeout cleanup has begun, an active operation stays in Deleting with a
\* diagnostic: the only answer validate_provider_observation then accepts is Deleted, and it
\* ends the operation.
CleanupUnderway ==
    Active(env) /\ env.operation.cleanupStartedAt # NoTime =>
        env.observedState = "Deleting" /\ env.operation.diagnosticCode # "None"

OutcomeInv == AggregateTypeOK /\ SucceededIsConverged /\ TimedOutEndsFailed /\ CleanupUnderway

\* A created environment satisfies the outcome invariant: its operation is Accepted.
LEMMA OutcomeInit == AggregateInit => OutcomeInv
<1> SUFFICES ASSUME AggregateInit PROVE OutcomeInv
  OBVIOUS
<1>1. AggregateTypeOK
  BY TypeInit
<1>2. env.operation.state = "Accepted" /\ env.operation.cleanupStartedAt = NoTime
  BY DEF AggregateInit, CreatedInstance
<1> QED
  BY <1>1, <1>2 DEF OutcomeInv, SucceededIsConverged, TimedOutEndsFailed, CleanupUnderway

\* The steps of the service keep the outcome invariant.
LEMMA OutcomeStep == OutcomeInv /\ [AggregateNext]_env => OutcomeInv'
<1> SUFFICES ASSUME OutcomeInv, [AggregateNext]_env PROVE OutcomeInv'
  OBVIOUS
<1> USE DEF OutcomeInv
<1>1. AggregateTypeOK'
  BY TypeStep
<1> DEFINE Outcome == SucceededIsConverged /\ TimedOutEndsFailed /\ CleanupUnderway
<1>2. env \in Instance
  BY DEF AggregateTypeOK
<1>3. ASSUME NEW c \in Command, NEW now \in Nat, Accept(c, now) PROVE Outcome'
  BY <1>2, <1>3, AcceptFields
     DEF SucceededIsConverged, TimedOutEndsFailed, CleanupUnderway
<1>4. ASSUME NEW renewed \in LeaseAuthorization, NEW now \in Nat, Refresh(renewed, now)
      PROVE  Outcome'
  <2>1. env.operation \in Operation
    BY <1>2 DEF Instance
  <2>2. LET o == [env.operation EXCEPT !.leaseAuthorization = renewed]
        IN  /\ o.state = env.operation.state
            /\ o.cleanupStartedAt = env.operation.cleanupStartedAt
            /\ o.diagnosticCode = env.operation.diagnosticCode
    BY <2>1 DEF Operation
  <2> QED
    BY <1>2, <1>4, <2>2, RefreshedFields
       DEF Refresh, Active, SucceededIsConverged, TimedOutEndsFailed, CleanupUnderway
<1>5. ASSUME NEW now \in Nat, BeginCleanup(now) PROVE Outcome'
  <2>1. /\ env'.observedState = "Deleting"
        /\ env'.operation.state = "Cancelling"
        /\ env'.operation.diagnosticCode = "Timeout"
    BY <1>2, <1>5, BeginCleanupFields
  <2> QED
    BY <2>1 DEF Active, ActiveOperationStates, SucceededIsConverged, TimedOutEndsFailed,
                CleanupUnderway
<1>6. ASSUME NEW obs \in Observation, NEW now \in Nat, Observe(obs, now) PROVE Outcome'
  <2>1. ValidateProviderObservation(env, obs) /\ Active(env)
    BY <1>6 DEF Observe, ObservationAccepted
  <2>2. SucceededIsConverged'
    BY <1>2, <1>6, <2>1, ObserveFields
       DEF SucceededIsConverged, ObservedOperationState, PreservingCleanupFailure,
           ValidateProviderObservation
  <2>3. ASSUME env.operation.cleanupStartedAt # NoTime
        PROVE  obs.operationComplete /\ PreservingCleanupFailure(env, obs)
    <3>1. env.observedState = "Deleting" /\ env.operation.diagnosticCode # "None"
      BY <2>1, <2>3 DEF CleanupUnderway
    <3>2. obs.nextState = "Deleted"
      BY <2>1, <3>1 DEF ValidateProviderObservation, ObservationMatchesOperation
    <3>3. env.desiredState = "Deleted"
      BY <2>3 DEF AggregateTypeOK, Validate, ValidBounds
    <3> QED
      BY <2>1, <2>3, <3>1, <3>2, <3>3
         DEF ValidateProviderObservation, TargetState, PreservingCleanupFailure
  <2>4. /\ env'.operation.cleanupStartedAt = env.operation.cleanupStartedAt
        /\ env'.operation.state = ObservedOperationState(env, obs)
    BY <1>2, <1>6, ObserveFields
  <2>5. env'.operation.cleanupStartedAt # NoTime => env'.operation.state = "Failed"
    BY <2>3, <2>4 DEF ObservedOperationState
  <2> QED
    BY <2>2, <2>5 DEF TimedOutEndsFailed, CleanupUnderway, Active, ActiveOperationStates
<1>7. ASSUME NEW code \in DiagnosticCodes \ {"None"}, NEW now \in Nat, Retry(code, now)
      PROVE  Outcome'
  <2>1. env.operation \in Operation /\ now + RetryDelay \in Nat
    BY <1>2, ProviderAssumption DEF Instance
  <2> QED
    BY <1>2, <1>7, <2>1, RetryFields, RetriedOperationFields
       DEF Retry, Active, ActiveOperationStates, SucceededIsConverged, TimedOutEndsFailed,
           CleanupUnderway
<1>8. ASSUME NEW code \in DiagnosticCodes, Fail(code) PROVE Outcome'
  <2>1. env.operation \in Operation
    BY <1>2 DEF Instance
  <2> QED
    BY <1>2, <1>8, <2>1, FailureFields, FailedOperationFields
       DEF Fail, Active, ActiveOperationStates, SucceededIsConverged, TimedOutEndsFailed,
           CleanupUnderway
<1>9. CASE UNCHANGED env
  BY <1>1, <1>9 DEF SucceededIsConverged, TimedOutEndsFailed, CleanupUnderway, Active
<1> QED
  BY <1>1, <1>2, <1>3, <1>4, <1>5, <1>6, <1>7, <1>8, <1>9, NextCases

\* An operation that ends well left the environment in the state its intent asks for, at its
\* generation, whatever a Provider answered.
THEOREM SuccessIsConverged == AggregateSpec => []SucceededIsConverged
<1>1. OutcomeInv => SucceededIsConverged
  BY DEF OutcomeInv
<1> QED
  BY <1>1, OutcomeInit, OutcomeStep, PTL DEF AggregateSpec

\* An operation that was timed out never ends as a success, whatever a Provider answered.
THEOREM TimeoutIsFailure == AggregateSpec => []TimedOutEndsFailed
<1>1. OutcomeInv => TimedOutEndsFailed
  BY DEF OutcomeInv
<1> QED
  BY <1>1, OutcomeInit, OutcomeStep, PTL DEF AggregateSpec

-----------------------------------------------------------------------------
(* What a step may never do *)

\* Deleted is the end, and the intent to delete is not taken back.
THEOREM DeletedForGood == AggregateSpec => DeletionIsFinal
<1> DEFINE Final == /\ env.observedState = "Deleted" => env'.observedState = "Deleted"
                    /\ env.desiredState = "Deleted" => env'.desiredState = "Deleted"
<1>1. AggregateTypeOK /\ [AggregateNext]_env => [Final]_env
  <2> SUFFICES ASSUME env \in Instance, AggregateNext PROVE Final
    BY DEF AggregateTypeOK
  <2>1. ASSUME NEW c \in Command, NEW now \in Nat, Accept(c, now) PROVE Final
    <3>1. /\ env'.desiredState = DesiredState(env, c.kind)
          /\ env'.observedState = AcceptedObservedState(env, c.kind)
      BY <2>1, AcceptFields
    <3>2. /\ EnsureOperationAllowed(env.observedState, c.kind)
          /\ env.desiredState = "Deleted" => c.kind \in {"Delete", "Cleanup"} \cup RetryKinds
      BY <2>1 DEF Accept, CommandAllowed
    <3>3. env.observedState # "Deleted"
      BY <3>2 DEF EnsureOperationAllowed, RetryKinds, Command
    <3> QED
      BY <3>1, <3>2, <3>3 DEF DesiredState, RetryKinds, DestructiveKinds
  <2>2. ASSUME NEW renewed \in LeaseAuthorization, NEW now \in Nat, Refresh(renewed, now)
        PROVE  Final
    BY <2>2, RefreshedFields DEF Refresh
  <2>3. ASSUME NEW now \in Nat, BeginCleanup(now) PROVE Final
    BY <2>3, BeginCleanupFields DEF BeginCleanup, TimeoutCleanupAllowed, EnsureTransition
  <2>4. ASSUME NEW obs \in Observation, NEW now \in Nat, Observe(obs, now) PROVE Final
    BY <2>4, ObserveFields
       DEF Observe, ObservationAccepted, ValidateProviderObservation,
           ObservationMatchesOperation
  <2>5. ASSUME NEW code \in DiagnosticCodes, NEW now \in Nat, Retry(code, now) PROVE Final
    <3>1. now + RetryDelay \in Nat
      BY ProviderAssumption
    <3> QED
      BY <2>5, <3>1, RetryFields DEF Retry
  <2>6. ASSUME NEW code \in DiagnosticCodes, Fail(code) PROVE Final
    BY <2>6, FailureFields DEF Fail, FailureAllowed, EnsureTransition
  <2> QED
    BY <2>1, <2>2, <2>3, <2>4, <2>5, <2>6, NextCases
<1> QED
  BY <1>1, TypeCorrect, PTL DEF AggregateSpec, DeletionIsFinal

\* A changed intent is always a new generation.
THEOREM IntentFenced == AggregateSpec => IntentIsFenced
<1> DEFINE Fenced == env'.desiredState # env.desiredState => env'.generation > env.generation
<1>1. AggregateTypeOK /\ [AggregateNext]_env => [Fenced]_env
  <2> SUFFICES ASSUME env \in Instance, AggregateNext PROVE Fenced
    BY DEF AggregateTypeOK
  <2>0. env.generation \in Nat
    BY DEF Instance
  <2>1. ASSUME NEW c \in Command, NEW now \in Nat, Accept(c, now) PROVE Fenced
    BY <2>0, <2>1, AcceptFields
       DEF DesiredState, IncrementsGeneration, DestructiveKinds
  <2>2. ASSUME NEW renewed \in LeaseAuthorization, NEW now \in Nat, Refresh(renewed, now)
        PROVE  Fenced
    BY <2>2, RefreshedFields DEF Refresh
  <2>3. ASSUME NEW now \in Nat, BeginCleanup(now) PROVE Fenced
    BY <2>0, <2>3, BeginCleanupFields
  <2>4. ASSUME NEW obs \in Observation, NEW now \in Nat, Observe(obs, now) PROVE Fenced
    BY <2>4, ObserveFields
  <2>5. ASSUME NEW code \in DiagnosticCodes, NEW now \in Nat, Retry(code, now) PROVE Fenced
    <3>1. now + RetryDelay \in Nat
      BY ProviderAssumption
    <3> QED
      BY <2>5, <3>1, RetryFields DEF Retry
  <2>6. ASSUME NEW code \in DiagnosticCodes, Fail(code) PROVE Fenced
    BY <2>6, FailureFields DEF Fail
  <2> QED
    BY <2>1, <2>2, <2>3, <2>4, <2>5, <2>6, NextCases
<1> QED
  BY <1>1, TypeCorrect, PTL DEF AggregateSpec, IntentIsFenced

-----------------------------------------------------------------------------
(* The reconciler always has an action *)

\* The pairs of operation kind and observed state next_action has an arm for, but for a
\* retry in Requested, which is resumed in Validating.
HasArm(kind, state) ==
    \/ state \in {"Provisioning", "Updating", "Deleting"}
    \/ state = "Requested" /\ kind = "Create"
    \/ state \in {"Validating", "Building"} /\ kind \in {"Create", "Reset"} \cup RetryKinds
    \/ state = "Stopped" /\ kind \in {"Start", "Expire"}
    \/ state = "Stopping" /\ kind \in {"Stop"} \cup RetryKinds
    \/ state = "Expiring" /\ kind \in {"Expire"} \cup RetryKinds

\* An arm selects an action.
LEMMA ArmSelects ==
    ASSUME NEW e, HasArm(e.operation.kind, e.observedState)
    PROVE  NextAction(e) # NoAction
<1>1. ProvisioningAction(e) # NoAction
  BY DEF ProvisioningAction, NoAction
<1> QED
  BY <1>1 DEF NextAction, HasArm, NoAction, RetryKinds

\* A command is accepted in a state its operation has an arm for.
LEMMA AcceptedHasArm ==
    ASSUME NEW e \in Instance, NEW kind \in OperationKinds \ {"Create"},
           EnsureOperationAllowed(e.observedState, kind),
           kind \in RetryKinds => e.failedPhase \notin {NoPhase, "Deleted", "Failed"}
    PROVE  HasArm(kind, AcceptedObservedState(e, kind))
<1>1. CASE kind \in RetryKinds
  <2>1. AcceptedObservedState(e, kind) = RetryResumeState(e.failedPhase)
    BY <1>1 DEF AcceptedObservedState, RetryKinds
  <2>2. RetryResumeState(e.failedPhase) \in {"Validating", "Provisioning", "Building",
                                            "Stopping", "Updating", "Expiring", "Deleting"}
    BY <1>1 DEF RetryResumeState, Instance, ObservedStates, NoPhase
  <2> QED
    BY <1>1, <2>1, <2>2 DEF HasArm
<1>2. CASE kind \notin RetryKinds
  BY <1>2 DEF AcceptedObservedState, HasArm, OperationKinds, RetryKinds, EnsureOperationAllowed
<1> QED
  BY <1>1, <1>2

\* next_action finds an action for every active operation, whatever a Provider answered.
THEOREM ActionAlwaysSelected == AggregateSpec => []ActionSelected
<1> DEFINE Armed == Active(env) => HasArm(env.operation.kind, env.observedState)
<1>1. AggregateInit => Armed
  BY DEF AggregateInit, CreatedInstance, HasArm
<1>2. AggregateTypeOK /\ Armed /\ [AggregateNext]_env => Armed'
  <2> SUFFICES ASSUME env \in Instance, Armed, [AggregateNext]_env PROVE Armed'
    BY DEF AggregateTypeOK
  <2>0. env.operation \in Operation
    BY DEF Instance
  <2>1. ASSUME NEW c \in Command, NEW now \in Nat, Accept(c, now) PROVE Armed'
    <3>1. /\ c.kind \in OperationKinds \ {"Create"}
          /\ EnsureOperationAllowed(env.observedState, c.kind)
          /\ c.kind \in RetryKinds => env.failedPhase \notin {NoPhase, "Deleted", "Failed"}
      BY <2>1 DEF Accept, CommandAllowed, Command
    <3>2. /\ env'.operation.kind = c.kind
          /\ env'.observedState = AcceptedObservedState(env, c.kind)
      BY <2>1, AcceptFields
    <3> QED
      BY <3>1, <3>2, AcceptedHasArm
  <2>2. ASSUME NEW renewed \in LeaseAuthorization, NEW now \in Nat, Refresh(renewed, now)
        PROVE  Armed'
    <3>1. LET o == [env.operation EXCEPT !.leaseAuthorization = renewed]
          IN  o.state = env.operation.state /\ o.kind = env.operation.kind
      BY <2>0 DEF Operation
    <3>2. /\ env'.observedState = env.observedState
          /\ env'.operation.state = env.operation.state
          /\ env'.operation.kind = env.operation.kind
      BY <2>2, <3>1, RefreshedFields DEF Refresh
    <3> QED
      BY <3>2 DEF Active
  <2>3. ASSUME NEW now \in Nat, BeginCleanup(now) PROVE Armed'
    BY <2>3, BeginCleanupFields DEF HasArm
  <2>4. ASSUME NEW obs \in Observation, NEW now \in Nat, Observe(obs, now) PROVE Armed'
    <3>1. ValidateProviderObservation(env, obs)
      BY <2>4 DEF Observe, ObservationAccepted
    <3>2. /\ env'.operation.kind = env.operation.kind
          /\ env'.observedState = obs.nextState
          /\ env'.operation.state = ObservedOperationState(env, obs)
      BY <2>4, ObserveFields
    <3>3. Active(env)' => ~obs.operationComplete
      BY <3>2 DEF Active, ActiveOperationStates, ObservedOperationState
    <3>4. ASSUME ~obs.operationComplete PROVE HasArm(env.operation.kind, obs.nextState)
      BY <3>1, <3>4
         DEF ValidateProviderObservation, ObservationMatchesOperation, HasArm,
             ExpireCleanupCheckpoint, RetryKinds
    <3> QED
      BY <3>2, <3>3, <3>4
  <2>5. ASSUME NEW code \in DiagnosticCodes, NEW now \in Nat, Retry(code, now) PROVE Armed'
    <3>1. now + RetryDelay \in Nat /\ Active(env)
      BY <2>5, ProviderAssumption DEF Retry
    <3>2. env'.observedState = env.observedState /\ env'.operation.kind = env.operation.kind
      BY <2>0, <2>5, <3>1, RetryFields, RetriedOperationFields DEF Retry
    <3> QED
      BY <3>1, <3>2
  <2>6. ASSUME NEW code \in DiagnosticCodes, Fail(code) PROVE Armed'
    <3>1. env'.operation.state = "Failed"
      BY <2>0, <2>6, FailureFields, FailedOperationFields DEF Fail
    <3> QED
      BY <3>1 DEF Active, ActiveOperationStates
  <2>7. CASE UNCHANGED env
    BY <2>7 DEF Active
  <2> QED
    BY <2>1, <2>2, <2>3, <2>4, <2>5, <2>6, <2>7, NextCases
<1>3. Armed => ActionSelected
  BY ArmSelects DEF ActionSelected
<1> QED
  BY <1>1, <1>2, <1>3, TypeCorrect, PTL DEF AggregateSpec

-----------------------------------------------------------------------------
(* The Container and the KubeVirt provider *)

\* An active operation is in a phase that can fail, time out and be cleaned up.
ActiveInPhase == Active(env) => env.observedState \notin {"Failed", "Deleted"}

\* An operation that runs beside published endpoints has its Access revocation recorded,
\* which is what begin_timeout_cleanup asks for.
PublishedIsRevoked == Active(env) /\ env.endpoints # {} => env.operation.revocationRecorded

\* A stopped environment publishes nothing: Start needs no revocation.
StoppedPublishesNothing == env.observedState = "Stopped" => env.endpoints = {}

\* A teardown phase, running or to be resumed by Retry, is of an environment meant to be deleted.
TeardownPhases ==
    \A phase \in {"Expiring", "Deleting", "Deleted"} :
        env.observedState = phase \/ env.failedPhase = phase => env.desiredState = "Deleted"

ContainerInv ==
    /\ AggregateTypeOK
    /\ ActiveInPhase
    /\ PublishedIsRevoked
    /\ StoppedPublishesNothing
    /\ TeardownPhases
    /\ HealthyOnlyWhenReady

\* A created environment publishes nothing and is in Requested.
LEMMA ContainerInit == AggregateInit => ContainerInv
<1> SUFFICES ASSUME AggregateInit PROVE ContainerInv
  OBVIOUS
<1>1. AggregateTypeOK
  BY TypeInit
<1>2. env.observedState = "Requested" /\ env.endpoints = {} /\ env.failedPhase = NoPhase
  BY DEF AggregateInit, CreatedInstance
<1> QED
  BY <1>1, <1>2 DEF ContainerInv, ActiveInPhase, PublishedIsRevoked, StoppedPublishesNothing,
                    TeardownPhases, HealthyOnlyWhenReady, NoPhase

\* What the in-repository providers answer, as validate_provider_observation sees it.
LEMMA ContainerAnswers ==
    ASSUME Provider = "container", NEW e, NEW action, NEW obs \in ProviderObservations(e, action)
    PROVE  /\ obs.nextState \notin {"Expiring", "Deleting", "Failed"}
           /\ obs.nextState # "Ready" => obs.endpoints = {}
           /\ obs.nextState = "Ready" => obs.operationComplete
<1>1. ContainerObservations(e, action) \in
          {{}, {DeletedObservation}, RunningObservations(e), {NoEndpoints("Stopped", TRUE)},
           {NoEndpoints("Validating", FALSE)}, {NoEndpoints("Building", FALSE)},
           {NoEndpoints("Provisioning", FALSE)}}
  BY DEF ContainerObservations
<1>2. obs \in ContainerObservations(e, action)
  BY DEF ProviderObservations
<1>3. \A s, b : NoEndpoints(s, b).nextState = s /\ NoEndpoints(s, b).endpoints = {}
  BY DEF NoEndpoints
<1>4. /\ ReadyObservation(e).nextState = "Ready" /\ ReadyObservation(e).operationComplete
      /\ DeletedObservation.nextState = "Deleted" /\ DeletedObservation.endpoints = {}
  BY DEF ReadyObservation, DeletedObservation
<1>5. \/ obs = ReadyObservation(e)
      \/ obs = DeletedObservation
      \/ \E s \in {"Stopped", "Validating", "Building", "Provisioning"}, b \in BOOLEAN :
             obs = NoEndpoints(s, b)
  BY <1>1, <1>2 DEF RunningObservations
<1> QED
  BY <1>3, <1>4, <1>5

\* The steps of the service keep the container invariant.
LEMMA ContainerStep ==
    ASSUME Provider = "container", ContainerInv, [AggregateNext]_env
    PROVE  ContainerInv'
<1>1. AggregateTypeOK' /\ env \in Instance /\ env.operation \in Operation
  BY TypeStep DEF ContainerInv, AggregateTypeOK, Instance
<1>2. /\ ActiveInPhase /\ PublishedIsRevoked /\ StoppedPublishesNothing
      /\ TeardownPhases /\ HealthyOnlyWhenReady
  BY DEF ContainerInv
<1> DEFINE Kept == /\ ActiveInPhase' /\ PublishedIsRevoked' /\ StoppedPublishesNothing'
                   /\ TeardownPhases' /\ HealthyOnlyWhenReady'
<1>3. ASSUME NEW c \in Command, NEW now \in Nat, Accept(c, now) PROVE Kept
  <2>1. /\ env'.desiredState = DesiredState(env, c.kind)
        /\ env'.observedState = AcceptedObservedState(env, c.kind)
        /\ env'.endpoints = PlannedEndpoints(env, c.kind)
        /\ env'.failedPhase = NoPhase
        /\ env'.operation.revocationRecorded = c.revocationRecorded
    BY <1>1, <1>3, AcceptFields
  <2>2. /\ EnsureOperationAllowed(env.observedState, c.kind)
        /\ c.kind \in OperationKinds \ {"Create"}
        /\ env.endpoints # {} /\ c.kind # "Start" => c.revocationRecorded
        /\ c.kind \in RetryKinds => env.failedPhase \notin {NoPhase, "Deleted", "Failed"}
        /\ env.desiredState = "Deleted" => c.kind \in {"Delete", "Cleanup"} \cup RetryKinds
    BY <1>3 DEF Accept, CommandAllowed, Command
  <2>3. /\ env.endpoints \in SUBSET Endpoint
        /\ env.failedPhase \in ObservedStates \cup {NoPhase}
        /\ env.observedState \in ObservedStates
    BY <1>1 DEF Instance
  <2>4. \/ env'.endpoints = env.endpoints
        \/ (env'.endpoints # {} => env.endpoints # {})
              /\ \A p \in env'.endpoints : p.health # "Healthy"
    BY <2>1, <2>3, WithHealthMarks DEF PlannedEndpoints
  <2>5. ActiveInPhase'
    BY <2>1, <2>2, <2>3
       DEF ActiveInPhase, AcceptedObservedState, RetryResumeState, EnsureOperationAllowed,
           RetryKinds, OperationKinds
  <2>6. c.kind = "Start" => env.observedState = "Stopped"
    BY <2>2 DEF EnsureOperationAllowed, RetryKinds
  <2>7. PublishedIsRevoked'
    BY <1>2, <2>1, <2>2, <2>4, <2>6 DEF PublishedIsRevoked, StoppedPublishesNothing
  <2>8. StoppedPublishesNothing'
    <3>1. env'.observedState = "Stopped" => env.observedState = "Stopped"
      BY <2>1, <2>2, <2>3
         DEF AcceptedObservedState, RetryResumeState, RetryKinds, OperationKinds
    <3> QED
      BY <1>2, <2>4, <3>1 DEF StoppedPublishesNothing
  <2>9. TeardownPhases'
    BY <1>2, <2>1, <2>2, <2>3
       DEF TeardownPhases, AcceptedObservedState, RetryResumeState, DesiredState,
           DestructiveKinds, RetryKinds, OperationKinds, NoPhase, EnsureOperationAllowed
  <2>10. HealthyOnlyWhenReady'
    <3>1. CASE env'.endpoints = env.endpoints /\ env.observedState # "Ready"
      BY <1>2, <3>1 DEF HealthyOnlyWhenReady
    <3>2. CASE env.observedState = "Ready"
      <4>1. InvalidatesEndpoints(c.kind)
        BY <2>2, <3>2
           DEF EnsureOperationAllowed, InvalidatesEndpoints, DestructiveKinds, RetryKinds,
               OperationKinds
      <4> QED
        BY <2>1, <2>3, <4>1, WithHealthMarks DEF PlannedEndpoints, HealthyOnlyWhenReady
    <3> QED
      BY <2>4, <3>1, <3>2 DEF HealthyOnlyWhenReady
  <2> QED
    BY <2>5, <2>7, <2>8, <2>9, <2>10
<1>4. ASSUME NEW renewed \in LeaseAuthorization, NEW now \in Nat, Refresh(renewed, now) PROVE Kept
  <2>1. LET o == [env.operation EXCEPT !.leaseAuthorization = renewed]
        IN  /\ o.state = env.operation.state
            /\ o.revocationRecorded = env.operation.revocationRecorded
    BY <1>1 DEF Operation
  <2>2. /\ env'.desiredState = env.desiredState
        /\ env'.observedState = env.observedState
        /\ env'.endpoints = env.endpoints
        /\ env'.failedPhase = env.failedPhase
        /\ env'.operation.state = env.operation.state
        /\ env'.operation.revocationRecorded = env.operation.revocationRecorded
    BY <1>1, <1>4, <2>1, RefreshedFields DEF Refresh
  <2> QED
    BY <1>2, <2>2 DEF Active, ActiveInPhase, PublishedIsRevoked, StoppedPublishesNothing,
                      TeardownPhases, HealthyOnlyWhenReady
<1>5. ASSUME NEW now \in Nat, BeginCleanup(now) PROVE Kept
  <2>1. /\ env'.desiredState = "Deleted" /\ env'.observedState = "Deleting"
        /\ env'.endpoints = WithHealth(env.endpoints, "Removed")
        /\ env'.operation.revocationRecorded = env.operation.revocationRecorded
    BY <1>1, <1>5, BeginCleanupFields
  <2>2. /\ env'.endpoints # {} => env.endpoints # {}
        /\ \A p \in env'.endpoints : p.health = "Removed"
    BY <1>1, <2>1, WithHealthMarks DEF Instance
  <2>3. Active(env)
    BY <1>5 DEF BeginCleanup
  <2> QED
    BY <1>2, <2>1, <2>2, <2>3
       DEF ActiveInPhase, PublishedIsRevoked, StoppedPublishesNothing, TeardownPhases,
           HealthyOnlyWhenReady
<1>6. ASSUME NEW obs \in Observation, NEW now \in Nat,
             obs \in ProviderObservations(env, NextAction(env)), Observe(obs, now)
      PROVE  Kept
  <2>1. /\ obs.nextState \notin {"Expiring", "Deleting", "Failed"}
        /\ obs.nextState # "Ready" => obs.endpoints = {}
        /\ obs.nextState = "Ready" => obs.operationComplete
    BY <1>6, ContainerAnswers
  <2>2. /\ env'.desiredState = env.desiredState
        /\ env'.observedState = obs.nextState
        /\ env'.endpoints = obs.endpoints
        /\ env'.failedPhase = env.failedPhase
        /\ env'.operation.state = ObservedOperationState(env, obs)
    BY <1>1, <1>6, ObserveFields
  <2>3. obs.nextState = "Deleted" => obs.operationComplete /\ env.desiredState = "Deleted"
    <3>1. ValidateProviderObservation(env, obs) /\ env.desiredState \in DesiredStates
      BY <1>1, <1>6 DEF Observe, ObservationAccepted, Instance
    <3> QED
      BY <3>1 DEF ValidateProviderObservation, ExpireCleanupCheckpoint, TargetState,
                  DesiredStates
  <2>4. obs.operationComplete => ~Active(env)'
    BY <2>2 DEF ObservedOperationState, Active, ActiveOperationStates
  <2> QED
    BY <1>2, <2>1, <2>2, <2>3, <2>4
       DEF ActiveInPhase, PublishedIsRevoked, StoppedPublishesNothing, TeardownPhases,
           HealthyOnlyWhenReady
<1>7. ASSUME NEW code \in DiagnosticCodes, NEW now \in Nat, Retry(code, now) PROVE Kept
  <2>1. now + RetryDelay \in Nat /\ Active(env)
    BY <1>7, ProviderAssumption DEF Retry
  <2>2. /\ env'.desiredState = env.desiredState
        /\ env'.observedState = env.observedState
        /\ env'.endpoints = env.endpoints
        /\ env'.failedPhase = env.failedPhase
        /\ env'.operation.revocationRecorded = env.operation.revocationRecorded
    BY <1>1, <1>7, <2>1, RetryFields, RetriedOperationFields DEF Retry
  <2> QED
    BY <1>2, <2>1, <2>2
       DEF ActiveInPhase, PublishedIsRevoked, StoppedPublishesNothing, TeardownPhases,
           HealthyOnlyWhenReady
<1>8. ASSUME NEW code \in DiagnosticCodes, Fail(code) PROVE Kept
  <2>1. /\ env'.desiredState = env.desiredState
        /\ env'.observedState = "Failed"
        /\ env'.endpoints = WithHealth(env.endpoints, "Unhealthy")
        /\ env'.failedPhase = env.observedState
        /\ env'.operation.state = "Failed"
    BY <1>1, <1>8, FailureFields, FailedOperationFields DEF Fail
  <2>2. \A p \in env'.endpoints : p.health = "Unhealthy"
    BY <1>1, <2>1, WithHealthMarks DEF Instance
  <2> QED
    BY <1>2, <2>1, <2>2
       DEF Active, ActiveOperationStates, ActiveInPhase, PublishedIsRevoked,
           StoppedPublishesNothing, TeardownPhases, HealthyOnlyWhenReady
<1>9. ASSUME UNCHANGED env PROVE Kept
  BY <1>2, <1>9 DEF Active, ActiveInPhase, PublishedIsRevoked, StoppedPublishesNothing,
                    TeardownPhases, HealthyOnlyWhenReady
<1> QED
  BY <1>1, <1>3, <1>4, <1>5, <1>6, <1>7, <1>8, <1>9, NextCases DEF ContainerInv

\* Whatever state an active operation is found in, it can be failed, and once its deadline
\* has passed it can be cleaned up.
LEMMA ActiveCanEnd == ContainerInv => NeverWedged
<1> SUFFICES ASSUME ContainerInv, Active(env) PROVE NeverWedged!2
  BY DEF NeverWedged
<1>1. /\ env \in Instance /\ env.operation \in Operation
      /\ ValidBounds(env) /\ ValidPhases(env) /\ ValidLeaseAuthorization(env)
      /\ ValidRevocation(env)
  BY DEF ContainerInv, AggregateTypeOK, Validate, Instance
<1>2. /\ env.observedState \in ObservedStates \ {"Failed", "Deleted"}
      /\ env.endpoints # {} => env.operation.revocationRecorded
  BY <1>1 DEF ContainerInv, ActiveInPhase, PublishedIsRevoked, Instance
<1>3. FailureAllowed(env)
  BY <1>2 DEF FailureAllowed, EnsureTransition, ObservedStates
<1>4. Validate(ApplyProviderFailure(env, "Provider"))
  <2> DEFINE f == ApplyProviderFailure(env, "Provider")
  <2>1. /\ f.observedState = "Failed" /\ f.failedPhase = env.observedState
        /\ f.generation = env.generation /\ f.observedGeneration = env.observedGeneration
        /\ f.desiredState = env.desiredState
        /\ f.operation = FailedOperation(env.operation, "Provider")
    BY <1>1, FailureFields DEF DiagnosticCodes
  <2>2. /\ f.operation.attempt = env.operation.attempt
        /\ f.operation.providerStep = env.operation.providerStep
        /\ f.operation.deadlineAt = env.operation.deadlineAt
        /\ f.operation.acceptedAt = env.operation.acceptedAt
        /\ f.operation.nextAttemptAt = env.operation.nextAttemptAt
        /\ f.operation.cleanupStartedAt = env.operation.cleanupStartedAt
        /\ f.operation.kind = env.operation.kind
        /\ f.operation.retryFromPhase = env.operation.retryFromPhase
        /\ f.operation.leaseAuthorization = env.operation.leaseAuthorization
        /\ f.operation.revocationRecorded = env.operation.revocationRecorded
    BY <1>1, <2>1, FailedOperationFields DEF DiagnosticCodes
  <2> HIDE DEF f
  <2>3. ValidBounds(f)
    BY <1>1, <2>1, <2>2 DEF ValidBounds
  <2>4. ValidPhases(f)
    BY <1>1, <1>2, <2>1, <2>2 DEF ValidPhases, ObservedStates, NoPhase
  <2>5. ValidLeaseAuthorization(f) /\ ValidRevocation(f)
    BY <1>1, <2>2 DEF ValidLeaseAuthorization, ValidRevocation
  <2>6. ValidReady(f) /\ ValidTombstone(f)
    BY <2>1 DEF ValidReady, ValidTombstone
  <2> QED
    BY <2>3, <2>4, <2>5, <2>6 DEF Validate, f
<1>5. ASSUME NEW now \in Times, TimedOut(env, now)
      PROVE  /\ TimeoutCleanupAllowed(env, now, CleanupDeadline(now))
             /\ Validate(BeginTimeoutCleanup(env, now, CleanupDeadline(now)))
  <2> DEFINE d == CleanupDeadline(now)
             f == BeginTimeoutCleanup(env, now, d)
  <2>1. now \in Nat /\ d \in Nat /\ d > now
    BY CleanupDeadlineType, AggregateAssumption
  <2>2. now > env.operation.deadlineAt /\ env.operation.deadlineAt > env.operation.acceptedAt
    BY <1>1, <1>5 DEF TimedOut, ValidBounds
  <2>3. /\ env.operation.deadlineAt \in Nat /\ env.operation.acceptedAt \in Nat
        /\ env.operation.providerStep \in Nat /\ env.generation \in Nat
        /\ env.observedGeneration \in Nat
    BY <1>1 DEF Operation, Instance
  <2> HIDE DEF d
  <2>4. TimeoutCleanupAllowed(env, now, d)
    BY <1>2, <2>1, <2>2, <2>3 DEF TimeoutCleanupAllowed, EnsureTransition, ObservedStates
  <2>5. /\ f.observedState = "Deleting" /\ f.failedPhase = env.failedPhase
        /\ f.generation = IF env.desiredState = "Deleted"
                          THEN env.generation ELSE env.generation + 1
        /\ f.observedGeneration = env.observedGeneration
        /\ f.desiredState = "Deleted"
        /\ f.operation = CleanupOperation(env.operation, now, d)
    BY <1>1, <2>1, CleanupFields
  <2> HIDE DEF f
  <2>6. /\ f.operation.attempt = 1
        /\ f.operation.providerStep = env.operation.providerStep + 1
        /\ f.operation.deadlineAt = d
        /\ f.operation.acceptedAt = env.operation.acceptedAt
        /\ f.operation.nextAttemptAt = now
        /\ f.operation.cleanupStartedAt = now
        /\ f.operation.kind = env.operation.kind
        /\ f.operation.retryFromPhase = env.operation.retryFromPhase
        /\ f.operation.leaseAuthorization = env.operation.leaseAuthorization
        /\ f.operation.revocationRecorded = env.operation.revocationRecorded
    <3>1. ASSUME NEW op \in Operation, NEW t \in Nat
          PROVE  LET o == CleanupOperation(op, now, t)
                 IN  /\ o.attempt = 1 /\ o.providerStep = op.providerStep + 1
                     /\ o.deadlineAt = t /\ o.acceptedAt = op.acceptedAt
                     /\ o.nextAttemptAt = now /\ o.cleanupStartedAt = now
                     /\ o.kind = op.kind
                     /\ o.retryFromPhase = op.retryFromPhase
                     /\ o.leaseAuthorization = op.leaseAuthorization
                     /\ o.revocationRecorded = op.revocationRecorded
      BY <2>1, <3>1, CleanupOperationFields
    <3>2. d \in Nat
      BY <2>1
    <3> QED
      BY <1>1, <2>5, <3>1, <3>2
  <2>7. ValidBounds(f)
    <3>1. env.generation > 0 /\ env.observedGeneration <= env.generation
      BY <1>1 DEF ValidBounds
    <3>2. f.generation > 0 /\ f.observedGeneration <= f.generation
      BY <2>3, <2>5, <3>1
    <3>3. f.operation.attempt \in 1..MaxAttempts /\ f.operation.providerStep > 0
      BY <2>3, <2>6, ContractAssumption
    <3>4. /\ f.operation.deadlineAt > f.operation.acceptedAt
          /\ f.operation.nextAttemptAt >= f.operation.acceptedAt
          /\ f.operation.nextAttemptAt <= f.operation.deadlineAt
          /\ f.operation.cleanupStartedAt >= f.operation.acceptedAt
          /\ f.operation.cleanupStartedAt <= f.operation.deadlineAt
      BY <2>1, <2>2, <2>3, <2>6
    <3> QED
      BY <2>5, <3>2, <3>3, <3>4 DEF ValidBounds
  <2>8. ValidPhases(f)
    BY <1>1, <1>2, <2>5, <2>6 DEF ValidPhases
  <2>9. ValidLeaseAuthorization(f) /\ ValidRevocation(f)
    BY <1>1, <2>6 DEF ValidLeaseAuthorization, ValidRevocation
  <2>10. ValidReady(f) /\ ValidTombstone(f)
    BY <2>5 DEF ValidReady, ValidTombstone
  <2> QED
    BY <2>4, <2>7, <2>8, <2>9, <2>10 DEF Validate, f, d
<1> QED
  BY <1>3, <1>4, <1>5

\* With the Container or the KubeVirt provider no stored aggregate stops the reconciler.
THEOREM ReconcilerNeverWedged ==
    ASSUME Provider = "container" PROVE AggregateSpec => []NeverWedged
BY ContainerInit, ContainerStep, ActiveCanEnd, PTL DEF AggregateSpec

\* With the Container or the KubeVirt provider resources are torn down only for an
\* environment meant to be deleted.
THEOREM TeardownIntended ==
    ASSUME Provider = "container" PROVE AggregateSpec => []TeardownIsIntended
<1>1. ContainerInv => TeardownIsIntended
  BY DEF ContainerInv, TeardownPhases, TeardownIsIntended
<1> QED
  BY <1>1, ContainerInit, ContainerStep, PTL DEF AggregateSpec

\* With the Container or the KubeVirt provider a healthy endpoint is published only in Ready.
THEOREM HealthyOnlyInReady ==
    ASSUME Provider = "container" PROVE AggregateSpec => []HealthyOnlyWhenReady
<1>1. ContainerInv => HealthyOnlyWhenReady
  BY DEF ContainerInv
<1> QED
  BY <1>1, ContainerInit, ContainerStep, PTL DEF AggregateSpec

\* The outcome of an operation is what became of the environment.
THEOREM OutcomeAlwaysTrue == AggregateSpec => []OutcomeIsTrue
BY SuccessIsConverged, TimeoutIsFailure, PTL DEF OutcomeIsTrue

\* With the Container or the KubeVirt provider an environment is torn down only on purpose and
\* offered to users only in Ready.
THEOREM RuntimeAlwaysAsIntended ==
    ASSUME Provider = "container" PROVE AggregateSpec => []RuntimeAsIntended
BY TeardownIntended, HealthyOnlyInReady, PTL DEF RuntimeAsIntended

\* A deletion is final and every other change of intent a new generation.
THEOREM IntentAlwaysHolds == AggregateSpec => IntentHolds
BY DeletedForGood, IntentFenced, PTL DEF IntentHolds

-----------------------------------------------------------------------------
(* An accepted operation is never a dead end *)

AdvancingKinds ==
    {"Create", "Start", "Stop", "Restart", "Freeze", "Cancel", "Delete", "Cleanup"}

\* The phases an operation goes through, with the intent it goes through them for: the three
\* tables (next_action, the provider's execute, validate_provider_observation) all have a row
\* for them.
InPhase(kind, state, desired) ==
    \/ state = "Deleting" /\ desired = "Deleted"
    \/ /\ desired = "Running"
       /\ \/ kind = "Create" /\ state \in {"Requested", "Validating", "Building", "Provisioning"}
          \/ kind = "Start" /\ state \in {"Stopped", "Provisioning"}
          \/ kind = "Restart" /\ state = "Provisioning"
          \/ kind = "Freeze" /\ state = "Updating"
    \/ kind = "Stop" /\ state = "Stopping" /\ desired = "Stopped"

\* An active operation of these kinds is in one of its phases, and an environment is Ready
\* only when it is meant to run, which is where a Freeze finds the intent it keeps.
PhaseInv ==
    /\ Active(env) /\ env.operation.kind \in AdvancingKinds =>
           InPhase(env.operation.kind, env.observedState, env.desiredState)
    /\ env.observedState = "Ready" => env.desiredState = "Running"

\* A created environment is in the first phase of Create.
LEMMA PhaseInit == AggregateInit => PhaseInv
BY DEF AggregateInit, CreatedInstance, PhaseInv, InPhase

\* An accepted command begins in the first phase of its operation.
LEMMA AcceptedInPhase ==
    ASSUME NEW e \in Instance, NEW kind \in OperationKinds \ {"Create"},
           EnsureOperationAllowed(e.observedState, kind),
           e.observedState = "Ready" => e.desiredState = "Running"
    PROVE  /\ kind \in AdvancingKinds =>
                  InPhase(kind, AcceptedObservedState(e, kind), DesiredState(e, kind))
           /\ AcceptedObservedState(e, kind) # "Ready"
<1>1. CASE kind \in RetryKinds
  <2>1. AcceptedObservedState(e, kind) = RetryResumeState(e.failedPhase)
    BY <1>1 DEF AcceptedObservedState, RetryKinds
  <2>2. RetryResumeState(e.failedPhase) # "Ready"
    BY DEF RetryResumeState
  <2> QED
    BY <1>1, <2>1, <2>2 DEF RetryKinds, AdvancingKinds
<1>2. CASE kind \notin RetryKinds
  BY <1>2 DEF AcceptedObservedState, DesiredState, InPhase, AdvancingKinds, OperationKinds,
              RetryKinds, DestructiveKinds, EnsureOperationAllowed
<1> QED
  BY <1>1, <1>2

\* Every step keeps an operation in its phases, whatever a Provider answers.
LEMMA PhaseStep == AggregateTypeOK /\ PhaseInv /\ [AggregateNext]_env => PhaseInv'
<1> SUFFICES ASSUME AggregateTypeOK, PhaseInv, [AggregateNext]_env PROVE PhaseInv'
  OBVIOUS
<1>0. env \in Instance /\ env.operation \in Operation
  BY DEF AggregateTypeOK, Instance
<1>1. ASSUME NEW c \in Command, NEW now \in Nat, Accept(c, now) PROVE PhaseInv'
  <2>1. /\ c.kind \in OperationKinds \ {"Create"}
        /\ EnsureOperationAllowed(env.observedState, c.kind)
    BY <1>1 DEF Accept, CommandAllowed, Command
  <2>2. /\ env'.operation.kind = c.kind
        /\ env'.desiredState = DesiredState(env, c.kind)
        /\ env'.observedState = AcceptedObservedState(env, c.kind)
    BY <1>0, <1>1, AcceptFields
  <2> QED
    BY <1>0, <2>1, <2>2, AcceptedInPhase DEF PhaseInv
<1>2. ASSUME NEW renewed \in LeaseAuthorization, NEW now \in Nat, Refresh(renewed, now)
      PROVE  PhaseInv'
  <2>1. LET o == [env.operation EXCEPT !.leaseAuthorization = renewed]
        IN  o.state = env.operation.state /\ o.kind = env.operation.kind
    BY <1>0 DEF Operation
  <2>2. /\ env'.observedState = env.observedState
        /\ env'.desiredState = env.desiredState
        /\ env'.operation.state = env.operation.state
        /\ env'.operation.kind = env.operation.kind
    BY <1>0, <1>2, <2>1, RefreshedFields DEF Refresh
  <2> QED
    BY <2>2 DEF PhaseInv, Active
<1>3. ASSUME NEW now \in Nat, BeginCleanup(now) PROVE PhaseInv'
  BY <1>0, <1>3, BeginCleanupFields DEF PhaseInv, InPhase
<1>4. ASSUME NEW obs \in Observation, NEW now \in Nat, Observe(obs, now) PROVE PhaseInv'
  <2>1. ValidateProviderObservation(env, obs) /\ Active(env)
    BY <1>4 DEF Observe, ObservationAccepted
  <2>2. /\ env'.operation.kind = env.operation.kind
        /\ env'.desiredState = env.desiredState
        /\ env'.observedState = obs.nextState
        /\ env'.operation.state = ObservedOperationState(env, obs)
    BY <1>0, <1>4, ObserveFields
  <2>3. Active(env)' => ~obs.operationComplete
    BY <2>2 DEF Active, ActiveOperationStates, ObservedOperationState
  <2>4. env.desiredState \in DesiredStates
    BY <1>0 DEF Instance
  <2>5. ASSUME ~obs.operationComplete, env.operation.kind \in AdvancingKinds
        PROVE  InPhase(env.operation.kind, obs.nextState, env.desiredState)
    BY <2>1, <2>4, <2>5
       DEF PhaseInv, InPhase, AdvancingKinds, ValidateProviderObservation,
           ObservationMatchesOperation, ExpireCleanupCheckpoint, TargetState, RetryKinds,
           DesiredStates
  <2>6. obs.nextState = "Ready" => env.desiredState = "Running"
    BY <2>1, <2>4
       DEF ValidateProviderObservation, ExpireCleanupCheckpoint, TargetState, DesiredStates
  <2> QED
    BY <2>2, <2>3, <2>5, <2>6 DEF PhaseInv
<1>5. ASSUME NEW code \in DiagnosticCodes, NEW now \in Nat, Retry(code, now) PROVE PhaseInv'
  <2>1. now + RetryDelay \in Nat /\ Active(env)
    BY <1>5, ProviderAssumption DEF Retry
  <2>2. /\ env'.observedState = env.observedState /\ env'.desiredState = env.desiredState
        /\ env'.operation.kind = env.operation.kind
    BY <1>0, <1>5, <2>1, RetryFields, RetriedOperationFields DEF Retry
  <2> QED
    BY <2>1, <2>2 DEF PhaseInv
<1>6. ASSUME NEW code \in DiagnosticCodes, Fail(code) PROVE PhaseInv'
  <2>1. env'.operation.state = "Failed" /\ env'.observedState = "Failed"
    BY <1>0, <1>6, FailureFields, FailedOperationFields DEF Fail
  <2> QED
    BY <2>1 DEF PhaseInv, Active, ActiveOperationStates
<1>7. CASE UNCHANGED env
  BY <1>7 DEF PhaseInv, Active
<1> QED
  BY <1>0, <1>1, <1>2, <1>3, <1>4, <1>5, <1>6, <1>7, NextCases

\* An answer that fits the operation, and is Ready or Deleted only with the endpoint or the
\* evidence these need, makes a valid aggregate.
LEMMA FittingAnswer ==
    ASSUME AggregateTypeOK, NEW obs \in Observation, env.failedPhase = NoPhase,
           ValidateProviderObservation(env, obs),
           obs.nextState \in {"Ready"} => obs = ReadyObservation(env),
           obs.nextState = "Deleted" => obs.cleanupEvidence,
           obs.nextState # "Failed"
    PROVE  ObservationAccepted(env, obs)
<1> DEFINE f == ApplyProviderObservation(env, obs)
           o == ObservedOperation(env, obs)
<1>1. env \in Instance /\ env.operation \in Operation /\ Validate(env)
  BY DEF AggregateTypeOK, Instance
<1>2. /\ f \in Instance
      /\ f.desiredState = env.desiredState
      /\ f.observedState = obs.nextState
      /\ f.revision = env.revision + 1
      /\ f.generation = env.generation
      /\ f.observedGeneration = IF obs.operationComplete THEN env.generation
                                ELSE env.observedGeneration
      /\ f.endpoints = obs.endpoints
      /\ f.failedPhase = env.failedPhase
      /\ f.cleanupEvidence = obs.cleanupEvidence
      /\ f.operation = o
  BY <1>1, ObservationFields
<1>3. /\ o.kind = env.operation.kind
      /\ o.attempt = env.operation.attempt
      /\ o.providerStep = IF obs.operationComplete THEN env.operation.providerStep
                          ELSE env.operation.providerStep + 1
      /\ o.nextAttemptAt = env.operation.nextAttemptAt
      /\ o.acceptedAt = env.operation.acceptedAt
      /\ o.deadlineAt = env.operation.deadlineAt
      /\ o.cleanupStartedAt = env.operation.cleanupStartedAt
      /\ o.revocationRecorded = env.operation.revocationRecorded
      /\ o.retryFromPhase = env.operation.retryFromPhase
      /\ o.leaseAuthorization = env.operation.leaseAuthorization
  BY <1>1, ObservedOperationFields
<1> HIDE DEF f, o
<1>4. ValidBounds(f)
  <2>1. ValidBounds(env)
    BY <1>1 DEF Validate
  <2>2. env.operation.providerStep \in Nat /\ env.generation \in Nat
    BY <1>1 DEF Instance, Operation
  <2>3. o.providerStep > 0
    BY <1>3, <2>1, <2>2 DEF ValidBounds
  <2>4. f.observedGeneration <= f.generation
    BY <1>2, <2>1, <2>2 DEF ValidBounds
  <2> QED
    BY <1>2, <1>3, <2>1, <2>3, <2>4 DEF ValidBounds
<1>5. ValidPhases(f) /\ ValidLeaseAuthorization(f) /\ ValidRevocation(f)
  BY <1>1, <1>2, <1>3 DEF Validate, ValidPhases, ValidLeaseAuthorization, ValidRevocation
<1>6. ValidReady(f)
  <2> SUFFICES ASSUME obs.nextState = "Ready"
               PROVE  ValidReady(f)
    BY <1>2 DEF ValidReady
  <2>1. /\ obs.endpoints = {[health |-> "Healthy", revision |-> env.revision + 1]}
        /\ obs.operationComplete
    BY DEF ReadyObservation
  <2> QED
    BY <1>2, <2>1 DEF ValidReady
<1>7. ValidTombstone(f)
  BY <1>2 DEF ValidTombstone
<1> QED
  BY <1>4, <1>5, <1>6, <1>7 DEF ObservationAccepted, Validate, f

\* In each of its phases an operation has an answer that moves it on.
LEMMA PhaseAdvances == AggregateTypeOK /\ PhaseInv => NoDeadEnd
<1> SUFFICES ASSUME AggregateTypeOK, PhaseInv, Active(env), env.operation.kind \in AdvancingKinds
             PROVE  ProviderCanAdvance
  BY DEF NoDeadEnd, AdvancingKinds
<1> DEFINE kind == env.operation.kind
           state == env.observedState
           action == NextAction(env)
<1>1. InPhase(kind, state, env.desiredState)
  BY DEF PhaseInv
<1>2. env.failedPhase = NoPhase /\ env.revision + 1 \in Nat
  BY <1>1 DEF AggregateTypeOK, Validate, ValidPhases, InPhase, Instance
<1>3. \A s \in ObservedStates, b \in BOOLEAN : NoEndpoints(s, b) \in Observation
  BY DEF NoEndpoints, Observation
<1>4. ReadyObservation(env) \in Observation
  BY <1>2 DEF ReadyObservation, Observation, Endpoint, EndpointHealth, ObservedStates
<1>5. DeletedObservation \in Observation
  BY DEF DeletedObservation, Observation, ObservedStates
<1>6. ASSUME NEW obs \in Observation, obs \in ProviderObservations(env, action),
             obs.nextState # state, ValidateProviderObservation(env, obs),
             obs.nextState \in {"Ready"} => obs = ReadyObservation(env),
             obs.nextState = "Deleted" => obs.cleanupEvidence, obs.nextState # "Failed"
      PROVE  ProviderCanAdvance
  BY <1>2, <1>6, FittingAnswer DEF ProviderCanAdvance
<1>7. /\ \A s \in {"Validating", "Building", "Provisioning", "Stopped"}, b \in BOOLEAN :
             NoEndpoints(s, b) \in RemoteObservations(env)
      /\ ReadyObservation(env) \in RemoteObservations(env)
      /\ DeletedObservation \in RemoteObservations(env)
  BY DEF NoEndpoints, ReadyObservation, DeletedObservation, RemoteObservations, ObservedStates
<1>8. \A obs : /\ obs \in ContainerObservations(env, action)
               /\ obs \in RemoteObservations(env)
               => obs \in ProviderObservations(env, action)
  BY DEF ProviderObservations
<1>9. CASE state = "Deleting" /\ env.desiredState = "Deleted"
  <2>1. action = "Cleanup"
    BY <1>9 DEF NextAction
  <2>2. DeletedObservation \in ContainerObservations(env, action)
    BY <1>9, <2>1 DEF ContainerObservations
  <2>3. /\ DeletedObservation.nextState = "Deleted" /\ DeletedObservation.cleanupEvidence
        /\ DeletedObservation.operationComplete = TRUE
    BY DEF DeletedObservation
  <2>4. ValidateProviderObservation(env, DeletedObservation)
    BY <1>9, <2>3 DEF ValidateProviderObservation, ObservationMatchesOperation, TargetState
  <2> QED
    BY <1>5, <1>6, <1>7, <1>8, <1>9, <2>2, <2>3, <2>4
<1>10. ASSUME NEW s \in {"Validating", "Building", "Provisioning"},
              NoEndpoints(s, FALSE) \in ContainerObservations(env, action),
              ObservationMatchesOperation(kind, state, s), state # s,
              env.desiredState \in {"Running", "Stopped"}
       PROVE  ProviderCanAdvance
  <2>1. NoEndpoints(s, FALSE).nextState = s /\ NoEndpoints(s, FALSE).operationComplete = FALSE
    BY DEF NoEndpoints
  <2>2. ValidateProviderObservation(env, NoEndpoints(s, FALSE))
    BY <1>10, <2>1 DEF ValidateProviderObservation, TargetState
  <2>3. NoEndpoints(s, FALSE) \in Observation
    BY <1>3 DEF ObservedStates
  <2> QED
    BY <1>6, <1>7, <1>8, <1>10, <2>1, <2>2, <2>3
<1>11. ASSUME RunningObservations(env) = ContainerObservations(env, action),
              ObservationMatchesOperation(kind, state, "Ready"), state # "Ready",
              env.desiredState = "Running"
       PROVE  ProviderCanAdvance
  <2>1. ReadyObservation(env).nextState = "Ready"
        /\ ReadyObservation(env).operationComplete = TRUE
    BY DEF ReadyObservation
  <2>2. ValidateProviderObservation(env, ReadyObservation(env))
    BY <1>11, <2>1 DEF ValidateProviderObservation, TargetState
  <2>3. ReadyObservation(env) \in ContainerObservations(env, action)
    BY <1>11 DEF RunningObservations
  <2> QED
    BY <1>4, <1>6, <1>7, <1>8, <1>11, <2>1, <2>2, <2>3
<1>12. CASE /\ kind = "Create" /\ env.desiredState = "Running"
            /\ state \in {"Requested", "Validating", "Building"}
  <2>1. CASE state = "Requested"
    BY <1>10, <1>12, <2>1
       DEF NextAction, ContainerObservations, ObservationMatchesOperation
  <2>2. CASE state = "Validating"
    BY <1>10, <1>12, <2>2
       DEF NextAction, ContainerObservations, ObservationMatchesOperation
  <2>3. CASE state = "Building"
    BY <1>10, <1>12, <2>3
       DEF NextAction, ContainerObservations, ObservationMatchesOperation
  <2> QED
    BY <1>12, <2>1, <2>2, <2>3
<1>13. CASE /\ kind \in {"Create", "Start", "Restart"} /\ env.desiredState = "Running"
            /\ state = "Provisioning"
  <2>1. action \in {"Provision", "Restart", "Observe"}
    BY <1>13 DEF NextAction, ProvisioningAction, RetryKinds
  <2>2. ContainerObservations(env, action) = RunningObservations(env)
    BY <1>13, <2>1 DEF ContainerObservations
  <2> QED
    BY <1>11, <1>13, <2>2 DEF ObservationMatchesOperation
<1>14. CASE kind = "Start" /\ env.desiredState = "Running" /\ state = "Stopped"
  <2>1. action = "Start"
    BY <1>14 DEF NextAction
  <2>2. ContainerObservations(env, action) = RunningObservations(env)
    BY <1>14, <2>1 DEF ContainerObservations
  <2> QED
    BY <1>11, <1>14, <2>2 DEF ObservationMatchesOperation
<1>15. CASE kind = "Freeze" /\ env.desiredState = "Running" /\ state = "Updating"
  <2>1. action = "Observe"
    BY <1>15 DEF NextAction, RetryKinds
  <2>2. ContainerObservations(env, action) = RunningObservations(env)
    BY <1>15, <2>1 DEF ContainerObservations
  <2> QED
    BY <1>11, <1>15, <2>2 DEF ObservationMatchesOperation
<1>16. CASE kind = "Stop" /\ env.desiredState = "Stopped" /\ state = "Stopping"
  <2> DEFINE obs == NoEndpoints("Stopped", TRUE)
  <2>1. action = "Stop"
    BY <1>16 DEF NextAction
  <2>2. obs \in ContainerObservations(env, action)
    BY <1>16, <2>1 DEF ContainerObservations
  <2>3. obs.nextState = "Stopped" /\ obs.operationComplete = TRUE
    BY DEF NoEndpoints
  <2>4. obs \in Observation /\ obs \in RemoteObservations(env)
    BY <1>3, <1>7 DEF ObservedStates
  <2> HIDE DEF obs
  <2>5. ValidateProviderObservation(env, obs)
    BY <1>16, <2>3 DEF ValidateProviderObservation, ObservationMatchesOperation, TargetState
  <2> QED
    BY <1>6, <1>8, <1>16, <2>2, <2>3, <2>4, <2>5
<1> QED
  BY <1>1, <1>9, <1>12, <1>13, <1>14, <1>15, <1>16 DEF InPhase

\* Whatever happened before, the Provider can answer an active Create, Start, Stop, Restart,
\* Freeze, Cancel, Delete or Cleanup so that the environment moves on.  Nothing is said of
\* Reset, Expire, Retry and Recover, and of a Reset accepted in Stopped it would be false.
THEOREM NeverDeadEnd == AggregateSpec => []NoDeadEnd
BY TypeInit, TypeStep, PhaseInit, PhaseStep, PhaseAdvances, PTL DEF AggregateSpec

-----------------------------------------------------------------------------
(***************************************************************************)
(* Resource requests, Leases and capacity claims.                          *)
(***************************************************************************)

\* The Lease has left Allocating; it will not authorise any more; the shell was provided.
Started == {"Active", "Expiring", "Expired", "Revoked"}

Ending == {"Expiring", "Expired", "Revoked"}

Provided == {"Ready", "Blocked", "HandedOff", "Releasing", "Released"}

\* The four rows about a request agree.
Consistent(r) ==
    /\ Agree(requests[r], leases[r].state, claims[r].state)
    /\ claims[r].state = "Released" => environments[r].state = "Deleted"
    /\ environments[r].state # "None" => leases[r].state \in Started
    /\ environments[r].leaseRevision <= leases[r].revision
    /\ claims[r].synced <= environments[r].leaseRevision
    /\ environments[r].state = "None" => environments[r].leaseRevision = 0

\* What a worker may still rely on of what it read: nothing that can be taken back.
Informed(w) ==
    workers[w].pc \notin Between =>
        /\ workers[w].leaseRevision <= leases[Item(w)].revision
        /\ workers[w].pc = "activate" => claims[Item(w)].state \in Provided
        /\ workers[w].pc \in {"call", "accepted"} => leases[Item(w)].state \in Started
        /\ workers[w].pc \in {"expire", "delete", "release"} => leases[Item(w)].state \in Ending
        /\ workers[w].pc \in {"verify", "complete"} => environments[Item(w)].state = "Deleted"
        /\ workers[w].pc = "synced" =>
               workers[w].leaseRevision <= environments[Item(w)].leaseRevision

ResourceInv ==
    /\ TypeOK
    /\ \A r \in Requests : Consistent(r)
    /\ \A w \in Workers : Informed(w)

\* What no step takes back.
Advances(r) ==
    /\ leases[r].revision <= leases'[r].revision
    /\ leases[r].state \in Started => leases'[r].state \in Started
    /\ leases[r].state \in Ending => leases'[r].state \in Ending
    /\ claims[r].state \in Provided => claims'[r].state \in Provided
    /\ environments[r].state = "Deleted" => environments'[r].state = "Deleted"
    /\ environments[r].leaseRevision <= environments'[r].leaseRevision

\* The rows about a request stay as they are.
Untouched(r) ==
    /\ requests'[r] = requests[r]
    /\ leases'[r] = leases[r]
    /\ claims'[r] = claims[r]
    /\ environments'[r] = environments[r]

-----------------------------------------------------------------------------

\* Nothing is stored and no worker has read anything.
LEMMA InitResource == Init => ResourceInv
<1> SUFFICES ASSUME Init PROVE ResourceInv
    OBVIOUS
<1>1. AtPoint("idle") \in Worker
    BY DEF AtPoint, Worker, Between
<1>2. TypeOK
    BY <1>1 DEF Init, TypeOK, RequestStates, Lease, LeaseStates, Claim, ClaimStates, AttemptSteps,
              Absent, Environment, EnvironmentStates
<1>3. ASSUME NEW r \in Requests PROVE Consistent(r)
    <2>1. requests[r] = "None" /\ leases[r].state = "None" /\ leases[r].revision = 0
        BY DEF Init
    <2>2. claims[r].state = "None" /\ claims[r].synced = 0
        BY DEF Init
    <2>3. environments[r].state = "None" /\ environments[r].leaseRevision = 0
        BY DEF Init
    <2> QED BY <2>1, <2>2, <2>3 DEF Consistent, Agree, Started
<1>4. \A w \in Workers : Informed(w)
    BY DEF Init, Informed, AtPoint, Between
<1> QED BY <1>2, <1>3, <1>4 DEF ResourceInv

\* The fields of the rows have their types.
LEMMA RowFields ==
    ASSUME TypeOK, NEW r \in Requests
    PROVE  /\ requests[r] \in RequestStates
           /\ leases[r].state \in LeaseStates
           /\ leases[r].revision \in Nat
           /\ leases[r].revoked \in BOOLEAN
           /\ claims[r].state \in ClaimStates
           /\ claims[r].revision \in Nat
           /\ claims[r].synced \in Nat
           /\ environments[r].state \in EnvironmentStates
           /\ environments[r].leaseRevision \in Nat
BY DEF TypeOK, Lease, Claim, Environment

\* A worker that is not between two items has read one.
LEMMA WorkerFields ==
    ASSUME TypeOK, NEW w \in Workers, workers[w].pc \notin Between
    PROVE  /\ Item(w) \in Requests
           /\ workers[w].item \in Requests
           /\ workers[w].claimRevision \in Nat
           /\ workers[w].leaseRevision \in Nat
           /\ workers[w].pc \in Points
BY DEF TypeOK, Worker, Item

\* A worker ends with an item.
LEMMA BetweenTo ==
    ASSUME TypeOK, NEW w \in Workers, NEW pc \in Between, Move(w, AtPoint(pc))
    PROVE  /\ workers' \in [Workers -> Worker]
           /\ Informed(w)'
           /\ \A v \in Workers : v # w => workers'[v] = workers[v]
<1>1. AtPoint(pc) \in Worker
    BY DEF AtPoint, Worker
<1>2. workers' = [workers EXCEPT ![w] = AtPoint(pc)]
    BY DEF Move
<1>3. workers'[w] = AtPoint(pc) /\ AtPoint(pc).pc = pc
    BY <1>2 DEF TypeOK, AtPoint
<1>4. workers' \in [Workers -> Worker] /\ \A v \in Workers : v # w => workers'[v] = workers[v]
    BY <1>1, <1>2 DEF TypeOK
<1> QED BY <1>3, <1>4 DEF Informed

\* A worker reads an item.
LEMMA ItemTo ==
    ASSUME TypeOK, NEW w \in Workers, NEW pc \in Points \ Between, NEW r \in Requests,
           NEW a \in Nat, NEW b \in Nat, Move(w, WithItem(pc, r, a, b))
    PROVE  /\ workers' \in [Workers -> Worker]
           /\ workers'[w].pc = pc
           /\ workers'[w].item = r
           /\ workers'[w].leaseRevision = b
           /\ \A v \in Workers : v # w => workers'[v] = workers[v]
<1>1. WithItem(pc, r, a, b) \in Worker
    BY DEF WithItem, Worker
<1>2. workers' = [workers EXCEPT ![w] = WithItem(pc, r, a, b)]
    BY DEF Move
<1>3. workers'[w] = WithItem(pc, r, a, b)
    BY <1>2 DEF TypeOK
<1>4. workers' \in [Workers -> Worker] /\ \A v \in Workers : v # w => workers'[v] = workers[v]
    BY <1>1, <1>2 DEF TypeOK
<1> QED BY <1>3, <1>4 DEF WithItem

\* A worker goes on with its item.
LEMMA StepTo ==
    ASSUME TypeOK, NEW w \in Workers, NEW pc \in Points \ Between, workers[w].pc \notin Between,
           Step(w, pc)
    PROVE  /\ workers' \in [Workers -> Worker]
           /\ workers'[w].pc = pc
           /\ workers'[w].item = workers[w].item
           /\ workers'[w].leaseRevision = workers[w].leaseRevision
           /\ \A v \in Workers : v # w => workers'[v] = workers[v]
BY WorkerFields, ItemTo DEF Step

\* The transaction that writes a Lease.
LEMMA LeaseWritten ==
    ASSUME TypeOK, NEW r \in Requests, NEW state \in LeaseStates, NEW revoked \in BOOLEAN,
           SetLease(r, state, revoked)
    PROVE  /\ leases' \in [Requests -> Lease]
           /\ leases'[r].state = state
           /\ leases'[r].revision = leases[r].revision + 1
           /\ \A q \in Requests : q # r => leases'[q] = leases[q]
<1> DEFINE row == [state |-> state, revision |-> leases[r].revision + 1, revoked |-> revoked]
<1>1. row \in Lease
    BY RowFields DEF Lease
<1>2. leases' = [leases EXCEPT ![r] = row]
    BY DEF SetLease
<1>3. leases'[r] = row
    BY <1>2 DEF TypeOK
<1> QED BY <1>1, <1>2, <1>3 DEF TypeOK

\* The transaction that writes a claim.
LEMMA ClaimWritten ==
    ASSUME TypeOK, NEW r \in Requests, NEW state \in ClaimStates, NEW n \in Nat,
           SetClaim(r, state, n)
    PROVE  /\ claims' \in [Requests -> Claim]
           /\ claims'[r].state = state
           /\ claims'[r].revision = claims[r].revision + n
           /\ claims'[r].synced = claims[r].synced
           /\ \A q \in Requests : q # r => claims'[q] = claims[q]
<1> DEFINE row == [state |-> state, revision |-> claims[r].revision + n, synced |-> claims[r].synced]
<1>1. row \in Claim
    BY RowFields DEF Claim
<1>2. claims' = [claims EXCEPT ![r] = row]
    BY DEF SetClaim
<1>3. claims'[r] = row
    BY <1>2 DEF TypeOK
<1> QED BY <1>1, <1>2, <1>3 DEF TypeOK

\* The Environment Service writes an environment.
LEMMA EnvironmentWritten ==
    ASSUME TypeOK, NEW r \in Requests, NEW state \in EnvironmentStates, NEW n \in Nat,
           SetEnvironment(r, state, n)
    PROVE  /\ environments' \in [Requests -> Environment]
           /\ environments'[r].state = state
           /\ environments'[r].leaseRevision = n
           /\ \A q \in Requests : q # r => environments'[q] = environments[q]
<1> DEFINE row == [state |-> state, leaseRevision |-> n]
<1>1. row \in Environment
    BY DEF Environment
<1>2. environments' = [environments EXCEPT ![r] = row]
    BY DEF SetEnvironment
<1>3. environments'[r] = row
    BY <1>2 DEF TypeOK
<1> QED BY <1>1, <1>2, <1>3 DEF TypeOK

\* A failed attempt is counted.
LEMMA FailureCounted ==
    ASSUME TypeOK, NEW r \in Requests, NEW step \in AttemptSteps, CountFailure(r, step)
    PROVE  attempts' \in [Requests -> [AttemptSteps -> Nat]]
<1>1. attempts[r] \in [AttemptSteps -> Nat]
    BY DEF TypeOK
<1>2. [attempts[r] EXCEPT ![step] = attempts[r][step] + 1] \in [AttemptSteps -> Nat]
    BY <1>1
<1> QED BY <1>2 DEF TypeOK, CountFailure

-----------------------------------------------------------------------------

\* What a worker relies on stays true while others move.
LEMMA InformedKept ==
    ASSUME ResourceInv, NEW w \in Workers, workers'[w] = workers[w], TypeOK',
           \A r \in Requests : Advances(r)
    PROVE  Informed(w)'
<1> SUFFICES ASSUME workers[w].pc \notin Between PROVE Informed(w)'
    BY DEF Informed
<1>1. Item(w) \in Requests /\ Item(w)' = Item(w) /\ workers[w].leaseRevision \in Nat
    BY WorkerFields DEF ResourceInv, Item
<1>2. Advances(Item(w)) /\ Informed(w)
    BY <1>1 DEF ResourceInv
<1>3. /\ leases[Item(w)].revision \in Nat /\ leases'[Item(w)].revision \in Nat
      /\ environments[Item(w)].leaseRevision \in Nat
      /\ environments'[Item(w)].leaseRevision \in Nat
    BY <1>1 DEF ResourceInv, TypeOK, Lease, Environment
<1> QED BY <1>1, <1>2, <1>3 DEF Advances, Informed, Item

\* A step that touches the rows about one request, and one worker at most.
LEMMA RowStep ==
    ASSUME ResourceInv, TypeOK', NEW r \in Requests,
           \A q \in Requests : q # r => Untouched(q),
           Consistent(r)', Advances(r),
           \A w \in Workers : workers'[w] = workers[w] \/ Informed(w)'
    PROVE  ResourceInv'
<1>1. \A q \in Requests : q # r => Consistent(q)' /\ Advances(q)
    BY RowFields DEF ResourceInv, Consistent, Untouched, Advances
<1>2. \A q \in Requests : Consistent(q)' /\ Advances(q)
    BY <1>1
<1>3. \A w \in Workers : Informed(w)'
    BY <1>2, InformedKept
<1> QED BY <1>2, <1>3 DEF ResourceInv

\* A step that writes none of the rows that have to agree.
LEMMA LocalStep ==
    ASSUME ResourceInv,
           UNCHANGED <<requests, leases, claims, environments>>,
           attempts' \in [Requests -> [AttemptSteps -> Nat]],
           due' \subseteq Requests, stale' \subseteq Requests, waiting' \subseteq Requests,
           namespaces' \in [Requests -> Nat], stops' \in Nat,
           workers' \in [Workers -> Worker],
           \A w \in Workers : workers'[w] = workers[w] \/ Informed(w)'
    PROVE  ResourceInv'
<1>1. TypeOK'
    BY DEF ResourceInv, TypeOK
<1>2. \A q \in Requests : Consistent(q)' /\ Advances(q)
    BY RowFields DEF ResourceInv, Consistent, Advances
<1>3. \A w \in Workers : Informed(w)'
    BY <1>1, <1>2, InformedKept
<1> QED BY <1>1, <1>2, <1>3 DEF ResourceInv

\* A step of one worker that writes no row and no timer.
LEMMA WorkerMoves ==
    ASSUME ResourceInv, NEW w \in Workers,
           UNCHANGED <<rows, timers, environments>>,
           namespaces' \in [Requests -> Nat], stops' \in Nat,
           workers' \in [Workers -> Worker],
           \A v \in Workers : v # w => workers'[v] = workers[v],
           Informed(w)'
    PROVE  ResourceInv'
<1>1. /\ UNCHANGED <<requests, leases, claims, environments>>
      /\ attempts' \in [Requests -> [AttemptSteps -> Nat]]
      /\ due' \subseteq Requests /\ stale' \subseteq Requests /\ waiting' \subseteq Requests
    BY DEF rows, timers, ResourceInv, TypeOK
<1>2. \A v \in Workers : workers'[v] = workers[v] \/ Informed(v)'
    OBVIOUS
<1> QED BY <1>1, <1>2, LocalStep

\* A worker stops with its item, for whatever reason.
LEMMA WorkerLeaves ==
    ASSUME ResourceInv, NEW w \in Workers, NEW pc \in Between, Move(w, AtPoint(pc)),
           UNCHANGED <<rows, timers, environments>>,
           namespaces' \in [Requests -> Nat], stops' \in Nat
    PROVE  ResourceInv'
<1>1. TypeOK
    BY DEF ResourceInv
<1>2. /\ workers' \in [Workers -> Worker]
      /\ Informed(w)'
      /\ \A v \in Workers : v # w => workers'[v] = workers[v]
    BY <1>1, BetweenTo
<1> QED BY <1>2, WorkerMoves

\* A worker goes on with its item and learns nothing it will rely on.
LEMMA WorkerGoesOn ==
    ASSUME ResourceInv, NEW w \in Workers, workers[w].pc \notin Between,
           NEW pc \in {"ready", "blocked", "rejected", "refused", "expireFailed", "releaseFailed"},
           Step(w, pc),
           UNCHANGED <<rows, timers, environments>>,
           namespaces' \in [Requests -> Nat], stops' \in Nat
    PROVE  ResourceInv'
<1>1. TypeOK /\ Informed(w) /\ pc \in Points \ Between
    BY DEF ResourceInv, Points, Between
<1>2. /\ workers' \in [Workers -> Worker]
      /\ workers'[w].pc = pc
      /\ workers'[w].item = workers[w].item
      /\ workers'[w].leaseRevision = workers[w].leaseRevision
      /\ \A v \in Workers : v # w => workers'[v] = workers[v]
    BY <1>1, StepTo
<1>3. Informed(w)'
    BY <1>1, <1>2 DEF Informed, Item, rows
<1> QED BY <1>2, <1>3, WorkerMoves

\* A transaction of a worker that writes the claim and not the other rows.
LEMMA ClaimStep ==
    ASSUME ResourceInv, NEW w \in Workers, NEW r \in Requests,
           NEW state \in ClaimStates \ {"None", "Released"}, NEW n \in Nat, SetClaim(r, state, n),
           Agree(requests[r], leases[r].state, state),
           claims[r].state \in Provided => state \in Provided,
           UNCHANGED <<requests, leases, environments, due, waiting, namespaces, stops>>,
           attempts' \in [Requests -> [AttemptSteps -> Nat]],
           stale' \subseteq Requests,
           workers' \in [Workers -> Worker],
           \A v \in Workers : v # w => workers'[v] = workers[v],
           Informed(w)'
    PROVE  ResourceInv'
<1>1. /\ claims' \in [Requests -> Claim]
      /\ claims'[r].state = state
      /\ claims'[r].synced = claims[r].synced
      /\ \A q \in Requests : q # r => claims'[q] = claims[q]
    BY ClaimWritten DEF ResourceInv
<1>2. TypeOK'
    BY <1>1 DEF ResourceInv, TypeOK
<1>3. \A q \in Requests : q # r => Untouched(q)
    BY <1>1 DEF Untouched
<1>4. Consistent(r)
    BY DEF ResourceInv
<1>5. Consistent(r)'
    BY <1>1, <1>4 DEF Consistent
<1>6. Advances(r)
    BY <1>1, RowFields DEF Advances, ResourceInv
<1>7. \A v \in Workers : workers'[v] = workers[v] \/ Informed(v)'
    OBVIOUS
<1> QED BY <1>2, <1>3, <1>5, <1>6, <1>7, RowStep

\* The Environment Service writes an environment, and the rows of Resource stay.
LEMMA EnvironmentStep ==
    ASSUME ResourceInv, NEW r \in Requests, NEW state \in EnvironmentStates \ {"None"}, NEW n \in Nat,
           SetEnvironment(r, state, n),
           leases[r].state \in Started,
           environments[r].leaseRevision <= n, n <= leases[r].revision,
           environments[r].state = "Deleted" => state = "Deleted",
           UNCHANGED <<rows, timers, stops>>,
           namespaces' \in [Requests -> Nat],
           workers' \in [Workers -> Worker],
           \A w \in Workers : workers'[w] = workers[w] \/ Informed(w)'
    PROVE  ResourceInv'
<1>1. /\ environments' \in [Requests -> Environment]
      /\ environments'[r].state = state
      /\ environments'[r].leaseRevision = n
      /\ \A q \in Requests : q # r => environments'[q] = environments[q]
    BY EnvironmentWritten DEF ResourceInv
<1>2. TypeOK'
    BY <1>1 DEF ResourceInv, TypeOK, rows, timers
<1>3. \A q \in Requests : q # r => Untouched(q)
    BY <1>1 DEF Untouched, rows
<1>4. Consistent(r)
    BY DEF ResourceInv
<1>5. Consistent(r)'
    BY <1>1, <1>4, RowFields DEF Consistent, ResourceInv, rows
<1>6. Advances(r)
    BY <1>1, RowFields DEF Advances, ResourceInv, rows
<1> QED BY <1>2, <1>3, <1>5, <1>6, RowStep

-----------------------------------------------------------------------------
(* The owner and the administrator *)

\* A request is created, closed or reopened before it has a Lease.
LEMMA RequestStep ==
    ASSUME ResourceInv, NEW r \in Requests,
           NEW from \in {"None", "Reviewing", "Rejected"}, requests[r] = from,
           NEW to \in {"Reviewing", "Rejected", "Cancelled"}, SetRequest(r, to),
           UNCHANGED <<leases, claims, attempts, timers, outside, workers, stops>>
    PROVE  ResourceInv'
<1>1. /\ requests' \in [Requests -> RequestStates]
      /\ requests'[r] = to
      /\ \A q \in Requests : q # r => requests'[q] = requests[q]
    BY DEF ResourceInv, TypeOK, SetRequest, RequestStates
<1>2. TypeOK'
    BY <1>1 DEF ResourceInv, TypeOK, timers, outside
<1>3. \A q \in Requests : q # r => Untouched(q)
    BY <1>1 DEF Untouched, outside
<1>4. Consistent(r)
    BY DEF ResourceInv
<1>5. Consistent(r)'
    BY <1>1, <1>4 DEF Consistent, Agree, outside
<1>6. Advances(r)
    BY RowFields DEF Advances, ResourceInv, outside
<1> QED BY <1>2, <1>3, <1>5, <1>6, RowStep

\* The approval writes the request, the Lease and the claim.
LEMMA ApproveStep ==
    ASSUME ResourceInv, NEW r \in Requests, Approve(r)
    PROVE  ResourceInv'
<1> USE DEF Approve
<1>1. /\ requests' \in [Requests -> RequestStates]
      /\ requests'[r] = "Allocating"
      /\ \A q \in Requests : q # r => requests'[q] = requests[q]
    BY DEF ResourceInv, TypeOK, SetRequest, RequestStates
<1>2. /\ leases' \in [Requests -> Lease]
      /\ leases'[r].state = "Allocating"
      /\ leases'[r].revision = leases[r].revision + 1
      /\ \A q \in Requests : q # r => leases'[q] = leases[q]
    BY LeaseWritten DEF ResourceInv, LeaseStates
<1>3. /\ claims' \in [Requests -> Claim]
      /\ claims'[r].state = "Reserved"
      /\ claims'[r].synced = claims[r].synced
      /\ \A q \in Requests : q # r => claims'[q] = claims[q]
    BY ClaimWritten DEF ResourceInv, ClaimStates
<1>4. TypeOK'
    BY <1>1, <1>2, <1>3 DEF ResourceInv, TypeOK, timers, outside
<1>5. \A q \in Requests : q # r => Untouched(q)
    BY <1>1, <1>2, <1>3 DEF Untouched, outside
<1>6. Consistent(r) /\ leases[r].state = "None" /\ claims[r].state = "None"
    BY DEF ResourceInv, Consistent, Agree
<1>7. Consistent(r)'
    BY <1>1, <1>2, <1>3, <1>6, RowFields DEF ResourceInv, Consistent, Agree, Started, outside
<1>8. Advances(r)
    BY <1>2, <1>3, <1>6, RowFields DEF Advances, ResourceInv, Started, Ending, Provided, outside
<1> QED BY <1>4, <1>5, <1>7, <1>8, RowStep

\* A renewal keeps the Lease Active.
LEMMA RenewStep ==
    ASSUME ResourceInv, NEW r \in Requests, RenewLease(r)
    PROVE  ResourceInv'
<1> USE DEF RenewLease
<1>1. /\ leases' \in [Requests -> Lease]
      /\ leases'[r].state = "Active"
      /\ leases'[r].revision = leases[r].revision + 1
      /\ \A q \in Requests : q # r => leases'[q] = leases[q]
    BY LeaseWritten DEF ResourceInv, LeaseStates
<1>2. TypeOK'
    BY <1>1 DEF ResourceInv, TypeOK, outside
<1>3. \A q \in Requests : q # r => Untouched(q)
    BY <1>1 DEF Untouched, outside
<1>4. Consistent(r)
    BY DEF ResourceInv
<1>5. Consistent(r)'
    BY <1>1, <1>4, RowFields DEF ResourceInv, Consistent, Agree, Started, outside
<1>6. Advances(r)
    BY <1>1, RowFields DEF Advances, ResourceInv, Started, Ending, outside
<1> QED BY <1>2, <1>3, <1>5, <1>6, RowStep

\* The beginning of an expiry, by a revocation or by a worker that finds the Lease due.
LEMMA ExpiryBegun ==
    ASSUME ResourceInv, NEW r \in Requests, NEW revoked \in BOOLEAN,
           leases[r].state \in {"Allocating", "Active", "Expiring"}, BeginExpiry(r, revoked),
           UNCHANGED <<claims, environments>>
    PROVE  /\ requests' \in [Requests -> RequestStates]
           /\ leases' \in [Requests -> Lease]
           /\ leases'[r].state = "Expiring"
           /\ leases'[r].revision = leases[r].revision + 1
           /\ \A q \in Requests : q # r => Untouched(q)
           /\ Consistent(r)'
           /\ Advances(r)
<1> USE DEF BeginExpiry
<1>1. /\ requests' \in [Requests -> RequestStates]
      /\ requests'[r] = "Expiring"
      /\ \A q \in Requests : q # r => requests'[q] = requests[q]
    BY DEF ResourceInv, TypeOK, SetRequest, RequestStates
<1>2. /\ leases' \in [Requests -> Lease]
      /\ leases'[r].state = "Expiring"
      /\ leases'[r].revision = leases[r].revision + 1
      /\ \A q \in Requests : q # r => leases'[q] = leases[q]
    BY LeaseWritten DEF ResourceInv, LeaseStates
<1>3. \A q \in Requests : q # r => Untouched(q)
    BY <1>1, <1>2 DEF Untouched
<1>4. Consistent(r)
    BY DEF ResourceInv
<1>5. Consistent(r)'
    BY <1>1, <1>2, <1>4, RowFields DEF ResourceInv, Consistent, Agree, Started
<1>6. Advances(r)
    BY <1>2, RowFields DEF Advances, ResourceInv, Started, Ending
<1> QED BY <1>1, <1>2, <1>3, <1>5, <1>6

\* A revocation.
LEMMA RevokeStep ==
    ASSUME ResourceInv, NEW r \in Requests, RevokeLease(r)
    PROVE  ResourceInv'
<1> USE DEF RevokeLease
<1>1. UNCHANGED <<claims, environments, workers>>
    BY DEF outside
<1>2. /\ requests' \in [Requests -> RequestStates]
      /\ leases' \in [Requests -> Lease]
      /\ \A q \in Requests : q # r => Untouched(q)
      /\ Consistent(r)'
      /\ Advances(r)
    BY <1>1, ExpiryBegun
<1>3. TypeOK'
    BY <1>2 DEF ResourceInv, TypeOK, timers, outside
<1> QED BY <1>1, <1>2, <1>3, RowStep

\* Every request of the owner and the administrator.
LEMMA ApiSteps ==
    ASSUME ResourceInv, NEW r \in Requests, ApiStep(r)
    PROVE  ResourceInv'
<1>1. CASE CreateRequest(r)
    BY <1>1, RequestStep DEF CreateRequest
<1>2. CASE Approve(r)
    BY <1>2, ApproveStep
<1>3. CASE RetryRequest(r)
    BY <1>3, RequestStep DEF RetryRequest
<1>4. CASE RenewLease(r)
    BY <1>4, RenewStep
<1>5. CASE RevokeLease(r)
    BY <1>5, RevokeStep
<1>6. CASE \E terminal \in {"Rejected", "Cancelled"} : CloseRequest(r, terminal)
    BY <1>6, RequestStep DEF CloseRequest
<1> QED BY <1>1, <1>2, <1>3, <1>4, <1>5, <1>6 DEF ApiStep

-----------------------------------------------------------------------------
(* Time, Kubernetes and the Environment Service *)

\* Nothing that happens outside Resource takes anything back.
LEMMA OutsideSteps ==
    ASSUME ResourceInv, NEW r \in Requests, OutsideStep(r)
    PROVE  ResourceInv'
<1>1. CASE LeaseFallsDue(r)
    BY <1>1, LocalStep DEF LeaseFallsDue, ResourceInv, TypeOK, rows, outside
<1>2. CASE ShellGoesStale(r)
    BY <1>2, LocalStep DEF ShellGoesStale, ResourceInv, TypeOK, rows, outside
<1>3. CASE RetryFallsDue(r)
    BY <1>3, LocalStep DEF RetryFallsDue, ResourceInv, TypeOK, rows, outside
<1>5. environments[r].state # "None" => leases[r].state \in Started
    BY DEF ResourceInv, Consistent
<1>6. environments[r].leaseRevision \in Nat /\ environments[r].leaseRevision <= leases[r].revision
    BY RowFields DEF ResourceInv, Consistent
<1>7. ASSUME NEW from, "None" \notin from, "Deleted" \notin from,
             NEW to \in {"Expiring", "Failed"}, EnvironmentMoves(r, from, to)
      PROVE  ResourceInv'
    <2>1. /\ environments[r].state # "None" /\ environments[r].state # "Deleted"
          /\ to \in EnvironmentStates \ {"None"}
        BY <1>7 DEF EnvironmentMoves, EnvironmentStates
    <2>2. /\ SetEnvironment(r, to, environments[r].leaseRevision)
          /\ UNCHANGED <<rows, timers, stops>>
          /\ namespaces' \in [Requests -> Nat]
          /\ workers' \in [Workers -> Worker]
          /\ workers' = workers
        BY <1>7 DEF EnvironmentMoves, ResourceInv, TypeOK
    <2> QED BY <1>5, <1>6, <2>1, <2>2, EnvironmentStep
<1>8. CASE EnvironmentExpires(r)
    BY <1>8, <1>7 DEF EnvironmentExpires
<1>9. CASE EnvironmentFails(r)
    BY <1>9, <1>7 DEF EnvironmentFails
<1>10. CASE EnvironmentDeleted(r)
    <2>1. namespaces' \in [Requests -> Nat]
        BY <1>10 DEF EnvironmentDeleted, SetNamespace, ResourceInv, TypeOK, Absent
    <2>2. environments[r].state = "Expiring" /\ "Deleted" \in EnvironmentStates \ {"None"}
        BY <1>10 DEF EnvironmentDeleted, EnvironmentStates
    <2>3. /\ SetEnvironment(r, "Deleted", environments[r].leaseRevision)
          /\ UNCHANGED <<rows, timers, stops>>
          /\ workers' \in [Workers -> Worker]
          /\ workers' = workers
        BY <1>10 DEF EnvironmentDeleted, ResourceInv, TypeOK
    <2> QED BY <1>5, <1>6, <2>1, <2>2, <2>3, EnvironmentStep
<1> QED BY <1>1, <1>2, <1>3, <1>8, <1>9, <1>10 DEF OutsideStep

-----------------------------------------------------------------------------
(* The quota shell *)

\* A worker takes a shell to provide, provides it and records what came of it.
LEMMA ShellSteps ==
    ASSUME ResourceInv, NEW w \in Workers, ShellStep(w)
    PROVE  ResourceInv'
<1> USE DEF At
<1>1. TypeOK /\ Informed(w)
    BY DEF ResourceInv
<1>2. ASSUME NEW r \in Requests, ClaimShell(w, r) PROVE ResourceInv'
    <2> DEFINE n == IF claims[r].state = "Reserved" THEN 1 ELSE 2
    <2>1. SetClaim(r, "Provisioning", n) /\ n \in Nat /\ "Provisioning" \in ClaimStates \ {"None", "Released"}
        BY <1>2 DEF ClaimShell, ClaimStates
    <2>2. claims'[r].revision \in Nat /\ leases[r].revision \in Nat
        BY <1>1, <2>1, RowFields, ClaimWritten
    <2>3. /\ workers' \in [Workers -> Worker]
          /\ workers'[w].pc = "reserve"
          /\ workers'[w].item = r
          /\ workers'[w].leaseRevision = leases[r].revision
          /\ \A v \in Workers : v # w => workers'[v] = workers[v]
        BY <1>1, <1>2, <2>2, ItemTo DEF ClaimShell, Points, Between
    <2>4. UNCHANGED <<requests, leases, environments, due, waiting, namespaces, stops, attempts>>
        BY <1>2 DEF ClaimShell, outside
    <2>5. Informed(w)'
        BY <2>2, <2>3, <2>4 DEF Informed, Item
    <2>6. Consistent(r) /\ requests[r] \in RequestStates
        BY <1>1, RowFields DEF ResourceInv
    <2>7. leases[r].state = "Allocating" /\ claims[r].state \notin Provided
        BY <1>2 DEF ClaimShell, ShellRow, Provided
    <2>8. Agree(requests[r], leases[r].state, "Provisioning")
        BY <2>6, <2>7 DEF Consistent, Agree, RequestStates
    <2>9. stale' \subseteq Requests /\ attempts' \in [Requests -> [AttemptSteps -> Nat]]
        BY <1>1, <1>2, <2>4 DEF ClaimShell, TypeOK
    <2> HIDE DEF n
    <2> QED BY <2>1, <2>3, <2>4, <2>5, <2>7, <2>8, <2>9, ClaimStep
<1>3. CASE NoShell(w)
    BY <1>3, <1>1, WorkerLeaves DEF NoShell, Between, TypeOK, outside
<1>4. CASE RejectPlan(w)
    BY <1>4, <1>1, WorkerGoesOn DEF RejectPlan, Between, TypeOK, outside
<1>5. CASE Reserve(w)
    <2>1. namespaces' \in [Requests -> Nat]
        BY <1>5, <1>1, WorkerFields DEF Reserve, SetNamespace, TypeOK, Absent, Between
    <2> QED BY <1>5, <1>1, <2>1, WorkerGoesOn DEF Reserve, Between, TypeOK
<1>6. CASE ReserveFails(w)
    <2>1. namespaces' \in [Requests -> Nat]
        BY <1>6, <1>1, WorkerFields DEF ReserveFails, SetNamespace, TypeOK, Absent, Between
    <2> QED BY <1>6, <1>1, <2>1, WorkerGoesOn DEF ReserveFails, Between, TypeOK
<1>7. ASSUME workers[w].pc \in {"ready", "blocked", "rejected"}, Fence(w),
             NEW state \in {"Ready", "Blocked"}, SetClaim(Item(w), state, 1),
             stale' = stale \ {Item(w)},
             NEW pc \in Between, Move(w, AtPoint(pc)),
             UNCHANGED <<requests, leases, attempts, due, waiting, outside, stops>>
      PROVE  ResourceInv'
    <2>1. Item(w) \in Requests
        BY <1>1, <1>7, WorkerFields DEF Between
    <2>2. claims[Item(w)].state = "Provisioning"
        BY <1>7 DEF Fence, ClaimFence
    <2>3. Consistent(Item(w)) /\ requests[Item(w)] \in RequestStates
        BY <1>1, <2>1, RowFields DEF ResourceInv
    <2>4. Agree(requests[Item(w)], leases[Item(w)].state, state)
        BY <1>7, <2>2, <2>3 DEF Consistent, Agree, RequestStates
    <2>5. /\ workers' \in [Workers -> Worker]
          /\ Informed(w)'
          /\ \A v \in Workers : v # w => workers'[v] = workers[v]
        BY <1>1, <1>7, BetweenTo
    <2>6. /\ UNCHANGED <<requests, leases, environments, due, waiting, namespaces, stops>>
          /\ attempts' \in [Requests -> [AttemptSteps -> Nat]]
          /\ stale' \subseteq Requests
        BY <1>1, <1>7 DEF TypeOK, outside
    <2>7. state \in ClaimStates \ {"None", "Released"} /\ state \in Provided /\ 1 \in Nat
        BY DEF ClaimStates, Provided
    <2> QED BY <1>7, <2>1, <2>4, <2>5, <2>6, <2>7, ClaimStep
<1>8. CASE MarkShellReady(w)
    BY <1>7, <1>8 DEF MarkShellReady, Between
<1>9. CASE MarkShellBlocked(w)
    BY <1>7, <1>9 DEF MarkShellBlocked, Between
<1> QED BY <1>2, <1>3, <1>4, <1>5, <1>6, <1>8, <1>9 DEF ShellStep

-----------------------------------------------------------------------------
(* reconcile_ready_handoff *)

\* The activation of a Lease under a provided shell.
LEMMA ActivateStep ==
    ASSUME ResourceInv, NEW w \in Workers, ActivateLease(w)
    PROVE  ResourceInv'
<1> USE DEF ActivateLease, At
<1>1. TypeOK /\ Informed(w) /\ workers[w].pc \notin Between
    BY DEF ResourceInv, Between
<1>2. PICK r \in Requests : r = Item(w) /\ workers[w].leaseRevision \in Nat
    BY <1>1, WorkerFields
<1>3. leases[r].state = "Allocating" /\ requests[r] = "Allocating"
    BY <1>2 DEF Fence, LeaseFence
<1>4. claims[r].state \in Provided /\ workers[w].leaseRevision <= leases[r].revision
    BY <1>1, <1>2 DEF Informed
<1>5. /\ requests' \in [Requests -> RequestStates]
      /\ requests'[r] = "Active"
      /\ \A q \in Requests : q # r => requests'[q] = requests[q]
    BY <1>1, <1>2 DEF TypeOK, SetRequest, RequestStates
<1>6. /\ leases' \in [Requests -> Lease]
      /\ leases'[r].state = "Active"
      /\ leases'[r].revision = leases[r].revision + 1
      /\ \A q \in Requests : q # r => leases'[q] = leases[q]
    BY <1>1, <1>2, LeaseWritten DEF LeaseStates
<1>7. /\ workers' \in [Workers -> Worker]
      /\ workers'[w].pc = "refresh"
      /\ workers'[w].item = r
      /\ workers'[w].leaseRevision = workers[w].leaseRevision
      /\ \A v \in Workers : v # w => workers'[v] = workers[v]
    BY <1>1, <1>2, StepTo DEF Points, Between, Item
<1>8. TypeOK'
    BY <1>1, <1>5, <1>6, <1>7 DEF TypeOK, timers, outside
<1>9. \A q \in Requests : q # r => Untouched(q)
    BY <1>5, <1>6 DEF Untouched, outside
<1>10. Consistent(r) /\ leases[r].revision \in Nat /\ environments[r].leaseRevision \in Nat
    BY <1>1, <1>2, RowFields DEF ResourceInv
<1>11. Consistent(r)'
    BY <1>3, <1>4, <1>5, <1>6, <1>10 DEF Consistent, Agree, Started, Provided, outside
<1>12. Advances(r)
    BY <1>3, <1>6, <1>10 DEF Advances, Started, Ending, outside
<1>13. Informed(w)'
    BY <1>2, <1>4, <1>6, <1>7, <1>10 DEF Informed, Item
<1> QED BY <1>2, <1>7, <1>8, <1>9, <1>11, <1>12, <1>13, RowStep

\* The handoff reaches the Environment Service.
LEMMA HandOffArrives ==
    ASSUME ResourceInv, NEW w \in Workers, HandOff(w)
    PROVE  ResourceInv'
<1> USE DEF HandOff, At
<1> DEFINE r == Item(w)
<1>1. TypeOK /\ Informed(w) /\ workers[w].pc \notin Between
    BY DEF ResourceInv, Between
<1>2. r \in Requests /\ workers[w].leaseRevision \in Nat
    BY <1>1, WorkerFields
<1>3. workers[w].leaseRevision <= leases[r].revision /\ leases[r].state \in Started
    BY <1>1 DEF Informed
<1>4. PICK pc \in {"accepted", "refused"} : Step(w, pc)
    OBVIOUS
<1>5. /\ workers' \in [Workers -> Worker]
      /\ workers'[w].pc = pc
      /\ workers'[w].item = r
      /\ workers'[w].leaseRevision = workers[w].leaseRevision
      /\ \A v \in Workers : v # w => workers'[v] = workers[v]
    BY <1>1, <1>4, StepTo DEF Points, Between, Item
<1>6. UNCHANGED <<rows, timers, namespaces, stops>> /\ leases' = leases
    BY DEF rows
<1>7. Informed(w)'
    BY <1>3, <1>5, <1>6 DEF Informed, Item
<1>8. CASE environments[r].state = "None"
    <2>1. SetEnvironment(r, "Running", workers[w].leaseRevision)
        BY <1>8
    <2>2. environments[r].leaseRevision = 0
        BY <1>2, <1>8 DEF ResourceInv, Consistent
    <2>3. "Running" \in EnvironmentStates \ {"None"} /\ environments[r].leaseRevision <= workers[w].leaseRevision
        BY <1>2, <2>2 DEF EnvironmentStates
    <2>4. namespaces' \in [Requests -> Nat]
        BY <1>1, <1>6 DEF TypeOK
    <2> QED BY <1>2, <1>3, <1>5, <1>6, <1>7, <1>8, <2>1, <2>3, <2>4, EnvironmentStep
<1>9. CASE environments[r].state # "None"
    <2>1. UNCHANGED environments
        BY <1>9
    <2>2. namespaces' \in [Requests -> Nat] /\ stops' \in Nat
        BY <1>1, <1>6 DEF TypeOK
    <2> QED BY <1>5, <1>6, <1>7, <2>1, <2>2, WorkerMoves
<1> QED BY <1>8, <1>9

\* A failed handoff is counted, and the last one blocks the claim.
LEMMA RetryOrBlockStep ==
    ASSUME ResourceInv, NEW w \in Workers, RetryOrBlockHandOff(w)
    PROVE  ResourceInv'
<1> USE DEF RetryOrBlockHandOff, At
<1> DEFINE r == Item(w)
<1>1. TypeOK /\ workers[w].pc \notin Between /\ "sync" \in Between
    BY DEF ResourceInv, Between
<1>2. r \in Requests
    BY <1>1, WorkerFields
<1>3. claims[r].state = "Ready"
    BY DEF Fence, ClaimFence
<1>4. attempts' \in [Requests -> [AttemptSteps -> Nat]]
    BY <1>1, <1>2, FailureCounted DEF AttemptSteps
<1>5. /\ workers' \in [Workers -> Worker]
      /\ Informed(w)'
      /\ \A v \in Workers : v # w => workers'[v] = workers[v]
    BY <1>1, BetweenTo
<1>6. /\ UNCHANGED <<requests, leases, environments, due, waiting, namespaces, stops>>
      /\ stale' \subseteq Requests
    BY <1>1 DEF TypeOK, outside, timers
<1>7. CASE SetClaim(r, "Blocked", 1)
    <2>1. Consistent(r) /\ requests[r] \in RequestStates
        BY <1>1, <1>2, RowFields DEF ResourceInv
    <2>2. Agree(requests[r], leases[r].state, "Blocked")
        BY <1>3, <2>1 DEF Consistent, Agree, RequestStates
    <2>3. "Blocked" \in ClaimStates \ {"None", "Released"} /\ "Blocked" \in Provided /\ 1 \in Nat
        BY DEF ClaimStates, Provided
    <2> QED BY <1>2, <1>4, <1>5, <1>6, <1>7, <2>2, <2>3, ClaimStep
<1>8. CASE UNCHANGED claims
    <2>1. /\ due' \subseteq Requests /\ waiting' \subseteq Requests
          /\ namespaces' \in [Requests -> Nat] /\ stops' \in Nat
        BY <1>1, <1>6 DEF TypeOK
    <2> QED BY <1>4, <1>5, <1>6, <1>8, <2>1, LocalStep
<1> QED BY <1>7, <1>8

\* A ready shell is handed off under an active Lease.
LEMMA HandOffSteps ==
    ASSUME ResourceInv, NEW w \in Workers, HandOffStep(w)
    PROVE  ResourceInv'
<1> USE DEF At
<1>1. TypeOK /\ Informed(w)
    BY DEF ResourceInv
<1>2. ASSUME NEW r \in Requests, NextReady(w, r) PROVE ResourceInv'
    <2>1. leases[r].revision \in Nat /\ claims[r].revision \in Nat
        BY <1>1, RowFields
    <2>2. PICK pc \in {"refresh", "activate"} :
              Move(w, WithItem(pc, r, claims[r].revision, leases[r].revision))
        BY <1>2 DEF NextReady
    <2>3. /\ workers' \in [Workers -> Worker]
          /\ workers'[w].pc = pc
          /\ workers'[w].item = r
          /\ workers'[w].leaseRevision = leases[r].revision
          /\ \A v \in Workers : v # w => workers'[v] = workers[v]
        BY <1>1, <2>1, <2>2, ItemTo DEF Points, Between
    <2>4. UNCHANGED <<rows, timers, outside, stops>> /\ claims[r].state \in Provided
        BY <1>2 DEF NextReady, Provided
    <2>5. Informed(w)'
        BY <2>1, <2>3, <2>4 DEF Informed, Item, rows
    <2> QED BY <1>1, <2>3, <2>4, <2>5, WorkerMoves DEF TypeOK, outside
<1>3. CASE NoneReady(w)
    BY <1>3, <1>1, WorkerLeaves DEF NoneReady, Between, TypeOK, outside
<1>4. CASE RefreshReady(w)
    <2> DEFINE r == Item(w)
    <2>1. r \in Requests /\ leases[r].revision \in Nat /\ claims[r].revision \in Nat
        BY <1>1, <1>4, WorkerFields, RowFields DEF RefreshReady, Between
    <2>2. UNCHANGED <<rows, timers, outside, stops>>
        BY <1>4 DEF RefreshReady
    <2>3. CASE claims[r].state = "Ready"
        <3>1. PICK pc \in {"call", "refused"} :
                  /\ Move(w, WithItem(pc, r, claims[r].revision, leases[r].revision))
                  /\ pc = "call" => Authorised(r)
            BY <1>4, <2>3 DEF RefreshReady
        <3>2. /\ workers' \in [Workers -> Worker]
              /\ workers'[w].pc = pc
              /\ workers'[w].item = r
              /\ workers'[w].leaseRevision = leases[r].revision
              /\ \A v \in Workers : v # w => workers'[v] = workers[v]
            BY <1>1, <2>1, <3>1, ItemTo DEF Points, Between
        <3>3. Informed(w)'
            BY <2>1, <2>2, <3>1, <3>2 DEF Informed, Item, rows, Authorised, Started
        <3> QED BY <1>1, <2>2, <3>2, <3>3, WorkerMoves DEF TypeOK, outside
    <2>4. CASE claims[r].state # "Ready"
        BY <1>4, <1>1, <2>2, <2>4, WorkerLeaves DEF RefreshReady, Between, TypeOK, outside
    <2> QED BY <2>3, <2>4
<1>5. CASE HandOffFails(w)
    BY <1>5, <1>1, WorkerGoesOn DEF HandOffFails, Between, TypeOK, outside
<1>6. CASE MarkHandedOff(w)
    <2> DEFINE r == Item(w)
    <2>1. r \in Requests /\ claims[r].state = "Ready" /\ leases[r].state \in Started
        BY <1>1, <1>6, WorkerFields DEF MarkHandedOff, Fence, ClaimFence, Informed, Between
    <2>2. Consistent(r) /\ requests[r] \in RequestStates
        BY <1>1, <2>1, RowFields DEF ResourceInv
    <2>3. Agree(requests[r], leases[r].state, "HandedOff")
        BY <2>1, <2>2 DEF Consistent, Agree, RequestStates, Started
    <2>4. /\ workers' \in [Workers -> Worker]
          /\ Informed(w)'
          /\ \A v \in Workers : v # w => workers'[v] = workers[v]
        BY <1>1, <1>6, BetweenTo DEF MarkHandedOff, Between
    <2>5. /\ UNCHANGED <<requests, leases, environments, due, waiting, namespaces, stops>>
          /\ attempts' \in [Requests -> [AttemptSteps -> Nat]]
          /\ stale' \subseteq Requests
        BY <1>1, <1>6 DEF MarkHandedOff, TypeOK, outside, timers
    <2>6. "HandedOff" \in ClaimStates \ {"None", "Released"} /\ "HandedOff" \in Provided /\ 1 \in Nat
        BY DEF ClaimStates, Provided
    <2>7. SetClaim(r, "HandedOff", 1)
        BY <1>6 DEF MarkHandedOff
    <2> QED BY <2>1, <2>3, <2>4, <2>5, <2>6, <2>7, ClaimStep
<1> QED BY <1>2, <1>3, <1>4, <1>5, <1>6, ActivateStep, HandOffArrives, RetryOrBlockStep
        DEF HandOffStep

-----------------------------------------------------------------------------
(* reconcile_lease_sync *)

\* The Environment Service takes up a revision of the Lease.
LEMMA SyncArrives ==
    ASSUME ResourceInv, NEW w \in Workers, SyncLease(w)
    PROVE  ResourceInv'
<1> USE DEF SyncLease, At
<1>1. TypeOK /\ Informed(w) /\ workers[w].pc \notin Between
    BY DEF ResourceInv, Between
<1>2. PICK r \in Requests : r = Item(w) /\ workers[w].leaseRevision \in Nat
    BY <1>1, WorkerFields
<1>3. /\ SetEnvironment(r, environments[r].state, workers[w].leaseRevision)
      /\ environments[r].leaseRevision <= workers[w].leaseRevision
      /\ environments[r].state \in EnvironmentStates \ {"None"}
    BY <1>1, <1>2, RowFields
<1>4. workers[w].leaseRevision <= leases[r].revision /\ leases[r].state \in Started
    BY <1>1, <1>2, <1>3 DEF Informed, ResourceInv, Consistent
<1>5. environments'[r].leaseRevision = workers[w].leaseRevision
    BY <1>1, <1>2, <1>3, EnvironmentWritten
<1>6. UNCHANGED <<rows, timers, namespaces, stops>> /\ leases' = leases
    BY DEF rows
<1>7. /\ workers' \in [Workers -> Worker]
      /\ Informed(w)'
      /\ \A v \in Workers : v # w => workers'[v] = workers[v]
    <2>1. CASE Step(w, "synced")
        <3>1. /\ workers' \in [Workers -> Worker]
              /\ workers'[w].pc = "synced"
              /\ workers'[w].item = r
              /\ workers'[w].leaseRevision = workers[w].leaseRevision
              /\ \A v \in Workers : v # w => workers'[v] = workers[v]
            BY <1>1, <1>2, <2>1, StepTo DEF Points, Between, Item
        <3> QED BY <1>2, <1>4, <1>5, <1>6, <3>1 DEF Informed, Item
    <2>2. CASE Move(w, AtPoint("cleanup"))
        BY <1>1, <2>2, BetweenTo DEF Between
    <2> QED BY <2>1, <2>2
<1>8. namespaces' \in [Requests -> Nat]
    BY <1>1, <1>6 DEF TypeOK
<1>9. \A v \in Workers : workers'[v] = workers[v] \/ Informed(v)'
    BY <1>7
<1> QED BY <1>2, <1>3, <1>4, <1>6, <1>7, <1>8, <1>9, EnvironmentStep

\* Resource records the revision that was acknowledged.
LEMMA MarkSyncedStep ==
    ASSUME ResourceInv, NEW w \in Workers, MarkLeaseSynced(w)
    PROVE  ResourceInv'
<1> USE DEF MarkLeaseSynced, At
<1>1. TypeOK /\ Informed(w) /\ workers[w].pc \notin Between
    BY DEF ResourceInv, Between
<1>2. PICK r \in Requests : r = Item(w) /\ workers[w].leaseRevision \in Nat
    BY <1>1, WorkerFields
<1> DEFINE row == [state |-> claims[r].state, revision |-> claims[r].revision,
                   synced |-> workers[w].leaseRevision]
<1>3. row \in Claim
    BY <1>1, <1>2, RowFields DEF Claim
<1>4. claims' = [claims EXCEPT ![r] = row]
    BY <1>2
<1>5. claims'[r] = row
    BY <1>1, <1>4 DEF TypeOK
<1>6. claims'[r].state = claims[r].state /\ claims'[r].synced = workers[w].leaseRevision
    BY <1>5
<1> HIDE DEF row
<1>7. /\ claims' \in [Requests -> Claim]
      /\ \A q \in Requests : q # r => claims'[q] = claims[q]
    BY <1>1, <1>3, <1>4 DEF TypeOK
<1>8. /\ workers' \in [Workers -> Worker]
      /\ Informed(w)'
      /\ \A v \in Workers : v # w => workers'[v] = workers[v]
    BY <1>1, BetweenTo DEF Between
<1>9. TypeOK'
    BY <1>1, <1>7, <1>8 DEF TypeOK, timers, outside
<1>10. \A q \in Requests : q # r => Untouched(q)
    BY <1>7 DEF Untouched, outside
<1>11. Consistent(r) /\ workers[w].leaseRevision <= environments[r].leaseRevision
    BY <1>1, <1>2 DEF ResourceInv, Informed
<1>12. Consistent(r)'
    BY <1>6, <1>11 DEF Consistent, outside
<1>13. Advances(r)
    BY <1>1, <1>6, RowFields DEF Advances, outside
<1> QED BY <1>8, <1>9, <1>10, <1>12, <1>13, RowStep

\* A revision of an active Lease is passed on.
LEMMA SyncSteps ==
    ASSUME ResourceInv, NEW w \in Workers, SyncStep(w)
    PROVE  ResourceInv'
<1> USE DEF At
<1>1. TypeOK
    BY DEF ResourceInv
<1>2. ASSUME NEW r \in Requests, NextUnsynced(w, r) PROVE ResourceInv'
    <2>1. leases[r].revision \in Nat /\ claims[r].revision \in Nat
        BY <1>1, RowFields
    <2>2. /\ workers' \in [Workers -> Worker]
          /\ workers'[w].pc = "update"
          /\ workers'[w].item = r
          /\ workers'[w].leaseRevision = leases[r].revision
          /\ \A v \in Workers : v # w => workers'[v] = workers[v]
        BY <1>1, <1>2, <2>1, ItemTo DEF NextUnsynced, Points, Between
    <2>3. UNCHANGED <<rows, timers, outside, stops>>
        BY <1>2 DEF NextUnsynced
    <2>4. Informed(w)'
        BY <2>1, <2>2, <2>3 DEF Informed, Item, rows
    <2> QED BY <1>1, <2>2, <2>3, <2>4, WorkerMoves DEF TypeOK, outside
<1>3. CASE NoneUnsynced(w)
    BY <1>3, <1>1, WorkerLeaves DEF NoneUnsynced, Between, TypeOK, outside
<1>4. CASE SyncLeaseFails(w)
    BY <1>4, <1>1, WorkerLeaves DEF SyncLeaseFails, Between, TypeOK, outside
<1> QED BY <1>2, <1>3, <1>4, SyncArrives, MarkSyncedStep DEF SyncStep

-----------------------------------------------------------------------------
(* reconcile_lease_cleanup *)

\* A worker takes a Lease to clean up, which begins to expire if it is due.
LEMMA NextCleanupStep ==
    ASSUME ResourceInv, NEW w \in Workers, NEW r \in Requests, NextCleanup(w, r)
    PROVE  ResourceInv'
<1> USE DEF NextCleanup, At
<1> DEFINE pc == CleanupPoint(claims[r].state)
<1>1. TypeOK /\ UNCHANGED <<claims, environments>>
    BY DEF ResourceInv, outside
<1>2. /\ requests' \in [Requests -> RequestStates]
      /\ leases' \in [Requests -> Lease]
      /\ leases'[r].state = "Expiring"
      /\ \A q \in Requests : q # r => Untouched(q)
      /\ Consistent(r)'
      /\ Advances(r)
    <2>1. CASE leases[r].state = "Active"
        BY <1>1, <2>1, ExpiryBegun
    <2>2. CASE leases[r].state # "Active"
        <3>1. leases[r].state = "Expiring"
            BY <2>2 DEF CleanupDue
        <3>2. UNCHANGED <<requests, leases>>
            BY <2>2
        <3>3. Consistent(r)' /\ Advances(r)
            BY <1>1, <3>2, RowFields DEF ResourceInv, Consistent, Advances
        <3> QED BY <1>1, <3>1, <3>2, <3>3 DEF TypeOK, Untouched
    <2> QED BY <2>1, <2>2
<1>3. leases'[r].revision \in Nat /\ claims[r].revision \in Nat
    BY <1>1, <1>2, RowFields DEF Lease
<1>4. pc \in {"expire", "delete", "status"} /\ pc \in Points \ Between
    BY DEF CleanupPoint, Points, Between
<1>5. Move(w, WithItem(pc, r, claims[r].revision, leases'[r].revision))
    OBVIOUS
<1> HIDE DEF pc
<1>6. /\ workers' \in [Workers -> Worker]
      /\ workers'[w].pc = pc
      /\ workers'[w].item = r
      /\ workers'[w].leaseRevision = leases'[r].revision
      /\ \A v \in Workers : v # w => workers'[v] = workers[v]
    BY <1>1, <1>3, <1>4, <1>5, ItemTo
<1>7. Informed(w)'
    BY <1>2, <1>3, <1>4, <1>6 DEF Informed, Item, Ending
<1>8. TypeOK'
    BY <1>1, <1>2, <1>6 DEF TypeOK, timers, outside
<1> QED BY <1>2, <1>6, <1>7, <1>8, RowStep

\* The cleanup request reaches the Environment Service.
LEMMA RequestArrives ==
    ASSUME ResourceInv, NEW w \in Workers, RequestCleanup(w)
    PROVE  ResourceInv'
<1> USE DEF RequestCleanup, At
<1>1. TypeOK /\ Informed(w) /\ workers[w].pc \notin Between
    BY DEF ResourceInv, Between
<1>2. PICK r \in Requests : r = Item(w) /\ workers[w].leaseRevision \in Nat
    BY <1>1, WorkerFields
<1>3. PICK pc \in {"release", "expireFailed"} : Step(w, pc)
    OBVIOUS
<1>4. /\ workers' \in [Workers -> Worker]
      /\ workers'[w].pc = pc
      /\ workers'[w].item = r
      /\ workers'[w].leaseRevision = workers[w].leaseRevision
      /\ \A v \in Workers : v # w => workers'[v] = workers[v]
    BY <1>1, <1>2, <1>3, StepTo DEF Points, Between, Item
<1>5. UNCHANGED <<rows, timers, namespaces, stops>> /\ leases' = leases
    BY DEF rows
<1>6. Informed(w)'
    BY <1>1, <1>2, <1>4, <1>5 DEF Informed, Item
<1>7. namespaces' \in [Requests -> Nat] /\ stops' \in Nat
    BY <1>1, <1>5 DEF TypeOK
<1>8. CASE environments[r].state = "Running"
    <2>1. SetEnvironment(r, "Expiring", environments[r].leaseRevision)
        BY <1>2, <1>8
    <2>2. /\ leases[r].state \in Started
          /\ environments[r].leaseRevision \in Nat
          /\ environments[r].leaseRevision <= leases[r].revision
          /\ "Expiring" \in EnvironmentStates \ {"None"}
        BY <1>1, <1>2, <1>8, RowFields DEF ResourceInv, Consistent, EnvironmentStates
    <2>3. \A v \in Workers : workers'[v] = workers[v] \/ Informed(v)'
        BY <1>4, <1>6
    <2> QED BY <1>2, <1>4, <1>5, <1>7, <1>8, <2>1, <2>2, <2>3, EnvironmentStep
<1>9. CASE environments[r].state # "Running"
    <2>1. UNCHANGED environments
        BY <1>2, <1>9
    <2> QED BY <1>4, <1>5, <1>6, <1>7, <2>1, WorkerMoves
<1> QED BY <1>8, <1>9

\* The claim is released, and the Lease and the request end with it.
LEMMA CompleteStep ==
    ASSUME ResourceInv, NEW w \in Workers, CompleteRelease(w)
    PROVE  ResourceInv'
<1> USE DEF CompleteRelease, At
<1>1. TypeOK /\ Informed(w) /\ workers[w].pc \notin Between
    BY DEF ResourceInv, Between
<1>2. PICK r \in Requests : r = Item(w)
    BY <1>1, WorkerFields
<1>3. leases[r].state = "Expiring" /\ environments[r].state = "Deleted"
    BY <1>1, <1>2 DEF Fence, LeaseFence, Informed
<1>4. /\ requests' \in [Requests -> RequestStates]
      /\ requests'[r] = "Expired"
      /\ \A q \in Requests : q # r => requests'[q] = requests[q]
    BY <1>1, <1>2 DEF TypeOK, SetRequest, RequestStates
<1>5. PICK ended \in {"Expired", "Revoked"} : SetLease(r, ended, leases[r].revoked)
    BY <1>2 DEF EndedLeaseState
<1>6. leases[r].revoked \in BOOLEAN /\ leases[r].revision \in Nat
    BY <1>1, RowFields
<1>7. /\ leases' \in [Requests -> Lease]
      /\ leases'[r].state = ended
      /\ leases'[r].revision = leases[r].revision + 1
      /\ \A q \in Requests : q # r => leases'[q] = leases[q]
    BY <1>1, <1>5, <1>6, LeaseWritten DEF LeaseStates
<1>8. /\ claims' \in [Requests -> Claim]
      /\ claims'[r].state = "Released"
      /\ claims'[r].synced = claims[r].synced
      /\ \A q \in Requests : q # r => claims'[q] = claims[q]
    BY <1>1, <1>2, ClaimWritten DEF ClaimStates
<1>9. /\ workers' \in [Workers -> Worker]
      /\ Informed(w)'
      /\ \A v \in Workers : v # w => workers'[v] = workers[v]
    BY <1>1, BetweenTo DEF Between
<1>10. TypeOK'
    BY <1>1, <1>4, <1>7, <1>8, <1>9 DEF TypeOK, timers, outside
<1>11. \A q \in Requests : q # r => Untouched(q)
    BY <1>4, <1>7, <1>8 DEF Untouched, outside
<1>12. Consistent(r) /\ environments[r].leaseRevision \in Nat
    BY <1>1, RowFields DEF ResourceInv
<1>13. Consistent(r)'
    BY <1>3, <1>4, <1>6, <1>7, <1>8, <1>12 DEF Consistent, Agree, Started, outside
<1>14. Advances(r)
    BY <1>3, <1>6, <1>7, <1>8, <1>12 DEF Advances, Started, Ending, Provided, outside
<1> QED BY <1>9, <1>10, <1>11, <1>13, <1>14, RowStep

\* A Lease that is ending gives its capacity back step by step.
LEMMA CleanupSteps ==
    ASSUME ResourceInv, NEW w \in Workers, CleanupStep(w)
    PROVE  ResourceInv'
<1> USE DEF At
<1>1. TypeOK /\ Informed(w)
    BY DEF ResourceInv
<1>2. CASE NoCleanup(w)
    BY <1>2, <1>1, WorkerLeaves DEF NoCleanup, Between, TypeOK, outside
<1>3. CASE RequestCleanupFails(w)
    BY <1>3, <1>1, WorkerGoesOn DEF RequestCleanupFails, Between, TypeOK, outside
<1>4. CASE ReleaseBeforeHandOff(w)
    <2>1. workers[w].pc = "delete" /\ workers[w].pc \notin Between /\ Item(w) \in Requests
        BY <1>1, <1>4, WorkerFields DEF ReleaseBeforeHandOff, Between
    <2>2. namespaces' \in [Requests -> Nat] /\ stops' \in Nat
        BY <1>1, <1>4, <2>1 DEF ReleaseBeforeHandOff, SetNamespace, TypeOK, Absent
    <2>3. UNCHANGED <<rows, timers, environments>> /\ leases' = leases
        BY <1>4 DEF ReleaseBeforeHandOff, rows
    <2>4. CASE Step(w, "release")
        <3>1. /\ workers' \in [Workers -> Worker]
              /\ workers'[w].pc = "release"
              /\ workers'[w].item = workers[w].item
              /\ workers'[w].leaseRevision = workers[w].leaseRevision
              /\ \A v \in Workers : v # w => workers'[v] = workers[v]
            BY <1>1, <2>1, <2>4, StepTo DEF Points, Between
        <3>2. Informed(w)'
            BY <1>1, <2>1, <2>3, <3>1 DEF Informed, Item
        <3> QED BY <2>2, <2>3, <3>1, <3>2, WorkerMoves
    <2>5. CASE Move(w, AtPoint("idle"))
        BY <2>2, <2>3, <2>5, WorkerLeaves DEF Between
    <2> QED BY <1>4, <2>4, <2>5 DEF ReleaseBeforeHandOff
<1>5. CASE ReleaseBeforeHandOffFails(w)
    BY <1>5, <1>1, WorkerLeaves DEF ReleaseBeforeHandOffFails, Between, TypeOK, outside
<1>6. CASE MarkReleasing(w)
    <2> DEFINE r == Item(w)
    <2>1. /\ r \in Requests
          /\ claims[r].state \in {"Blocked", "HandedOff"}
          /\ leases[r].state \in Ending
        BY <1>1, <1>6, WorkerFields DEF MarkReleasing, Fence, ClaimFence, Informed, Between
    <2>2. Consistent(r) /\ requests[r] \in RequestStates
        BY <1>1, <2>1, RowFields DEF ResourceInv
    <2>3. Agree(requests[r], leases[r].state, "Releasing")
        BY <2>1, <2>2 DEF Consistent, Agree, RequestStates, Ending
    <2>4. /\ workers' \in [Workers -> Worker]
          /\ Informed(w)'
          /\ \A v \in Workers : v # w => workers'[v] = workers[v]
        BY <1>1, <1>6, BetweenTo DEF MarkReleasing, Between
    <2>5. /\ UNCHANGED <<requests, leases, environments, due, waiting, namespaces, stops>>
          /\ attempts' \in [Requests -> [AttemptSteps -> Nat]]
          /\ stale' \subseteq Requests
        BY <1>1, <1>6 DEF MarkReleasing, TypeOK, outside, timers
    <2>6. "Releasing" \in ClaimStates \ {"None", "Released"} /\ "Releasing" \in Provided /\ 1 \in Nat
        BY DEF ClaimStates, Provided
    <2>7. SetClaim(r, "Releasing", 1)
        BY <1>6 DEF MarkReleasing
    <2> QED BY <2>1, <2>3, <2>4, <2>5, <2>6, <2>7, ClaimStep
<1>7. CASE CleanupStatus(w)
    <2>1. workers[w].pc \notin Between /\ UNCHANGED <<rows, timers, outside, stops>>
        BY <1>7 DEF CleanupStatus, Between
    <2>2. namespaces' \in [Requests -> Nat] /\ stops' \in Nat
        BY <1>1, <2>1 DEF TypeOK, outside
    <2>3. UNCHANGED <<rows, timers, environments>> /\ leases' = leases
        BY <2>1 DEF rows, outside
    <2>4. CASE environments[Item(w)].state = "Deleted"
        <3>1. Step(w, "verify")
            BY <1>7, <2>4 DEF CleanupStatus, StatusPoint
        <3>2. /\ workers' \in [Workers -> Worker]
              /\ workers'[w].pc = "verify"
              /\ workers'[w].item = workers[w].item
              /\ workers'[w].leaseRevision = workers[w].leaseRevision
              /\ \A v \in Workers : v # w => workers'[v] = workers[v]
            BY <1>1, <2>1, <3>1, StepTo DEF Points, Between
        <3>3. Informed(w)'
            BY <1>1, <2>1, <2>3, <2>4, <3>2 DEF Informed, Item
        <3> QED BY <2>2, <2>3, <3>2, <3>3, WorkerMoves
    <2>5. CASE environments[Item(w)].state \in {"None", "Failed"}
        <3>1. Step(w, "expireFailed")
            BY <1>7, <2>5 DEF CleanupStatus, StatusPoint
        <3> QED BY <2>1, <2>2, <2>3, <3>1, WorkerGoesOn
    <2>6. CASE environments[Item(w)].state \notin {"None", "Failed", "Deleted"}
        <3>1. Move(w, AtPoint("idle"))
            BY <1>7, <2>6 DEF CleanupStatus, StatusPoint
        <3> QED BY <2>2, <2>3, <3>1, WorkerLeaves DEF Between
    <2> QED BY <2>4, <2>5, <2>6
<1>8. CASE CleanupStatusFails(w)
    BY <1>8, <1>1, WorkerGoesOn DEF CleanupStatusFails, Between, TypeOK, outside
<1>9. CASE VerifyReleased(w)
    <2>1. workers[w].pc = "verify" /\ workers[w].pc \notin Between
        BY <1>9 DEF VerifyReleased, Between
    <2>2. UNCHANGED <<rows, timers, outside, stops>> /\ leases' = leases /\ environments' = environments
        BY <1>9 DEF VerifyReleased, rows, outside
    <2>3. /\ workers' \in [Workers -> Worker]
          /\ workers'[w].pc = "complete"
          /\ workers'[w].item = workers[w].item
          /\ workers'[w].leaseRevision = workers[w].leaseRevision
          /\ \A v \in Workers : v # w => workers'[v] = workers[v]
        BY <1>1, <1>9, <2>1, StepTo DEF VerifyReleased, Points, Between
    <2>4. Informed(w)'
        BY <1>1, <2>1, <2>2, <2>3 DEF Informed, Item
    <2> QED BY <1>1, <2>2, <2>3, <2>4, WorkerMoves DEF TypeOK, outside
<1>10. CASE VerifyReleasedFails(w)
    BY <1>10, <1>1, WorkerGoesOn DEF VerifyReleasedFails, Between, TypeOK, outside
<1>11. CASE RecordFailure(w)
    <2>1. Item(w) \in Requests
        BY <1>1, <1>11, WorkerFields DEF RecordFailure, Between
    <2>2. attempts' \in [Requests -> [AttemptSteps -> Nat]]
        <3>1. PICK step \in AttemptSteps : CountFailure(Item(w), step)
            BY <1>11 DEF RecordFailure, AttemptSteps
        <3> QED BY <1>1, <2>1, <3>1, FailureCounted
    <2>3. /\ workers' \in [Workers -> Worker]
          /\ Informed(w)'
          /\ \A v \in Workers : v # w => workers'[v] = workers[v]
        BY <1>1, <1>11, BetweenTo DEF RecordFailure, Between
    <2>4. /\ UNCHANGED <<requests, leases, claims, environments>>
          /\ due' \subseteq Requests /\ stale' \subseteq Requests /\ waiting' \subseteq Requests
          /\ namespaces' \in [Requests -> Nat] /\ stops' \in Nat
        BY <1>1, <1>11, <2>1 DEF RecordFailure, TypeOK, outside
    <2> QED BY <2>2, <2>3, <2>4, LocalStep
<1> QED BY <1>2, <1>3, <1>4, <1>5, <1>6, <1>7, <1>8, <1>9, <1>10, <1>11,
           NextCleanupStep, RequestArrives, CompleteStep DEF CleanupStep

-----------------------------------------------------------------------------
(* Theorems *)

\* Every step keeps the invariant.
LEMMA ResourceInductive == ResourceInv /\ [Next]_vars => ResourceInv'
<1> SUFFICES ASSUME ResourceInv, [Next]_vars PROVE ResourceInv'
    OBVIOUS
<1>1. TypeOK
    BY DEF ResourceInv
<1>2. ASSUME NEW r \in Requests, ApiStep(r) \/ OutsideStep(r) PROVE ResourceInv'
    BY <1>2, ApiSteps, OutsideSteps
<1>3. ASSUME NEW w \in Workers, Conflict(w) PROVE ResourceInv'
    BY <1>1, <1>3, WorkerLeaves DEF Conflict, Between, TypeOK, outside
<1>4. ASSUME NEW w \in Workers, Stop(w) PROVE ResourceInv'
    BY <1>1, <1>4, WorkerLeaves DEF Stop, Between, TypeOK, outside
<1>5. ASSUME NEW w \in Workers, WorkerStep(w) PROVE ResourceInv'
    BY <1>3, <1>5, ShellSteps, HandOffSteps, SyncSteps, CleanupSteps DEF WorkerStep
<1>6. CASE UNCHANGED vars
    BY <1>1, <1>6, LocalStep DEF vars, rows, timers, outside, TypeOK
<1> QED BY <1>2, <1>4, <1>5, <1>6 DEF Next

\* The invariant holds in every behaviour.
LEMMA ResourceInvariant == Spec => []ResourceInv
<1>1. Init => ResourceInv
    BY InitResource
<1>2. ResourceInv /\ [Next]_vars => ResourceInv'
    BY ResourceInductive
<1> QED BY <1>1, <1>2, PTL DEF Spec

\* Every row, timer and local state has its type, for any number of requests and workers.
THEOREM ResourceTyped == Spec => []TypeOK
<1>1. ResourceInv => TypeOK
    BY DEF ResourceInv
<1> QED BY <1>1, ResourceInvariant, PTL

\* Request, Lease and claim agree, whatever the workers do with what they read: capacity in
\* use is under a Lease, and neither is over while the other is not.
THEOREM RowsAlwaysAgree == Spec => []RowsAgree
<1>1. ResourceInv => RowsAgree
    BY DEF ResourceInv, RowsAgree, Consistent
<1> QED BY <1>1, ResourceInvariant, PTL

\* complete_capacity_release runs only after the Environment Service has shown a tombstone.
THEOREM ReleaseFollowsTombstone == Spec => []ReleasedAfterTombstone
<1>1. ResourceInv => ReleasedAfterTombstone
    BY DEF ResourceInv, ReleasedAfterTombstone, Consistent
<1> QED BY <1>1, ResourceInvariant, PTL

\* An environment exists only under a Lease that was activated or is over, at a revision
\* Resource has written, and what Resource takes for acknowledged is there.
THEOREM EnvironmentUnderLease == Spec => []EnvironmentFollowsLease
<1>1. ResourceInv => EnvironmentFollowsLease
    BY DEF ResourceInv, EnvironmentFollowsLease, Consistent, Started
<1> QED BY <1>1, ResourceInvariant, PTL

\* A step leaves the Leases alone or writes one, and an ending one keeps ending.
LEMMA LeaseWrites ==
    ASSUME ResourceInv, [Next]_vars
    PROVE  \/ UNCHANGED leases
           \/ \E r \in Requests, state \in LeaseStates, revoked \in BOOLEAN :
                  /\ SetLease(r, state, revoked)
                  /\ leases[r].state \in Ending => state \in Ending
<1> DEFINE Written ==
        \/ UNCHANGED leases
        \/ \E r \in Requests, state \in LeaseStates, revoked \in BOOLEAN :
               /\ SetLease(r, state, revoked)
               /\ leases[r].state \in Ending => state \in Ending
<1>1. TypeOK /\ \A r \in Requests : Consistent(r)
    BY DEF ResourceInv
<1>2. "Allocating" \in LeaseStates /\ "Active" \in LeaseStates /\ Ending \subseteq LeaseStates
    BY DEF LeaseStates, Ending
<1>3. ASSUME NEW r \in Requests, ApiStep(r) PROVE Written
    <2>1. CASE Approve(r)
        <3>1. leases[r].state \notin Ending
            BY <1>1, <2>1 DEF Approve, Consistent, Agree, Ending
        <3> QED BY <1>2, <2>1, <3>1 DEF Approve
    <2>2. CASE RenewLease(r)
        BY <1>2, <2>2 DEF RenewLease, Ending
    <2>3. CASE RevokeLease(r)
        BY <1>2, <2>3 DEF RevokeLease, BeginExpiry, Ending
    <2>4. CASE \/ CreateRequest(r) \/ RetryRequest(r)
               \/ \E terminal \in {"Rejected", "Cancelled"} : CloseRequest(r, terminal)
        BY <2>4 DEF CreateRequest, RetryRequest, CloseRequest
    <2> QED BY <1>3, <2>1, <2>2, <2>3, <2>4 DEF ApiStep
<1>4. ASSUME NEW r \in Requests, OutsideStep(r) PROVE Written
    BY <1>4 DEF OutsideStep, LeaseFallsDue, ShellGoesStale, RetryFallsDue,
                EnvironmentExpires, EnvironmentFails, EnvironmentMoves, EnvironmentDeleted, rows
<1>5. ASSUME NEW w \in Workers, WorkerStep(w) PROVE Written
    <2>1. CASE ActivateLease(w)
        <3>1. Item(w) \in Requests /\ leases[Item(w)].state \notin Ending
            BY <1>1, <2>1, WorkerFields
               DEF ActivateLease, At, Between, Fence, LeaseFence, Ending
        <3> QED BY <1>2, <2>1, <3>1 DEF ActivateLease
    <2>2. ASSUME NEW r \in Requests, NextCleanup(w, r) PROVE Written
        BY <1>2, <2>2 DEF NextCleanup, BeginExpiry, Ending
    <2>3. CASE CompleteRelease(w)
        <3>1. Item(w) \in Requests
            BY <1>1, <2>3, WorkerFields DEF CompleteRelease, At, Between
        <3>2. leases[Item(w)].revoked \in BOOLEAN /\ EndedLeaseState(leases[Item(w)]) \in Ending
            BY <1>1, <3>1, RowFields DEF EndedLeaseState, Ending
        <3> QED BY <1>2, <2>3, <3>1, <3>2 DEF CompleteRelease
    <2>4. CASE ShellStep(w)
        BY <2>4 DEF ShellStep, ClaimShell, NoShell, RejectPlan, Reserve, ReserveFails,
                    MarkShellReady, MarkShellBlocked, rows
    <2>5. CASE HandOffStep(w)
        BY <2>1, <2>5 DEF HandOffStep, NextReady, NoneReady, RefreshReady, HandOff, HandOffFails,
                    MarkHandedOff, RetryOrBlockHandOff, rows
    <2>6. CASE SyncStep(w)
        BY <2>6 DEF SyncStep, NextUnsynced, NoneUnsynced, SyncLease, SyncLeaseFails,
                    MarkLeaseSynced, rows
    <2>7. CASE CleanupStep(w)
        BY <2>2, <2>3, <2>7
           DEF CleanupStep, NoCleanup, RequestCleanup, RequestCleanupFails, ReleaseBeforeHandOff,
               ReleaseBeforeHandOffFails, MarkReleasing, CleanupStatus, CleanupStatusFails,
               VerifyReleased, VerifyReleasedFails, RecordFailure, rows
    <2>8. CASE Conflict(w)
        BY <2>8 DEF Conflict, rows
    <2> QED BY <1>5, <2>4, <2>5, <2>6, <2>7, <2>8 DEF WorkerStep
<1>6. ASSUME NEW w \in Workers, Stop(w) PROVE Written
    BY <1>6 DEF Stop, rows
<1>7. CASE UNCHANGED vars
    BY <1>7 DEF vars, rows
<1> QED BY <1>3, <1>4, <1>5, <1>6, <1>7 DEF Next

\* A Lease that is revoked or has begun to expire never authorises again.
THEOREM LeaseEndsForGood == Spec => LeaseNotRevived
<1>1. ResourceInv /\ [Next]_vars =>
          [\A r \in Requests :
               leases[r].state \in {"Expiring", "Expired", "Revoked"} =>
                   leases'[r].state \notin {"Allocating", "Active"}]_vars
    <2> SUFFICES ASSUME ResourceInv, [Next]_vars, NEW r \in Requests, leases[r].state \in Ending
                 PROVE  leases'[r].state \notin {"Allocating", "Active"}
        BY DEF Ending
    <2>1. CASE UNCHANGED leases
        BY <2>1 DEF Ending
    <2>2. ASSUME NEW q \in Requests, NEW state \in LeaseStates, NEW revoked \in BOOLEAN,
                 SetLease(q, state, revoked), leases[q].state \in Ending => state \in Ending
          PROVE  leases'[r].state \notin {"Allocating", "Active"}
        <3>1. leases'[q].state = state /\ (r # q => leases'[r] = leases[r])
            BY <2>2, LeaseWritten DEF ResourceInv
        <3> QED BY <2>2, <3>1 DEF Ending
    <2> QED BY <2>1, <2>2, LeaseWrites
<1> QED BY <1>1, ResourceInvariant, PTL DEF Spec, LeaseNotRevived

\* The rows of the Resource Service have their types and agree.
THEOREM RowsAlwaysSound == Spec => []RowsSound
BY ResourceTyped, RowsAlwaysAgree, PTL DEF RowsSound

\* An environment lives under a Lease and a claim, from its creation to its tombstone.
THEOREM EnvironmentAlwaysCovered == Spec => []EnvironmentCovered
BY ReleaseFollowsTombstone, EnvironmentUnderLease, PTL DEF EnvironmentCovered

-----------------------------------------------------------------------------
(* The quota shell of an environment is kept.  A namespace carries the     *)
(* revision its claim had when it was Provisioning; a worker that would    *)
(* delete it has the later revision of the claim that was Blocked.         *)

\* The transitions of a claim since it was last Provisioning, at least.
Late(state) ==
    IF state \in {"Ready", "Blocked", "HandedOff"} THEN 1
    ELSE IF state = "Releasing" THEN 2 ELSE IF state = "Released" THEN 3 ELSE 0

\* The namespace is there, or was and went with the environment.
Shelled(r) == namespaces[r] # Absent \/ environments[r].state = "Deleted"

ShellOf(r) ==
    /\ namespaces[r] + Late(claims[r].state) <= claims[r].revision
    /\ claims[r].state \in {"Ready", "HandedOff"} => Shelled(r)
    /\ environments[r].state # "None" => Shelled(r)

\* What has been given up for good.
Over == {"Blocked", "Releasing", "Released"}

\* The points at which a worker relies on its shell or is a danger to it.
AtShell == {"reserve", "ready", "call", "delete"}

ShellRead(w) ==
    workers[w].pc \in AtShell =>
        /\ workers[w].pc = "reserve" =>
               /\ workers[w].claimRevision # 0
               /\ workers[w].claimRevision + Late(claims[Item(w)].state) <= claims[Item(w)].revision
        /\ workers[w].pc \in {"ready", "call"} => Shelled(Item(w))
        /\ workers[w].pc = "delete" =>
               /\ claims[Item(w)].state \in Over
               /\ claims[Item(w)].revision + 1 <= workers[w].claimRevision + Late(claims[Item(w)].state)

ShellInv ==
    /\ \A r \in Requests : ShellOf(r)
    /\ \A w \in Workers : ShellRead(w)

\* What no step takes back of a claim and its shell.
ShellAdvances(r) ==
    /\ claims[r].revision + Late(claims'[r].state) <= claims'[r].revision + Late(claims[r].state)
    /\ claims[r].state \in Over =>
           /\ claims'[r].state \in Over
           /\ claims'[r].revision + Late(claims[r].state) <= claims[r].revision + Late(claims'[r].state)
    /\ Shelled(r) => Shelled(r)'

\* The numbers a claim and its namespace carry.
LEMMA ShellFields ==
    ASSUME TypeOK, NEW r \in Requests
    PROVE  claims[r].revision \in Nat /\ namespaces[r] \in Nat /\ claims[r].state \in ClaimStates
BY DEF TypeOK, Claim

LEMMA LateType == \A state : Late(state) \in {0, 1, 2, 3}
BY DEF Late

\* No claim, no namespace, nothing read.
LEMMA ShellInit == Init => ShellInv
<1> SUFFICES ASSUME Init PROVE ShellInv
    OBVIOUS
<1>1. ASSUME NEW r \in Requests PROVE ShellOf(r)
    <2>1. /\ namespaces[r] = 0 /\ claims[r].state = "None" /\ claims[r].revision = 0
          /\ environments[r].state = "None"
        BY DEF Init, Absent
    <2> QED BY <2>1 DEF ShellOf, Late
<1>2. \A w \in Workers : ShellRead(w)
    BY DEF Init, ShellRead, AtPoint, AtShell
<1> QED BY <1>1, <1>2 DEF ShellInv

\* What a worker has read of a shell outlasts the steps of the others.
LEMMA ShellReadKept ==
    ASSUME TypeOK, TypeOK', ShellInv, NEW w \in Workers, workers'[w] = workers[w],
           \A r \in Requests : ShellAdvances(r)
    PROVE  ShellRead(w)'
<1> SUFFICES ASSUME workers[w].pc \in AtShell PROVE ShellRead(w)'
    BY DEF ShellRead
<1>1. Item(w) \in Requests /\ Item(w)' = Item(w) /\ workers[w].claimRevision \in Nat
    BY WorkerFields DEF AtShell, Between, Item
<1>2. ShellAdvances(Item(w)) /\ ShellRead(w)
    BY <1>1 DEF ShellInv
<1>3. claims[Item(w)].revision \in Nat /\ claims'[Item(w)].revision \in Nat
    BY <1>1, ShellFields DEF TypeOK, Claim
<1>4. /\ Late(claims[Item(w)].state) \in {0, 1, 2, 3}
      /\ Late(claims'[Item(w)].state) \in {0, 1, 2, 3}
    BY LateType
<1>5. CASE workers[w].pc = "reserve"
    BY <1>1, <1>2, <1>3, <1>4, <1>5 DEF ShellAdvances, ShellRead, Item
<1>6. CASE workers[w].pc \in {"ready", "call"}
    BY <1>1, <1>2, <1>6 DEF ShellAdvances, ShellRead, Item, Shelled
<1>7. CASE workers[w].pc = "delete"
    BY <1>1, <1>2, <1>3, <1>4, <1>7 DEF ShellAdvances, ShellRead, Item
<1> QED BY <1>5, <1>6, <1>7 DEF AtShell

\* A step keeps the invariant that keeps it for the rows and for the worker that moves.
LEMMA ShellKeeps ==
    ASSUME TypeOK, TypeOK', ShellInv,
           \A r \in Requests : ShellAdvances(r) /\ ShellOf(r)',
           \A w \in Workers : workers'[w] = workers[w] \/ ShellRead(w)'
    PROVE  ShellInv'
BY ShellReadKept DEF ShellInv

\* A step that writes no shell, no environment that was not there and no state of a claim.
LEMMA QuietStep ==
    ASSUME TypeOK, TypeOK', ShellInv,
           \A r \in Requests :
               /\ claims'[r].state = claims[r].state /\ claims'[r].revision = claims[r].revision
               /\ namespaces'[r] = namespaces[r]
               /\ \/ environments'[r].state = environments[r].state
                  \/ environments[r].state \notin {"None", "Deleted"},
           \A w \in Workers : workers'[w] = workers[w] \/ workers'[w].pc \notin AtShell
    PROVE  ShellInv'
<1>1. ASSUME NEW r \in Requests PROVE ShellAdvances(r) /\ ShellOf(r)'
    <2>1. ShellOf(r) /\ claims[r].revision \in Nat /\ Late(claims[r].state) \in {0, 1, 2, 3}
        BY ShellFields, LateType DEF ShellInv
    <2>2. Shelled(r) => Shelled(r)'
        BY DEF Shelled
    <2> QED BY <2>1, <2>2 DEF ShellAdvances, ShellOf, Shelled
<1>2. \A w \in Workers : workers'[w] = workers[w] \/ ShellRead(w)'
    BY DEF ShellRead
<1> QED BY <1>1, <1>2, ShellKeeps

\* A transaction that takes a claim on, and leaves shell and environment alone.
LEMMA ClaimMoves ==
    ASSUME TypeOK, TypeOK', ShellInv, NEW r \in Requests, NEW state \in ClaimStates, NEW n \in Nat,
           SetClaim(r, state, n), UNCHANGED <<namespaces, environments>>,
           Late(state) <= Late(claims[r].state) + n,
           claims[r].state \in Over =>
               state \in Over /\ Late(claims[r].state) + n <= Late(state),
           state \in {"Ready", "HandedOff"} => Shelled(r),
           \A w \in Workers : workers'[w] = workers[w] \/ ShellRead(w)'
    PROVE  ShellInv'
<1>1. /\ claims'[r].state = state
      /\ claims'[r].revision = claims[r].revision + n
      /\ \A q \in Requests : q # r => claims'[q] = claims[q]
    BY ClaimWritten
<1>2. ASSUME NEW q \in Requests PROVE ShellAdvances(q) /\ ShellOf(q)'
    <2>1. /\ ShellOf(q) /\ claims[q].revision \in Nat /\ namespaces[q] \in Nat
          /\ Late(claims[q].state) \in {0, 1, 2, 3} /\ Late(state) \in {0, 1, 2, 3}
        BY ShellFields, LateType DEF ShellInv
    <2>2. Shelled(q)' = Shelled(q)
        BY DEF Shelled
    <2>3. CASE q = r
        BY <1>1, <2>1, <2>2, <2>3 DEF ShellAdvances, ShellOf
    <2>4. CASE q # r
        BY <1>1, <2>1, <2>2, <2>4 DEF ShellAdvances, ShellOf
    <2> QED BY <2>3, <2>4
<1> QED BY <1>2, ShellKeeps

\* Nothing outside touches a shell but the end of its environment.
LEMMA ShellOutside ==
    ASSUME ResourceInv, TypeOK', ShellInv, NEW r \in Requests, ApiStep(r) \/ OutsideStep(r)
    PROVE  ShellInv'
<1>1. TypeOK /\ Consistent(r)
    BY DEF ResourceInv
<1>2. CASE Approve(r)
    <2>1. /\ SetClaim(r, "Reserved", 1) /\ "Reserved" \in ClaimStates
          /\ UNCHANGED <<namespaces, environments>> /\ workers' = workers
        BY <1>2 DEF Approve, outside, ClaimStates
    <2>2. claims[r].state = "None"
        BY <1>1, <1>2 DEF Approve, Consistent, Agree
    <2> QED BY <1>1, <2>1, <2>2, ClaimMoves DEF Late, Over
<1>3. CASE EnvironmentDeleted(r)
    <2>1. /\ claims' = claims /\ workers' = workers /\ environments'[r].state = "Deleted"
          /\ \A q \in Requests : q # r => environments'[q] = environments[q]
          /\ namespaces'[r] = 0
          /\ \A q \in Requests : q # r => namespaces'[q] = namespaces[q]
        BY <1>1, <1>3 DEF EnvironmentDeleted, SetEnvironment, SetNamespace, Absent, TypeOK, rows
    <2>2. ASSUME NEW q \in Requests PROVE ShellAdvances(q) /\ ShellOf(q)'
        <3>1. /\ ShellOf(q) /\ claims[q].revision \in Nat /\ namespaces[q] \in Nat
              /\ Late(claims[q].state) \in {0, 1, 2, 3}
            BY <1>1, ShellFields, LateType DEF ShellInv
        <3>2. CASE q = r
            BY <2>1, <3>1, <3>2 DEF ShellAdvances, ShellOf, Shelled
        <3>3. CASE q # r
            BY <2>1, <3>1, <3>3 DEF ShellAdvances, ShellOf, Shelled
        <3> QED BY <3>2, <3>3
    <2> QED BY <1>1, <2>1, <2>2, ShellKeeps
<1>4. CASE EnvironmentExpires(r) \/ EnvironmentFails(r)
    <2>1. /\ claims' = claims /\ namespaces' = namespaces /\ workers' = workers
          /\ environments[r].state \notin {"None", "Deleted"}
          /\ \A q \in Requests : q # r => environments'[q] = environments[q]
        BY <1>1, <1>4 DEF EnvironmentExpires, EnvironmentFails, EnvironmentMoves, SetEnvironment,
                          TypeOK, rows
    <2> QED BY <1>1, <2>1, QuietStep
<1>5. CASE \/ CreateRequest(r) \/ RetryRequest(r) \/ RenewLease(r) \/ RevokeLease(r)
           \/ \E terminal \in {"Rejected", "Cancelled"} : CloseRequest(r, terminal)
           \/ LeaseFallsDue(r) \/ ShellGoesStale(r) \/ RetryFallsDue(r)
    <2>1. UNCHANGED <<claims, namespaces, environments, workers>>
        BY <1>5 DEF CreateRequest, RetryRequest, RenewLease, RevokeLease, CloseRequest,
                    LeaseFallsDue, ShellGoesStale, RetryFallsDue, rows, outside
    <2> QED BY <1>1, <2>1, QuietStep
<1> QED BY <1>2, <1>3, <1>4, <1>5 DEF ApiStep, OutsideStep

\* A worker ends with an item or goes on with it.
LEMMA WorkerAt ==
    ASSUME TypeOK, NEW w \in Workers, NEW pc
    PROVE  /\ Move(w, AtPoint(pc)) =>
                  workers'[w].pc = pc /\ \A v \in Workers : v # w => workers'[v] = workers[v]
           /\ Step(w, pc) =>
                  /\ workers'[w].pc = pc
                  /\ workers'[w].item = workers[w].item
                  /\ workers'[w].claimRevision = workers[w].claimRevision
                  /\ \A v \in Workers : v # w => workers'[v] = workers[v]
           /\ \A r, a, b :
                  Move(w, WithItem(pc, r, a, b)) =>
                      /\ workers'[w].pc = pc
                      /\ workers'[w].item = r
                      /\ workers'[w].claimRevision = a
                      /\ \A v \in Workers : v # w => workers'[v] = workers[v]
BY DEF TypeOK, Move, Step, AtPoint, WithItem

\* A worker reads an item.
LEMMA ItemAt ==
    ASSUME TypeOK, NEW w \in Workers, NEW pc, NEW r, NEW a, NEW b, Move(w, WithItem(pc, r, a, b))
    PROVE  /\ workers'[w].pc = pc /\ workers'[w].item = r /\ workers'[w].claimRevision = a
           /\ \A v \in Workers : v # w => workers'[v] = workers[v]
BY DEF TypeOK, Move, WithItem

\* A worker's step that writes neither claim nor shell nor environment and leads elsewhere.
LEMMA QuietMove ==
    ASSUME TypeOK, TypeOK', ShellInv, NEW w \in Workers, NEW pc \in Points \ AtShell,
           \/ Move(w, AtPoint(pc)) \/ Step(w, pc)
           \/ \E r, a, b : Move(w, WithItem(pc, r, a, b)),
           \A r \in Requests :
               /\ claims'[r].state = claims[r].state /\ claims'[r].revision = claims[r].revision
               /\ namespaces'[r] = namespaces[r]
               /\ \/ environments'[r].state = environments[r].state
                  \/ environments[r].state \notin {"None", "Deleted"}
    PROVE  ShellInv'
<1>1. workers'[w].pc = pc /\ \A v \in Workers : v # w => workers'[v] = workers[v]
    BY WorkerAt
<1> QED BY <1>1, QuietStep

\* Providing a shell.
LEMMA ShellShell ==
    ASSUME ResourceInv, TypeOK', ShellInv, NEW w \in Workers, ShellStep(w)
    PROVE  ShellInv'
<1> USE DEF At
<1>1. TypeOK
    BY DEF ResourceInv
<1>2. ASSUME NEW r \in Requests, ClaimShell(w, r) PROVE ShellInv'
    <2> DEFINE n == IF claims[r].state = "Reserved" THEN 1 ELSE 2
    <2>1. /\ SetClaim(r, "Provisioning", n) /\ n \in {1, 2} /\ "Provisioning" \in ClaimStates
          /\ UNCHANGED <<namespaces, environments>>
          /\ claims[r].state \in {"Reserved", "Provisioning"}
        BY <1>2 DEF ClaimShell, ShellRow, outside, ClaimStates
    <2>2. /\ claims'[r].state = "Provisioning" /\ claims'[r].revision = claims[r].revision + n
          /\ claims[r].revision \in Nat
        BY <1>1, <2>1, ClaimWritten, ShellFields
    <2>3. /\ workers'[w].pc = "reserve" /\ workers'[w].item = r
          /\ workers'[w].claimRevision = claims'[r].revision
          /\ \A v \in Workers : v # w => workers'[v] = workers[v]
        <3>1. Move(w, WithItem("reserve", r, claims'[r].revision, leases[r].revision))
            BY <1>2 DEF ClaimShell
        <3> QED BY <1>1, <3>1, ItemAt
    <2>4. ShellRead(w)'
        BY <2>1, <2>2, <2>3 DEF ShellRead, Late, Item, AtShell
    <2>5. Late("Provisioning") <= Late(claims[r].state) + n /\ claims[r].state \notin Over /\ n \in Nat
        BY <2>1, LateType DEF Late, Over
    <2> HIDE DEF n
    <2> QED BY <1>1, <2>1, <2>3, <2>4, <2>5, ClaimMoves
<1>3. CASE NoShell(w) \/ RejectPlan(w)
    BY <1>1, <1>3, QuietMove DEF NoShell, RejectPlan, Points, AtShell, rows, outside
<1>4. ASSUME workers[w].pc = "reserve", NEW pc \in {"ready", "blocked"}, Step(w, pc),
             \/ UNCHANGED namespaces /\ pc = "blocked"
             \/ SetNamespace(Item(w), workers[w].claimRevision),
             UNCHANGED <<rows, timers, environments, stops>>
      PROVE  ShellInv'
    <2>1. /\ Item(w) \in Requests /\ workers[w].claimRevision \in Nat
          /\ ShellRead(w) /\ claims' = claims
        BY <1>1, <1>4, WorkerFields DEF ShellInv, Between, rows
    <2>2. /\ workers'[w].pc = pc /\ workers'[w].item = workers[w].item
          /\ \A v \in Workers : v # w => workers'[v] = workers[v]
        BY <1>1, <1>4, WorkerAt
    <2>3. CASE UNCHANGED namespaces /\ pc = "blocked"
        BY <1>1, <1>4, <2>1, <2>2, <2>3, QuietStep DEF AtShell
    <2>4. CASE SetNamespace(Item(w), workers[w].claimRevision)
        <3>1. /\ namespaces'[Item(w)] = workers[w].claimRevision
              /\ \A q \in Requests : q # Item(w) => namespaces'[q] = namespaces[q]
            BY <1>1, <2>1, <2>4 DEF SetNamespace, TypeOK
        <3>2. /\ workers[w].claimRevision # 0
              /\ workers[w].claimRevision + Late(claims[Item(w)].state) <= claims[Item(w)].revision
            BY <1>4, <2>1 DEF ShellRead, AtShell
        <3>3. ASSUME NEW q \in Requests PROVE ShellAdvances(q) /\ ShellOf(q)'
            <4>1. /\ ShellOf(q) /\ claims[q].revision \in Nat /\ namespaces[q] \in Nat
                  /\ Late(claims[q].state) \in {0, 1, 2, 3}
                BY <1>1, ShellFields, LateType DEF ShellInv
            <4>2. CASE q = Item(w)
                BY <1>4, <2>1, <3>1, <3>2, <4>1, <4>2 DEF ShellAdvances, ShellOf, Shelled, Absent
            <4>3. CASE q # Item(w)
                BY <1>4, <2>1, <3>1, <4>1, <4>3 DEF ShellAdvances, ShellOf, Shelled
            <4> QED BY <4>2, <4>3
        <3>4. ShellRead(w)'
            BY <2>2, <3>1, <3>2 DEF ShellRead, Shelled, Item, Absent
        <3> QED BY <1>1, <2>2, <3>3, <3>4, ShellKeeps
    <2> QED BY <1>4, <2>3, <2>4
<1>5. CASE Reserve(w) \/ ReserveFails(w)
    BY <1>4, <1>5 DEF Reserve, ReserveFails
<1>6. ASSUME workers[w].pc \in {"ready", "blocked", "rejected"}, Fence(w),
             NEW state \in {"Ready", "Blocked"}, SetClaim(Item(w), state, 1),
             state = "Ready" => workers[w].pc = "ready",
             NEW pc \in Between, Move(w, AtPoint(pc)), UNCHANGED outside
      PROVE  ShellInv'
    <2>1. Item(w) \in Requests /\ claims[Item(w)].state = "Provisioning" /\ ShellRead(w)
        BY <1>1, <1>6, WorkerFields DEF Between, Fence, ClaimFence, ShellInv
    <2>2. workers'[w].pc = pc /\ \A v \in Workers : v # w => workers'[v] = workers[v]
        BY <1>1, <1>6, WorkerAt
    <2>3. ShellRead(w)'
        BY <2>2 DEF ShellRead, AtShell, Between
    <2>4. state \in {"Ready", "HandedOff"} => Shelled(Item(w))
        BY <1>6, <2>1 DEF ShellRead, AtShell
    <2>5. Late(state) = 1 /\ Late(claims[Item(w)].state) = 0 /\ claims[Item(w)].state \notin Over
        BY <2>1 DEF Late, Over
    <2> QED BY <1>1, <1>6, <2>1, <2>2, <2>3, <2>4, <2>5, ClaimMoves DEF ClaimStates, outside
<1>7. CASE MarkShellReady(w) \/ MarkShellBlocked(w)
    BY <1>6, <1>7 DEF MarkShellReady, MarkShellBlocked, Between
<1> QED BY <1>2, <1>3, <1>5, <1>7 DEF ShellStep

\* Handing a shell over.
LEMMA ShellHandOff ==
    ASSUME ResourceInv, TypeOK', ShellInv, NEW w \in Workers, HandOffStep(w)
    PROVE  ShellInv'
<1> USE DEF At
<1>1. TypeOK
    BY DEF ResourceInv
<1>2. ASSUME NEW r \in Requests, NextReady(w, r) PROVE ShellInv'
    BY <1>1, <1>2, QuietMove DEF NextReady, Points, AtShell, rows, outside
<1>3. CASE NoneReady(w) \/ ActivateLease(w) \/ HandOffFails(w)
    BY <1>1, <1>3, QuietMove DEF NoneReady, ActivateLease, HandOffFails, Points, AtShell, rows, outside
<1>4. CASE RefreshReady(w)
    <2>1. Item(w) \in Requests /\ UNCHANGED <<claims, namespaces, environments>>
        BY <1>1, <1>4, WorkerFields DEF RefreshReady, Between, rows, outside
    <2>2. ASSUME claims[Item(w)].state = "Ready",
                 Move(w, WithItem("call", Item(w), claims[Item(w)].revision, leases[Item(w)].revision))
          PROVE  ShellInv'
        <3>1. /\ workers'[w].pc = "call" /\ workers'[w].item = Item(w)
              /\ \A v \in Workers : v # w => workers'[v] = workers[v]
            BY <1>1, <2>2, ItemAt
        <3>2. Shelled(Item(w))
            BY <2>1, <2>2 DEF ShellInv, ShellOf
        <3>3. ShellRead(w)'
            BY <2>1, <3>1, <3>2 DEF ShellRead, Shelled, Item
        <3>4. ASSUME NEW q \in Requests PROVE ShellAdvances(q) /\ ShellOf(q)'
            <4>1. ShellOf(q) /\ claims[q].revision \in Nat /\ Late(claims[q].state) \in {0, 1, 2, 3}
                BY <1>1, ShellFields, LateType DEF ShellInv
            <4> QED BY <2>1, <4>1 DEF ShellAdvances, ShellOf, Shelled
        <3> QED BY <1>1, <3>1, <3>3, <3>4, ShellKeeps
    <2>3. ASSUME NEW pc \in {"refused", "sync"},
                 \/ Move(w, AtPoint(pc))
                 \/ Move(w, WithItem(pc, Item(w), claims[Item(w)].revision, leases[Item(w)].revision))
          PROVE  ShellInv'
        BY <1>1, <2>1, <2>3, QuietMove DEF Points, AtShell
    <2> QED BY <1>4, <2>2, <2>3 DEF RefreshReady
<1>5. CASE HandOff(w)
    <2>1. /\ Item(w) \in Requests /\ ShellRead(w) /\ workers[w].pc = "call"
          /\ UNCHANGED <<claims, namespaces>>
        BY <1>1, <1>5, WorkerFields DEF HandOff, Between, rows, ShellInv
    <2>2. PICK pc \in {"accepted", "refused"} : Step(w, pc)
        BY <1>5 DEF HandOff
    <2>3. workers'[w].pc = pc /\ \A v \in Workers : v # w => workers'[v] = workers[v]
        BY <1>1, <2>2, WorkerAt
    <2>4. ShellRead(w)'
        BY <2>3 DEF ShellRead, AtShell
    <2>5. Shelled(Item(w))
        BY <2>1 DEF ShellRead, AtShell
    <2>6. \/ UNCHANGED environments
          \/ /\ environments[Item(w)].state = "None"
             /\ \A q \in Requests : q # Item(w) => environments'[q] = environments[q]
        BY <1>1, <1>5, <2>1 DEF HandOff, SetEnvironment, TypeOK
    <2>7. ASSUME NEW q \in Requests PROVE ShellAdvances(q) /\ ShellOf(q)'
        <3>1. ShellOf(q) /\ claims[q].revision \in Nat /\ Late(claims[q].state) \in {0, 1, 2, 3}
            BY <1>1, ShellFields, LateType DEF ShellInv
        <3>2. CASE q = Item(w)
            BY <2>1, <2>5, <2>6, <3>1, <3>2 DEF ShellAdvances, ShellOf, Shelled
        <3>3. CASE q # Item(w)
            BY <2>1, <2>6, <3>1, <3>3 DEF ShellAdvances, ShellOf, Shelled
        <3> QED BY <3>2, <3>3
    <2> QED BY <1>1, <2>3, <2>4, <2>7, ShellKeeps
<1>6. ASSUME workers[w].pc \in {"accepted", "refused"}, Fence(w),
             NEW state \in {"HandedOff", "Blocked"}, SetClaim(Item(w), state, 1),
             Move(w, AtPoint("sync")), UNCHANGED outside
      PROVE  ShellInv'
    <2>1. Item(w) \in Requests /\ claims[Item(w)].state = "Ready"
        BY <1>1, <1>6, WorkerFields DEF Between, Fence, ClaimFence
    <2>2. workers'[w].pc = "sync" /\ \A v \in Workers : v # w => workers'[v] = workers[v]
        BY <1>1, <1>6, WorkerAt
    <2>3. ShellRead(w)'
        BY <2>2 DEF ShellRead, AtShell
    <2>4. Shelled(Item(w))
        BY <2>1 DEF ShellInv, ShellOf
    <2>5. Late(state) = 1 /\ Late(claims[Item(w)].state) = 1 /\ claims[Item(w)].state \notin Over
        BY <2>1 DEF Late, Over
    <2> QED BY <1>1, <1>6, <2>1, <2>2, <2>3, <2>4, <2>5, ClaimMoves DEF ClaimStates, outside
<1>7. CASE MarkHandedOff(w)
    BY <1>6, <1>7 DEF MarkHandedOff
<1>8. CASE RetryOrBlockHandOff(w)
    <2>1. CASE UNCHANGED claims
        BY <1>1, <1>8, <2>1, QuietMove DEF RetryOrBlockHandOff, Points, AtShell, outside
    <2>2. CASE SetClaim(Item(w), "Blocked", 1)
        BY <1>6, <1>8, <2>2 DEF RetryOrBlockHandOff
    <2> QED BY <1>8, <2>1, <2>2 DEF RetryOrBlockHandOff
<1> QED BY <1>2, <1>3, <1>4, <1>5, <1>7, <1>8 DEF HandOffStep

\* Telling the environment of a renewal.
LEMMA ShellSync ==
    ASSUME ResourceInv, TypeOK', ShellInv, NEW w \in Workers, SyncStep(w)
    PROVE  ShellInv'
<1> USE DEF At
<1>1. TypeOK
    BY DEF ResourceInv
<1>2. ASSUME NEW r \in Requests, NextUnsynced(w, r) PROVE ShellInv'
    BY <1>1, <1>2, QuietMove DEF NextUnsynced, Points, AtShell, rows, outside
<1>3. CASE NoneUnsynced(w) \/ SyncLeaseFails(w)
    BY <1>1, <1>3, QuietMove DEF NoneUnsynced, SyncLeaseFails, Points, AtShell, rows, outside
<1>4. CASE SyncLease(w)
    <2>1. /\ Item(w) \in Requests /\ UNCHANGED <<claims, namespaces>>
          /\ \A q \in Requests : environments'[q].state = environments[q].state
        BY <1>1, <1>4, WorkerFields DEF SyncLease, SetEnvironment, Between, TypeOK, rows
    <2>2. PICK pc \in {"synced", "cleanup"} : Step(w, pc) \/ Move(w, AtPoint(pc))
        BY <1>4 DEF SyncLease
    <2> QED BY <1>1, <2>1, <2>2, QuietMove DEF Points, AtShell
<1>5. CASE MarkLeaseSynced(w)
    <2>1. /\ Item(w) \in Requests /\ UNCHANGED <<namespaces, environments>>
          /\ \A q \in Requests :
                 claims'[q].state = claims[q].state /\ claims'[q].revision = claims[q].revision
        BY <1>1, <1>5, WorkerFields DEF MarkLeaseSynced, Between, TypeOK, outside
    <2> QED BY <1>1, <1>5, <2>1, QuietMove DEF MarkLeaseSynced, Points, AtShell
<1> QED BY <1>2, <1>3, <1>4, <1>5 DEF SyncStep

\* Cleaning up.
LEMMA ShellCleanup ==
    ASSUME ResourceInv, TypeOK', ShellInv, NEW w \in Workers, CleanupStep(w)
    PROVE  ShellInv'
<1> USE DEF At
<1>1. TypeOK
    BY DEF ResourceInv
<1>2. ASSUME NEW r \in Requests, NextCleanup(w, r) PROVE ShellInv'
    <2>1. UNCHANGED <<claims, namespaces, environments>>
        BY <1>2 DEF NextCleanup, outside
    <2>2. /\ workers'[w].pc = CleanupPoint(claims[r].state) /\ workers'[w].item = r
          /\ workers'[w].claimRevision = claims[r].revision
          /\ \A v \in Workers : v # w => workers'[v] = workers[v]
        <3>1. Move(w, WithItem(CleanupPoint(claims[r].state), r, claims[r].revision,
                               leases'[r].revision))
            BY <1>2 DEF NextCleanup
        <3> QED BY <1>1, <3>1, ItemAt
    <2>3. /\ workers'[w].pc \in {"expire", "delete", "status"}
          /\ workers'[w].pc = "delete" => claims[r].state = "Blocked"
        BY <2>2 DEF CleanupPoint
    <2>4. ShellRead(w)'
        BY <1>1, <2>1, <2>2, <2>3, ShellFields DEF ShellRead, Item, Late, Over
    <2>5. ASSUME NEW q \in Requests PROVE ShellAdvances(q) /\ ShellOf(q)'
        <3>1. ShellOf(q) /\ claims[q].revision \in Nat /\ Late(claims[q].state) \in {0, 1, 2, 3}
            BY <1>1, ShellFields, LateType DEF ShellInv
        <3> QED BY <2>1, <3>1 DEF ShellAdvances, ShellOf, Shelled
    <2> QED BY <1>1, <2>2, <2>4, <2>5, ShellKeeps
<1>3. CASE \/ NoCleanup(w) \/ RequestCleanupFails(w) \/ ReleaseBeforeHandOffFails(w)
           \/ CleanupStatusFails(w) \/ VerifyReleased(w) \/ VerifyReleasedFails(w)
    BY <1>1, <1>3, QuietMove
       DEF NoCleanup, RequestCleanupFails, ReleaseBeforeHandOffFails, CleanupStatusFails,
           VerifyReleased, VerifyReleasedFails, Points, AtShell, rows, outside
<1>4. CASE RequestCleanup(w)
    <2>1. /\ Item(w) \in Requests /\ UNCHANGED <<claims, namespaces>>
          /\ \A q \in Requests :
                 \/ environments'[q].state = environments[q].state
                 \/ environments[q].state \notin {"None", "Deleted"}
        BY <1>1, <1>4, WorkerFields DEF RequestCleanup, SetEnvironment, Between, TypeOK, rows
    <2>2. PICK pc \in {"release", "expireFailed"} : Step(w, pc)
        BY <1>4 DEF RequestCleanup
    <2> QED BY <1>1, <2>1, <2>2, QuietMove DEF Points, AtShell
<1>5. CASE ReleaseBeforeHandOff(w)
    <2>1. Item(w) \in Requests /\ workers[w].claimRevision \in Nat /\ ShellRead(w)
        BY <1>1, <1>5, WorkerFields DEF ReleaseBeforeHandOff, Between, ShellInv
    <2>2. /\ namespaces[Item(w)] + Late(claims[Item(w)].state) <= claims[Item(w)].revision
          /\ claims[Item(w)].revision + 1 <= workers[w].claimRevision + Late(claims[Item(w)].state)
        BY <1>5, <2>1 DEF ReleaseBeforeHandOff, ShellRead, AtShell, ShellInv, ShellOf
    <2>3. /\ claims[Item(w)].revision \in Nat /\ namespaces[Item(w)] \in Nat
          /\ Late(claims[Item(w)].state) \in {0, 1, 2, 3}
        BY <1>1, <2>1, ShellFields, LateType
    <2>4. namespaces[Item(w)] # workers[w].claimRevision
        BY <2>1, <2>2, <2>3
    <2>5. namespaces[Item(w)] = Absent
        BY <1>5, <2>4 DEF ReleaseBeforeHandOff, Verified
    <2>6. namespaces' = namespaces
        BY <1>1, <1>5, <2>1, <2>5 DEF ReleaseBeforeHandOff, SetNamespace, TypeOK
    <2>7. PICK pc \in {"release", "idle"} : Step(w, pc) \/ Move(w, AtPoint(pc))
        BY <1>5 DEF ReleaseBeforeHandOff
    <2> QED BY <1>1, <1>5, <2>6, <2>7, QuietMove DEF ReleaseBeforeHandOff, Points, AtShell, rows
<1>6. CASE CleanupStatus(w)
    <2>1. PICK pc \in {"verify", "expireFailed", "idle"} : Step(w, pc) \/ Move(w, AtPoint(pc))
        BY <1>6 DEF CleanupStatus, StatusPoint
    <2> QED BY <1>1, <1>6, <2>1, QuietMove DEF CleanupStatus, Points, AtShell, rows, outside
<1>7. CASE RecordFailure(w)
    BY <1>1, <1>7, QuietMove DEF RecordFailure, Points, AtShell, outside
<1>8. ASSUME workers[w].pc \in {"release", "complete"}, Item(w) \in Requests,
             NEW state \in {"Releasing", "Released"}, SetClaim(Item(w), state, 1),
             Late(claims[Item(w)].state) + 1 = Late(state),
             Move(w, AtPoint("idle")), UNCHANGED outside
      PROVE  ShellInv'
    <2>1. workers'[w].pc = "idle" /\ \A v \in Workers : v # w => workers'[v] = workers[v]
        BY <1>1, <1>8, WorkerAt
    <2>2. ShellRead(w)'
        BY <2>1 DEF ShellRead, AtShell
    <2>3. state \in Over /\ Late(claims[Item(w)].state) \in {0, 1, 2, 3} /\ Late(state) \in {0, 1, 2, 3}
        BY LateType DEF Over
    <2> QED BY <1>1, <1>8, <2>1, <2>2, <2>3, ClaimMoves DEF ClaimStates, outside
<1>9. CASE MarkReleasing(w)
    <2>1. Item(w) \in Requests /\ claims[Item(w)].state \in {"Blocked", "HandedOff"}
        BY <1>1, <1>9, WorkerFields DEF MarkReleasing, Between, Fence, ClaimFence
    <2>2. Late(claims[Item(w)].state) + 1 = Late("Releasing")
        BY <2>1 DEF Late
    <2> QED BY <1>8, <1>9, <2>1, <2>2 DEF MarkReleasing
<1>10. CASE CompleteRelease(w)
    <2>1. Item(w) \in Requests /\ claims[Item(w)].state = "Releasing"
        BY <1>1, <1>10, WorkerFields DEF CompleteRelease, Between, Fence, ClaimFence
    <2>2. Late(claims[Item(w)].state) + 1 = Late("Released")
        BY <2>1 DEF Late
    <2> QED BY <1>8, <1>10, <2>1, <2>2 DEF CompleteRelease
<1> QED BY <1>2, <1>3, <1>4, <1>5, <1>6, <1>7, <1>9, <1>10 DEF CleanupStep

\* The namespace an environment lives in is never taken from under it: a worker that takes a
\* claim for one that was never handed off holds a later revision than the namespace carries,
\* for any number of requests, workers, lost answers and stops.
THEOREM ShellAlwaysKept == Spec => []ShellKept
<1>1. Init => ShellInv
    BY ShellInit
<1>2. ResourceInv /\ ResourceInv' /\ ShellInv /\ [Next]_vars => ShellInv'
    <2> SUFFICES ASSUME ResourceInv, ResourceInv', ShellInv, [Next]_vars PROVE ShellInv'
        OBVIOUS
    <2>1. TypeOK /\ TypeOK'
        BY DEF ResourceInv
    <2>2. ASSUME NEW r \in Requests, ApiStep(r) \/ OutsideStep(r) PROVE ShellInv'
        BY <2>1, <2>2, ShellOutside
    <2>3. ASSUME NEW w \in Workers, Conflict(w) \/ Stop(w) PROVE ShellInv'
        BY <2>1, <2>3, QuietMove DEF Conflict, Stop, Points, AtShell, rows, outside
    <2>4. ASSUME NEW w \in Workers, WorkerStep(w) PROVE ShellInv'
        BY <2>1, <2>3, <2>4, ShellShell, ShellHandOff, ShellSync, ShellCleanup DEF WorkerStep
    <2>5. CASE UNCHANGED vars
        BY <2>1, <2>5, QuietStep DEF vars, rows, outside
    <2> QED BY <2>2, <2>3, <2>4, <2>5 DEF Next
<1>3. ShellInv => ShellKept
    BY DEF ShellInv, ShellOf, Shelled, ShellKept
<1> QED BY <1>1, <1>2, <1>3, ResourceInvariant, PTL DEF Spec

-----------------------------------------------------------------------------
(***************************************************************************)
(* The runtime: the aggregate, the executor, the fence row, the cluster.   *)
(***************************************************************************)

\* The pairs of step and attempt in the order in which an operation goes through them.
NotLater(r, op) ==
    r.step < op.providerStep \/ (r.step = op.providerStep /\ r.attempt <= op.attempt)

\* A cleanup has been asked for, and may have been carried out.
Gone(e) ==
    /\ e.desiredState = "Deleted"
    /\ \/ e.observedState \in {"Deleting", "Deleted"}
       \/ e.observedState = "Failed" /\ e.failedPhase \in {"Deleting", "Deleted"}

\* Nothing is on its way out that is not meant to be, and what has failed is over.
Settled(e) ==
    /\ e.observedState \in {"Deleting", "Deleted"} => e.desiredState = "Deleted"
    /\ e.observedState = "Failed" /\ e.failedPhase \in {"Deleting", "Deleted"} =>
           e.desiredState = "Deleted"
    /\ Active(e) => e.observedState # "Failed"

\* The request was made no later than now.  Freeze keeps the generation of the operation
\* before it, so that the requests of the two are not in order.
Behind(r, e) ==
    /\ r.generation <= e.generation
    /\ r.generation = e.generation /\ e.operation.kind # "Freeze" =>
           r.operation = e.operation.id /\ NotLater(r, e.operation)
    /\ r.action = "Cleanup" => Gone(e)

\* One write of the aggregate.
Moves(e, f) ==
    /\ f \in Instance
    /\ f.revision > e.revision
    /\ f.generation >= e.generation
    /\ f.generation = e.generation /\ f.operation.kind # "Freeze" =>
           /\ f.operation.id = e.operation.id /\ f.operation.kind = e.operation.kind
           /\ \/ f.operation.providerStep > e.operation.providerStep
              \/ /\ f.operation.providerStep = e.operation.providerStep
                 /\ f.operation.attempt >= e.operation.attempt
    /\ Gone(e) => Gone(f)
    /\ Settled(f)

\* A request that was made before a write was made before what it leaves.
LEMMA BehindStays ==
    ASSUME NEW e \in Instance, NEW f, Moves(e, f), NEW r \in Request, Behind(r, e)
    PROVE  Behind(r, f)
<1>1. r.generation \in Nat /\ e.generation \in Nat /\ r.step \in Nat /\ r.attempt \in Nat
  BY DEF Request, Instance
<1>2. f \in Instance
  BY DEF Moves
<1>3. e.operation \in Operation /\ f.operation \in Operation /\ f.generation \in Nat
  BY <1>2 DEF Instance
<1>4. /\ e.operation.providerStep \in Nat /\ f.operation.providerStep \in Nat
      /\ e.operation.attempt \in Nat /\ f.operation.attempt \in Nat
  BY <1>3 DEF Operation
<1> QED BY <1>1, <1>3, <1>4 DEF Moves, Behind, NotLater

LEMMA RetryMoves ==
    ASSUME NEW e \in Instance, Settled(e), Active(e), NEW t \in Nat
    PROVE  Moves(e, ApplyRetry(e, "Provider", t))
<1> DEFINE f == ApplyRetry(e, "Provider", t)
<1>1. "Provider" \in DiagnosticCodes /\ e.operation \in Operation
  BY DEF DiagnosticCodes, Instance
<1>2. /\ f \in Instance /\ f.desiredState = e.desiredState /\ f.observedState = e.observedState
      /\ f.revision = e.revision + 1 /\ f.generation = e.generation /\ f.failedPhase = e.failedPhase
      /\ f.operation = RetriedOperation(e.operation, "Provider", t)
  BY <1>1, RetryFields
<1>3. /\ f.operation.id = e.operation.id /\ f.operation.kind = e.operation.kind
      /\ f.operation.attempt = e.operation.attempt + 1
      /\ f.operation.providerStep = e.operation.providerStep
  BY <1>1, <1>2, RetriedOperationFields
<1>4. e.revision \in Nat /\ e.generation \in Nat /\ e.operation.attempt \in Nat
  BY <1>1 DEF Instance, Operation
<1> HIDE DEF f
<1>5. Moves(e, f)
  BY <1>2, <1>3, <1>4 DEF Moves, Gone, Settled
<1> QED BY <1>5 DEF f

LEMMA FailureMoves ==
    ASSUME NEW e \in Instance, Settled(e), Active(e)
    PROVE  Moves(e, ApplyProviderFailure(e, "Provider"))
<1> DEFINE f == ApplyProviderFailure(e, "Provider")
<1>1. "Provider" \in DiagnosticCodes /\ e.operation \in Operation
  BY DEF DiagnosticCodes, Instance
<1>2. /\ f \in Instance /\ f.desiredState = e.desiredState /\ f.observedState = "Failed"
      /\ f.revision = e.revision + 1 /\ f.generation = e.generation /\ f.failedPhase = e.observedState
      /\ f.operation = FailedOperation(e.operation, "Provider")
  BY <1>1, FailureFields
<1>3. /\ f.operation.id = e.operation.id /\ f.operation.kind = e.operation.kind
      /\ f.operation.attempt = e.operation.attempt /\ f.operation.state = "Failed"
      /\ f.operation.providerStep = e.operation.providerStep
  BY <1>1, <1>2, FailedOperationFields
<1>4. e.revision \in Nat /\ e.generation \in Nat /\ e.operation.attempt \in Nat
  BY <1>1 DEF Instance, Operation
<1> HIDE DEF f
<1>5. Moves(e, f)
  BY <1>2, <1>3, <1>4 DEF Moves, Gone, Settled, Active, ActiveOperationStates
<1> QED BY <1>5 DEF f

LEMMA CleanupMoves ==
    ASSUME NEW e \in Instance, NEW s \in Nat, NEW d \in Nat
    PROVE  Moves(e, BeginTimeoutCleanup(e, s, d))
<1> DEFINE f == BeginTimeoutCleanup(e, s, d)
<1>1. e.operation \in Operation
  BY DEF Instance
<1>2. /\ f \in Instance /\ f.desiredState = "Deleted" /\ f.observedState = "Deleting"
      /\ f.revision = e.revision + 1
      /\ f.generation = IF e.desiredState = "Deleted" THEN e.generation ELSE e.generation + 1
      /\ f.operation = CleanupOperation(e.operation, s, d)
  BY CleanupFields
<1> HIDE DEF f
<1>3. /\ f.operation.id = e.operation.id /\ f.operation.kind = e.operation.kind
      /\ f.operation.providerStep = e.operation.providerStep + 1
  <2>1. CleanupOperation(e.operation, s, d).id = e.operation.id
    BY <1>1, SMT DEF CleanupOperation, Operation
  <2>2. CleanupOperation(e.operation, s, d).kind = e.operation.kind
    BY <1>1, SMT DEF CleanupOperation, Operation
  <2>3. CleanupOperation(e.operation, s, d).providerStep = e.operation.providerStep + 1
    BY <1>1, SMT DEF CleanupOperation, Operation
  <2> QED BY <1>2, <2>1, <2>2, <2>3
<1>4. e.revision \in Nat /\ e.generation \in Nat /\ e.operation.providerStep \in Nat
  BY <1>1 DEF Instance, Operation
<1>5. Moves(e, f)
  BY <1>2, <1>3, <1>4 DEF Moves, Gone, Settled
<1> QED BY <1>5 DEF f

LEMMA ObservationMoves ==
    ASSUME NEW e \in Instance, Settled(e), Active(e), NEW obs \in Observation, NEW t \in Nat,
           ObservationAccepted(e, obs), obs.nextState \notin {"Failed", "Deleting"}
    PROVE  Moves(e, Deferred(ApplyProviderObservation(e, obs), t))
<1> DEFINE g == ApplyProviderObservation(e, obs)
           f == Deferred(g, t)
<1>1. e.operation \in Operation
  BY DEF Instance
<1>2. /\ g \in Instance /\ g.desiredState = e.desiredState /\ g.observedState = obs.nextState
      /\ g.revision = e.revision + 1 /\ g.generation = e.generation
      /\ g.operation = ObservedOperation(e, obs)
  BY ObservationFields
<1>3. /\ g.operation.id = e.operation.id /\ g.operation.kind = e.operation.kind
      /\ g.operation.attempt = e.operation.attempt
      /\ g.operation.providerStep = IF obs.operationComplete
                                    THEN e.operation.providerStep ELSE e.operation.providerStep + 1
  BY <1>2, ObservedOperationFields
<1> HIDE DEF g
<1>4. /\ f \in Instance /\ f.desiredState = g.desiredState /\ f.observedState = g.observedState
      /\ f.revision = g.revision /\ f.generation = g.generation
      /\ f.operation.id = g.operation.id /\ f.operation.kind = g.operation.kind
      /\ f.operation.attempt = g.operation.attempt
      /\ f.operation.providerStep = g.operation.providerStep
  BY <1>2, DeferredFields
<1> HIDE DEF f
<1>5. /\ e.revision \in Nat /\ e.generation \in Nat /\ e.operation.providerStep \in Nat
      /\ e.operation.attempt \in Nat
  BY <1>1 DEF Instance, Operation
<1>6. ObservationMatchesOperation(e.operation.kind, e.observedState, obs.nextState)
  BY DEF ObservationAccepted, ValidateProviderObservation
<1>7. /\ obs.nextState = "Deleted" => e.observedState = "Deleting"
      /\ e.observedState = "Deleting" => obs.nextState = "Deleted"
      /\ e.observedState # "Deleted"
  BY <1>6 DEF ObservationMatchesOperation, RetryKinds
<1>8. Settled(f)
  BY <1>2, <1>4, <1>7 DEF Settled
<1>9. Gone(e) => Gone(f)
  BY <1>2, <1>4, <1>7 DEF Settled, Gone
<1>10. \/ f.operation.providerStep > e.operation.providerStep
       \/ /\ f.operation.providerStep = e.operation.providerStep
          /\ f.operation.attempt >= e.operation.attempt
  BY <1>3, <1>4, <1>5
<1>11. Moves(e, f)
  BY <1>2, <1>3, <1>4, <1>5, <1>8, <1>9, <1>10 DEF Moves
<1> QED BY <1>11 DEF f, g

LEMMA CommandMoves ==
    ASSUME NEW e \in Instance, Settled(e), NEW c \in Command, NEW t, CommandAllowed(e, c, t),
           NEW id \in Nat, NEW u \in Nat \cup {NoTime}
    PROVE  Moves(e, NotBefore(PlanCommand(e, c, id), u))
<1> DEFINE g == PlanCommand(e, c, id)
           f == NotBefore(g, u)
<1>1. e.revision \in Nat /\ e.generation \in Nat
  BY DEF Instance
<1>2. c.kind \in RetryKinds => e.failedPhase \notin {NoPhase, "Deleted", "Failed"}
  BY DEF CommandAllowed
<1>3. /\ g \in Instance /\ g.desiredState = DesiredState(e, c.kind)
      /\ g.observedState = AcceptedObservedState(e, c.kind)
      /\ g.revision = e.revision + 1
      /\ g.generation = IF IncrementsGeneration(c.kind) THEN e.generation + 1 ELSE e.generation
      /\ g.failedPhase = NoPhase
      /\ g.operation = PlannedOperation(e, c, id)
  BY <1>2, PlannedFields
<1>4. g.operation.kind = c.kind /\ g.operation \in Operation
  BY <1>3, PlannedOperationType DEF PlannedOperation
<1> HIDE DEF g
<1>5. /\ f \in Instance /\ f.desiredState = g.desiredState /\ f.observedState = g.observedState
      /\ f.revision = g.revision /\ f.generation = g.generation /\ f.failedPhase = g.failedPhase
      /\ f.operation = [g.operation EXCEPT !.nextAttemptAt = Later(u, g.operation.nextAttemptAt)]
  BY <1>3, NotBeforeFields
<1>6. f.operation.kind = c.kind
  BY <1>4, <1>5 DEF Operation
<1> HIDE DEF f
<1>7. f.generation >= e.generation /\ (f.generation = e.generation => f.operation.kind = "Freeze")
  BY <1>1, <1>3, <1>5, <1>6 DEF IncrementsGeneration
<1>8. c.kind \in OperationKinds \ {"Create"}
  BY DEF Command
<1>9. EnsureOperationAllowed(e.observedState, c.kind)
  BY DEF CommandAllowed
<1>10. AcceptedObservedState(e, c.kind) # "Failed"
  BY <1>2, <1>8, <1>9
     DEF AcceptedObservedState, RetryResumeState, EnsureOperationAllowed, RetryKinds, OperationKinds,
         ObservedStates, NoPhase, Instance
<1>11. AcceptedObservedState(e, c.kind) \in {"Deleting", "Deleted"} => DesiredState(e, c.kind) = "Deleted"
  <2>1. CASE c.kind \in RetryKinds
    <3>1. e.observedState = "Failed" /\ DesiredState(e, c.kind) = e.desiredState
      BY <1>9, <2>1 DEF EnsureOperationAllowed, RetryKinds, DesiredState, DestructiveKinds
    <3>2. AcceptedObservedState(e, c.kind) = RetryResumeState(e.failedPhase)
      BY <2>1 DEF AcceptedObservedState, RetryKinds
    <3>3. RetryResumeState(e.failedPhase) \in {"Deleting", "Deleted"} => e.failedPhase \in {"Deleting", "Deleted"}
      BY DEF RetryResumeState
    <3> QED BY <3>1, <3>2, <3>3 DEF Settled
  <2>2. CASE c.kind \in DestructiveKinds
    BY <2>2 DEF DesiredState, DestructiveKinds
  <2>3. CASE c.kind \notin RetryKinds \cup DestructiveKinds
    BY <2>3, <1>8, <1>9
       DEF AcceptedObservedState, EnsureOperationAllowed, RetryKinds, DestructiveKinds, OperationKinds
  <2> QED BY <2>1, <2>2, <2>3
<1>12. Settled(f)
  BY <1>3, <1>5, <1>10, <1>11 DEF Settled
<1>13. ASSUME Gone(e) PROVE Gone(f)
  <2>1. e.desiredState = "Deleted" /\ c.kind \in {"Delete", "Cleanup"} \cup RetryKinds
    BY <1>13 DEF Gone, CommandAllowed
  <2>2. CASE c.kind \in {"Delete", "Cleanup"}
    <3>1. DesiredState(e, c.kind) = "Deleted" /\ AcceptedObservedState(e, c.kind) = "Deleting"
      BY <2>2 DEF DesiredState, DestructiveKinds, AcceptedObservedState, RetryKinds
    <3> QED BY <3>1, <1>3, <1>5 DEF Gone
  <2>3. CASE c.kind \in RetryKinds
    <3>1. e.observedState = "Failed" /\ DesiredState(e, c.kind) = e.desiredState
      BY <1>9, <2>3 DEF EnsureOperationAllowed, RetryKinds, DesiredState, DestructiveKinds
    <3>2. e.failedPhase = "Deleting"
      BY <1>2, <1>13, <2>3, <3>1 DEF Gone
    <3>3. AcceptedObservedState(e, c.kind) = "Deleting"
      BY <2>3, <3>2 DEF AcceptedObservedState, RetryKinds, RetryResumeState
    <3> QED BY <2>1, <3>1, <3>3, <1>3, <1>5 DEF Gone
  <2> QED BY <2>1, <2>2, <2>3
<1>14. Moves(e, f)
  BY <1>1, <1>3, <1>5, <1>7, <1>12, <1>13 DEF Moves
<1> QED BY <1>14 DEF f, g

-----------------------------------------------------------------------------
\* The invariant of the runtime.

ExecutionSteps ==
    {"namespace", "volume", "policy", "workload", "claim", "observe", "start", "stop", "settle",
     "restart", "running", "halted", "readback", "delete", "finalizers", "evidence", "complete"}

CleanupStages == {"readback", "delete", "finalizers", "evidence"}

JobRecord == [req : Request, pc : ExecutionSteps, answer : Answers]

CallRecord ==
    [token : Nat, snapshot : Instance, since : Nat, req : Request, answer : Answers,
     recorded : {"no", "yes", "refused", "failed"}]

FenceRow == [present : {TRUE}, req : Request, answer : Answers, tombstoned : BOOLEAN]

Clusters ==
    [ns : {"absent", "active", "terminating", "released"}, vol : Nat, made : Nat, bound : BOOLEAN,
     load : {"none", "starting", "running", "stopping", "stopped"}, isolated : BOOLEAN]

\* The requests that the executor serves.
ServedActions == {"Provision", "Reset", "Observe", "Start", "Stop", "Restart", "Cleanup"}

RuntimeTyped ==
    /\ runtime \in {"container", "kubevirt"}
    /\ tick \in Nat /\ requested \in Nat
    /\ inst \in Instance
    /\ lease \in [token : Nat, until : Nat \cup {NoTime}]
    /\ calls \subseteq CallRecord
    /\ wire \subseteq Request /\ \A r \in wire : r.action \in ServedActions
    /\ jobs \subseteq JobRecord
    /\ fence \in {NoFence} \cup FenceRow
    /\ cluster \in Clusters

\* An execution that has time left is the one of the row, and the row has no answer yet; a
\* request is executed once.
SoleWriter ==
    /\ \A j \in jobs : fence.present
    /\ \A j \in jobs : tick < j.req.deadline => fence.req = j.req /\ fence.answer = NoAnswer
    /\ \A j, k \in jobs : j.req = k.req => j = k

\* Only a cleanup deletes, and only it answers that all is deleted.
Deletes(j) == j.pc \in CleanupStages \/ j.answer.status = "deleted" => j.req.action = "Cleanup"

DeletionMeant ==
    /\ \A j \in jobs : Deletes(j)
    /\ fence.present /\ fence.answer.status = "deleted" => fence.req.action = "Cleanup"

\* What was sent, and what was admitted, is no later than the aggregate.
RequestsBehind ==
    /\ \A r \in wire : Behind(r, inst)
    /\ fence.present => Behind(fence.req, inst)

\* A call works on a version of the aggregate, and on the current one if the revisions agree.
CallOf(c, e) ==
    /\ c.req = ContainerFence(c.snapshot)
    /\ Served(c.snapshot) /\ Active(c.snapshot)
    /\ c.snapshot.revision <= e.revision
    /\ c.snapshot.revision = e.revision => c.snapshot = e

CallsCurrent == \A c \in calls : CallOf(c, inst)

RuntimeInv ==
    /\ RuntimeTyped /\ Settled(inst) /\ SoleWriter /\ DeletionMeant /\ RequestsBehind /\ CallsCurrent

LEMMA ServedAction ==
    ASSUME NEW e, Served(e), NextAction(e) \notin {"Validate", "Build"}
    PROVE  NextAction(e) \in ServedActions
BY DEF Served, ContainerObservations, ServedActions

LEMMA ServedDeletion ==
    ASSUME NEW e, Served(e)
    PROVE  /\ NextAction(e) = "Cleanup" => e.observedState = "Deleting"
           /\ e.observedState = "Deleting" => NextAction(e) = "Cleanup"
           /\ e.observedState \notin {"Deleted", "Failed"}
<1>1. NextAction(e) = "Cleanup" => e.observedState = "Deleting"
  BY DEF Served, ContainerObservations
<1>2. e.observedState = "Deleting" => NextAction(e) = "Cleanup"
  BY DEF NextAction
<1>3. e.observedState \in {"Deleted", "Failed"} => NextAction(e) = NoAction
  BY DEF NextAction
<1>4. NextAction(e) # NoAction
  BY DEF Served, ContainerObservations, NoAction
<1> QED BY <1>1, <1>2, <1>3, <1>4

LEMMA RequestType ==
    ASSUME NEW e \in Instance, NextAction(e) \in ServedActions
    PROVE  ContainerFence(e) \in Request
<1>1. e.operation \in Operation /\ e.generation \in Nat
  BY DEF Instance
<1>2. /\ e.operation.id \in Nat /\ e.operation.providerStep \in Nat /\ e.operation.attempt \in Nat
      /\ e.operation.deadlineAt \in Nat
  BY <1>1 DEF Operation
<1>3. NextAction(e) \in ReconcileActions
  BY DEF ServedActions, ReconcileActions
<1> QED BY <1>1, <1>2, <1>3 DEF ContainerFence, Request

\* The current request is behind the aggregate that it was made from.
LEMMA RequestBehind ==
    ASSUME NEW e \in Instance, Settled(e), Served(e)
    PROVE  Behind(ContainerFence(e), e)
<1>1. e.operation \in Operation /\ e.generation \in Nat
  BY DEF Instance
<1>2. e.operation.attempt \in Nat
  BY <1>1 DEF Operation
<1>3. NextAction(e) = "Cleanup" => Gone(e)
  BY ServedDeletion DEF Settled, Gone
<1>4. /\ ContainerFence(e).generation = e.generation /\ ContainerFence(e).operation = e.operation.id
      /\ ContainerFence(e).step = e.operation.providerStep
      /\ ContainerFence(e).attempt = e.operation.attempt /\ ContainerFence(e).action = NextAction(e)
  BY DEF ContainerFence
<1> QED BY <1>1, <1>2, <1>3, <1>4 DEF Behind, NotLater

\* The calls of the next state are calls of this one, with another answer or record.
CallsKept ==
    \A d \in calls' : d \in CallRecord /\ \E c \in calls : d.snapshot = c.snapshot /\ d.req = c.req

LEMMA CallsStayCurrent ==
    ASSUME RuntimeInv, CallsKept, inst' = inst \/ Moves(inst, inst')
    PROVE  CallsCurrent'
<1>1. inst \in Instance /\ calls \subseteq CallRecord
  BY DEF RuntimeInv, RuntimeTyped
<1>2. ASSUME NEW d \in calls' PROVE CallOf(d, inst')
  <2>1. PICK c \in calls : d.snapshot = c.snapshot /\ d.req = c.req
    BY <1>2 DEF CallsKept
  <2>2. CallOf(c, inst) /\ c.snapshot \in Instance
    BY <1>1, <2>1 DEF RuntimeInv, CallsCurrent, CallRecord
  <2>3. CASE inst' = inst
    BY <2>1, <2>2, <2>3 DEF CallOf
  <2>4. CASE Moves(inst, inst')
    <3>1. inst.revision \in Nat /\ c.snapshot.revision \in Nat /\ inst'.revision \in Nat
          /\ inst'.revision > inst.revision
      BY <1>1, <2>2, <2>4 DEF Moves, Instance
    <3>2. c.snapshot.revision < inst'.revision
      BY <2>2, <3>1 DEF CallOf
    <3> QED BY <2>1, <2>2, <3>1, <3>2 DEF CallOf
  <2> QED BY <2>3, <2>4
<1> QED BY <1>2 DEF CallsCurrent

LEMMA FenceFacts ==
    ASSUME RuntimeTyped
    PROVE  /\ fence.present \in BOOLEAN
           /\ fence.present => fence \in FenceRow /\ fence.req \in Request /\ fence.answer \in Answers
<1>1. CASE fence = NoFence
  <2>1. fence.present = FALSE
    BY <1>1 DEF NoFence
  <2> QED BY <2>1
<1>2. CASE fence \in FenceRow
  BY <1>2 DEF FenceRow
<1> QED BY <1>1, <1>2 DEF RuntimeTyped

LEMMA RequestsStayBehind ==
    ASSUME RuntimeInv, wire' \subseteq wire, fence' = fence, inst' = inst \/ Moves(inst, inst')
    PROVE  RequestsBehind'
<1>1. inst \in Instance /\ wire \subseteq Request
  BY DEF RuntimeInv, RuntimeTyped
<1>2. fence.present => fence.req \in Request
  BY FenceFacts DEF RuntimeInv
<1>3. CASE inst' = inst
  BY <1>3 DEF RuntimeInv, RequestsBehind
<1>4. CASE Moves(inst, inst')
  <2>1. \A r \in wire' : Behind(r, inst')
    BY <1>1, <1>4, BehindStays DEF RuntimeInv, RequestsBehind
  <2>2. fence.present => Behind(fence.req, inst')
    BY <1>1, <1>2, <1>4, BehindStays DEF RuntimeInv, RequestsBehind
  <2> QED BY <2>1, <2>2 DEF RequestsBehind
<1> QED BY <1>3, <1>4

\* A step of the Environment Service that sends nothing.
LEMMA ServiceKeeps ==
    ASSUME RuntimeInv, UNCHANGED <<runtime, tick, fence, jobs, cluster>>,
           inst' = inst \/ Moves(inst, inst'), requested' \in Nat,
           lease' \in [token : Nat, until : Nat \cup {NoTime}], wire' \subseteq wire, CallsKept
    PROVE  RuntimeInv'
<1>1. inst' \in Instance /\ Settled(inst')
  BY DEF Moves, RuntimeInv, RuntimeTyped
<1>2. RuntimeTyped'
  BY <1>1 DEF RuntimeInv, RuntimeTyped, CallsKept
<1>3. SoleWriter' /\ DeletionMeant'
  BY DEF RuntimeInv, SoleWriter, DeletionMeant
<1>4. Settled(inst)'
  BY <1>1
<1> QED BY <1>2, <1>3, <1>4, CallsStayCurrent, RequestsStayBehind DEF RuntimeInv

LEMMA FewerCalls ==
    ASSUME RuntimeInv, calls' \subseteq calls
    PROVE  CallsKept
BY DEF RuntimeInv, RuntimeTyped, CallsKept

\* What a call knows of the aggregate.
LEMMA CallFacts ==
    ASSUME RuntimeInv, NEW c \in calls
    PROVE  /\ c \in CallRecord /\ c.snapshot \in Instance /\ c.since \in Nat /\ c.req \in Request
           /\ c.answer \in Answers
           /\ CallOf(c, inst)
           /\ Current(c) => c.snapshot = inst /\ Active(inst) /\ Served(inst)
<1>1. c \in CallRecord /\ CallOf(c, inst)
  BY DEF RuntimeInv, RuntimeTyped, CallsCurrent
<1>2. Current(c) => c.snapshot = inst
  BY <1>1 DEF Current, CallOf
<1> QED BY <1>1, <1>2 DEF CallRecord, CallOf

\* save_reconciled of a result that follows from the version the call has read.
LEMMA SaveKeeps ==
    ASSUME RuntimeInv, NEW c \in calls, NEW next, Save(c, next), Current(c) => Moves(inst, next),
           UNCHANGED <<runtime, tick, requested, fence, jobs, cluster>>, wire' \subseteq wire
    PROVE  RuntimeInv'
<1>1. calls' \subseteq calls
  BY DEF Save
<1>2. lease \in [token : Nat, until : Nat \cup {NoTime}] /\ requested \in Nat
  BY DEF RuntimeInv, RuntimeTyped
<1>3. inst' = inst \/ Moves(inst, inst')
  BY DEF Save
<1>4. lease' \in [token : Nat, until : Nat \cup {NoTime}]
  BY <1>2 DEF Save
<1> QED BY <1>1, <1>2, <1>3, <1>4, ServiceKeeps, FewerCalls

LEMMA FailedMoves ==
    ASSUME NEW e \in Instance, Settled(e), Active(e), NEW t \in Nat, NEW again
    PROVE  Moves(e, Failed(e, t, again))
<1>1. t + RetryDelay \in Nat
  BY ProviderAssumption
<1> QED BY <1>1, RetryMoves, FailureMoves DEF Failed

LEMMA ObservationOfType ==
    ASSUME NEW c \in CallRecord
    PROVE  ObservationOf(c) \in Observation /\ ObservationOf(c).nextState \notin {"Failed", "Deleting"}
<1>1. c.snapshot.revision \in Nat
  BY DEF CallRecord, Instance
<1>2. /\ DeletedObservation \in Observation /\ DeletedObservation.nextState = "Deleted"
      /\ NoEndpoints("Stopped", TRUE) \in Observation /\ NoEndpoints("Stopped", TRUE).nextState = "Stopped"
      /\ NoEndpoints("Provisioning", FALSE) \in Observation
      /\ NoEndpoints("Provisioning", FALSE).nextState = "Provisioning"
  BY DEF DeletedObservation, NoEndpoints, Observation, ObservedStates
<1>3. ReadyObservation(c.snapshot) \in Observation /\ ReadyObservation(c.snapshot).nextState = "Ready"
  BY <1>1 DEF ReadyObservation, Observation, ObservedStates, Endpoint, EndpointHealth
<1> QED BY <1>2, <1>3 DEF ObservationOf

LEMMA AnswersKeep ==
    ASSUME RuntimeInv, NEW c \in calls, Observes(c)
    PROVE  RuntimeInv'
<1> DEFINE obs == ObservationOf(c)
           next == IF ObservationAccepted(c.snapshot, obs)
                   THEN Deferred(ApplyProviderObservation(c.snapshot, obs), c.since)
                   ELSE ApplyProviderFailure(c.snapshot, "Provider")
<1>1. Save(c, next) /\ UNCHANGED <<runtime, tick, requested, wire, fence, jobs, cluster>>
  BY DEF Observes
<1>2. Settled(inst) /\ inst \in Instance
  BY DEF RuntimeInv, RuntimeTyped
<1>3. obs \in Observation /\ obs.nextState \notin {"Failed", "Deleting"}
  BY CallFacts, ObservationOfType
<1>4. c.since \in Nat
  BY CallFacts
<1>5. ASSUME Current(c) PROVE Moves(inst, next)
  <2>1. c.snapshot = inst /\ Active(inst)
    BY <1>5, CallFacts
  <2> HIDE DEF obs
  <2>2. CASE ObservationAccepted(inst, obs)
    <3>1. Moves(inst, Deferred(ApplyProviderObservation(inst, obs), c.since))
      BY <1>2, <1>3, <1>4, <2>1, <2>2, ObservationMoves
    <3> QED BY <2>1, <2>2, <3>1
  <2>3. CASE ~ObservationAccepted(inst, obs)
    <3>1. Moves(inst, ApplyProviderFailure(inst, "Provider"))
      BY <1>2, <2>1, FailureMoves
    <3> QED BY <2>1, <2>3, <3>1
  <2> QED BY <2>2, <2>3
<1> HIDE DEF next
<1> QED BY <1>1, <1>5, SaveKeeps

LEMMA CallFailuresKeep ==
    ASSUME RuntimeInv, NEW c \in calls, CallFails(c) \/ CallRefused(c) \/ RecordRefused(c)
    PROVE  RuntimeInv'
<1>1. PICK again : Save(c, Failed(c.snapshot, c.since, again))
  BY DEF CallFails, CallRefused, RecordRefused
<1>2. wire' \subseteq wire /\ UNCHANGED <<runtime, tick, requested, fence, jobs, cluster>>
  BY DEF CallFails, CallRefused, RecordRefused
<1>3. Settled(inst) /\ inst \in Instance
  BY DEF RuntimeInv, RuntimeTyped
<1>4. c.since \in Nat /\ (Current(c) => c.snapshot = inst /\ Active(inst))
  BY CallFacts
<1>5. Current(c) => Moves(inst, Failed(c.snapshot, c.since, again))
  BY <1>3, <1>4, FailedMoves
<1> QED BY <1>1, <1>2, <1>5, SaveKeeps

LEMMA LeaseType ==
    ASSUME RuntimeTyped
    PROVE  /\ lease.token \in Nat /\ lease.until \in Nat \cup {NoTime}
           /\ [lease EXCEPT !.until = NoTime] \in [token : Nat, until : Nat \cup {NoTime}]
BY DEF RuntimeTyped

\* accept_command_in_transaction
LEMMA CommandKeeps ==
    ASSUME RuntimeInv, NEW kind \in RuntimeKinds, AcceptCommand(kind)
    PROVE  RuntimeInv'
<1> DEFINE c == [kind |-> kind, expectedRevision |-> inst.revision, acceptedAt |-> tick,
                 deadlineAt |-> tick + RuntimeBudget, revocationRecorded |-> TRUE,
                 leaseAuthorization |-> NoLeaseAuthorization]
           u == IF Active(inst) THEN lease.until ELSE NoTime
<1>1. /\ inst' = NotBefore(PlanCommand(inst, c, requested + 1), u)
      /\ CommandAllowed(inst, c, tick) /\ requested' = requested + 1
      /\ lease' = [lease EXCEPT !.until = NoTime]
      /\ UNCHANGED <<runtime, tick, calls, wire, fence, jobs, cluster>>
  BY DEF AcceptCommand
<1>2. inst \in Instance /\ Settled(inst) /\ requested \in Nat /\ tick \in Nat
  BY DEF RuntimeInv, RuntimeTyped
<1>3. lease' \in [token : Nat, until : Nat \cup {NoTime}] /\ u \in Nat \cup {NoTime}
  BY <1>1, LeaseType DEF RuntimeInv
<1>4. c \in Command
  <2>1. kind \in OperationKinds \ {"Create"} /\ inst.revision \in Nat /\ tick + RuntimeBudget \in Nat
    BY <1>2, RuntimeAssumption DEF Instance
  <2>2. NoLeaseAuthorization \in LeaseAuthorization
    BY DEF NoLeaseAuthorization, LeaseAuthorization
  <2> QED BY <1>2, <2>1, <2>2 DEF Command
<1> HIDE DEF c, u
<1>5. Moves(inst, inst')
  <2>1. requested + 1 \in Nat
    BY <1>2
  <2>2. Moves(inst, NotBefore(PlanCommand(inst, c, requested + 1), u))
    BY <1>1, <1>2, <1>3, <1>4, <2>1, CommandMoves
  <2> QED BY <1>1, <2>2
<1>6. CallsKept
  BY <1>1, FewerCalls
<1> QED BY <1>1, <1>2, <1>3, <1>5, <1>6, ServiceKeeps

\* claim_due of an operation past its deadline, a call that fails before anything is sent, and
\* the steps that call no executor.
LEMMA ClaimsKeep ==
    ASSUME RuntimeInv, BeginsCleanup \/ RefusedCall \/ Prepares
    PROVE  RuntimeInv'
<1>1. inst \in Instance /\ Settled(inst) /\ tick \in Nat /\ requested \in Nat
      /\ lease \in [token : Nat, until : Nat \cup {NoTime}]
  BY DEF RuntimeInv, RuntimeTyped
<1>2. UNCHANGED <<runtime, tick, requested, lease, calls, wire, fence, jobs, cluster>>
  BY DEF BeginsCleanup, RefusedCall, Prepares
<1>3. Active(inst)
  BY DEF BeginsCleanup, RefusedCall, Prepares, Due
<1>4. CASE BeginsCleanup
  <2>1. inst' = BeginTimeoutCleanup(inst, tick, CleanupDeadline(tick))
    BY <1>4 DEF BeginsCleanup
  <2>2. Moves(inst, inst')
    BY <1>1, <2>1, CleanupMoves, CleanupDeadlineType
  <2> QED BY <1>1, <1>2, <2>2, FewerCalls, ServiceKeeps
<1>5. CASE RefusedCall
  <2>1. Moves(inst, inst')
    BY <1>1, <1>3, <1>5, FailureMoves DEF RefusedCall
  <2> QED BY <1>1, <1>2, <2>1, FewerCalls, ServiceKeeps
<1>6. CASE Prepares
  <2>1. PICK obs \in ContainerObservations(inst, NextAction(inst)) :
          inst' = IF ObservationAccepted(inst, obs)
                  THEN Deferred(ApplyProviderObservation(inst, obs), tick)
                  ELSE ApplyProviderFailure(inst, "Provider")
    BY <1>6 DEF Prepares
  <2>2. \E s \in {"Validating", "Building", "Provisioning"} : obs = NoEndpoints(s, FALSE)
    BY <1>6, <2>1 DEF Prepares, ContainerObservations
  <2>3. obs \in Observation /\ obs.nextState \notin {"Failed", "Deleting"}
    BY <2>2 DEF NoEndpoints, Observation, ObservedStates
  <2>4. CASE ObservationAccepted(inst, obs)
    <3>1. Moves(inst, Deferred(ApplyProviderObservation(inst, obs), tick))
      BY <1>1, <1>3, <2>3, <2>4, ObservationMoves
    <3>2. Moves(inst, inst')
      BY <2>1, <2>4, <3>1
    <3> QED BY <1>1, <1>2, <3>2, FewerCalls, ServiceKeeps
  <2>5. CASE ~ObservationAccepted(inst, obs)
    <3>1. Moves(inst, inst')
      BY <1>1, <1>3, <2>1, <2>5, FailureMoves
    <3> QED BY <1>1, <1>2, <3>1, FewerCalls, ServiceKeeps
  <2> QED BY <2>4, <2>5
<1> QED BY <1>4, <1>5, <1>6

\* The request is published.
LEMMA CallKeeps ==
    ASSUME RuntimeInv, Call
    PROVE  RuntimeInv'
<1> DEFINE c == [token |-> lease'.token, snapshot |-> inst, since |-> tick,
                 req |-> FenceOf(inst), answer |-> NoAnswer, recorded |-> "no"]
<1>1. RuntimeTyped /\ Settled(inst) /\ inst \in Instance /\ tick \in Nat
  BY DEF RuntimeInv, RuntimeTyped
<1>2. Served(inst) /\ Active(inst) /\ NextAction(inst) \notin {"Validate", "Build"}
  BY DEF Call, Due
<1>3. FenceOf(inst) = ContainerFence(inst)
  BY DEF FenceOf, KubeVirtFence
<1>4. ContainerFence(inst) \in Request /\ Behind(ContainerFence(inst), inst)
  BY <1>1, <1>2, ServedAction, RequestType, RequestBehind
<1>5. lease' \in [token : Nat, until : Nat \cup {NoTime}]
  <2>1. lease.token + 1 \in Nat /\ tick + RuntimeLease \in Nat
    BY <1>1, LeaseType, RuntimeAssumption
  <2> QED BY <2>1 DEF Call
<1>6. /\ wire' = wire \cup {ContainerFence(inst)} /\ calls' = calls \cup {c}
      /\ UNCHANGED <<runtime, tick, inst, requested, fence, jobs, cluster>>
  BY <1>3 DEF Call
<1>7. c \in CallRecord
  <2>1. NoAnswer \in Answers /\ lease'.token \in Nat
    BY <1>5 DEF NoAnswer, Answers
  <2> QED BY <1>1, <1>3, <1>4, <2>1 DEF CallRecord
<1>8. CallOf(c, inst)
  <2>1. inst.revision \in Nat
    BY <1>1 DEF Instance
  <2>2. c.snapshot = inst /\ c.req = ContainerFence(inst)
    BY <1>3
  <2> QED BY <1>2, <2>1, <2>2 DEF CallOf
<1> HIDE DEF c
<1>9. RuntimeTyped'
  <2>1. ContainerFence(inst).action \in ServedActions
    BY <1>2, ServedAction DEF ContainerFence
  <2> QED BY <1>1, <1>4, <1>5, <1>6, <1>7, <2>1 DEF RuntimeTyped
<1>10. SoleWriter' /\ DeletionMeant'
  BY <1>6 DEF RuntimeInv, SoleWriter, DeletionMeant
<1>11. RequestsBehind' /\ CallsCurrent' /\ Settled(inst)'
  BY <1>1, <1>4, <1>6, <1>8 DEF RuntimeInv, RequestsBehind, CallsCurrent
<1> QED BY <1>9, <1>10, <1>11 DEF RuntimeInv

LEMMA DyingKeeps ==
    ASSUME RuntimeInv, NEW c \in calls, WorkerDies(c)
    PROVE  RuntimeInv'
<1>1. UNCHANGED <<runtime, tick, inst, requested, lease, wire, fence, jobs, cluster>> /\ calls' \subseteq calls
  BY DEF WorkerDies, serviceVars
<1>2. requested \in Nat /\ lease \in [token : Nat, until : Nat \cup {NoTime}]
  BY DEF RuntimeInv, RuntimeTyped
<1> QED BY <1>1, <1>2, FewerCalls, ServiceKeeps

\* One transaction of the observation store.
LEMMA RecordKeeps ==
    ASSUME RuntimeInv, NEW c \in calls, Record(c)
    PROVE  RuntimeInv'
<1>1. UNCHANGED <<runtime, tick, inst, requested, lease, wire, fence, jobs, cluster>>
  BY DEF Record, serviceVars
<1>2. requested \in Nat /\ lease \in [token : Nat, until : Nat \cup {NoTime}] /\ calls \subseteq CallRecord
  BY DEF RuntimeInv, RuntimeTyped
<1>3. PICK r \in {"yes", "refused", "failed"} : calls' = (calls \ {c}) \cup {[c EXCEPT !.recorded = r]}
  BY DEF Record
<1>4. /\ [c EXCEPT !.recorded = r] \in CallRecord
      /\ [c EXCEPT !.recorded = r].snapshot = c.snapshot /\ [c EXCEPT !.recorded = r].req = c.req
  BY <1>2 DEF CallRecord
<1>5. CallsKept
  BY <1>2, <1>3, <1>4 DEF CallsKept
<1> QED BY <1>1, <1>2, <1>5, ServiceKeeps

-----------------------------------------------------------------------------
\* The executor.

LEMMA ReplyKeepsCalls ==
    ASSUME RuntimeInv, NEW r, NEW a \in Answers, Reply(r, a)
    PROVE  CallsKept
<1>1. calls \subseteq CallRecord
  BY DEF RuntimeInv, RuntimeTyped
<1>2. ASSUME NEW d \in calls'
      PROVE  d \in CallRecord /\ \E c \in calls : d.snapshot = c.snapshot /\ d.req = c.req
  <2>1. PICK c \in calls : d = IF c.req = r /\ c.answer = NoAnswer THEN [c EXCEPT !.answer = a] ELSE c
    BY <1>2 DEF Reply
  <2>2. c \in CallRecord
    BY <1>1
  <2>3. /\ [c EXCEPT !.answer = a] \in CallRecord /\ [c EXCEPT !.answer = a].snapshot = c.snapshot
        /\ [c EXCEPT !.answer = a].req = c.req
    BY <2>2 DEF CallRecord
  <2> QED BY <2>1, <2>2, <2>3
<1> QED BY <1>2 DEF CallsKept

\* A step of the executor that leaves the aggregate alone.
LEMMA ExecutorKeeps ==
    ASSUME RuntimeInv, UNCHANGED <<runtime, inst, requested, lease>>, CallsKept, wire' \subseteq wire,
           tick' \in Nat, jobs' \subseteq JobRecord, fence' \in {NoFence} \cup FenceRow,
           cluster' \in Clusters, SoleWriter', DeletionMeant', RequestsBehind'
    PROVE  RuntimeInv'
<1>1. RuntimeTyped'
  BY DEF RuntimeInv, RuntimeTyped, CallsKept
<1>2. Settled(inst)'
  BY DEF RuntimeInv
<1> QED BY <1>1, <1>2, CallsStayCurrent DEF RuntimeInv

\* admit lets a request execute in its time, when the row has no execution that may still act.
LEMMA Executes ==
    ASSUME RuntimeTyped, NEW r \in Request, Admission(r) = "execute"
    PROVE  /\ tick < r.deadline
           /\ fence.present => fence.req # r /\ (fence.answer # NoAnswer \/ ~(tick < fence.req.deadline))
<1>1. tick \in Nat /\ r.deadline \in Nat /\ fence.present \in BOOLEAN
  BY FenceFacts DEF RuntimeTyped, Request
<1>2. ~(tick >= r.deadline)
  <2>1. ASSUME tick >= r.deadline PROVE FALSE
    <3>1. Admission(r) = "deadline"
      BY <1>1, <2>1 DEF Admission
    <3> QED BY <3>1
  <2> QED BY <2>1
<1>3. tick < r.deadline
  BY <1>1, <1>2
<1>4. ASSUME fence.present
      PROVE  fence.req # r /\ (fence.answer # NoAnswer \/ ~(tick < fence.req.deadline))
  <2>1. Admission(r) =
         IF fence.req = r THEN IF fence.answer # NoAnswer THEN "replay" ELSE "inProgress"
         ELSE IF fence.answer = NoAnswer /\ tick < fence.req.deadline THEN "inProgress"
         ELSE IF fence.tombstoned /\ fence.answer.status = "deleted"
              THEN IF r.action = "Cleanup" THEN "replay" ELSE "tombstoned"
         ELSE IF OlderRequest(r, fence.req) THEN "stale"
         ELSE IF r.generation = fence.req.generation
                 /\ r.operation # fence.req.operation THEN "identity"
         ELSE "execute"
    BY <1>2, <1>3, <1>4 DEF Admission
  <2> QED BY <2>1
<1> QED BY <1>3, <1>4

LEMMA FirstStepType ==
    ASSUME NEW a \in ServedActions
    PROVE  FirstStep(a) \in ExecutionSteps /\ (FirstStep(a) \in CleanupStages => a = "Cleanup")
BY DEF ServedActions, FirstStep, ExecutionSteps, CleanupStages

LEMMA ReceiveKeeps ==
    ASSUME RuntimeInv, NEW r \in wire, Receive(r, Admission(r))
    PROVE  RuntimeInv'
<1>1. /\ RuntimeTyped /\ r \in Request /\ r.action \in ServedActions /\ tick \in Nat
      /\ Behind(r, inst) /\ jobs \subseteq JobRecord /\ cluster \in Clusters
  BY DEF RuntimeInv, RuntimeTyped, RequestsBehind
<1>2. /\ UNCHANGED <<runtime, inst, requested, lease, tick, cluster>> /\ wire' \subseteq wire
      /\ tick' \in Nat /\ cluster' \in Clusters
  BY <1>1 DEF Receive, serviceVars
<1>3. NoAnswer \in Answers /\ NoAnswer.status = "none"
  BY DEF NoAnswer, Answers
<1>4. CASE Admission(r) = "execute"
  <2> DEFINE j == [req |-> r, pc |-> FirstStep(r.action), answer |-> NoAnswer]
             row == [present |-> TRUE, req |-> r, answer |-> NoAnswer, tombstoned |-> FALSE]
  <2>1. fence' = row /\ jobs' = jobs \cup {j} /\ UNCHANGED calls
    BY <1>4 DEF Receive
  <2>2. j \in JobRecord /\ row \in FenceRow /\ Deletes(j) /\ j.req = r
    <3>1. j \in JobRecord /\ row \in FenceRow
      BY <1>1, <1>3, FirstStepType DEF JobRecord, FenceRow
    <3>2. Deletes(j)
      BY <1>1, <1>3, FirstStepType DEF Deletes
    <3> QED BY <3>1, <3>2
  <2>3. row.present /\ row.req = r /\ row.answer = NoAnswer
    OBVIOUS
  <2> HIDE DEF j, row
  <2>4. tick < r.deadline
    BY <1>1, <1>4, Executes
  <2>5. ASSUME NEW k \in jobs PROVE ~(tick < k.req.deadline)
    <3>1. fence.present /\ (tick < k.req.deadline => fence.req = k.req /\ fence.answer = NoAnswer)
      BY <2>5 DEF RuntimeInv, SoleWriter
    <3> QED BY <1>1, <1>4, <3>1, Executes
  <2>6. SoleWriter'
    <3>1. \A k \in jobs' : fence'.present
      BY <2>1, <2>3
    <3>2. \A k \in jobs' : tick' < k.req.deadline => fence'.req = k.req /\ fence'.answer = NoAnswer
      BY <1>2, <2>1, <2>2, <2>3, <2>5
    <3>3. \A k, h \in jobs' : k.req = h.req => k = h
      <4>1. \A k \in jobs : k.req # r
        BY <2>4, <2>5
      <4>2. \A k, h \in jobs : k.req = h.req => k = h
        BY DEF RuntimeInv, SoleWriter
      <4> QED BY <2>1, <2>2, <4>1, <4>2
    <3> QED BY <3>1, <3>2, <3>3 DEF SoleWriter
  <2>7. DeletionMeant'
    <3>1. \A k \in jobs' : Deletes(k)
      BY <2>1, <2>2 DEF RuntimeInv, DeletionMeant
    <3>2. fence'.answer.status # "deleted"
      BY <1>3, <2>1, <2>3
    <3> QED BY <3>1, <3>2 DEF DeletionMeant
  <2>8. RequestsBehind'
    BY <1>1, <1>2, <2>1, <2>3 DEF RequestsBehind, RuntimeInv
  <2>9. jobs' \subseteq JobRecord /\ fence' \in {NoFence} \cup FenceRow /\ calls' \subseteq calls
    BY <1>1, <2>1, <2>2
  <2> QED BY <1>2, <2>6, <2>7, <2>8, <2>9, FewerCalls, ExecutorKeeps
<1>5. CASE Admission(r) # "execute"
  <2>1. UNCHANGED <<fence, jobs>> /\ \E a \in Answers : Reply(r, a)
    <3>1. CASE Admission(r) = "replay"
      <4>1. fence.present
        <5>1. ASSUME ~fence.present PROVE FALSE
          <6>1. Admission(r) \in {"deadline", "execute"}
            <7>1. tick >= r.deadline \/ tick < r.deadline
              BY <1>1 DEF Request
            <7>2. ASSUME tick >= r.deadline PROVE Admission(r) = "deadline"
              BY <7>2, <1>1 DEF Admission, Request
            <7>3. ASSUME tick < r.deadline, ~(tick >= r.deadline) PROVE Admission(r) = "execute"
              BY <7>3, <5>1 DEF Admission
            <7> QED BY <7>1, <7>2, <7>3
          <6> QED BY <3>1, <6>1
        <5> QED BY <5>1
      <4>2. fence.answer \in Answers
        BY <1>1, <4>1, FenceFacts
      <4> QED BY <3>1, <4>2 DEF Receive
    <3>2. CASE Admission(r) # "replay"
      <4>1. [status |-> FenceFailure(Admission(r)), vol |-> 0] \in Answers
        BY DEF Answers, FenceFailure, Failures
      <4>2. UNCHANGED <<fence, jobs>> /\ Reply(r, [status |-> FenceFailure(Admission(r)), vol |-> 0])
        BY <1>5, <3>2 DEF Receive
      <4> QED BY <4>1, <4>2
    <3> QED BY <3>1, <3>2
  <2>2. CallsKept
    BY <2>1, ReplyKeepsCalls
  <2>3. SoleWriter' /\ DeletionMeant'
    BY <1>2, <2>1 DEF RuntimeInv, SoleWriter, DeletionMeant
  <2>4. RequestsBehind'
    BY <1>2, <2>1, RequestsStayBehind
  <2>5. jobs' \subseteq JobRecord /\ fence' \in {NoFence} \cup FenceRow
    BY <2>1 DEF RuntimeInv, RuntimeTyped
  <2> QED BY <1>2, <2>2, <2>3, <2>4, <2>5, ExecutorKeeps
<1> QED BY <1>4, <1>5

LEMMA CompleteKeeps ==
    ASSUME RuntimeInv, NEW j \in jobs, Complete(j)
    PROVE  RuntimeInv'
<1>1. /\ RuntimeTyped /\ tick \in Nat /\ jobs \subseteq JobRecord /\ cluster \in Clusters
      /\ j.answer \in Answers /\ j \in JobRecord /\ Deletes(j)
  BY DEF RuntimeInv, RuntimeTyped, JobRecord, DeletionMeant
<1>2. fence \in FenceRow /\ fence.present /\ fence.req \in Request
  BY <1>1, FenceFacts DEF RuntimeInv, SoleWriter
<1>3. /\ UNCHANGED <<runtime, inst, requested, lease, tick, cluster, wire>> /\ jobs' = jobs \ {j}
      /\ wire' \subseteq wire /\ jobs' \subseteq JobRecord /\ tick' \in Nat /\ cluster' \in Clusters
  BY <1>1 DEF Complete, serviceVars
<1>4. \A k \in jobs' : k \in jobs /\ k # j /\ k.req # j.req
  BY <1>3 DEF RuntimeInv, SoleWriter
<1>5. CASE fence.req = j.req /\ fence.answer = NoAnswer
  <2>1. /\ fence' = [fence EXCEPT !.answer = j.answer, !.tombstoned = @ \/ j.answer.status = "deleted"]
        /\ Reply(j.req, j.answer)
    BY <1>5 DEF Complete
  <2>2. fence' \in FenceRow /\ fence'.present /\ fence'.req = fence.req /\ fence'.answer = j.answer
    BY <1>1, <1>2, <2>1 DEF FenceRow
  <2>3. SoleWriter'
    <3>1. \A k \in jobs' : ~(tick' < k.req.deadline)
      BY <1>3, <1>4, <1>5 DEF RuntimeInv, SoleWriter
    <3>2. \A k, h \in jobs' : k.req = h.req => k = h
      BY <1>4 DEF RuntimeInv, SoleWriter
    <3> QED BY <2>2, <3>1, <3>2 DEF SoleWriter
  <2>4. DeletionMeant'
    BY <1>1, <1>4, <1>5, <2>2 DEF RuntimeInv, DeletionMeant, Deletes
  <2>5. RequestsBehind'
    BY <1>2, <1>3, <2>2 DEF RuntimeInv, RequestsBehind
  <2>6. CallsKept
    BY <1>1, <2>1, ReplyKeepsCalls
  <2> QED BY <1>3, <2>2, <2>3, <2>4, <2>5, <2>6, ExecutorKeeps
<1>6. CASE ~(fence.req = j.req /\ fence.answer = NoAnswer)
  <2>1. fence' = fence /\ Reply(j.req, [status |-> "rejected", vol |-> 0])
    BY <1>6 DEF Complete
  <2>2. [status |-> "rejected", vol |-> 0] \in Answers
    BY DEF Answers, Failures
  <2>3. CallsKept
    BY <2>1, <2>2, ReplyKeepsCalls
  <2>4. SoleWriter' /\ DeletionMeant'
    BY <1>3, <1>4, <2>1 DEF RuntimeInv, SoleWriter, DeletionMeant
  <2>5. RequestsBehind'
    BY <1>3, <2>1, RequestsStayBehind
  <2> QED BY <1>2, <1>3, <2>1, <2>3, <2>4, <2>5, ExecutorKeeps
<1> QED BY <1>5, <1>6

\* The execution is dropped, or the executor stops.
LEMMA DroppedKeeps ==
    ASSUME RuntimeInv, (\E j \in jobs : ExecutionTimesOut(j)) \/ ExecutorStops
    PROVE  RuntimeInv'
<1>1. /\ tick \in Nat /\ jobs \subseteq JobRecord /\ cluster \in Clusters
      /\ fence \in {NoFence} \cup FenceRow
  BY DEF RuntimeInv, RuntimeTyped
<1>2. UNCHANGED <<runtime, inst, requested, lease, tick, cluster, wire, fence>> /\ jobs' \subseteq jobs
  BY DEF ExecutionTimesOut, ExecutorStops, serviceVars
<1>3. CallsKept
  <2>1. CASE ExecutorStops
    BY <2>1, FewerCalls DEF ExecutorStops
  <2>2. CASE \E j \in jobs : ExecutionTimesOut(j)
    <3>1. \E j \in jobs : Reply(j.req, [status |-> "rejected", vol |-> 0])
      BY <2>2 DEF ExecutionTimesOut
    <3>2. [status |-> "rejected", vol |-> 0] \in Answers
      BY DEF Answers, Failures
    <3> QED BY <3>1, <3>2, ReplyKeepsCalls
  <2> QED BY <2>1, <2>2
<1>4. SoleWriter' /\ DeletionMeant'
  BY <1>2 DEF RuntimeInv, SoleWriter, DeletionMeant
<1>5. RequestsBehind'
  BY <1>2, RequestsStayBehind
<1> QED BY <1>1, <1>2, <1>3, <1>4, <1>5, ExecutorKeeps

\* Time passes.
LEMMA PassesKeeps ==
    ASSUME RuntimeInv, Passes
    PROVE  RuntimeInv'
<1>1. /\ tick \in Nat /\ jobs \subseteq JobRecord /\ cluster \in Clusters
      /\ fence \in {NoFence} \cup FenceRow
  BY DEF RuntimeInv, RuntimeTyped
<1>2. /\ UNCHANGED <<runtime, inst, requested, lease, cluster, fence, jobs, calls>> /\ wire' \subseteq wire
      /\ tick' = tick + 1 /\ tick' \in Nat
  BY <1>1 DEF Passes, serviceVars
<1>3. \A k \in jobs : k.req.deadline \in Nat
  BY <1>1 DEF JobRecord, Request
<1>4. \A k \in jobs : tick' < k.req.deadline => tick < k.req.deadline
  BY <1>1, <1>2, <1>3
<1>5. SoleWriter'
  BY <1>2, <1>4 DEF RuntimeInv, SoleWriter
<1>6. DeletionMeant'
  BY <1>2 DEF RuntimeInv, DeletionMeant
<1>7. RequestsBehind'
  BY <1>2, RequestsStayBehind
<1> QED BY <1>1, <1>2, <1>5, <1>6, <1>7, FewerCalls, ExecutorKeeps

LEMMA KubernetesKeeps ==
    ASSUME RuntimeInv, KubernetesStep
    PROVE  RuntimeInv'
<1>1. /\ tick \in Nat /\ jobs \subseteq JobRecord /\ cluster \in Clusters
      /\ fence \in {NoFence} \cup FenceRow
  BY DEF RuntimeInv, RuntimeTyped
<1>2. UNCHANGED <<runtime, inst, requested, lease, tick, fence, jobs, calls, wire>>
  BY DEF KubernetesStep, serviceVars
<1>3. cluster' \in Clusters
  <2>1. [cluster EXCEPT !.bound = TRUE] \in Clusters
    BY <1>1 DEF Clusters
  <2>2. [cluster EXCEPT !.load = "running"] \in Clusters
    BY <1>1 DEF Clusters
  <2>3. [cluster EXCEPT !.load = "stopped"] \in Clusters
    BY <1>1 DEF Clusters
  <2>4. [cluster EXCEPT !.ns = "absent", !.vol = 0, !.bound = FALSE, !.load = "none", !.isolated = FALSE]
          \in Clusters
    BY <1>1 DEF Clusters
  <2> QED BY <2>1, <2>2, <2>3, <2>4 DEF KubernetesStep
<1>4. SoleWriter' /\ DeletionMeant'
  BY <1>2 DEF RuntimeInv, SoleWriter, DeletionMeant
<1>5. RequestsBehind'
  BY <1>2, RequestsStayBehind
<1> QED BY <1>1, <1>2, <1>3, <1>4, <1>5, FewerCalls, ExecutorKeeps

\* A step of an execution: the same request, at another step or with an answer.
Goes(j, k) == k \in JobRecord /\ k.req = j.req /\ Deletes(k)

Works(j) ==
    /\ \E k \in JobRecord : Goes(j, k) /\ jobs' = (jobs \ {j}) \cup {k}
    /\ cluster' \in Clusters
    /\ UNCHANGED executorUnchanged

LEMMA WorkKeeps ==
    ASSUME RuntimeInv, NEW j \in jobs, Works(j)
    PROVE  RuntimeInv'
<1>1. /\ tick \in Nat /\ jobs \subseteq JobRecord
      /\ fence \in {NoFence} \cup FenceRow
  BY DEF RuntimeInv, RuntimeTyped
<1>2. UNCHANGED <<runtime, inst, requested, lease, tick, fence, calls, wire>> /\ cluster' \in Clusters
  BY DEF Works, executorUnchanged, serviceVars
<1>3. PICK k \in JobRecord : k.req = j.req /\ Deletes(k) /\ jobs' = (jobs \ {j}) \cup {k}
  BY DEF Works, Goes
<1>4. SoleWriter'
  <2>1. \A h \in jobs' : \E i \in jobs : i.req = h.req
    BY <1>3
  <2>2. \A h \in jobs' : h = k \/ (h \in jobs /\ h.req # k.req)
    BY <1>3 DEF RuntimeInv, SoleWriter
  <2>3. \A h, i \in jobs' : h.req = i.req => h = i
    BY <1>3, <2>2 DEF RuntimeInv, SoleWriter
  <2>4. \A h \in jobs' : fence'.present
    BY <1>2, <2>1 DEF RuntimeInv, SoleWriter
  <2>5. \A h \in jobs' : tick' < h.req.deadline => fence'.req = h.req /\ fence'.answer = NoAnswer
    BY <1>2, <2>1 DEF RuntimeInv, SoleWriter
  <2> QED BY <2>3, <2>4, <2>5 DEF SoleWriter
<1>5. DeletionMeant'
  BY <1>2, <1>3 DEF RuntimeInv, DeletionMeant
<1>6. RequestsBehind'
  BY <1>2, RequestsStayBehind
<1>7. jobs' \subseteq JobRecord
  BY <1>1, <1>3
<1> QED BY <1>1, <1>2, <1>4, <1>5, <1>6, <1>7, FewerCalls, ExecutorKeeps

LEMMA ConcludeGoes ==
    ASSUME NEW j \in JobRecord, NEW a \in Answers, a.status = "deleted" => j.req.action = "Cleanup"
    PROVE  Goes(j, [j EXCEPT !.pc = "complete", !.answer = a])
<1> DEFINE k == [j EXCEPT !.pc = "complete", !.answer = a]
<1>1. k \in JobRecord /\ k.req = j.req /\ k.pc = "complete" /\ k.answer = a
  BY DEF JobRecord, ExecutionSteps
<1> HIDE DEF k
<1>2. Goes(j, k)
  BY <1>1 DEF Goes, Deletes, CleanupStages
<1> QED BY <1>2 DEF k

LEMMA AdvanceGoes ==
    ASSUME NEW j \in JobRecord, Deletes(j), NEW pc \in ExecutionSteps,
           pc \in CleanupStages => j.req.action = "Cleanup"
    PROVE  Goes(j, [j EXCEPT !.pc = pc])
<1> DEFINE k == [j EXCEPT !.pc = pc]
<1>1. k \in JobRecord /\ k.req = j.req /\ k.pc = pc /\ k.answer = j.answer
  BY DEF JobRecord
<1> HIDE DEF k
<1>2. Goes(j, k)
  BY <1>1 DEF Goes, Deletes
<1> QED BY <1>2 DEF k

LEMMA JobFacts ==
    ASSUME RuntimeInv, NEW j \in jobs
    PROVE  j \in JobRecord /\ Deletes(j) /\ cluster \in Clusters
BY DEF RuntimeInv, RuntimeTyped, DeletionMeant

LEMMA ConcludeWorks ==
    ASSUME RuntimeInv, NEW j \in jobs, NEW a \in Answers, a.status = "deleted" => j.req.action = "Cleanup",
           Conclude(j, a), cluster' \in Clusters, UNCHANGED executorUnchanged
    PROVE  Works(j)
<1>1. Goes(j, [j EXCEPT !.pc = "complete", !.answer = a])
  BY JobFacts, ConcludeGoes
<1> QED BY <1>1 DEF Works, Conclude, Goes

LEMMA AdvanceWorks ==
    ASSUME RuntimeInv, NEW j \in jobs, NEW pc \in ExecutionSteps, pc \in CleanupStages => j.req.action = "Cleanup",
           Advance(j, pc), cluster' \in Clusters, UNCHANGED executorUnchanged
    PROVE  Works(j)
<1>1. Goes(j, [j EXCEPT !.pc = pc])
  BY JobFacts, AdvanceGoes
<1> QED BY <1>1 DEF Works, Advance, Goes

LEMMA FailureAnswers ==
    ASSUME NEW s \in {"ready", "converging", "stopped", "deleted", "unavailable", "rejected"}
    PROVE  [status |-> s, vol |-> 0] \in Answers /\ [status |-> s, vol |-> 0].status = s
BY DEF Answers, Failures

LEMMA AnswerType ==
    ASSUME RuntimeInv, NEW s \in {"ready", "converging", "stopped", "deleted", "unavailable", "rejected"}
    PROVE  Answer(s) \in Answers /\ Answer(s).status = s
<1>1. cluster.vol \in Nat
  BY DEF RuntimeInv, RuntimeTyped, Clusters
<1> QED BY <1>1 DEF Answer, Answers, Failures

LEMMA WriteWorks ==
    ASSUME RuntimeInv, NEW j \in jobs, NEW s \in {"ok", "unavailable", "rejected"}, NEW after \in Clusters,
           NEW next \in ExecutionSteps, next \in CleanupStages => j.req.action = "Cleanup",
           Write(j, s, after, next)
    PROVE  Works(j)
<1>1. UNCHANGED executorUnchanged
  BY DEF Write
<1>2. cluster' \in Clusters
  BY JobFacts DEF Write
<1>3. \/ Advance(j, next)
      \/ s # "ok" /\ Conclude(j, [status |-> s, vol |-> 0])
      \/ Conclude(j, [status |-> "unavailable", vol |-> 0])
  BY DEF Write
<1>4. CASE Advance(j, next)
  BY <1>1, <1>2, <1>4, AdvanceWorks
<1>5. CASE s # "ok" /\ Conclude(j, [status |-> s, vol |-> 0])
  <2>1. [status |-> s, vol |-> 0] \in Answers /\ [status |-> s, vol |-> 0].status # "deleted"
    BY <1>5, FailureAnswers
  <2> QED BY <1>1, <1>2, <1>5, <2>1, ConcludeWorks
<1>6. CASE Conclude(j, [status |-> "unavailable", vol |-> 0])
  <2>1. [status |-> "unavailable", vol |-> 0] \in Answers /\ [status |-> "unavailable", vol |-> 0].status # "deleted"
    BY FailureAnswers
  <2> QED BY <1>1, <1>2, <1>6, <2>1, ConcludeWorks
<1> QED BY <1>3, <1>4, <1>5, <1>6

LEMMA ReadWorks ==
    ASSUME RuntimeInv, NEW j \in jobs, NEW ends, NEW a \in Answers,
           ends /\ a.status = "deleted" => j.req.action = "Cleanup",
           NEW next \in ExecutionSteps, ~ends /\ next \in CleanupStages => j.req.action = "Cleanup",
           Read(j, ends, a, next)
    PROVE  Works(j)
<1>1. UNCHANGED executorUnchanged /\ cluster' \in Clusters
  BY JobFacts DEF Read
<1>2. \/ ends /\ Conclude(j, a)
      \/ ~ends /\ Advance(j, next)
      \/ Conclude(j, [status |-> "unavailable", vol |-> 0])
  BY DEF Read
<1>3. CASE ends /\ Conclude(j, a)
  BY <1>1, <1>3, ConcludeWorks
<1>4. CASE ~ends /\ Advance(j, next)
  BY <1>1, <1>4, AdvanceWorks
<1>5. CASE Conclude(j, [status |-> "unavailable", vol |-> 0])
  <2>1. [status |-> "unavailable", vol |-> 0] \in Answers /\ [status |-> "unavailable", vol |-> 0].status # "deleted"
    BY FailureAnswers
  <2> QED BY <1>1, <1>5, <2>1, ConcludeWorks
<1> QED BY <1>2, <1>3, <1>4, <1>5

PlanSteps == {"namespace", "volume", "policy", "workload"}

LEMMA AppliedType ==
    ASSUME NEW c \in Clusters, NEW group \in PlanSteps
    PROVE  Applied(c, group) \in Clusters
<1>1. c.vol \in Nat /\ c.made + 1 \in Nat
  BY DEF Clusters
<1>2. WithNamespace(c) \in Clusters
  BY DEF WithNamespace, Clusters
<1>3. WithVolume(c) \in Clusters
  BY <1>1 DEF WithVolume, Clusters
<1>4. WithLoad(c, TRUE) \in Clusters
  BY DEF WithLoad, Clusters
<1>5. [c EXCEPT !.isolated = TRUE] \in Clusters
  BY DEF Clusters
<1> QED BY <1>2, <1>3, <1>4, <1>5 DEF Applied, PlanSteps

LEMMA StatusType ==
    ASSUME cluster \in Clusters, NEW group
    PROVE  /\ NamespaceStatus \in {"ok", "unavailable", "rejected"}
           /\ ApplyStatus(group) \in {"ok", "unavailable", "rejected"}
<1>1. cluster.ns \in {"absent", "active", "terminating", "released"}
  BY DEF Clusters
<1>2. NamespaceStatus \in {"ok", "unavailable", "rejected"}
  BY <1>1 DEF NamespaceStatus
<1> QED BY <1>2 DEF ApplyStatus

LEMMA PlanOrder ==
    /\ \A g \in Range(ContainerPlan) : g \in PlanSteps
    /\ \A g \in Range(KubeVirtPlan) : g \in PlanSteps
    /\ \A g \in PlanSteps \ {"workload"} : /\ Following(ContainerPlan, g) \in PlanSteps
                                           /\ Following(KubeVirtPlan, g) \in PlanSteps
<1>1. /\ DOMAIN ContainerPlan = 1..4 /\ ContainerPlan[1] = "namespace" /\ ContainerPlan[2] = "volume"
      /\ ContainerPlan[3] = "policy" /\ ContainerPlan[4] = "workload"
  BY DEF ContainerPlan
<1>2. /\ DOMAIN KubeVirtPlan = 1..4 /\ KubeVirtPlan[1] = "namespace" /\ KubeVirtPlan[2] = "policy"
      /\ KubeVirtPlan[3] = "volume" /\ KubeVirtPlan[4] = "workload"
  BY DEF KubeVirtPlan
<1>3. 1..4 = {1, 2, 3, 4}
  OBVIOUS
<1>4. \A i \in 1..4 : ContainerPlan[i] \in PlanSteps /\ KubeVirtPlan[i] \in PlanSteps
  BY <1>1, <1>2, <1>3 DEF PlanSteps
<1>5. ASSUME NEW g \in PlanSteps \ {"workload"} PROVE Following(ContainerPlan, g) \in PlanSteps
  <2>1. \E i \in DOMAIN ContainerPlan : ContainerPlan[i] = g
    BY <1>1, <1>3, <1>5 DEF PlanSteps
  <2> DEFINE n == CHOOSE i \in DOMAIN ContainerPlan : ContainerPlan[i] = g
  <2>2. n \in DOMAIN ContainerPlan /\ ContainerPlan[n] = g
    BY <2>1
  <2> HIDE DEF n
  <2>3. n + 1 \in 1..4
    BY <1>1, <1>3, <2>2
  <2>4. Following(ContainerPlan, g) = ContainerPlan[n + 1]
    BY DEF Following, n
  <2> QED BY <1>4, <2>3, <2>4
<1>6. ASSUME NEW g \in PlanSteps \ {"workload"} PROVE Following(KubeVirtPlan, g) \in PlanSteps
  <2>1. \E i \in DOMAIN KubeVirtPlan : KubeVirtPlan[i] = g
    BY <1>2, <1>3, <1>6 DEF PlanSteps
  <2> DEFINE n == CHOOSE i \in DOMAIN KubeVirtPlan : KubeVirtPlan[i] = g
  <2>2. n \in DOMAIN KubeVirtPlan /\ KubeVirtPlan[n] = g
    BY <2>1
  <2> HIDE DEF n
  <2>3. n + 1 \in 1..4
    BY <1>2, <1>3, <2>2
  <2>4. Following(KubeVirtPlan, g) = KubeVirtPlan[n + 1]
    BY DEF Following, n
  <2> QED BY <1>4, <2>3, <2>4
<1> QED BY <1>1, <1>2, <1>4, <1>5, <1>6 DEF Range

LEMMA PlanWorks ==
    ASSUME RuntimeInv, NEW j \in jobs, ApplyPlan(j) \/ ApplyKubeVirtPlan(j)
    PROVE  Works(j)
<1>1. cluster \in Clusters
  BY JobFacts
<1>2. \A g \in PlanSteps : g \in ExecutionSteps /\ g \notin CleanupStages
  BY DEF PlanSteps, ExecutionSteps, CleanupStages
<1>3. /\ {"observe", "claim", "running"} \subseteq ExecutionSteps
      /\ \A g \in {"observe", "claim", "running"} : g \notin CleanupStages
  BY DEF ExecutionSteps, CleanupStages
<1>4. j.pc \in PlanSteps
  BY PlanOrder DEF ApplyPlan, ApplyKubeVirtPlan
<1>5. Applied(cluster, j.pc) \in Clusters
  BY <1>1, <1>4, AppliedType
<1>6. CASE ApplyPlan(j)
  <2> DEFINE n == CASE j.pc = "workload" -> "observe"
                    [] j.pc # "workload" -> Following(ContainerPlan, j.pc)
             next == IF n = "workload" THEN "claim" ELSE n
  <2>1. Write(j, ApplyStatus(j.pc), Applied(cluster, j.pc), next)
    BY <1>6 DEF ApplyPlan
  <2>2. n \in PlanSteps \cup {"observe"}
    <3>1. CASE j.pc = "workload"
      BY <3>1
    <3>2. CASE j.pc # "workload"
      <4>1. Following(ContainerPlan, j.pc) \in PlanSteps
        BY <1>4, <3>2, PlanOrder
      <4> QED BY <3>2, <4>1
    <3> QED BY <3>1, <3>2
  <2> HIDE DEF n
  <2>3. next \in ExecutionSteps /\ next \notin CleanupStages
    BY <1>2, <1>3, <2>2
  <2> HIDE DEF next
  <2> QED BY <1>1, <1>5, <2>1, <2>3, StatusType, WriteWorks
<1>7. CASE ApplyKubeVirtPlan(j)
  <2> DEFINE s == IF j.pc = "workload" /\ cluster.load \in {"stopping", "stopped"}
                  THEN "rejected" ELSE ApplyStatus(j.pc)
             next == IF j.pc = KubeVirtPlan[Len(KubeVirtPlan)] THEN "running"
                     ELSE Following(KubeVirtPlan, j.pc)
  <2>1. Write(j, s, Applied(cluster, j.pc), next)
    BY <1>7 DEF ApplyKubeVirtPlan
  <2>2. KubeVirtPlan[Len(KubeVirtPlan)] = "workload"
    BY DEF KubeVirtPlan
  <2>3. s \in {"ok", "unavailable", "rejected"}
    BY <1>1, StatusType
  <2>4. next \in ExecutionSteps /\ next \notin CleanupStages
    BY <1>2, <1>3, <1>4, <2>2, PlanOrder
  <2> HIDE DEF s, next
  <2> QED BY <1>5, <2>1, <2>3, <2>4, WriteWorks
<1> QED BY <1>6, <1>7

LEMMA ContainerWorks ==
    ASSUME RuntimeInv, NEW j \in jobs,
           WaitForWorkspaceClaim(j) \/ ObservePlan(j) \/ Scale(j) \/ Restart(j)
    PROVE  Works(j)
<1>1. cluster \in Clusters
  BY JobFacts
<1>2. NoAnswer \in Answers /\ NoAnswer.status = "none"
  BY DEF NoAnswer, Answers
<1>3. CASE WaitForWorkspaceClaim(j)
  <2> DEFINE next == IF cluster.bound THEN "workload" ELSE "claim"
  <2>1. Read(j, FALSE, NoAnswer, next)
    BY <1>3 DEF WaitForWorkspaceClaim
  <2>2. next \in ExecutionSteps /\ next \notin CleanupStages
    BY DEF ExecutionSteps, CleanupStages
  <2> HIDE DEF next
  <2> QED BY <1>2, <2>1, <2>2, ReadWorks
<1>4. CASE ObservePlan(j)
  <2> DEFINE s == IF WorkloadReady(cluster) THEN "ready" ELSE "converging"
  <2>1. Read(j, TRUE, Answer(s), "observe")
    BY <1>4 DEF ObservePlan
  <2>2. Answer(s) \in Answers /\ Answer(s).status # "deleted"
    BY AnswerType
  <2>3. "observe" \in ExecutionSteps /\ "observe" \notin CleanupStages
    BY DEF ExecutionSteps, CleanupStages
  <2> HIDE DEF s
  <2> QED BY <2>1, <2>2, <2>3, ReadWorks
<1>5. CASE Scale(j)
  <2>1. "settle" \in ExecutionSteps /\ "settle" \notin CleanupStages
    BY DEF ExecutionSteps, CleanupStages
  <2>2. CASE Write(j, NamespaceStatus, WithLoad(cluster, j.pc = "start"), "settle")
    <3>1. WithLoad(cluster, j.pc = "start") \in Clusters
      BY <1>1 DEF WithLoad, Clusters
    <3> QED BY <1>1, <2>1, <2>2, <3>1, StatusType, WriteWorks
  <2>3. CASE Read(j, WorkloadReady(cluster), Answer("ready"), "settle")
    <3>1. Answer("ready") \in Answers /\ Answer("ready").status # "deleted"
      BY AnswerType
    <3> QED BY <2>1, <2>3, <3>1, ReadWorks
  <2> QED BY <1>5, <2>2, <2>3 DEF Scale
<1>6. CASE Restart(j)
  <2>1. Write(j, NamespaceStatus, [cluster EXCEPT !.load = "starting"], "observe")
    BY <1>6 DEF Restart
  <2>2. [cluster EXCEPT !.load = "starting"] \in Clusters
    BY <1>1 DEF Clusters
  <2>3. "observe" \in ExecutionSteps /\ "observe" \notin CleanupStages
    BY DEF ExecutionSteps, CleanupStages
  <2> QED BY <1>1, <2>1, <2>2, <2>3, StatusType, WriteWorks
<1> QED BY <1>3, <1>4, <1>5, <1>6

LEMMA SubresourceWorks ==
    ASSUME RuntimeInv, NEW j \in jobs, KubeVirtSubresource(j)
    PROVE  Works(j)
<1> DEFINE up == j.pc \in {"start", "restart"}
           conflict == CASE j.pc = "start" -> cluster.load \in {"starting", "running"}
                         [] j.pc = "stop" -> cluster.load \in {"stopping", "stopped"}
                         [] OTHER -> cluster.load # "running"
           s == IF cluster.load = "none" THEN "unavailable"
                ELSE IF j.pc = "restart" /\ conflict THEN "rejected" ELSE "ok"
           after == IF conflict THEN cluster
                    ELSE [cluster EXCEPT !.load = IF up THEN "starting" ELSE "stopping"]
           next == IF up THEN "running" ELSE "halted"
<1>1. Write(j, s, after, next)
  BY DEF KubeVirtSubresource
<1>2. cluster \in Clusters
  BY JobFacts
<1>3. s \in {"ok", "unavailable", "rejected"}
  OBVIOUS
<1>4. after \in Clusters
  <2>1. [cluster EXCEPT !.load = "starting"] \in Clusters /\ [cluster EXCEPT !.load = "stopping"] \in Clusters
    BY <1>2 DEF Clusters
  <2> HIDE DEF up, conflict
  <2> QED BY <1>2, <2>1
<1>5. next \in ExecutionSteps /\ next \notin CleanupStages
  BY DEF ExecutionSteps, CleanupStages
<1> HIDE DEF s, after, next
<1> QED BY <1>1, <1>3, <1>4, <1>5, WriteWorks

LEMMA KubeVirtWorks ==
    ASSUME RuntimeInv, NEW j \in jobs,
           ObserveKubeVirtRunning(j) \/ WaitKubeVirtRunning(j) \/ ObserveKubeVirtStopped(j)
    PROVE  Works(j)
<1>1. cluster \in Clusters
  BY JobFacts
<1>2. /\ Answer("ready") \in Answers /\ Answer("ready").status # "deleted"
      /\ Answer("stopped") \in Answers /\ Answer("stopped").status # "deleted"
      /\ [status |-> "unavailable", vol |-> 0] \in Answers
      /\ [status |-> "unavailable", vol |-> 0].status # "deleted"
  BY AnswerType, FailureAnswers
<1>3. CASE ObserveKubeVirtRunning(j)
  <2> DEFINE a == IF cluster.load = "running" THEN Answer("ready") ELSE [status |-> "unavailable", vol |-> 0]
  <2>1. Read(j, TRUE, a, "observe")
    BY <1>3 DEF ObserveKubeVirtRunning
  <2>2. a \in Answers /\ a.status # "deleted"
    BY <1>2
  <2>3. "observe" \in ExecutionSteps /\ "observe" \notin CleanupStages
    BY DEF ExecutionSteps, CleanupStages
  <2> HIDE DEF a
  <2> QED BY <2>1, <2>2, <2>3, ReadWorks
<1>4. CASE WaitKubeVirtRunning(j)
  <2>1. Conclude(j, Answer("ready")) /\ UNCHANGED executorUnchanged /\ cluster' = cluster
    BY <1>4 DEF WaitKubeVirtRunning
  <2> QED BY <1>1, <1>2, <2>1, ConcludeWorks
<1>5. CASE ObserveKubeVirtStopped(j)
  <2>1. Conclude(j, Answer("stopped")) /\ UNCHANGED executorUnchanged /\ cluster' = cluster
    BY <1>5 DEF ObserveKubeVirtStopped
  <2> QED BY <1>1, <1>2, <2>1, ConcludeWorks
<1> QED BY <1>3, <1>4, <1>5

LEMMA DeletionWorks ==
    ASSUME RuntimeInv, NEW j \in jobs, NamespaceDeletion(j) \/ StoreCleanupDocument(j)
    PROVE  Works(j)
<1>1. cluster \in Clusters /\ Deletes(j)
  BY JobFacts
<1>2. j.req.action = "Cleanup"
  BY <1>1 DEF NamespaceDeletion, StoreCleanupDocument, Deletes, CleanupStages
<1>3. {"readback", "delete", "finalizers", "evidence"} \subseteq ExecutionSteps
  BY DEF ExecutionSteps
<1>4. NoAnswer \in Answers
  BY DEF NoAnswer, Answers
<1>5. [cluster EXCEPT !.ns = "terminating"] \in Clusters /\ [cluster EXCEPT !.ns = "released"] \in Clusters
  BY <1>1 DEF Clusters
<1>6. CASE Read(j, FALSE, NoAnswer, IF cluster.ns = "absent" THEN "evidence" ELSE "delete")
  <2>1. (IF cluster.ns = "absent" THEN "evidence" ELSE "delete") \in ExecutionSteps
    BY <1>3
  <2> QED BY <1>2, <1>4, <1>6, <2>1, ReadWorks
<1>7. CASE Write(j, "ok", IF cluster.ns = "active" THEN [cluster EXCEPT !.ns = "terminating"] ELSE cluster,
                 "finalizers")
  <2>1. (IF cluster.ns = "active" THEN [cluster EXCEPT !.ns = "terminating"] ELSE cluster) \in Clusters
    BY <1>1, <1>5
  <2> QED BY <1>2, <1>3, <1>7, <2>1, WriteWorks
<1>8. CASE Write(j, "ok", IF cluster.ns = "terminating" THEN [cluster EXCEPT !.ns = "released"] ELSE cluster,
                 "readback")
  <2>1. (IF cluster.ns = "terminating" THEN [cluster EXCEPT !.ns = "released"] ELSE cluster) \in Clusters
    BY <1>1, <1>5
  <2> QED BY <1>2, <1>3, <1>8, <2>1, WriteWorks
<1>9. CASE Read(j, TRUE, [status |-> "deleted", vol |-> 0], "evidence")
  BY <1>2, <1>3, <1>9, FailureAnswers, ReadWorks
<1> QED BY <1>6, <1>7, <1>8, <1>9 DEF NamespaceDeletion, StoreCleanupDocument

LEMMA EndingWorks ==
    ASSUME RuntimeInv, NEW j \in jobs, ForeignFinalizer(j) \/ LoopEnds(j)
    PROVE  Works(j)
<1>1. cluster' \in Clusters /\ UNCHANGED executorUnchanged
  BY JobFacts DEF ForeignFinalizer, LoopEnds
<1>2. PICK s \in {"rejected", "unavailable"} : Conclude(j, [status |-> s, vol |-> 0])
  BY DEF ForeignFinalizer, LoopEnds
<1>3. [status |-> s, vol |-> 0] \in Answers /\ [status |-> s, vol |-> 0].status # "deleted"
  BY FailureAnswers
<1> QED BY <1>1, <1>2, <1>3, ConcludeWorks

LEMMA ExecutionKeeps ==
    ASSUME RuntimeInv, NEW j \in jobs, Execution(j)
    PROVE  RuntimeInv'
<1>1. CASE ApplyPlan(j) \/ ApplyKubeVirtPlan(j)
  BY <1>1, PlanWorks, WorkKeeps
<1>2. CASE WaitForWorkspaceClaim(j) \/ ObservePlan(j) \/ Scale(j) \/ Restart(j)
  BY <1>2, ContainerWorks, WorkKeeps
<1>3. CASE KubeVirtSubresource(j)
  BY <1>3, SubresourceWorks, WorkKeeps
<1>4. CASE ObserveKubeVirtRunning(j) \/ WaitKubeVirtRunning(j) \/ ObserveKubeVirtStopped(j)
  BY <1>4, KubeVirtWorks, WorkKeeps
<1>5. CASE DeleteNamespace(j) \/ DeleteKubeVirtNamespace(j) \/ StoreCleanupDocument(j)
  BY <1>5, DeletionWorks, WorkKeeps DEF DeleteNamespace, DeleteKubeVirtNamespace
<1>6. CASE ForeignFinalizer(j) \/ LoopEnds(j)
  BY <1>6, EndingWorks, WorkKeeps
<1>7. CASE CompleteContainer(j) \/ CompleteKubeVirt(j)
  BY <1>7, CompleteKeeps DEF CompleteContainer, CompleteKubeVirt
<1>8. CASE ContainerTimesOut(j) \/ KubeVirtTimesOut(j)
  BY <1>8, DroppedKeeps DEF ContainerTimesOut, KubeVirtTimesOut
<1> QED BY <1>1, <1>2, <1>3, <1>4, <1>5, <1>6, <1>7, <1>8 DEF Execution

-----------------------------------------------------------------------------

LEMMA ProvisioningFields ==
    /\ Provisioning \in Instance
    /\ Provisioning.observedState = "Provisioning" /\ Provisioning.desiredState = "Running"
<1> DEFINE created == CreatedInstance(MaxTick + 1, NoLeaseAuthorization, RuntimeBudget)
           one == ApplyProviderObservation(created, NoEndpoints("Validating", FALSE))
           two == ApplyProviderObservation(one, NoEndpoints("Building", FALSE))
           three == ApplyProviderObservation(two, NoEndpoints("Provisioning", FALSE))
<1>1. MaxTick + 1 \in Nat /\ RuntimeBudget \in Nat /\ NoLeaseAuthorization \in LeaseAuthorization
  BY RuntimeAssumption DEF NoLeaseAuthorization, LeaseAuthorization
<1>2. created \in Instance
  BY <1>1, CreatedType
<1>3. created.desiredState = "Running"
  BY DEF CreatedInstance
<1>4. \A s \in {"Validating", "Building", "Provisioning"} :
        NoEndpoints(s, FALSE) \in Observation /\ NoEndpoints(s, FALSE).nextState = s
  BY DEF NoEndpoints, Observation, ObservedStates
<1> HIDE DEF created
<1>5. one \in Instance /\ one.desiredState = "Running"
  BY <1>2, <1>3, <1>4, ObservationFields
<1> HIDE DEF one
<1>6. two \in Instance /\ two.desiredState = "Running"
  BY <1>4, <1>5, ObservationFields
<1> HIDE DEF two
<1>7. three \in Instance /\ three.desiredState = "Running" /\ three.observedState = "Provisioning"
  BY <1>4, <1>6, ObservationFields
<1> HIDE DEF three
<1>8. Provisioning = three
  BY DEF Provisioning, created, one, two, three
<1> QED BY <1>7, <1>8

LEMMA RuntimeInitially == RuntimeInit => RuntimeInv
<1> SUFFICES ASSUME RuntimeInit PROVE RuntimeInv
  OBVIOUS
<1>1. inst \in Instance /\ Settled(inst)
  BY ProvisioningFields DEF RuntimeInit, Settled
<1>2. cluster \in Clusters
  BY DEF RuntimeInit, Clusters
<1>3. fence = NoFence /\ fence.present = FALSE
  BY DEF RuntimeInit, NoFence
<1>4. /\ runtime \in {"container", "kubevirt"} /\ tick \in Nat /\ requested \in Nat
      /\ lease \in [token : Nat, until : Nat \cup {NoTime}]
  BY RuntimeAssumption DEF RuntimeInit
<1>5. calls = {} /\ wire = {} /\ jobs = {}
  BY DEF RuntimeInit
<1>6. RuntimeTyped
  BY <1>1, <1>2, <1>3, <1>4, <1>5 DEF RuntimeTyped
<1> QED BY <1>1, <1>3, <1>5, <1>6 DEF RuntimeInv, SoleWriter, DeletionMeant, RequestsBehind, CallsCurrent

LEMMA RuntimeStepKeeps == RuntimeInv /\ [RuntimeNext]_runtimeVars => RuntimeInv'
<1> SUFFICES ASSUME RuntimeInv, [RuntimeNext]_runtimeVars PROVE RuntimeInv'
  OBVIOUS
<1>1. CASE UNCHANGED runtimeVars
  BY <1>1 DEF runtimeVars, RuntimeInv, RuntimeTyped, SoleWriter, DeletionMeant, RequestsBehind, CallsCurrent
<1>2. CASE Passes
  BY <1>2, PassesKeeps
<1>3. CASE KubernetesStep
  BY <1>3, KubernetesKeeps
<1>4. CASE ExecutorStops
  BY <1>4, DroppedKeeps
<1>5. CASE \E kind \in RuntimeKinds : AcceptCommand(kind)
  BY <1>5, CommandKeeps
<1>6. CASE BeginsCleanup \/ Refused \/ ContainerPlanRefused \/ KubeVirtPlanRefused \/ Prepares
  BY <1>6, ClaimsKeep DEF Refused, ContainerPlanRefused, KubeVirtPlanRefused
<1>7. CASE Call
  BY <1>7, CallKeeps
<1>8. ASSUME NEW c \in calls,
             ContainerCallFails(c) \/ KubeVirtCallFails(c) \/ CallRefused(c) \/ WorkerDies(c) \/ Observes(c)
             \/ RecordRunning(c) \/ RecordStopped(c) \/ RecordDeleted(c) \/ RecordRefused(c)
      PROVE  RuntimeInv'
  <2>1. CASE ContainerCallFails(c) \/ KubeVirtCallFails(c) \/ CallRefused(c) \/ RecordRefused(c)
    BY <2>1, CallFailuresKeep DEF ContainerCallFails, KubeVirtCallFails
  <2>2. CASE WorkerDies(c)
    BY <2>2, DyingKeeps
  <2>3. CASE Observes(c)
    BY <2>3, AnswersKeep
  <2>4. CASE RecordRunning(c) \/ RecordStopped(c) \/ RecordDeleted(c)
    BY <2>4, RecordKeeps DEF RecordRunning, RecordStopped, RecordDeleted
  <2> QED BY <1>8, <2>1, <2>2, <2>3, <2>4
<1>9. ASSUME NEW r \in wire, ReceiveContainer(r) \/ ReceiveKubeVirt(r) PROVE RuntimeInv'
  BY <1>9, ReceiveKeeps DEF ReceiveContainer, ReceiveKubeVirt, KubeVirtAdmission
<1>10. ASSUME NEW j \in jobs, Execution(j) PROVE RuntimeInv'
  BY <1>10, ExecutionKeeps
<1> QED BY <1>1, <1>2, <1>3, <1>4, <1>5, <1>6, <1>7, <1>8, <1>9, <1>10 DEF RuntimeNext

\* A request of the current version is not refused as stale, as another's or as too late.
LEMMA CurrentIsAdmitted == RuntimeInv => CurrentAdmitted
<1> SUFFICES ASSUME RuntimeInv, NEW c \in calls, Current(c), c.req \in wire,
                    c.snapshot.operation.kind # "Freeze"
             PROVE  Admission(c.req) \notin {"stale", "identity", "tombstoned"}
  BY DEF CurrentAdmitted
<1>1. c.snapshot = inst /\ Served(inst) /\ c.req = ContainerFence(inst) /\ c.req \in Request
  BY CallFacts DEF CallOf
<1>2. /\ c.req.generation = inst.generation /\ c.req.operation = inst.operation.id
      /\ c.req.step = inst.operation.providerStep /\ c.req.attempt = inst.operation.attempt
      /\ c.req.action = NextAction(inst)
  BY <1>1 DEF ContainerFence
<1>3. RuntimeTyped /\ tick \in Nat /\ c.req.deadline \in Nat /\ inst \in Instance
  BY <1>1 DEF RuntimeInv, RuntimeTyped, Request
<1>4. CASE tick >= c.req.deadline
  <2>1. Admission(c.req) = "deadline"
    BY <1>3, <1>4 DEF Admission
  <2> QED BY <2>1
<1>5. CASE tick < c.req.deadline /\ ~fence.present
  <2>1. Admission(c.req) = "execute"
    BY <1>3, <1>5 DEF Admission
  <2> QED BY <2>1
<1>6. CASE tick < c.req.deadline /\ fence.present
  <2>1. fence.req \in Request /\ Behind(fence.req, inst)
    BY <1>3, <1>6, FenceFacts DEF RuntimeInv, RequestsBehind
  <2>2. /\ fence.req.generation \in Nat /\ fence.req.step \in Nat /\ fence.req.attempt \in Nat
        /\ c.req.generation \in Nat /\ c.req.step \in Nat /\ c.req.attempt \in Nat
    BY <1>1, <2>1 DEF Request
  <2>3. /\ fence.req.generation <= c.req.generation
        /\ fence.req.generation = c.req.generation =>
             /\ fence.req.operation = c.req.operation
             /\ fence.req.step < c.req.step
                \/ (fence.req.step = c.req.step /\ fence.req.attempt <= c.req.attempt)
    BY <1>1, <1>2, <2>1 DEF Behind, NotLater
  <2>4. ~OlderRequest(c.req, fence.req)
    BY <2>2, <2>3 DEF OlderRequest
  <2>5. fence.answer.status = "deleted" => c.req.action = "Cleanup"
    <3>1. fence.answer.status = "deleted" => Gone(inst)
      BY <1>6, <2>1 DEF RuntimeInv, DeletionMeant, Behind
    <3>2. Gone(inst) => inst.observedState = "Deleting"
      BY <1>1, ServedDeletion DEF Gone
    <3> QED BY <1>1, <1>2, <3>1, <3>2, ServedDeletion
  <2>6. ~(tick >= c.req.deadline)
    BY <1>3, <1>6
  <2>7. Admission(c.req) =
         IF fence.req = c.req THEN IF fence.answer # NoAnswer THEN "replay" ELSE "inProgress"
         ELSE IF fence.answer = NoAnswer /\ tick < fence.req.deadline THEN "inProgress"
         ELSE IF fence.tombstoned /\ fence.answer.status = "deleted"
              THEN IF c.req.action = "Cleanup" THEN "replay" ELSE "tombstoned"
         ELSE IF OlderRequest(c.req, fence.req) THEN "stale"
         ELSE IF c.req.generation = fence.req.generation
                 /\ c.req.operation # fence.req.operation THEN "identity"
         ELSE "execute"
    BY <1>6, <2>6 DEF Admission
  <2> QED BY <2>3, <2>4, <2>5, <2>7
<1> QED BY <1>3, <1>4, <1>5, <1>6

\* The invariant of the runtime: what is sent and admitted is in the order of the aggregate's
\* versions, an execution with time left is alone, and only cleanups delete.
THEOREM RuntimeAlwaysOrdered == RuntimeSpec => []RuntimeInv
<1>1. RuntimeInit => RuntimeInv
  BY RuntimeInitially
<1>2. RuntimeInv /\ [RuntimeNext]_runtimeVars => RuntimeInv'
  BY RuntimeStepKeeps
<1> QED BY <1>1, <1>2, PTL DEF RuntimeSpec

\* For any budgets, faults, commands, calls and ticks: at any time one execution of the executor
\* may write to the cluster, the one that the fence row names, and the executor refuses no
\* request of the current operation, a Freeze apart, as stale, as another operation's or as after
\* the tombstone (admit and complete of the fence stores, FencedContainerExecutor in
\* container_provider.rs and FencedKubeVirtExecutor in kubevirt_provider.rs).
THEOREM RuntimeAlwaysFenced == RuntimeSpec => []RuntimeFenced
<1>1. RuntimeInv => RuntimeTypeOK
  <2> SUFFICES ASSUME RuntimeInv PROVE RuntimeTypeOK
    OBVIOUS
  <2>1. fence.present => fence.req \in Request /\ fence.answer \in Answers
    BY FenceFacts DEF RuntimeInv
  <2> QED BY <2>1 DEF RuntimeInv, RuntimeTyped, RuntimeTypeOK, JobRecord, CallRecord, Clusters
<1>2. RuntimeInv => OneWriter
  BY DEF RuntimeInv, SoleWriter, OneWriter, Running
<1>3. RuntimeInv => RuntimeFenced
  BY <1>1, <1>2, CurrentIsAdmitted DEF RuntimeFenced
<1> QED BY <1>3, RuntimeAlwaysOrdered, PTL
==============================================================================
