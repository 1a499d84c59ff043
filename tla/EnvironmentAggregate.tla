------------------------ MODULE EnvironmentAggregate ------------------------
(***************************************************************************)
(* What the Environment Service promises of one environment: every write   *)
(* of the row of environment.environment_instances is one lifecycle        *)
(* function (lifecycle.rs) applied to the row as it stands, as if there    *)
(* were no processes, no leases and nothing between reading the aggregate  *)
(* and writing it.  EnvironmentReconcile implements this specification.    *)
(*                                                                         *)
(* The times a function is given are arbitrary: a worker's clock reading   *)
(* may be older than the row it works on.                                  *)
(***************************************************************************)
EXTENDS EnvironmentProvider

CONSTANTS
    OperationBudget,    \* OPERATION_DEADLINE, EXPIRY_OPERATION_BUDGET
    EligibilityTimes,   \* the eligibility expiries an environment is created with
    CommandKinds,       \* the kinds of command that arrive
    Times,              \* the clock readings
    Leases              \* the states of the Work Lease

ASSUME AggregateAssumption ==
    /\ OperationBudget \in Nat \ {0}
    /\ EligibilityTimes \subseteq Nat
    /\ CommandKinds \subseteq OperationKinds \ {"Create"}
    /\ Times \subseteq Nat
    /\ Leases \subseteq LeaseAuthorization

VARIABLE env    \* the stored EnvironmentInstance

-----------------------------------------------------------------------------

AggregateInit ==
    \E t \in EligibilityTimes, authorization \in Leases :
        /\ ValidLeaseAuthorization(CreatedInstance(t, authorization, OperationBudget))
        /\ env = CreatedInstance(t, authorization, OperationBudget)

\* The command a handler issues on the row it reads.
Issued(kind, revoked, authorization, now) ==
    [kind |-> kind, expectedRevision |-> env.revision, acceptedAt |-> now,
     deadlineAt |-> now + OperationBudget, revocationRecorded |-> revoked,
     leaseAuthorization |-> authorization]

\* plan_command_authorized, and the deferral behind a superseded lease that is still running.
Accept(c, now) ==
    /\ CommandAllowed(env, c, now)
    /\ \E t \in IF Active(env) THEN Times \cup {NoTime} ELSE {NoTime} :
           env' = NotBefore(PlanCommand(env, c, env.operation.id + 1), t)
    /\ Validate(env')

\* refresh_work_lease
Refresh(lease, now) ==
    /\ LeaseRefreshable(env, lease, now)
    /\ env' = RefreshedInstance(env, lease)
    /\ Validate(env')

\* begin_timeout_cleanup
BeginCleanup(now) ==
    /\ Active(env)
    /\ TimedOut(env, now)
    /\ TimeoutCleanupAllowed(env, now, CleanupDeadline(now))
    /\ env' = BeginTimeoutCleanup(env, now, CleanupDeadline(now))
    /\ Validate(env')

\* apply_provider_observation and defer_non_terminal_observation
Observe(obs, now) ==
    /\ Active(env)
    /\ ~TimedOut(env, now)
    /\ ObservationAccepted(env, obs)
    /\ ObservationApplies(env, obs, now)
    /\ env' = Deferred(ApplyProviderObservation(env, obs), now)

\* apply_retry
Retry(code, now) ==
    /\ Active(env)
    /\ RetryAllowed(env, now + RetryDelay)
    /\ env' = ApplyRetry(env, code, now + RetryDelay)
    /\ Validate(env')

\* apply_provider_failure
Fail(code) ==
    /\ Active(env)
    /\ FailureAllowed(env)
    /\ env' = ApplyProviderFailure(env, code)
    /\ Validate(env')

FailureCodes == {"Timeout", "Provider"}

AggregateNext ==
    \/ \E kind \in CommandKinds, revoked \in BOOLEAN,
          authorization \in Leases \cup {NoLeaseAuthorization}, now \in Times :
              Accept(Issued(kind, revoked, authorization, now), now)
    \/ \E lease \in Leases, now \in Times : Refresh(lease, now)
    \/ \E now \in Times : BeginCleanup(now)
    \/ \E obs \in ProviderObservations(env, NextAction(env)), now \in Times : Observe(obs, now)
    \/ \E code \in FailureCodes, now \in Times : Retry(code, now)
    \/ \E code \in FailureCodes : Fail(code)

AggregateSpec == AggregateInit /\ [][AggregateNext]_env

-----------------------------------------------------------------------------
(* Properties *)

\* The aggregate has its type and passes EnvironmentInstance::validate, which update_instance
\* runs before it writes and decode_contract after it reads.
AggregateTypeOK == env \in Instance /\ Validate(env)

\* An active operation can always be ended.  Whatever state it is found in, the failure that
\* run_once falls back on is a legal transition to a valid aggregate, and once its deadline
\* has passed so is its timeout cleanup: no aggregate makes run_once return an error, and
\* the process stop, each time it is claimed.
NeverWedged ==
    Active(env) =>
        /\ FailureAllowed(env)
        /\ Validate(ApplyProviderFailure(env, "Provider"))
        /\ \A now \in Times :
               TimedOut(env, now) =>
                   /\ TimeoutCleanupAllowed(env, now, CleanupDeadline(now))
                   /\ Validate(BeginTimeoutCleanup(env, now, CleanupDeadline(now)))

\* next_action finds an action for every active operation: no command, answer, retry or
\* timeout leads to a pair of operation kind and observed state it has no arm for.
ActionSelected == Active(env) => NextAction(env) # NoAction

\* The Provider has an answer to the action next_action selects that
\* validate_provider_observation accepts and that moves the environment on.
ProviderCanAdvance ==
    \E obs \in ProviderObservations(env, NextAction(env)) :
        obs.nextState # env.observedState /\ ObservationAccepted(env, obs)

\* An accepted operation of these kinds is never a dead end.  They are the ones whose phases
\* are the same in next_action, the provider's execute and validate_provider_observation;
\* Expire, Retry and Recover are left out, and so is Reset, which has a dead end.
NoDeadEnd ==
    Active(env) /\ env.operation.kind \in
        {"Create", "Start", "Stop", "Restart", "Freeze", "Cancel", "Delete", "Cleanup"} =>
            ProviderCanAdvance

\* Provider resources are torn down only for an environment that is meant to be deleted.
TeardownIsIntended ==
    env.observedState \in {"Deleting", "Deleted"} => env.desiredState = "Deleted"

\* Only a Ready environment publishes a healthy endpoint, whichever way it left Ready: the
\* command, the failure or the timeout that takes it out of Ready also marks the endpoint.
HealthyOnlyWhenReady ==
    (\E p \in env.endpoints : p.health = "Healthy") => env.observedState = "Ready"

\* An operation that ended well left the environment in the state its intent asks for, and
\* observed at the generation of that intent.
SucceededIsConverged ==
    env.operation.state \in {"Succeeded", "Cancelled"} =>
        /\ env.observedState = TargetState(env.desiredState)
        /\ env.observedGeneration = env.generation

\* An operation that was timed out never ends as a success, not even when its cleanup
\* completes and the environment is Deleted.
TimedOutEndsFailed ==
    env.operation.cleanupStartedAt # NoTime /\ ~Active(env) => env.operation.state = "Failed"

\* No command, late Provider answer, retry or timeout leaves Deleted or takes back the intent
\* to delete.
DeletionIsFinal ==
    [][/\ env.observedState = "Deleted" => env'.observedState = "Deleted"
       /\ env.desiredState = "Deleted" => env'.desiredState = "Deleted"]_env

\* A changed intent is a new generation, which is what lets an executor refuse the calls of
\* the intent before it.
IntentIsFenced ==
    [][env'.desiredState # env.desiredState => env'.generation > env.generation]_env

\* The outcome of an operation is what became of the environment: convergence when it ended
\* well, a failure when it was timed out.
OutcomeIsTrue == SucceededIsConverged /\ TimedOutEndsFailed

\* The environment is torn down only on purpose, and offered to users only while it runs.
RuntimeAsIntended == TeardownIsIntended /\ HealthyOnlyWhenReady

\* The intent to delete is final, and any other change of intent fences the one before.
IntentHolds == DeletionIsFinal /\ IntentIsFenced

=============================================================================
