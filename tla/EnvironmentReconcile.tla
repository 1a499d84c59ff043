------------------------ MODULE EnvironmentReconcile ------------------------
(***************************************************************************)
(* One environment of the Environment Service: its aggregate and operation *)
(* rows in PostgreSQL, the processes that reconcile it, and everyone who   *)
(* sends it commands (store.rs, reconciler.rs, process.rs, api.rs).        *)
(*                                                                         *)
(* Every database transaction is one action.  Between two transactions of  *)
(* a worker anything may happen: time passes, another worker claims, a     *)
(* command supersedes the operation, the process stops.  Row locks make    *)
(* the transactions atomic; the order of the locks is left out.            *)
(*                                                                         *)
(* A behaviour starts when create_in_transaction has committed.            *)
(***************************************************************************)
EXTENDS EnvironmentProvider, Sequences

CONSTANTS
    Workers,              \* processes, each with a reconcile loop and an expiry loop
    LeaseDuration,        \* RECONCILE_LEASE
    OperationBudget,      \* OPERATION_DEADLINE, EXPIRY_OPERATION_BUDGET
    EligibilityTimes,     \* the eligibility expiries an environment is created with
    ApiKinds,             \* the kinds its owner requests
    BusKinds,             \* the kinds that arrive as lifecycle command messages
    MaxClock,             \* bound: the last tick
    LastCommand,          \* bound: the last tick at which a command arrives
    MaxOperations,        \* bound: operations accepted in a behaviour
    MaxStops,             \* bound: times a process is killed
    MaxProviderStep,      \* bound: non-terminal observations of one operation
    MaxLeaseRevision,     \* bound: revisions of the Resource Lease, one tick apart
    Prompt                \* TRUE: workers poll and finish in time

ASSUME ReconcileAssumption ==
    /\ LeaseDuration \in Nat /\ LeaseDuration >= ProviderTimeout + 1
    /\ OperationBudget \in Nat \ {0}
    /\ EligibilityTimes \subseteq Nat
    /\ ApiKinds \subseteq {"Start", "Stop", "Restart", "Retry", "Delete"}
    /\ BusKinds \subseteq OperationKinds \ {"Create"}
    /\ {MaxClock, LastCommand, MaxOperations, MaxStops, MaxProviderStep} \subseteq Nat
    /\ MaxLeaseRevision \in Nat \ {0}
    /\ Prompt \in BOOLEAN

VARIABLES
    clock,      \* the database clock, the one time source of the service
    env,        \* the row of environment.environment_instances
    ops,        \* the rows of environment.environment_operations, by operation id
    workers,    \* the local state of each process' reconcile loop
    tokens,     \* fencing tokens handed out so far (a fresh UUID is the next number)
    lease,      \* the Work Lease as the Resource Service answers for it
    outbox,     \* aggregate_sequence of environment.outbox_events, in commit order
    stops       \* processes killed so far

vars == <<clock, env, ops, workers, tokens, lease, outbox, stops>>

-----------------------------------------------------------------------------

NoToken == 0

\* A row of environment_operations: the columns the store decides on.
Row ==
    [state          : OperationStates,
     nextAttemptAt  : Nat,
     leaseToken     : Nat,
     leaseExpiresAt : Nat \cup {NoTime}]

\* The local variables of run_once, by how far it has come.
Idle == [pc |-> "idle"]

Polled(now) == [pc |-> "polled", now |-> now]

Leased(pc, now, snapshot, token) ==
    [pc |-> pc, now |-> now, snapshot |-> snapshot, token |-> token]

Saving(wk, updated) ==
    [pc |-> "saving", now |-> wk.now, snapshot |-> wk.snapshot, token |-> wk.token,
     updated |-> updated]

HoldsLease(w) == workers[w].pc \in {"claimed", "leased", "calling", "saving"}

InsertedRow(op) ==
    [state |-> op.state, nextAttemptAt |-> op.nextAttemptAt, leaseToken |-> NoToken,
     leaseExpiresAt |-> NoTime]

\* enqueue_environment_event: one event, its sequence the revision it announces.
Enqueue(e) == outbox' = Append(outbox, e.revision)

\* LeaseLost, RevisionConflict or a lifecycle error: run_once returns Err and the process ends.
StopProcess(w) == workers' = [workers EXCEPT ![w] = Idle]

-----------------------------------------------------------------------------
(* Creation *)

Init ==
    /\ clock = 0
    /\ \E t \in EligibilityTimes :
        /\ lease = IF Class = "Work" THEN [leaseRevision |-> 1, expiresAt |-> t]
                   ELSE NoLeaseAuthorization
        /\ env = CreatedInstance(t, lease, OperationBudget)
    /\ ops = <<InsertedRow(env.operation)>>
    /\ outbox = <<env.revision>>
    /\ workers = [w \in Workers |-> Idle]
    /\ tokens = 0
    /\ stops = 0

-----------------------------------------------------------------------------
(* Commands *)

\* The lease of the active operation a destructive command supersedes, NoTime if none.
SupersededLease(c) ==
    IF Active(env) /\ c.kind \in DestructiveKinds
    THEN ops[env.operation.id].leaseExpiresAt
    ELSE NoTime

\* The planned aggregate, not due before the superseded lease has expired.
AcceptedInstance(c) ==
    NotBefore(PlanCommand(env, c, Len(ops) + 1), SupersededLease(c))

\* Mutant: the superseded row stays active.
SupersededRowsKept == ops

\* The superseded row ends cancelled and keeps its lease columns.
SupersededRows ==
    IF Active(env) THEN [ops EXCEPT ![env.operation.id].state = "Cancelled"] ELSE ops

\* accept_command_in_transaction of a command whose idempotency key is new.
CommandAccepted(c) ==
    /\ Active(env) => ops[env.operation.id].state \in ActiveOperationStates
    /\ CommandAllowed(env, c, clock)
    /\ Validate(PlanCommand(env, c, Len(ops) + 1))
    /\ Validate(AcceptedInstance(c))

AcceptCommand(c) ==
    /\ Len(ops) < MaxOperations /\ clock <= LastCommand
    /\ CommandAccepted(c)
    /\ env' = AcceptedInstance(c)
    /\ ops' = Append(SupersededRows, InsertedRow(env'.operation))
    /\ Enqueue(env')
    /\ UNCHANGED <<clock, tokens, lease, stops>>

\* The expected revision matches and the budget is added to the accepting clock.
CommandOf(kind, revoked, authorization) ==
    [kind |-> kind, expectedRevision |-> env.revision, acceptedAt |-> clock,
     deadlineAt |-> clock + OperationBudget, revocationRecorded |-> revoked,
     leaseAuthorization |-> authorization]

\* accept_lifecycle: the owner's start, stop, restart, retry and delete requests.
ApiCommand(kind) ==
    /\ LET revoked == IF kind = "Retry" THEN env.operation.revocationRecorded
                      ELSE kind \in {"Stop", "Restart", "Delete"}
       IN  AcceptCommand(CommandOf(kind, revoked, NoLeaseAuthorization))
    /\ UNCHANGED workers

\* resolve_lease_authorization: the consumer asks Resource where the kind needs a Lease.
VerifiedLease(kind) ==
    IF Class = "Work" /\ kind \in EligibilityKinds THEN lease ELSE NoLeaseAuthorization

\* JetStreamCommandConsumer::process_next on a well-formed command message.
BusCommand(kind, revoked) ==
    /\ AcceptCommand(CommandOf(kind, revoked, VerifiedLease(kind)))
    /\ UNCHANGED workers

ExpireCommand == CommandOf("Expire", TRUE, NoLeaseAuthorization)

\* accept_resource_work_cleanup: Resource asks for the cleanup of a Work environment.
ResourceCleanup ==
    /\ Class = "Work"
    /\ env.observedState # "Deleted"
    /\ env.operation.kind \notin {"Expire", "Delete", "Cleanup"}
    /\ AcceptCommand(ExpireCommand)
    /\ UNCHANGED workers

\* find_expired
Expired == env.desiredState # "Deleted" /\ env.eligibilityExpiresAt <= clock

\* expiry_loop: a due environment whose grants Access has revoked is expired.
ExpiryLoop ==
    /\ Expired
    /\ AcceptCommand(ExpireCommand)
    /\ UNCHANGED workers

\* expiry_loop on a due environment that does not accept Expire: only RevisionConflict is
\* tolerated, any other error ends the loop and with it the process.
ExpiryLoopFails(w) ==
    /\ Expired
    /\ ~CommandAccepted(ExpireCommand)
    /\ workers[w] # Idle
    /\ StopProcess(w)
    /\ UNCHANGED <<clock, env, ops, tokens, lease, outbox, stops>>

-----------------------------------------------------------------------------
(* The Work Lease *)

\* renew_lease of the Resource Service; this service hears of it in RefreshWorkLease.
RenewLease ==
    /\ Class = "Work"
    /\ lease.leaseRevision < MaxLeaseRevision
    /\ lease' = [leaseRevision |-> lease.leaseRevision + 1, expiresAt |-> lease.expiresAt + 1]
    /\ UNCHANGED <<clock, env, ops, workers, tokens, outbox, stops>>

\* refresh_work_lease
RefreshWorkLease ==
    /\ LeaseRefreshable(env, lease, clock)
    /\ Validate(RefreshedInstance(env, lease))
    /\ env' = RefreshedInstance(env, lease)
    /\ Enqueue(env')
    /\ UNCHANGED <<clock, ops, workers, tokens, lease, stops>>

-----------------------------------------------------------------------------
(* The reconcile worker *)

\* reconcile_loop reads the clock that run_once works with.
Poll(w) ==
    /\ workers[w].pc = "idle"
    /\ workers' = [workers EXCEPT ![w] = Polled(clock)]
    /\ UNCHANGED <<clock, env, ops, tokens, lease, outbox, stops>>

\* Mutant: the lease of a dead worker is not recovered.
DueUnleased(i) ==
    /\ ops[i].state \in ActiveOperationStates
    /\ ops[i].nextAttemptAt <= clock
    /\ ops[i].leaseExpiresAt = NoTime

\* An operation row claim_due may take; a NULL lease is an expired one.
Due(i) ==
    /\ ops[i].state \in ActiveOperationStates
    /\ ops[i].nextAttemptAt <= clock
    /\ ops[i].leaseExpiresAt <= clock

\* claim_due with a due row: a new token and lease, and the aggregate as it is now.
Claim(w, i) ==
    /\ workers[w].pc = "polled"
    /\ Due(i)
    /\ tokens' = tokens + 1
    /\ ops' = [ops EXCEPT ![i] = [@ EXCEPT !.state = "Running",
                                           !.leaseToken = tokens',
                                           !.leaseExpiresAt = clock + LeaseDuration]]
    /\ workers' = [workers EXCEPT ![w] = Leased("claimed", @.now, env, tokens')]
    /\ UNCHANGED <<clock, env, lease, outbox, stops>>

\* claim_due with no due row: ReconcileWorkerOutcome::Idle
ClaimNothing(w) ==
    /\ workers[w].pc = "polled"
    /\ \A i \in DOMAIN ops : ~Due(i)
    /\ workers' = [workers EXCEPT ![w] = Idle]
    /\ UNCHANGED <<clock, env, ops, tokens, lease, outbox, stops>>

\* The lease row of w's snapshot still carries w's token and has not expired.
LeaseCurrent(w) ==
    LET row == ops[workers[w].snapshot.operation.id]
    IN  row.leaseToken = workers[w].token /\ row.leaseExpiresAt > clock

\* heartbeat; LeaseLost ends the process.
Heartbeat(w) ==
    LET id == workers[w].snapshot.operation.id
    IN  /\ workers[w].pc = "claimed"
        /\ IF LeaseCurrent(w) /\ ops[id].state = "Running"
           THEN /\ ops' = [ops EXCEPT ![id].leaseExpiresAt = clock + LeaseDuration]
                /\ workers' = [workers EXCEPT ![w] =
                                    Leased("leased", @.now, @.snapshot, @.token)]
           ELSE StopProcess(w) /\ UNCHANGED ops
        /\ UNCHANGED <<clock, env, tokens, lease, outbox, stops>>

\* run_once on an operation past its deadline: cleanup is persisted before it is performed.
BeginCleanup(w) ==
    LET wk == workers[w]
        updated == BeginTimeoutCleanup(wk.snapshot, wk.now, CleanupDeadline(wk.now))
    IN  /\ wk.pc = "leased"
        /\ TimedOut(wk.snapshot, wk.now)
        /\ IF /\ TimeoutCleanupAllowed(wk.snapshot, wk.now, CleanupDeadline(wk.now))
              /\ Validate(updated)
           THEN workers' = [workers EXCEPT ![w] = Saving(wk, updated)]
           ELSE StopProcess(w)
        /\ UNCHANGED <<clock, env, ops, tokens, lease, outbox, stops>>

\* execute_once selects an action and calls the Provider.  There always is one: that
\* ReconcileError::NoAction does not arise is ActionSelected of EnvironmentAggregate.
CallProvider(w) ==
    /\ workers[w].pc = "leased"
    /\ ~TimedOut(workers[w].snapshot, workers[w].now)
    /\ NextAction(workers[w].snapshot) # NoAction
    /\ workers' = [workers EXCEPT ![w] = Leased("calling", @.now, @.snapshot, @.token)]
    /\ UNCHANGED <<clock, env, ops, tokens, lease, outbox, stops>>

\* apply_provider_failure, or the end of the process when Failed cannot be reached.
FailOperation(w, code) ==
    IF /\ FailureAllowed(workers[w].snapshot)
       /\ Validate(ApplyProviderFailure(workers[w].snapshot, code))
    THEN workers' = [workers EXCEPT ![w] =
                        Saving(@, ApplyProviderFailure(@.snapshot, code))]
    ELSE StopProcess(w)

\* The Provider answers with an observation.
ProviderObserves(w, obs) ==
    LET wk == workers[w]
        next == Deferred(ApplyProviderObservation(wk.snapshot, obs), wk.now)
    IN  /\ wk.pc = "calling"
        /\ IF ~ObservationAccepted(wk.snapshot, obs)
           THEN FailOperation(w, "Provider")
           ELSE IF ObservationApplies(wk.snapshot, obs, wk.now)
                THEN workers' = [workers EXCEPT ![w] = Saving(wk, next)]
                ELSE StopProcess(w)
        /\ UNCHANGED <<clock, env, ops, tokens, lease, outbox, stops>>

\* The call fails or times out: a bounded retry, else the operation fails.
ProviderFails(w, code, retryable) ==
    LET wk == workers[w]
        retryAt == wk.now + RetryDelay
    IN  /\ wk.pc = "calling"
        /\ IF ~Retries(wk.snapshot, wk.now, retryable) THEN FailOperation(w, code)
           ELSE IF /\ RetryAllowed(wk.snapshot, retryAt)
                   /\ Validate(ApplyRetry(wk.snapshot, code, retryAt))
                THEN workers' = [workers EXCEPT ![w] =
                                    Saving(wk, ApplyRetry(wk.snapshot, code, retryAt))]
                ELSE StopProcess(w)
        /\ UNCHANGED <<clock, env, ops, tokens, lease, outbox, stops>>

\* Mutant: the fencing token alone is checked.
SaveCurrentByToken(w) == LeaseCurrent(w)

\* The revision, operation and lease save_reconciled checks under its row locks.
SaveCurrent(w) ==
    /\ env.revision = workers[w].snapshot.revision
    /\ env.operation.id = workers[w].snapshot.operation.id
    /\ LeaseCurrent(w)

SavedRow(op) ==
    [state |-> op.state, nextAttemptAt |-> op.nextAttemptAt, leaseToken |-> NoToken,
     leaseExpiresAt |-> NoTime]

\* save_reconciled: aggregate, row and event in one transaction, or the process ends.
SaveReconciled(w) ==
    LET updated == workers[w].updated
    IN  /\ workers[w].pc = "saving"
        /\ IF SaveCurrent(w) /\ Validate(updated)
           THEN /\ env' = updated
                /\ ops' = [ops EXCEPT ![updated.operation.id] = SavedRow(updated.operation)]
                /\ Enqueue(updated)
           ELSE UNCHANGED <<env, ops, outbox>>
        /\ workers' = [workers EXCEPT ![w] = Idle]
        /\ UNCHANGED <<clock, tokens, lease, stops>>

\* The process is killed; its lease stays in the database.
Kill(w) ==
    /\ workers[w].pc # "idle"
    /\ stops < MaxStops
    /\ stops' = stops + 1
    /\ StopProcess(w)
    /\ UNCHANGED <<clock, env, ops, tokens, lease, outbox>>

-----------------------------------------------------------------------------
(* Time *)

\* Under Prompt a due operation is claimed, and a holder finishes before its lease expires,
\* in the tick: polling and calls are fast against RETRY_DELAY and RECONCILE_LEASE.
Tick ==
    /\ clock < MaxClock
    /\ Prompt =>
           /\ \A i \in DOMAIN ops : ~Due(i)
           /\ \A w \in Workers : HoldsLease(w) /\ LeaseCurrent(w) =>
                  clock + 1 < ops[workers[w].snapshot.operation.id].leaseExpiresAt
    /\ clock' = clock + 1
    /\ UNCHANGED <<env, ops, workers, tokens, lease, outbox, stops>>

Observe(w) ==
    /\ workers[w].pc = "calling"
    /\ \E obs \in ProviderObservations(workers[w].snapshot, NextAction(workers[w].snapshot)) :
           /\ ~obs.operationComplete =>
                  workers[w].snapshot.operation.providerStep < MaxProviderStep
           /\ ProviderObserves(w, obs)

Fail(w) ==
    \E code \in {"Timeout", "Provider"}, retryable \in BOOLEAN :
        /\ code = "Timeout" => retryable
        /\ ProviderFails(w, code, retryable)

WorkerStep(w) ==
    \/ Poll(w) \/ ClaimNothing(w) \/ Heartbeat(w)
    \/ \E i \in DOMAIN ops : Claim(w, i)
    \/ BeginCleanup(w) \/ CallProvider(w)
    \/ Observe(w) \/ Fail(w) \/ SaveReconciled(w)

Commands ==
    \/ \E kind \in ApiKinds : ApiCommand(kind)
    \/ \E kind \in BusKinds, revoked \in BOOLEAN : BusCommand(kind, revoked)
    \/ ResourceCleanup \/ ExpiryLoop

Next ==
    \/ Tick
    \/ Commands
    \/ RenewLease \/ RefreshWorkLease
    \/ \E w \in Workers : WorkerStep(w) \/ ExpiryLoopFails(w) \/ Kill(w)

Spec == Init /\ [][Next]_vars

\* The clock runs, and every process keeps taking its next step: a process that stopped is
\* started again by its supervisor, and a Provider call returns within PROVIDER_TIMEOUT.
FairSpec == Spec /\ SF_vars(Tick) /\ \A w \in Workers : WF_vars(WorkerStep(w))

\* The states the Lease goes through.
Leases ==
    {NoLeaseAuthorization} \cup
    {[leaseRevision |-> r, expiresAt |-> t + r - 1] :
        r \in 1..MaxLeaseRevision, t \in EligibilityTimes}

\* The aggregate as if every lifecycle function were applied to the stored row at once.
Atomic ==
    INSTANCE EnvironmentAggregate
        WITH CommandKinds <- ApiKinds \cup BusKinds \cup {"Expire"},
             Times <- 0..(MaxClock + LeaseDuration)

-----------------------------------------------------------------------------
(* Properties *)

\* Whatever workers, commands, clocks and stopped processes interleave, the stored aggregate
\* moves by whole lifecycle functions of its own current value: nothing is lost, applied
\* twice or computed from a stale read (the locks and checks of store.rs).
\* This is Atomic!AggregateSpec, with the steps that leave the aggregate alone decided first.
AtomicAggregate == Atomic!AggregateInit /\ [][UNCHANGED env \/ Atomic!AggregateNext]_env

WorkerState ==
    [pc : {"idle"}]
    \cup [pc : {"polled"}, now : Nat]
    \cup [pc : {"claimed", "leased", "calling"}, now : Nat, snapshot : Instance, token : Nat]
    \cup [pc : {"saving"}, now : Nat, snapshot : Instance, token : Nat, updated : Instance]

\* Every variable has its type: the rows, the aggregate and the workers' local state.
TypeOK ==
    /\ clock \in Nat
    /\ env \in Instance
    /\ ops \in Seq(Row)
    /\ workers \in [Workers -> WorkerState]
    /\ tokens \in Nat
    /\ lease \in LeaseAuthorization
    /\ outbox \in Seq(Nat)
    /\ stops \in Nat

\* The aggregate and the operation table agree: only the aggregate's own operation has an
\* active row, and it has one exactly while the aggregate says it is active
\* (accept_command_in_transaction supersedes, claim_due and save_reconciled write both).
OneActiveOperation ==
    /\ env.operation.id = Len(ops)
    /\ \A i \in DOMAIN ops :
           ops[i].state \in ActiveOperationStates <=> (i = env.operation.id /\ Active(env))

\* A snapshot whose revision is still the stored one is the stored aggregate: a result
\* computed from it overwrites nothing it has not seen (the revision check of
\* save_reconciled is enough).
SnapshotFaithful ==
    \A w \in Workers :
        HoldsLease(w) /\ workers[w].snapshot.revision = env.revision =>
            workers[w].snapshot = env

\* One event per revision, in order and without a gap: what the Inbox watermark of a
\* consumer of environment events relies on (enqueue_environment_event in every write).
OutboxContiguous == outbox = [i \in 1..env.revision |-> i]

\* An operation is not leased before the lease of the operation it superseded has expired:
\* a command waits for the call of the operation that was active when it was accepted.
SupersededLeaseExpires ==
    \A i \in 1..(Len(ops) - 1) :
        ops[i + 1].leaseToken # NoToken => ops[i].leaseExpiresAt <= clock

\* What docs/contracts/environment-lifecycle-v1.md:81-83 says: a superseding destructive
\* command cannot begin Provider cleanup until the older Provider call's fenced lease has
\* expired.  The code compares with the lease of the operation superseded last, so that a
\* second superseding command does not wait for the call the first one waits for.
OlderLeasesExpire ==
    \A i, j \in DOMAIN ops :
        i < j /\ ops[j].leaseToken # NoToken => ops[i].leaseExpiresAt <= clock

\* An accepted operation ends.  Time passes, a stopped process is started again and a worker
\* finishes before its lease expires: then retries, deadlines, timeout cleanup and the
\* recovery of a dead worker's lease leave no operation active for ever.
OperationTerminates == Active(env) ~> ~Active(env)

\* The rows, the aggregate, the snapshots the workers hold of it and the events agree.
RowsFaithful == TypeOK /\ OneActiveOperation /\ SnapshotFaithful /\ OutboxContiguous

=============================================================================
