---------------------- MODULE EnvironmentReconcileProofs ----------------------
(***************************************************************************)
(* The rows of one environment under any number of processes, commands and *)
(* stops, for every value of the constants: the aggregate, its operations, *)
(* its events and the workers' snapshots agree, and every write of the     *)
(* aggregate is one step of EnvironmentAggregate.                          *)
(***************************************************************************)
EXTENDS EnvironmentReconcile, EnvironmentLifecycleProofs, SequenceTheorems

-----------------------------------------------------------------------------
(* The inductive invariant *)

Holding == {"claimed", "leased", "calling", "saving"}

\* What run_once may hand to save_reconciled: a lifecycle function of the snapshot it claimed.
Computed(s, now, u) ==
    \/ /\ TimedOut(s, now)
       /\ TimeoutCleanupAllowed(s, now, CleanupDeadline(now))
       /\ u = BeginTimeoutCleanup(s, now, CleanupDeadline(now))
    \/ \E obs \in ProviderObservations(s, NextAction(s)) :
           /\ ~TimedOut(s, now)
           /\ ObservationAccepted(s, obs)
           /\ ObservationApplies(s, obs, now)
           /\ u = Deferred(ApplyProviderObservation(s, obs), now)
    \/ \E code \in {"Timeout", "Provider"} :
           /\ RetryAllowed(s, now + RetryDelay)
           /\ u = ApplyRetry(s, code, now + RetryDelay)
    \/ \E code \in {"Timeout", "Provider"} :
           /\ FailureAllowed(s)
           /\ u = ApplyProviderFailure(s, code)

\* A snapshot is an earlier value of the aggregate, taken while its operation was active.
SnapshotSound(s) ==
    /\ Active(s)
    /\ s.operation.id \in 1..Len(ops)
    /\ s.revision <= env.revision
    /\ s.revision = env.revision => s = env

\* A worker's local state: what it read is not newer than the rows, and what it is about to
\* save was computed from what it read.
WorkerSound(wk) ==
    /\ wk.pc # "idle" => wk.now <= clock
    /\ wk.pc \in Holding => wk.token # NoToken /\ SnapshotSound(wk.snapshot)
    /\ wk.pc = "calling" => ~TimedOut(wk.snapshot, wk.now)
    /\ wk.pc = "saving" => Computed(wk.snapshot, wk.now, wk.updated)

WorkersSound == \A w \in Workers : WorkerSound(workers[w])

\* The Lease Resource answers for is one it has issued.
LeaseIssued ==
    IF Class = "Work"
    THEN \E t \in EligibilityTimes :
             /\ lease.leaseRevision \in 1..MaxLeaseRevision
             /\ lease = [leaseRevision |-> lease.leaseRevision,
                         expiresAt |-> t + lease.leaseRevision - 1]
    ELSE lease = NoLeaseAuthorization

\* A lease is at most LeaseDuration ahead of the clock, and a settled operation has none.
LeasesBounded ==
    /\ \A i \in DOMAIN ops : ops[i].leaseExpiresAt <= clock + LeaseDuration
    /\ ~Active(env) => ops[Len(ops)].leaseExpiresAt = NoTime

\* The lease of a superseded operation has expired, or the operation that superseded it has
\* not been claimed yet and is not due before it has.
SupersededFenced ==
    \A i \in 1..(Len(ops) - 1) :
        \/ ops[i].leaseExpiresAt <= clock
        \/ /\ ops[i + 1].leaseToken = NoToken
           /\ ops[i].leaseExpiresAt <= ops[i + 1].nextAttemptAt

Inv ==
    /\ TypeOK
    /\ clock <= MaxClock
    /\ Len(ops) > 0
    /\ OneActiveOperation
    /\ OutboxContiguous
    /\ LeaseIssued
    /\ LeasesBounded
    /\ SupersededFenced
    /\ WorkersSound

-----------------------------------------------------------------------------
(* Local facts *)

\* A lifecycle function of a snapshot is the next revision of the same operation.
LEMMA ComputedFields ==
    ASSUME NEW s \in Instance, NEW now \in Nat, NEW u, Computed(s, now, u)
    PROVE  /\ u \in Instance
           /\ u.revision = s.revision + 1
           /\ u.operation.id = s.operation.id
<1>1. s.operation \in Operation
  BY DEF Instance
<1>2. CASE u = BeginTimeoutCleanup(s, now, CleanupDeadline(now))
  <2>1. PICK d \in Nat : d = CleanupDeadline(now)
    BY CleanupDeadlineType
  <2>2. /\ u \in Instance /\ u.revision = s.revision + 1
        /\ u.operation = CleanupOperation(s.operation, now, d)
    BY <1>2, <2>1, CleanupFields
  <2> QED
    BY <1>1, <2>2 DEF CleanupOperation, Operation
<1>3. ASSUME NEW obs \in ProviderObservations(s, NextAction(s)),
             u = Deferred(ApplyProviderObservation(s, obs), now)
      PROVE  /\ u \in Instance
             /\ u.revision = s.revision + 1
             /\ u.operation.id = s.operation.id
  <2> DEFINE f == ApplyProviderObservation(s, obs)
  <2>1. obs \in Observation
    BY ProviderObservationsType
  <2>2. f \in Instance /\ f.revision = s.revision + 1 /\ f.operation.id = s.operation.id
    BY <2>1, ObservationFields, ObservedOperationFields
  <2> HIDE DEF f
  <2> QED
    BY <1>3, <2>2, DeferredFields DEF f
<1>4. ASSUME NEW code \in {"Timeout", "Provider"}, u = ApplyRetry(s, code, now + RetryDelay)
      PROVE  /\ u \in Instance
             /\ u.revision = s.revision + 1
             /\ u.operation.id = s.operation.id
  <2>1. code \in DiagnosticCodes /\ now + RetryDelay \in Nat
    BY ProviderAssumption DEF DiagnosticCodes
  <2> QED
    BY <1>1, <1>4, <2>1, RetryFields, RetriedOperationFields
<1>5. ASSUME NEW code \in {"Timeout", "Provider"}, u = ApplyProviderFailure(s, code)
      PROVE  /\ u \in Instance
             /\ u.revision = s.revision + 1
             /\ u.operation.id = s.operation.id
  <2>1. code \in DiagnosticCodes
    BY DEF DiagnosticCodes
  <2> QED
    BY <1>1, <1>5, <2>1, FailureFields, FailedOperationFields
<1> QED
  BY <1>2, <1>3, <1>4, <1>5 DEF Computed

\* The fields of a worker's local state, by how far it has come.
LEMMA WorkerFields ==
    ASSUME NEW wk \in WorkerState
    PROVE  /\ wk.pc \in {"idle", "polled"} \cup Holding
           /\ wk.pc # "idle" => wk.now \in Nat
           /\ wk.pc \in Holding => wk.snapshot \in Instance /\ wk.token \in Nat
           /\ wk.pc = "saving" => wk.updated \in Instance
BY DEF WorkerState, Holding

\* A worker's local state stays sound while time passes and the rows move on.
LEMMA SoundKept ==
    ASSUME NEW wk \in WorkerState, WorkerSound(wk), TypeOK,
           clock' \in Nat, clock' >= clock, Len(ops') \in Nat, Len(ops') >= Len(ops),
           env'.revision \in Nat, env' = env \/ env'.revision > env.revision
    PROVE  WorkerSound(wk)'
<1>1. /\ wk.pc # "idle" => wk.now \in Nat
      /\ wk.pc \in Holding => wk.snapshot \in Instance /\ wk.token \in Nat
  BY WorkerFields
<1>2. env.revision \in Nat /\ clock \in Nat /\ Len(ops) \in Nat
  BY DEF TypeOK, Instance
<1>3. ASSUME NEW s \in Instance, SnapshotSound(s)
      PROVE  SnapshotSound(s)'
  <2>1. s.revision \in Nat
    BY DEF Instance
  <2> QED
    BY <1>2, <1>3, <2>1 DEF SnapshotSound
<1> QED
  BY <1>1, <1>2, <1>3 DEF WorkerSound

\* A row as a write leaves it, not leased.
LEMMA RowType ==
    ASSUME NEW op \in Operation
    PROVE  /\ InsertedRow(op) \in Row /\ SavedRow(op) = InsertedRow(op)
           /\ InsertedRow(op).state = op.state
           /\ InsertedRow(op).nextAttemptAt = op.nextAttemptAt
           /\ InsertedRow(op).leaseToken = NoToken
           /\ InsertedRow(op).leaseExpiresAt = NoTime
BY DEF InsertedRow, SavedRow, Row, Operation, NoToken, NoTime

\* The event of the next revision is the next event.
LEMMA EnqueueKeeps ==
    ASSUME OutboxContiguous, outbox \in Seq(Nat), env.revision \in Nat, NEW e,
           e.revision = env.revision + 1, env' = e, Enqueue(e)
    PROVE  OutboxContiguous' /\ outbox' \in Seq(Nat)
<1>1. Len(outbox) = env.revision
  BY DEF OutboxContiguous
<1>2. outbox' = Append(outbox, env.revision + 1)
  BY DEF Enqueue
<1>3. outbox' \in Seq(Nat) /\ Len(outbox') = env.revision + 1
  BY <1>1, <1>2
<1>4. \A i \in 1..(env.revision + 1) : outbox'[i] = i
  BY <1>1, <1>2 DEF OutboxContiguous
<1>5. outbox' = [i \in 1..Len(outbox') |-> outbox'[i]]
  BY <1>3, IsASeq
<1> QED
  BY <1>3, <1>4, <1>5 DEF OutboxContiguous

\* The state create_in_transaction commits.
LEMMA InvInit == Init => Inv
<1> SUFFICES ASSUME Init PROVE Inv
  OBVIOUS
<1>1. PICK t \in EligibilityTimes :
        /\ lease = IF Class = "Work" THEN [leaseRevision |-> 1, expiresAt |-> t]
                   ELSE NoLeaseAuthorization
        /\ env = CreatedInstance(t, lease, OperationBudget)
  BY DEF Init
<1>2. t \in Nat /\ OperationBudget \in Nat /\ lease \in LeaseAuthorization
  BY <1>1, ReconcileAssumption DEF LeaseAuthorization, NoLeaseAuthorization
<1>3. env \in Instance /\ env.operation \in Operation
  BY <1>1, <1>2, CreatedType DEF Instance
<1>4. env.revision = 1 /\ env.operation.id = 1 /\ env.operation.state = "Accepted"
  BY <1>1 DEF CreatedInstance
<1>5. /\ clock = 0 /\ ops = <<InsertedRow(env.operation)>> /\ outbox = <<1>>
      /\ workers = [w \in Workers |-> Idle] /\ tokens = 0 /\ stops = 0
  BY <1>4 DEF Init
<1>6. InsertedRow(env.operation) \in Row /\ Idle \in WorkerState
  BY <1>3, RowType DEF Idle, WorkerState
<1>7. TypeOK
  BY <1>2, <1>3, <1>5, <1>6 DEF TypeOK
<1>8. OneActiveOperation
  BY <1>3, <1>4, <1>5, RowType DEF OneActiveOperation, Active, ActiveOperationStates
<1>9. OutboxContiguous
  <2>1. <<1>> = [i \in 1..1 |-> i]
    OBVIOUS
  <2> QED
    BY <1>4, <1>5, <2>1 DEF OutboxContiguous
<1>10. LeaseIssued
  BY <1>1, <1>2, ReconcileAssumption DEF LeaseIssued
<1>11. LeasesBounded
  BY <1>3, <1>4, <1>5, RowType, ReconcileAssumption
     DEF LeasesBounded, Active, ActiveOperationStates, NoTime
<1>12. SupersededFenced
  BY <1>5 DEF SupersededFenced
<1>13. WorkersSound
  BY <1>5 DEF WorkersSound, WorkerSound, Idle, Holding
<1> QED
  BY <1>5, <1>7, <1>8, <1>9, <1>10, <1>11, <1>12, <1>13, ReconcileAssumption DEF Inv

-----------------------------------------------------------------------------
(* Every step keeps the invariant *)

\* What a step does that moves only the local state of one worker.
LocalStep(w, wk) ==
    /\ workers' = [workers EXCEPT ![w] = wk]
    /\ UNCHANGED <<clock, env, ops, tokens, lease, outbox>>

\* A worker may move to any sound local state.
LEMMA LocalStepKeeps ==
    ASSUME Inv, NEW w \in Workers, NEW wk \in WorkerState, WorkerSound(wk), LocalStep(w, wk),
           stops' \in Nat
    PROVE  Inv'
<1>1. TypeOK /\ WorkersSound /\ workers \in [Workers -> WorkerState]
  BY DEF Inv, TypeOK
<1>2. workers' \in [Workers -> WorkerState]
  BY <1>1 DEF LocalStep
<1>3. TypeOK'
  BY <1>1, <1>2 DEF TypeOK, LocalStep
<1>4. ASSUME NEW v \in Workers PROVE WorkerSound(workers[v])'
  <2>1. PICK x : x = workers'[v] /\ WorkerSound(x)
    BY <1>1 DEF LocalStep, WorkersSound
  <2> QED
    BY <2>1 DEF LocalStep, WorkerSound, SnapshotSound
<1>5. WorkersSound'
  BY <1>4 DEF WorkersSound
<1> QED
  BY <1>3, <1>5 DEF Inv, LocalStep, OneActiveOperation, OutboxContiguous, LeaseIssued,
                    LeasesBounded, SupersededFenced

\* The worker states stay sound when the rows move on.
LEMMA SoundAll ==
    ASSUME Inv, UNCHANGED workers,
           clock' \in Nat, clock' >= clock, Len(ops') \in Nat, Len(ops') >= Len(ops),
           env'.revision \in Nat, env' = env \/ env'.revision > env.revision
    PROVE  WorkersSound'
<1>1. ASSUME NEW v \in Workers PROVE WorkerSound(workers[v])'
  <2>1. PICK x : x = workers[v]
    OBVIOUS
  <2>2. x \in WorkerState /\ WorkerSound(x) /\ TypeOK
    BY <2>1 DEF Inv, TypeOK, WorkersSound
  <2>3. WorkerSound(x)'
    BY <2>2, SoundKept
  <2> QED
    BY <2>1, <2>3 DEF WorkerSound, SnapshotSound
<1> QED
  BY <1>1 DEF WorkersSound

\* The aggregate a command is accepted with: a new operation of the next id, active, and not
\* due before the lease it supersedes expires.
LEMMA AcceptedFields ==
    ASSUME Inv, NEW c \in Command, CommandAllowed(env, c, clock)
    PROVE  LET a == AcceptedInstance(c)
           IN  /\ a \in Instance
               /\ a.revision = env.revision + 1
               /\ a.operation.id = Len(ops) + 1
               /\ Active(a)
               /\ a.operation.nextAttemptAt >= SupersededLease(c)
<1> DEFINE id == Len(ops) + 1
           planned == PlanCommand(env, c, id)
           t == SupersededLease(c)
           a == AcceptedInstance(c)
<1>1. /\ env \in Instance /\ ops \in Seq(Row) /\ id \in Nat
      /\ env.operation.id \in DOMAIN ops
  <2>1. env \in Instance /\ ops \in Seq(Row) /\ env.operation.id = Len(ops)
    BY DEF Inv, TypeOK, OneActiveOperation
  <2>2. env.operation.id \in Nat
    BY <2>1
  <2>3. Len(ops) # 0
    BY DEF Inv
  <2> QED
    BY <2>1, <2>2, <2>3
<1>2. t \in Nat \cup {NoTime}
  <2>1. ops[env.operation.id] \in Row
    BY <1>1
  <2>2. ops[env.operation.id].leaseExpiresAt \in Nat \cup {NoTime}
    BY <2>1 DEF Row
  <2> QED
    BY <2>2 DEF SupersededLease
<1>3. c.kind \in RetryKinds => env.failedPhase # NoPhase
  BY DEF CommandAllowed
<1>4. PlannedOperation(env, c, id) \in Operation
  BY <1>1, PlannedOperationType
<1>5. /\ PlannedOperation(env, c, id).id = id
      /\ PlannedOperation(env, c, id).state \in ActiveOperationStates
  BY DEF PlannedOperation, ActiveOperationStates
<1> HIDE DEF id, t
<1>6. /\ planned \in Instance /\ planned.revision = env.revision + 1
      /\ planned.operation = PlannedOperation(env, c, id)
  BY <1>1, <1>3, PlannedFields
<1> HIDE DEF planned
<1>7. /\ a \in Instance /\ a.revision = planned.revision
      /\ a.operation = [planned.operation EXCEPT !.nextAttemptAt =
                            Later(t, planned.operation.nextAttemptAt)]
  BY <1>2, <1>6, NotBeforeFields DEF AcceptedInstance, planned, id, t
<1> HIDE DEF a
<1>8. /\ a.operation.id = id /\ a.operation.state \in ActiveOperationStates
      /\ a.operation.nextAttemptAt = Later(t, planned.operation.nextAttemptAt)
  BY <1>4, <1>5, <1>6, <1>7 DEF Operation
<1>9. Later(t, planned.operation.nextAttemptAt) >= t
  BY <1>2, <1>4, <1>6 DEF Later, NoTime, Operation
<1> QED
  BY <1>6, <1>7, <1>8, <1>9 DEF Active, a, id, t

\* Superseding ends the active row and keeps the leases of all rows.
LEMMA SupersededRowsFields ==
    ASSUME Inv
    PROVE  /\ SupersededRows \in Seq(Row)
           /\ Len(SupersededRows) = Len(ops)
           /\ \A i \in 1..Len(ops) :
                  /\ SupersededRows[i].state \notin ActiveOperationStates
                  /\ SupersededRows[i].leaseExpiresAt = ops[i].leaseExpiresAt
                  /\ SupersededRows[i].leaseToken = ops[i].leaseToken
                  /\ SupersededRows[i].nextAttemptAt = ops[i].nextAttemptAt
<1>1. ops \in Seq(Row) /\ OneActiveOperation /\ DOMAIN ops = 1..Len(ops)
  BY DEF Inv, TypeOK
<1>2. CASE ~Active(env)
  BY <1>1, <1>2 DEF SupersededRows, OneActiveOperation
<1>3. CASE Active(env)
  <2> DEFINE id == env.operation.id
             row == [ops[id] EXCEPT !.state = "Cancelled"]
  <2>1. id = Len(ops) /\ id \in 1..Len(ops)
    BY <1>1 DEF Inv, OneActiveOperation
  <2>2. ops[id] \in Row
    BY <1>1, <2>1
  <2>3. /\ row \in Row /\ row.state = "Cancelled"
        /\ row.leaseExpiresAt = ops[id].leaseExpiresAt
        /\ row.leaseToken = ops[id].leaseToken
        /\ row.nextAttemptAt = ops[id].nextAttemptAt
    BY <2>2 DEF Row, OperationStates, TerminalOperationStates
  <2>4. SupersededRows = [ops EXCEPT ![id] = row]
    BY <1>3 DEF SupersededRows
  <2> HIDE DEF row
  <2>5. SupersededRows \in Seq(Row) /\ Len(SupersededRows) = Len(ops)
    BY <1>1, <2>1, <2>3, <2>4
  <2>6. ASSUME NEW i \in 1..Len(ops)
        PROVE  SupersededRows[i] = IF i = id THEN row ELSE ops[i]
    BY <1>1, <2>4
  <2>7. \A i \in 1..Len(ops) : i # id => ops[i].state \notin ActiveOperationStates
    BY <1>1 DEF OneActiveOperation
  <2> QED
    BY <2>3, <2>5, <2>6, <2>7 DEF ActiveOperationStates
<1> QED
  BY <1>2, <1>3

\* accept_command_in_transaction
LEMMA AcceptKeeps ==
    ASSUME Inv, NEW c \in Command, AcceptCommand(c), UNCHANGED workers
    PROVE  Inv'
<1> DEFINE sup == SupersededRows
           row == InsertedRow(env'.operation)
<1>1. /\ env \in Instance /\ ops \in Seq(Row) /\ clock \in Nat /\ Len(ops) \in Nat
      /\ env.revision \in Nat /\ env.operation.id = Len(ops) /\ Len(ops) > 0
      /\ outbox \in Seq(Nat)
  BY DEF Inv, TypeOK, OneActiveOperation, Instance
<1>2. CommandAllowed(env, c, clock) /\ env' = AcceptedInstance(c)
  BY DEF AcceptCommand, CommandAccepted
<1>3. /\ env' \in Instance /\ env'.revision = env.revision + 1
      /\ env'.operation.id = Len(ops) + 1 /\ Active(env')
      /\ env'.operation.nextAttemptAt >= SupersededLease(c)
  BY <1>2, AcceptedFields
<1>4. env'.operation \in Operation /\ env'.operation.state \in ActiveOperationStates
  BY <1>3 DEF Instance, Active
<1>5. /\ row \in Row /\ row.state \in ActiveOperationStates /\ row.leaseToken = NoToken
      /\ row.leaseExpiresAt = NoTime /\ row.nextAttemptAt = env'.operation.nextAttemptAt
  BY <1>4, RowType
<1>6. ops' = Append(sup, row) /\ Enqueue(env') /\ UNCHANGED <<clock, tokens, lease, stops>>
  BY DEF AcceptCommand
<1>7. sup \in Seq(Row) /\ Len(sup) = Len(ops)
  BY SupersededRowsFields
<1>8. \A i \in 1..Len(ops) : /\ sup[i].state \notin ActiveOperationStates
                             /\ sup[i].leaseExpiresAt = ops[i].leaseExpiresAt
                             /\ sup[i].leaseToken = ops[i].leaseToken
                             /\ sup[i].nextAttemptAt = ops[i].nextAttemptAt
  BY SupersededRowsFields
<1> HIDE DEF sup, row
<1>9. /\ ops' \in Seq(Row) /\ Len(ops') = Len(ops) + 1 /\ ops'[Len(ops) + 1] = row
      /\ \A i \in 1..Len(ops) : ops'[i] = sup[i]
  BY <1>1, <1>5, <1>6, <1>7
<1>10. OutboxContiguous' /\ outbox' \in Seq(Nat)
  BY <1>1, <1>3, <1>6, EnqueueKeeps DEF Inv
<1>11. TypeOK'
  BY <1>3, <1>6, <1>9, <1>10 DEF Inv, TypeOK
<1>12. OneActiveOperation'
  <2>1. env'.operation.id = Len(ops') /\ Active(env)'
    BY <1>3, <1>9 DEF Active
  <2>2. \A i \in DOMAIN ops' : ops'[i].state \in ActiveOperationStates <=> i = Len(ops')
    <3>1. DOMAIN ops' = 1..(Len(ops) + 1)
      BY <1>1, <1>9
    <3> QED
      BY <1>1, <1>5, <1>8, <1>9, <3>1
  <2> QED
    BY <2>1, <2>2 DEF OneActiveOperation
<1>13. LeaseIssued' /\ clock' <= MaxClock /\ Len(ops') > 0
  BY <1>1, <1>6, <1>9 DEF Inv, LeaseIssued
<1>14. LeasesBounded'
  <2>1. ASSUME NEW i \in DOMAIN ops' PROVE ops'[i].leaseExpiresAt <= clock' + LeaseDuration
    <3>1. i \in 1..(Len(ops) + 1)
      BY <1>1, <1>9
    <3>2. CASE i = Len(ops) + 1
      BY <1>1, <1>5, <1>6, <1>9, <3>2, ReconcileAssumption DEF NoTime
    <3>3. CASE i # Len(ops) + 1
      <4>1. i \in 1..Len(ops) /\ i \in DOMAIN ops
        BY <1>1, <3>1, <3>3
      <4> QED
        BY <1>6, <1>8, <1>9, <4>1 DEF Inv, LeasesBounded
    <3> QED
      BY <3>2, <3>3
  <2> QED
    BY <1>3, <2>1 DEF LeasesBounded, Active
<1>15. SupersededFenced'
  <2> SUFFICES ASSUME NEW i \in 1..Len(ops)
               PROVE  \/ ops'[i].leaseExpiresAt <= clock'
                      \/ /\ ops'[i + 1].leaseToken = NoToken
                         /\ ops'[i].leaseExpiresAt <= ops'[i + 1].nextAttemptAt
    BY <1>1, <1>9 DEF SupersededFenced
  <2>1. CASE i = Len(ops)
    <3>1. CASE Active(env)
      <4>1. SupersededLease(c) = ops[i].leaseExpiresAt
        BY <1>1, <1>2, <2>1, <3>1 DEF SupersededLease, CommandAllowed
      <4> QED
        BY <1>1, <1>3, <1>5, <1>8, <1>9, <2>1, <4>1
    <3>2. CASE ~Active(env)
      BY <1>1, <1>6, <1>8, <1>9, <2>1, <3>2 DEF Inv, LeasesBounded, NoTime
    <3> QED
      BY <3>1, <3>2
  <2>2. CASE i # Len(ops)
    <3>1. i \in 1..(Len(ops) - 1) /\ i + 1 \in 1..Len(ops)
      BY <1>1, <2>2
    <3> QED
      BY <1>6, <1>8, <1>9, <3>1 DEF Inv, SupersededFenced
  <2> QED
    BY <2>1, <2>2
<1>16. WorkersSound'
  BY <1>1, <1>3, <1>6, <1>9, SoundAll
<1> QED
  BY <1>10, <1>11, <1>12, <1>13, <1>14, <1>15, <1>16 DEF Inv

\* refresh_work_lease
LEMMA RefreshKeeps ==
    ASSUME Inv, RefreshWorkLease
    PROVE  Inv'
<1>1. /\ env \in Instance /\ env.operation \in Operation /\ env.revision \in Nat
      /\ lease \in LeaseAuthorization /\ outbox \in Seq(Nat) /\ ops \in Seq(Row)
      /\ clock \in Nat
  BY DEF Inv, TypeOK, Instance
<1>2. env' = RefreshedInstance(env, lease) /\ Enqueue(env')
      /\ UNCHANGED <<clock, ops, workers, tokens, lease, stops>>
  BY DEF RefreshWorkLease
<1>3. /\ env' \in Instance /\ env'.revision = env.revision + 1
      /\ env'.operation = [env.operation EXCEPT !.leaseAuthorization = lease]
  BY <1>1, <1>2, RefreshedFields
<1>4. env'.operation.id = env.operation.id /\ env'.operation.state = env.operation.state
  BY <1>1, <1>3 DEF Operation
<1>5. OutboxContiguous' /\ outbox' \in Seq(Nat)
  BY <1>1, <1>2, <1>3, EnqueueKeeps DEF Inv
<1>6. TypeOK'
  BY <1>2, <1>3, <1>5 DEF Inv, TypeOK
<1>7. WorkersSound'
  BY <1>1, <1>2, <1>3, SoundAll
<1>8. Active(env)' <=> Active(env)
  BY <1>4 DEF Active
<1> QED
  BY <1>2, <1>4, <1>5, <1>6, <1>7, <1>8
     DEF Inv, OneActiveOperation, LeaseIssued, LeasesBounded, SupersededFenced

\* The worker states stay sound when one worker moves and the rows move on.
LEMMA MovedSound ==
    ASSUME Inv, NEW w \in Workers, NEW wk \in WorkerState,
           workers' = [workers EXCEPT ![w] = wk], WorkerSound(wk)',
           clock' = clock, Len(ops') = Len(ops), ops' \in Seq(Row),
           env'.revision \in Nat, env' = env \/ env'.revision > env.revision
    PROVE  WorkersSound' /\ workers' \in [Workers -> WorkerState]
<1>1. TypeOK /\ workers \in [Workers -> WorkerState] /\ clock \in Nat /\ Len(ops) \in Nat
  BY DEF Inv, TypeOK
<1>2. workers' \in [Workers -> WorkerState]
  BY <1>1
<1>3. ASSUME NEW v \in Workers PROVE WorkerSound(workers[v])'
  <2>1. PICK x : x = workers'[v]
    OBVIOUS
  <2>2. CASE v = w
    <3>1. x = wk
      BY <1>1, <2>1, <2>2
    <3> QED
      BY <2>1, <3>1 DEF WorkerSound, SnapshotSound
  <2>3. CASE v # w
    <3>1. x = workers[v]
      BY <1>1, <2>1, <2>3
    <3>2. x \in WorkerState /\ WorkerSound(x)
      BY <1>1, <3>1 DEF Inv, WorkersSound
    <3>3. WorkerSound(x)'
      BY <1>1, <3>2, SoundKept
    <3> QED
      BY <2>1, <3>3 DEF WorkerSound, SnapshotSound
  <2> QED
    BY <2>2, <2>3
<1> QED
  BY <1>2, <1>3 DEF WorkersSound

\* A write of the row of the aggregate's own operation, made when the lease of the operation
\* it superseded has expired.
LEMMA LastRowKeeps ==
    ASSUME Inv, NEW row \in Row, NEW n \in Nat, n = Len(ops), ops' = [ops EXCEPT ![n] = row],
           clock' = clock, env'.operation.id = env.operation.id,
           row.state \in ActiveOperationStates <=> env'.operation.state \in ActiveOperationStates,
           row.leaseExpiresAt <= clock + LeaseDuration,
           env'.operation.state \in ActiveOperationStates \/ row.leaseExpiresAt = NoTime,
           \A i \in 1..(n - 1) : i + 1 = n => ops[i].leaseExpiresAt <= clock
    PROVE  /\ ops' \in Seq(Row) /\ Len(ops') = n /\ ops'[n] = row
           /\ OneActiveOperation' /\ LeasesBounded' /\ SupersededFenced'
<1>1. /\ ops \in Seq(Row) /\ n > 0 /\ DOMAIN ops = 1..n
      /\ clock \in Nat /\ env.operation.id = n
  BY DEF Inv, TypeOK, OneActiveOperation
<1>2. n \in 1..n
  BY <1>1
<1>3. /\ ops' \in Seq(Row) /\ Len(ops') = n /\ DOMAIN ops' = 1..n
      /\ ops'[n] = row
      /\ \A i \in 1..n : i # n => ops'[i] = ops[i]
  BY <1>1, <1>2
<1>4. OneActiveOperation'
  <2>1. Active(env)' <=> row.state \in ActiveOperationStates
    BY DEF Active
  <2>2. \A i \in 1..n : i # n => ops[i].state \notin ActiveOperationStates
    BY <1>1 DEF Inv, OneActiveOperation
  <2> QED
    BY <1>1, <1>3, <2>1, <2>2 DEF OneActiveOperation
<1>5. LeasesBounded'
  <2>1. \A i \in 1..n : ops'[i].leaseExpiresAt <= clock + LeaseDuration
    BY <1>1, <1>3 DEF Inv, LeasesBounded
  <2> QED
    BY <1>3, <2>1 DEF LeasesBounded, Active
<1>6. SupersededFenced'
  <2> SUFFICES ASSUME NEW i \in 1..(n - 1)
               PROVE  \/ ops'[i].leaseExpiresAt <= clock
                      \/ /\ ops'[i + 1].leaseToken = NoToken
                         /\ ops'[i].leaseExpiresAt <= ops'[i + 1].nextAttemptAt
    BY <1>3 DEF SupersededFenced
  <2>1. i \in 1..n /\ i # n /\ i + 1 \in 1..n
    OBVIOUS
  <2>2. ops'[i] = ops[i]
    BY <1>3, <2>1
  <2>3. CASE i + 1 = n
    BY <2>2, <2>3
  <2>4. CASE i + 1 # n
    <3>1. ops'[i + 1] = ops[i + 1]
      BY <1>3, <2>1, <2>4
    <3> QED
      BY <2>2, <3>1 DEF Inv, SupersededFenced
  <2> QED
    BY <2>3, <2>4
<1> QED
  BY <1>3, <1>4, <1>5, <1>6

\* A row that may be claimed is the aggregate's own, and no lease before it still runs.
LEMMA DueIsCurrent ==
    ASSUME Inv, NEW i \in DOMAIN ops, Due(i)
    PROVE  /\ i = Len(ops) /\ Active(env)
           /\ \A j \in 1..(Len(ops) - 1) : j + 1 = Len(ops) => ops[j].leaseExpiresAt <= clock
<1>1. /\ ops \in Seq(Row) /\ Len(ops) \in Nat /\ clock \in Nat
      /\ i = Len(ops) /\ Active(env)
  BY DEF Inv, TypeOK, OneActiveOperation, Due
<1>2. \A j \in 1..Len(ops) : ops[j] \in Row
  BY <1>1
<1>3. ASSUME NEW j \in 1..(Len(ops) - 1), j + 1 = Len(ops)
      PROVE  ops[j].leaseExpiresAt <= clock
  <2>1. ops[j].leaseExpiresAt \in Int /\ ops[j + 1].nextAttemptAt \in Int
    BY <1>1, <1>2, <1>3 DEF Row, NoTime
  <2>2. ops[j + 1].nextAttemptAt <= clock
    BY <1>1, <1>3 DEF Due
  <2> QED
    BY <1>1, <2>1, <2>2 DEF Inv, SupersededFenced
<1> QED
  BY <1>1, <1>3

\* claim_due
LEMMA ClaimKeeps ==
    ASSUME Inv, NEW w \in Workers, NEW i \in DOMAIN ops, Claim(w, i)
    PROVE  Inv'
<1> DEFINE row == [ops[i] EXCEPT !.state = "Running", !.leaseToken = tokens + 1,
                                 !.leaseExpiresAt = clock + LeaseDuration]
<1>1. /\ ops \in Seq(Row) /\ Len(ops) \in Nat /\ Len(ops) > 0 /\ clock \in Nat /\ tokens \in Nat
      /\ env \in Instance /\ env.revision \in Nat /\ env.operation.id = Len(ops)
      /\ workers[w] \in WorkerState /\ workers[w].pc = "polled" /\ WorkerSound(workers[w])
  BY DEF Inv, TypeOK, OneActiveOperation, Instance, Claim, WorkersSound
<1>2. i = Len(ops) /\ Active(env)
  BY DueIsCurrent DEF Claim
<1>3. \A j \in 1..(Len(ops) - 1) : j + 1 = Len(ops) => ops[j].leaseExpiresAt <= clock
  BY DueIsCurrent DEF Claim
<1>4. ops[i] \in Row
  BY <1>1
<1>5. /\ row \in Row /\ row.state = "Running" /\ row.leaseExpiresAt = clock + LeaseDuration
  <2>1. clock + LeaseDuration \in Nat /\ tokens + 1 \in Nat /\ "Running" \in OperationStates
    BY <1>1, ReconcileAssumption DEF OperationStates, ActiveOperationStates
  <2> QED
    BY <1>4, <2>1, Zenon DEF Row
<1>6. ops' = [ops EXCEPT ![i] = row]
  BY DEF Claim
<1>7. PICK wk : /\ wk = Leased("claimed", workers[w].now, env, tokens + 1)
                /\ workers' = [workers EXCEPT ![w] = wk]
  BY DEF Claim
<1>15. tokens' = tokens + 1 /\ UNCHANGED <<clock, env, lease, outbox, stops>>
  BY DEF Claim
<1>8. wk \in WorkerState
  BY <1>1, <1>7, WorkerFields DEF WorkerState, Leased
<1>9. /\ wk.pc = "claimed" /\ wk.now = workers[w].now /\ wk.snapshot = env
      /\ wk.token = tokens + 1
  BY <1>7 DEF Leased
<1> HIDE DEF row
<1>10. PICK n \in Nat : n = Len(ops)
  BY <1>1
<1>11. /\ ops' \in Seq(Row) /\ Len(ops') = n
       /\ OneActiveOperation' /\ LeasesBounded' /\ SupersededFenced'
  <2>1. \A j \in 1..(n - 1) : j + 1 = n => ops[j].leaseExpiresAt <= clock
    BY <1>3, <1>10
  <2>2. /\ ops' = [ops EXCEPT ![n] = row]
        /\ env'.operation.id = env.operation.id /\ clock' = clock
        /\ env'.operation.state \in ActiveOperationStates
        /\ row.state \in ActiveOperationStates
        /\ row.leaseExpiresAt <= clock + LeaseDuration
    BY <1>1, <1>2, <1>5, <1>6, <1>15, <1>10, ReconcileAssumption DEF Active, ActiveOperationStates
  <2> QED
    BY <1>5, <1>10, <2>1, <2>2, LastRowKeeps
<1>12. WorkerSound(wk)'
  <2>1. SnapshotSound(env)'
    BY <1>1, <1>2, <1>10, <1>11, <1>15 DEF SnapshotSound, Active
  <2> QED
    BY <1>1, <1>9, <1>15, <2>1 DEF WorkerSound, SnapshotSound, Holding, NoToken
<1>13. WorkersSound' /\ workers' \in [Workers -> WorkerState]
  BY <1>1, <1>7, <1>8, <1>10, <1>11, <1>12, <1>15, MovedSound
<1>14. TypeOK'
  BY <1>1, <1>11, <1>13, <1>15 DEF Inv, TypeOK
<1> QED
  BY <1>1, <1>10, <1>11, <1>13, <1>14, <1>15 DEF Inv, OutboxContiguous, LeaseIssued

\* A row that is leased has been claimed, so no lease before it still runs.
LEMMA LeasedIsAlone ==
    ASSUME Inv, NEW n \in Nat, n = Len(ops), ops[n].leaseToken # NoToken
    PROVE  \A j \in 1..(n - 1) : j + 1 = n => ops[j].leaseExpiresAt <= clock
BY DEF Inv, SupersededFenced

\* The heartbeat of a lease that is still its worker's.
LEMMA HeartbeatKeeps ==
    ASSUME Inv, NEW w \in Workers, Heartbeat(w),
           LeaseCurrent(w), ops[workers[w].snapshot.operation.id].state = "Running"
    PROVE  Inv'
<1> DEFINE id == workers[w].snapshot.operation.id
           row == [ops[id] EXCEPT !.leaseExpiresAt = clock + LeaseDuration]
<1>1. /\ ops \in Seq(Row) /\ Len(ops) \in Nat /\ Len(ops) > 0 /\ clock \in Nat
      /\ env \in Instance /\ env.revision \in Nat /\ env.operation.id = Len(ops)
      /\ workers[w] \in WorkerState /\ workers[w].pc = "claimed" /\ WorkerSound(workers[w])
  BY DEF Inv, TypeOK, OneActiveOperation, Instance, Heartbeat, WorkersSound
<1>2. /\ workers[w].snapshot \in Instance /\ workers[w].token \in Nat /\ workers[w].now \in Nat
      /\ SnapshotSound(workers[w].snapshot) /\ workers[w].token # NoToken
  BY <1>1, WorkerFields DEF WorkerSound, Holding
<1>3. id \in 1..Len(ops) /\ ops[id] \in Row
  BY <1>1, <1>2 DEF SnapshotSound
<1>4. PICK n \in Nat : n = Len(ops)
  BY <1>1
<1>5. id = n /\ Active(env)
  BY <1>1, <1>3, <1>4 DEF Inv, OneActiveOperation, ActiveOperationStates
<1>6. ops[n].leaseToken # NoToken
  BY <1>2, <1>5 DEF LeaseCurrent
<1>7. /\ row \in Row /\ row.state = "Running" /\ row.leaseExpiresAt = clock + LeaseDuration
  <2>1. clock + LeaseDuration \in Nat
    BY <1>1, ReconcileAssumption
  <2> QED
    BY <1>3, <2>1, Zenon DEF Row, LeaseCurrent
<1>8. ops' = [ops EXCEPT ![id] = row]
  BY DEF Heartbeat
<1>9. UNCHANGED <<clock, env, tokens, lease, outbox, stops>>
  BY DEF Heartbeat
<1>17. PICK wk : /\ wk = Leased("leased", workers[w].now, workers[w].snapshot, workers[w].token)
                 /\ workers' = [workers EXCEPT ![w] = wk]
  BY DEF Heartbeat
<1>10. wk \in WorkerState
  BY <1>2, <1>17 DEF WorkerState, Leased
<1>11. /\ wk.pc = "leased" /\ wk.now = workers[w].now /\ wk.snapshot = workers[w].snapshot
       /\ wk.token = workers[w].token
  BY <1>17 DEF Leased
<1>12. workers[w].now <= clock
  BY <1>1 DEF WorkerSound
<1> HIDE DEF row
<1>13. /\ ops' \in Seq(Row) /\ Len(ops') = n
       /\ OneActiveOperation' /\ LeasesBounded' /\ SupersededFenced'
  <2>1. \A j \in 1..(n - 1) : j + 1 = n => ops[j].leaseExpiresAt <= clock
    BY <1>4, <1>6, LeasedIsAlone
  <2>2. /\ ops' = [ops EXCEPT ![n] = row]
        /\ env'.operation.id = env.operation.id /\ clock' = clock
        /\ env'.operation.state \in ActiveOperationStates
        /\ row.state \in ActiveOperationStates
        /\ row.leaseExpiresAt <= clock + LeaseDuration
    BY <1>1, <1>5, <1>7, <1>8, <1>9, ReconcileAssumption DEF Active, ActiveOperationStates
  <2> QED
    BY <1>4, <1>7, <2>1, <2>2, LastRowKeeps
<1>14. WorkerSound(wk)'
  BY <1>2, <1>4, <1>9, <1>11, <1>12, <1>13 DEF WorkerSound, SnapshotSound, Holding
<1>15. WorkersSound' /\ workers' \in [Workers -> WorkerState]
  BY <1>1, <1>4, <1>9, <1>10, <1>13, <1>14, <1>17, MovedSound
<1>16. TypeOK'
  BY <1>1, <1>9, <1>13, <1>15 DEF Inv, TypeOK
<1> QED
  BY <1>1, <1>4, <1>9, <1>13, <1>15, <1>16 DEF Inv, OutboxContiguous, LeaseIssued

\* A save that store.rs accepts: the worker's snapshot still is the aggregate.
LEMMA SaveIsCurrent ==
    ASSUME Inv, NEW w \in Workers, workers[w].pc = "saving", SaveCurrent(w)
    PROVE  /\ workers[w].snapshot = env /\ Active(env) /\ workers[w].now \in Nat
           /\ workers[w].now <= clock
           /\ Computed(env, workers[w].now, workers[w].updated)
           /\ ops[Len(ops)].leaseToken # NoToken
<1>1. workers[w] \in WorkerState /\ WorkerSound(workers[w]) /\ env.operation.id = Len(ops)
  BY DEF Inv, TypeOK, WorkersSound, OneActiveOperation
<1>2. workers[w].now \in Nat /\ workers[w].now <= clock
  BY <1>1, WorkerFields DEF WorkerSound
<1>3. /\ workers[w].snapshot = env /\ Active(env) /\ workers[w].token # NoToken
      /\ Computed(workers[w].snapshot, workers[w].now, workers[w].updated)
  BY <1>1 DEF WorkerSound, SnapshotSound, SaveCurrent, Holding
<1> QED
  BY <1>1, <1>2, <1>3 DEF SaveCurrent, LeaseCurrent

\* save_reconciled, when it commits.
LEMMA SaveKeeps ==
    ASSUME Inv, NEW w \in Workers, SaveReconciled(w),
           SaveCurrent(w) /\ Validate(workers[w].updated)
    PROVE  Inv'
<1>1. /\ ops \in Seq(Row) /\ Len(ops) \in Nat /\ Len(ops) > 0 /\ clock \in Nat
      /\ env \in Instance /\ env.revision \in Nat /\ env.operation.id = Len(ops)
      /\ outbox \in Seq(Nat)
  BY DEF Inv, TypeOK, OneActiveOperation, Instance
<1>2. /\ env' = workers[w].updated /\ Enqueue(workers[w].updated)
      /\ ops' = [ops EXCEPT ![workers[w].updated.operation.id] =
                                SavedRow(workers[w].updated.operation)]
      /\ workers' = [workers EXCEPT ![w] = Idle]
      /\ UNCHANGED <<clock, tokens, lease, stops>>
  BY DEF SaveReconciled
<1>3. /\ Computed(env, workers[w].now, env') /\ workers[w].now \in Nat
      /\ ops[Len(ops)].leaseToken # NoToken
  BY <1>2, SaveIsCurrent DEF SaveReconciled
<1>4. /\ env' \in Instance /\ env'.revision = env.revision + 1
      /\ env'.operation.id = env.operation.id /\ env'.operation \in Operation
  BY <1>1, <1>3, ComputedFields DEF Instance
<1>5. PICK n \in Nat : n = Len(ops)
  BY <1>1
<1>6. PICK row : row = SavedRow(env'.operation)
  OBVIOUS
<1>7. /\ row \in Row /\ row.state = env'.operation.state /\ row.leaseExpiresAt = NoTime
  BY <1>4, <1>6, RowType
<1>8. /\ ops' \in Seq(Row) /\ Len(ops') = n
      /\ OneActiveOperation' /\ LeasesBounded' /\ SupersededFenced'
  <2>1. \A j \in 1..(n - 1) : j + 1 = n => ops[j].leaseExpiresAt <= clock
    BY <1>3, <1>5, LeasedIsAlone
  <2>2. ops' = [ops EXCEPT ![n] = row] /\ clock' = clock
    BY <1>1, <1>2, <1>4, <1>5, <1>6
  <2>3. row.leaseExpiresAt <= clock + LeaseDuration
    BY <1>1, <1>7, ReconcileAssumption DEF NoTime
  <2> QED
    BY <1>4, <1>5, <1>7, <2>1, <2>2, <2>3, LastRowKeeps
<1>9. OutboxContiguous' /\ outbox' \in Seq(Nat)
  BY <1>1, <1>2, <1>4, EnqueueKeeps DEF Inv
<1>10. PICK wk : wk = Idle
  OBVIOUS
<1>13. wk \in WorkerState /\ WorkerSound(wk)' /\ workers' = [workers EXCEPT ![w] = wk]
  BY <1>2, <1>10 DEF Idle, WorkerState, WorkerSound, Holding
<1>11. WorkersSound' /\ workers' \in [Workers -> WorkerState]
  <2>1. /\ env'.revision \in Nat /\ env'.revision > env.revision /\ clock' = clock
        /\ Len(ops') = Len(ops) /\ ops' \in Seq(Row)
    BY <1>1, <1>2, <1>4, <1>5, <1>8
  <2> QED
    BY <1>13, <2>1, MovedSound
<1>12. TypeOK'
  BY <1>1, <1>2, <1>4, <1>8, <1>9, <1>11 DEF Inv, TypeOK
<1> QED
  BY <1>1, <1>2, <1>5, <1>8, <1>9, <1>11, <1>12 DEF Inv, LeaseIssued

\* What a worker holding a lease knows of its snapshot.
LEMMA HolderFacts ==
    ASSUME Inv, NEW w \in Workers, workers[w].pc \in Holding
    PROVE  /\ workers[w] \in WorkerState
           /\ workers[w].snapshot \in Instance /\ SnapshotSound(workers[w].snapshot)
           /\ workers[w].token \in Nat /\ workers[w].token # NoToken
           /\ workers[w].now \in Nat /\ workers[w].now <= clock
           /\ workers[w].pc = "calling" => ~TimedOut(workers[w].snapshot, workers[w].now)
<1>1. workers[w] \in WorkerState /\ WorkerSound(workers[w])
  BY DEF Inv, TypeOK, WorkersSound
<1> QED
  BY <1>1, WorkerFields DEF WorkerSound, Holding

\* A process that stops loses what it held in memory, and nothing else.
LEMMA StopKeeps ==
    ASSUME Inv, NEW w \in Workers, StopProcess(w),
           UNCHANGED <<clock, env, ops, tokens, lease, outbox>>, stops' \in Nat
    PROVE  Inv'
<1>1. Idle \in WorkerState /\ WorkerSound(Idle) /\ LocalStep(w, Idle)
  BY DEF Idle, WorkerState, WorkerSound, Holding, LocalStep, StopProcess
<1> QED
  BY <1>1, LocalStepKeeps

\* A worker that goes on to save a lifecycle function of its snapshot.
LEMMA SavingKeeps ==
    ASSUME Inv, NEW w \in Workers, workers[w].pc \in Holding, NEW u,
           Computed(workers[w].snapshot, workers[w].now, u),
           workers' = [workers EXCEPT ![w] = Saving(workers[w], u)],
           UNCHANGED <<clock, env, ops, tokens, lease, outbox, stops>>
    PROVE  Inv'
<1>1. PICK wk : wk = Saving(workers[w], u)
  OBVIOUS
<1>2. /\ wk.pc = "saving" /\ wk.now = workers[w].now /\ wk.snapshot = workers[w].snapshot
      /\ wk.token = workers[w].token /\ wk.updated = u
  BY <1>1 DEF Saving
<1>3. u \in Instance
  BY HolderFacts, ComputedFields
<1>4. wk \in WorkerState
  BY <1>1, <1>3, HolderFacts DEF WorkerState, Saving
<1>5. WorkerSound(wk)
  BY <1>2, HolderFacts DEF WorkerSound, Holding
<1>6. LocalStep(w, wk) /\ stops' \in Nat
  BY <1>1 DEF LocalStep, Inv, TypeOK
<1> QED
  BY <1>4, <1>5, <1>6, LocalStepKeeps

\* The end of an operation in Failed, or of the process that cannot fail it.
LEMMA FailOperationKeeps ==
    ASSUME Inv, NEW w \in Workers, workers[w].pc = "calling",
           NEW code \in {"Timeout", "Provider"}, FailOperation(w, code),
           UNCHANGED <<clock, env, ops, tokens, lease, outbox, stops>>
    PROVE  Inv'
<1>1. stops' \in Nat
  BY DEF Inv, TypeOK
<1>2. CASE StopProcess(w)
  BY <1>1, <1>2, StopKeeps
<1>3. CASE ~StopProcess(w)
  <2>1. /\ FailureAllowed(workers[w].snapshot)
        /\ workers' = [workers EXCEPT ![w] =
                Saving(workers[w], ApplyProviderFailure(workers[w].snapshot, code))]
    BY <1>3 DEF FailOperation
  <2>2. Computed(workers[w].snapshot, workers[w].now,
                 ApplyProviderFailure(workers[w].snapshot, code))
    BY <2>1 DEF Computed
  <2> QED
    BY <2>1, <2>2, SavingKeeps DEF Holding
<1> QED
  BY <1>2, <1>3

\* begin_timeout_cleanup in run_once
LEMMA BeginCleanupKeeps ==
    ASSUME Inv, NEW w \in Workers, BeginCleanup(w)
    PROVE  Inv'
<1>1. stops' \in Nat /\ UNCHANGED <<clock, env, ops, tokens, lease, outbox, stops>>
      /\ workers[w].pc = "leased"
  BY DEF Inv, TypeOK, BeginCleanup
<1>2. CASE StopProcess(w)
  BY <1>1, <1>2, StopKeeps
<1>3. CASE ~StopProcess(w)
  <2>1. PICK u : u = BeginTimeoutCleanup(workers[w].snapshot, workers[w].now,
                                         CleanupDeadline(workers[w].now))
    OBVIOUS
  <2>2. /\ TimedOut(workers[w].snapshot, workers[w].now)
        /\ TimeoutCleanupAllowed(workers[w].snapshot, workers[w].now,
                                 CleanupDeadline(workers[w].now))
        /\ workers' = [workers EXCEPT ![w] = Saving(workers[w], u)]
    BY <1>3, <2>1 DEF BeginCleanup
  <2>3. Computed(workers[w].snapshot, workers[w].now, u)
    BY <2>1, <2>2 DEF Computed
  <2> QED
    BY <1>1, <2>2, <2>3, SavingKeeps DEF Holding
<1> QED
  BY <1>2, <1>3

\* apply_provider_observation in run_once
LEMMA ObserveKeeps ==
    ASSUME Inv, NEW w \in Workers, Observe(w)
    PROVE  Inv'
<1>1. PICK obs \in ProviderObservations(workers[w].snapshot, NextAction(workers[w].snapshot)) :
          ProviderObserves(w, obs)
  BY DEF Observe
<1>2. stops' \in Nat /\ UNCHANGED <<clock, env, ops, tokens, lease, outbox, stops>>
      /\ workers[w].pc = "calling"
  BY <1>1 DEF Inv, TypeOK, ProviderObserves
<1>3. CASE StopProcess(w)
  BY <1>2, <1>3, StopKeeps
<1>4. CASE FailOperation(w, "Provider")
  BY <1>2, <1>4, FailOperationKeeps
<1>5. CASE ~StopProcess(w) /\ ~FailOperation(w, "Provider")
  <2>1. PICK u : u = Deferred(ApplyProviderObservation(workers[w].snapshot, obs), workers[w].now)
    OBVIOUS
  <2>2. /\ ObservationAccepted(workers[w].snapshot, obs)
        /\ ObservationApplies(workers[w].snapshot, obs, workers[w].now)
        /\ workers' = [workers EXCEPT ![w] = Saving(workers[w], u)]
    BY <1>1, <1>5, <2>1 DEF ProviderObserves
  <2>3. ~TimedOut(workers[w].snapshot, workers[w].now)
    BY <1>2, HolderFacts DEF Holding
  <2>4. Computed(workers[w].snapshot, workers[w].now, u)
    BY <1>1, <2>1, <2>2, <2>3 DEF Computed
  <2> QED
    BY <1>2, <2>2, <2>4, SavingKeeps DEF Holding
<1> QED
  BY <1>3, <1>4, <1>5

\* apply_retry in run_once
LEMMA FailKeeps ==
    ASSUME Inv, NEW w \in Workers, Fail(w)
    PROVE  Inv'
<1>1. PICK code \in {"Timeout", "Provider"}, retryable \in BOOLEAN :
          ProviderFails(w, code, retryable)
  BY DEF Fail
<1>2. stops' \in Nat /\ UNCHANGED <<clock, env, ops, tokens, lease, outbox, stops>>
      /\ workers[w].pc = "calling"
  BY <1>1 DEF Inv, TypeOK, ProviderFails
<1>3. CASE StopProcess(w)
  BY <1>2, <1>3, StopKeeps
<1>4. CASE FailOperation(w, code)
  BY <1>2, <1>4, FailOperationKeeps
<1>5. CASE ~StopProcess(w) /\ ~FailOperation(w, code)
  <2>1. PICK u : u = ApplyRetry(workers[w].snapshot, code, workers[w].now + RetryDelay)
    OBVIOUS
  <2>2. /\ RetryAllowed(workers[w].snapshot, workers[w].now + RetryDelay)
        /\ workers' = [workers EXCEPT ![w] = Saving(workers[w], u)]
    BY <1>1, <1>5, <2>1 DEF ProviderFails
  <2>3. Computed(workers[w].snapshot, workers[w].now, u)
    BY <2>1, <2>2 DEF Computed
  <2> QED
    BY <1>2, <2>2, <2>3, SavingKeeps DEF Holding
<1> QED
  BY <1>3, <1>4, <1>5

\* reconcile_loop reads the clock; claim_due finds nothing; execute_once calls the Provider.
LEMMA QuietKeeps ==
    ASSUME Inv, NEW w \in Workers, Poll(w) \/ CallProvider(w)
    PROVE  Inv'
<1>1. clock \in Nat /\ stops' \in Nat
  BY DEF Inv, TypeOK, Poll, CallProvider
<1>2. CASE Poll(w)
  <2>1. PICK wk : wk = Polled(clock)
    OBVIOUS
  <2>2. wk \in WorkerState /\ WorkerSound(wk)
    BY <1>1, <2>1 DEF Polled, WorkerState, WorkerSound, Holding
  <2>3. LocalStep(w, wk)
    BY <1>2, <2>1 DEF Poll, LocalStep
  <2> QED
    BY <1>1, <2>2, <2>3, LocalStepKeeps
<1>3. CASE CallProvider(w)
  <2>1. PICK wk : wk = Leased("calling", workers[w].now, workers[w].snapshot, workers[w].token)
    OBVIOUS
  <2>2. workers[w].pc \in Holding /\ ~TimedOut(workers[w].snapshot, workers[w].now)
    BY <1>3 DEF CallProvider, Holding
  <2>3. wk \in WorkerState
    BY <2>1, <2>2, HolderFacts DEF WorkerState, Leased
  <2>4. WorkerSound(wk)
    BY <2>1, <2>2, HolderFacts DEF WorkerSound, Leased, Holding
  <2>5. LocalStep(w, wk)
    BY <1>3, <2>1 DEF CallProvider, LocalStep
  <2> QED
    BY <1>1, <2>3, <2>4, <2>5, LocalStepKeeps
<1> QED
  BY <1>2, <1>3

\* A command is one of the kinds Resource, the owner, the bus or the expiry loop sends, and
\* carries the current Lease or none.
CommandsKinds == ApiKinds \cup BusKinds \cup {"Expire"}

LEMMA CommandsCases ==
    ASSUME Inv, Commands
    PROVE  /\ UNCHANGED workers
           /\ \E kind \in CommandsKinds, revoked \in BOOLEAN,
                 a \in {lease, NoLeaseAuthorization} :
                     AcceptCommand(CommandOf(kind, revoked, a))
<1>1. env.operation.revocationRecorded \in BOOLEAN
  BY DEF Inv, TypeOK, Instance, Operation
<1>2. ASSUME NEW kind \in ApiKinds, ApiCommand(kind)
      PROVE  \E revoked \in BOOLEAN :
                 AcceptCommand(CommandOf(kind, revoked, NoLeaseAuthorization))
  <2> DEFINE destructive == kind \in {"Stop", "Restart", "Delete"}
  <2>1. CASE kind = "Retry"
    BY <1>1, <1>2, <2>1, Zenon DEF ApiCommand
  <2>2. CASE kind # "Retry"
    <3>1. AcceptCommand(CommandOf(kind, destructive, NoLeaseAuthorization))
      BY <1>2, <2>2, Zenon DEF ApiCommand
    <3>2. destructive \in BOOLEAN
      OBVIOUS
    <3> HIDE DEF destructive
    <3> QED
      BY <3>1, <3>2
  <2> QED
    BY <2>1, <2>2
<1>3. ASSUME NEW kind \in BusKinds, NEW revoked \in BOOLEAN, BusCommand(kind, revoked)
      PROVE  \E a \in {lease, NoLeaseAuthorization} :
                 AcceptCommand(CommandOf(kind, revoked, a))
  BY <1>3, Zenon DEF BusCommand, VerifiedLease
<1>4. ASSUME ResourceCleanup \/ ExpiryLoop
      PROVE  AcceptCommand(CommandOf("Expire", TRUE, NoLeaseAuthorization))
  BY <1>4, Zenon DEF ResourceCleanup, ExpiryLoop, ExpireCommand
<1>5. UNCHANGED workers
  BY Zenon DEF Commands, ApiCommand, BusCommand, ResourceCleanup, ExpiryLoop
<1> QED
  BY <1>2, <1>3, <1>4, <1>5, Zenon DEF Commands, CommandsKinds

\* What a handler issues is a command.
LEMMA CommandOfType ==
    ASSUME Inv, NEW kind \in CommandsKinds, NEW revoked \in BOOLEAN,
           NEW a \in {lease, NoLeaseAuthorization}
    PROVE  CommandOf(kind, revoked, a) \in Command
<1>1. /\ kind \in OperationKinds \ {"Create"} /\ a \in LeaseAuthorization
      /\ clock \in Nat /\ clock + OperationBudget \in Nat /\ env.revision \in Nat
  BY ReconcileAssumption DEF Inv, TypeOK, Instance, LeaseAuthorization, NoLeaseAuthorization,
                             CommandsKinds, OperationKinds
<1> QED
  BY <1>1 DEF CommandOf, Command

\* Time passes.
LEMMA TickKeeps ==
    ASSUME Inv, Tick
    PROVE  Inv'
<1>1. /\ clock \in Nat /\ clock' = clock + 1 /\ clock < MaxClock /\ MaxClock \in Nat
      /\ UNCHANGED <<env, ops, workers, tokens, lease, outbox, stops>>
      /\ ops \in Seq(Row) /\ env.revision \in Nat
  BY ReconcileAssumption DEF Inv, TypeOK, Tick, Instance
<1>2. WorkersSound'
  BY <1>1, SoundAll
<1>3. ASSUME NEW i \in DOMAIN ops PROVE ops[i].leaseExpiresAt \in Int
  <2>1. ops[i] \in Row
    BY <1>1
  <2> QED
    BY <2>1 DEF Row, NoTime
<1>4. LeasesBounded'
  BY <1>1, <1>3, ReconcileAssumption DEF Inv, LeasesBounded, Active
<1>5. SupersededFenced'
  BY <1>1, <1>3 DEF Inv, SupersededFenced
<1> QED
  BY <1>1, <1>2, <1>4, <1>5 DEF Inv, TypeOK, OneActiveOperation, OutboxContiguous, LeaseIssued,
                                Active

\* Resource extends the Lease.
LEMMA RenewKeeps ==
    ASSUME Inv, RenewLease
    PROVE  Inv'
<1>1. /\ Class = "Work" /\ lease \in LeaseAuthorization /\ lease.leaseRevision < MaxLeaseRevision
      /\ lease' = [leaseRevision |-> lease.leaseRevision + 1, expiresAt |-> lease.expiresAt + 1]
      /\ UNCHANGED <<clock, env, ops, workers, tokens, outbox, stops>>
      /\ MaxLeaseRevision \in Nat
  BY ReconcileAssumption DEF Inv, TypeOK, RenewLease
<1>2. lease' \in LeaseAuthorization
  BY <1>1 DEF LeaseAuthorization
<1>3. LeaseIssued'
  <2>1. PICK t \in EligibilityTimes :
            /\ lease.leaseRevision \in 1..MaxLeaseRevision
            /\ lease = [leaseRevision |-> lease.leaseRevision,
                        expiresAt |-> t + lease.leaseRevision - 1]
    BY <1>1 DEF Inv, LeaseIssued
  <2>2. t \in Nat /\ lease.leaseRevision \in Nat /\ lease.expiresAt = t + lease.leaseRevision - 1
    BY <1>1, <2>1, ReconcileAssumption DEF LeaseAuthorization
  <2>3. /\ lease'.leaseRevision = lease.leaseRevision + 1
        /\ lease'.leaseRevision \in 1..MaxLeaseRevision
        /\ lease.expiresAt + 1 = t + (lease.leaseRevision + 1) - 1
    BY <1>1, <2>1, <2>2
  <2> QED
    BY <1>1, <2>3 DEF LeaseIssued
<1>4. WorkersSound'
  BY <1>1 DEF Inv, WorkersSound, WorkerSound, SnapshotSound
<1> QED
  BY <1>1, <1>2, <1>3, <1>4 DEF Inv, TypeOK, OneActiveOperation, OutboxContiguous,
                                LeasesBounded, SupersededFenced

\* Every step keeps the invariant.
LEMMA InvStep == Inv /\ [Next]_vars => Inv'
<1> SUFFICES ASSUME Inv, [Next]_vars PROVE Inv'
  OBVIOUS
<1>1. ASSUME Commands PROVE Inv'
  <2>1. PICK kind \in CommandsKinds, revoked \in BOOLEAN, a \in {lease, NoLeaseAuthorization} :
            AcceptCommand(CommandOf(kind, revoked, a))
    BY <1>1, CommandsCases
  <2>2. CommandOf(kind, revoked, a) \in Command /\ UNCHANGED workers
    BY <1>1, CommandOfType, CommandsCases
  <2> QED
    BY <2>1, <2>2, AcceptKeeps
<1>2. ASSUME NEW w \in Workers, WorkerStep(w) PROVE Inv'
  <2>1. ASSUME StopProcess(w), UNCHANGED <<clock, env, ops, tokens, lease, outbox, stops>>
        PROVE  Inv'
    BY <2>1, StopKeeps DEF Inv, TypeOK
  <2>2. CASE ClaimNothing(w)
    BY <2>1, <2>2 DEF ClaimNothing, StopProcess
  <2>3. CASE Heartbeat(w)
    <3>1. CASE LeaseCurrent(w) /\ ops[workers[w].snapshot.operation.id].state = "Running"
      BY <2>3, <3>1, HeartbeatKeeps
    <3>2. CASE ~(LeaseCurrent(w) /\ ops[workers[w].snapshot.operation.id].state = "Running")
      BY <2>1, <2>3, <3>2 DEF Heartbeat
    <3> QED
      BY <3>1, <3>2
  <2>4. CASE SaveReconciled(w)
    <3>1. CASE SaveCurrent(w) /\ Validate(workers[w].updated)
      BY <2>4, <3>1, SaveKeeps
    <3>2. CASE ~(SaveCurrent(w) /\ Validate(workers[w].updated))
      BY <2>1, <2>4, <3>2 DEF SaveReconciled, StopProcess
    <3> QED
      BY <3>1, <3>2
  <2> QED
    BY <1>2, <2>2, <2>3, <2>4, QuietKeeps, ClaimKeeps, BeginCleanupKeeps, ObserveKeeps, FailKeeps
       DEF WorkerStep
<1>3. ASSUME NEW w \in Workers, ExpiryLoopFails(w) \/ Kill(w) PROVE Inv'
  <2>1. /\ StopProcess(w) /\ UNCHANGED <<clock, env, ops, tokens, lease, outbox>>
        /\ stops' \in Nat
    BY <1>3 DEF ExpiryLoopFails, Kill, Inv, TypeOK
  <2> QED
    BY <2>1, StopKeeps
<1>4. ASSUME UNCHANGED vars PROVE Inv'
  <2>1. UNCHANGED <<clock, env, ops, workers, tokens, lease, outbox, stops>>
    BY <1>4 DEF vars
  <2>2. WorkersSound'
    BY <2>1 DEF Inv, WorkersSound, WorkerSound, SnapshotSound
  <2> QED
    BY <2>1, <2>2 DEF Inv, TypeOK, OneActiveOperation, OutboxContiguous, LeaseIssued,
                      LeasesBounded, SupersededFenced
<1> QED
  BY <1>1, <1>2, <1>3, <1>4, TickKeeps, RenewKeeps, RefreshKeeps DEF Next

-----------------------------------------------------------------------------
(* The aggregate moves by the steps of EnvironmentAggregate *)

\* Atomic accepts a command as this module does.
LEMMA AtomicAccept ==
    ASSUME NEW c, NEW now
    PROVE  Atomic!Accept(c, now) <=>
               /\ CommandAllowed(env, c, now)
               /\ \E t \in IF Active(env) THEN 0..(MaxClock + LeaseDuration) \cup {NoTime} ELSE {NoTime} :
                      env' = NotBefore(PlanCommand(env, c, env.operation.id + 1), t)
               /\ Validate(env')
BY Zenon
   DEF Atomic!Accept, Atomic!CommandAllowed, CommandAllowed, Atomic!AcceptedObservedState,
       AcceptedObservedState, Atomic!RetryResumeState, RetryResumeState, Atomic!RetryKinds,
       RetryKinds, Atomic!EnsureTransition, EnsureTransition, Atomic!LeaseAuthorized,
       LeaseAuthorized, Atomic!NoLeaseAuthorization, NoLeaseAuthorization,
       Atomic!EligibilityKinds, EligibilityKinds, Atomic!NoPhase, NoPhase,
       Atomic!EnsureOperationAllowed, EnsureOperationAllowed, Atomic!DestructiveKinds,
       DestructiveKinds, Atomic!Active, Active, Atomic!ActiveOperationStates,
       ActiveOperationStates, Atomic!NotBefore, NotBefore, Atomic!Later, Later,
       Atomic!PlanCommand, PlanCommand, Atomic!PlannedOperation, PlannedOperation,
       Atomic!NoTime, NoTime, Atomic!PlannedEndpoints, PlannedEndpoints, Atomic!WithHealth,
       WithHealth, Atomic!InvalidatesEndpoints, InvalidatesEndpoints,
       Atomic!IncrementsGeneration, IncrementsGeneration, Atomic!DesiredState, DesiredState,
       Atomic!Validate, Validate, Atomic!ValidTombstone, ValidTombstone, Atomic!ValidReady,
       ValidReady, Atomic!ValidRevocation, ValidRevocation, Atomic!ValidLeaseAuthorization,
       ValidLeaseAuthorization, Atomic!ValidPhases, ValidPhases, Atomic!ValidBounds,
       ValidBounds

\* Atomic refreshes the Lease as this module does.
LEMMA AtomicRefresh ==
    ASSUME NEW l, NEW now
    PROVE  Atomic!Refresh(l, now) <=>
               /\ LeaseRefreshable(env, l, now)
               /\ env' = RefreshedInstance(env, l)
               /\ Validate(env')
BY Zenon
   DEF Atomic!Refresh, Atomic!LeaseRefreshable, LeaseRefreshable, Atomic!NoLeaseAuthorization,
       NoLeaseAuthorization, Atomic!RefreshedInstance, RefreshedInstance, Atomic!Validate,
       Validate, Atomic!ValidTombstone, ValidTombstone, Atomic!ValidReady, ValidReady,
       Atomic!ValidRevocation, ValidRevocation, Atomic!DestructiveKinds, DestructiveKinds,
       Atomic!ValidLeaseAuthorization, ValidLeaseAuthorization, Atomic!ValidPhases,
       ValidPhases, Atomic!NoPhase, NoPhase, Atomic!RetryKinds, RetryKinds,
       Atomic!ValidBounds, ValidBounds, Atomic!NoTime, NoTime

\* Atomic begins a timeout cleanup as this module does.
LEMMA AtomicBeginCleanup ==
    ASSUME NEW now
    PROVE  Atomic!BeginCleanup(now) <=>
               /\ Active(env) /\ TimedOut(env, now)
               /\ TimeoutCleanupAllowed(env, now, CleanupDeadline(now))
               /\ env' = BeginTimeoutCleanup(env, now, CleanupDeadline(now))
               /\ Validate(env')
BY Zenon
   DEF Atomic!BeginCleanup, Atomic!Active, Active, Atomic!ActiveOperationStates,
       ActiveOperationStates, Atomic!TimedOut, TimedOut, Atomic!NoTime, NoTime,
       Atomic!TimeoutCleanupAllowed, TimeoutCleanupAllowed, Atomic!EnsureTransition,
       EnsureTransition, Atomic!CleanupDeadline, CleanupDeadline,
       Atomic!BeginTimeoutCleanup, BeginTimeoutCleanup, Atomic!CleanupOperation,
       CleanupOperation, Atomic!WithHealth, WithHealth, Atomic!Validate, Validate,
       Atomic!ValidTombstone, ValidTombstone, Atomic!ValidReady, ValidReady,
       Atomic!ValidRevocation, ValidRevocation, Atomic!DestructiveKinds, DestructiveKinds,
       Atomic!ValidLeaseAuthorization, ValidLeaseAuthorization, Atomic!NoLeaseAuthorization,
       NoLeaseAuthorization, Atomic!ValidPhases, ValidPhases, Atomic!NoPhase, NoPhase,
       Atomic!RetryKinds, RetryKinds, Atomic!ValidBounds, ValidBounds

\* Atomic applies an observation as this module does.
LEMMA AtomicObserve ==
    ASSUME NEW obs, NEW now
    PROVE  Atomic!Observe(obs, now) <=>
               /\ Active(env) /\ ~TimedOut(env, now)
               /\ ObservationAccepted(env, obs) /\ ObservationApplies(env, obs, now)
               /\ env' = Deferred(ApplyProviderObservation(env, obs), now)
BY Zenon
   DEF Atomic!Observe, Atomic!Active, Active, Atomic!ActiveOperationStates, ActiveOperationStates,
       Atomic!TimedOut, TimedOut, Atomic!NoTime, NoTime, Atomic!ObservationAccepted,
       ObservationAccepted, Atomic!ApplyProviderObservation, ApplyProviderObservation,
       Atomic!ObservedOperation, ObservedOperation, Atomic!ObservedOperationState,
       ObservedOperationState, Atomic!PreservingCleanupFailure, PreservingCleanupFailure,
       Atomic!Validate, Validate, Atomic!ValidTombstone, ValidTombstone, Atomic!ValidReady,
       ValidReady, Atomic!ValidRevocation, ValidRevocation, Atomic!DestructiveKinds,
       DestructiveKinds, Atomic!ValidLeaseAuthorization, ValidLeaseAuthorization,
       Atomic!NoLeaseAuthorization, NoLeaseAuthorization, Atomic!ValidPhases, ValidPhases,
       Atomic!NoPhase, NoPhase, Atomic!RetryKinds, RetryKinds, Atomic!ValidBounds,
       ValidBounds, Atomic!ValidateProviderObservation, ValidateProviderObservation,
       Atomic!ExpireCleanupCheckpoint, ExpireCleanupCheckpoint,
       Atomic!ObservationMatchesOperation, ObservationMatchesOperation, Atomic!TargetState,
       TargetState, Atomic!ObservationApplies, ObservationApplies, Atomic!Deferred,
       Deferred, Atomic!EnsureTransition, EnsureTransition

\* Atomic schedules a retry as this module does.
LEMMA AtomicRetry ==
    ASSUME NEW code, NEW now
    PROVE  Atomic!Retry(code, now) <=>
               /\ Active(env) /\ RetryAllowed(env, now + RetryDelay)
               /\ env' = ApplyRetry(env, code, now + RetryDelay)
               /\ Validate(env')
BY Zenon
   DEF Atomic!Retry, Atomic!Active, Active, Atomic!ActiveOperationStates, ActiveOperationStates,
       Atomic!RetryAllowed, RetryAllowed, Atomic!ApplyRetry, ApplyRetry,
       Atomic!RetriedOperation, RetriedOperation, Atomic!Validate, Validate,
       Atomic!ValidTombstone, ValidTombstone, Atomic!ValidReady, ValidReady,
       Atomic!ValidRevocation, ValidRevocation, Atomic!DestructiveKinds, DestructiveKinds,
       Atomic!ValidLeaseAuthorization, ValidLeaseAuthorization, Atomic!NoLeaseAuthorization,
       NoLeaseAuthorization, Atomic!ValidPhases, ValidPhases, Atomic!NoPhase, NoPhase,
       Atomic!RetryKinds, RetryKinds, Atomic!ValidBounds, ValidBounds, Atomic!NoTime, NoTime

\* Atomic fails an operation as this module does.
LEMMA AtomicFail ==
    ASSUME NEW code
    PROVE  Atomic!Fail(code) <=>
               /\ Active(env) /\ FailureAllowed(env)
               /\ env' = ApplyProviderFailure(env, code)
               /\ Validate(env')
BY Zenon
   DEF Atomic!Fail, Atomic!Active, Active, Atomic!ActiveOperationStates, ActiveOperationStates,
       Atomic!FailureAllowed, FailureAllowed, Atomic!EnsureTransition, EnsureTransition,
       Atomic!ApplyProviderFailure, ApplyProviderFailure, Atomic!FailedOperation,
       FailedOperation, Atomic!WithHealth, WithHealth, Atomic!Validate, Validate,
       Atomic!ValidTombstone, ValidTombstone, Atomic!ValidReady, ValidReady,
       Atomic!ValidRevocation, ValidRevocation, Atomic!DestructiveKinds, DestructiveKinds,
       Atomic!ValidLeaseAuthorization, ValidLeaseAuthorization, Atomic!NoLeaseAuthorization,
       NoLeaseAuthorization, Atomic!ValidPhases, ValidPhases, Atomic!NoPhase, NoPhase,
       Atomic!RetryKinds, RetryKinds, Atomic!ValidBounds, ValidBounds, Atomic!NoTime, NoTime

\* The Provider of Atomic answers what this module's does.
LEMMA AtomicAnswers ==
    Atomic!ProviderObservations(env, Atomic!NextAction(env)) =
        ProviderObservations(env, NextAction(env))
<1>1. Atomic!NextAction(env) = NextAction(env)
  BY Zenon
     DEF Atomic!NextAction, NextAction, Atomic!NoAction, NoAction, Atomic!RetryKinds, RetryKinds,
         Atomic!ProvisioningAction, ProvisioningAction
<1>2. Atomic!RemoteObservations(env) = RemoteObservations(env)
  BY SMT DEF Atomic!RemoteObservations, RemoteObservations, Atomic!ObservedStates, ObservedStates
<1>3. ASSUME NEW action
      PROVE  Atomic!ContainerObservations(env, action) = ContainerObservations(env, action)
  BY Zenon
     DEF Atomic!ContainerObservations, ContainerObservations, Atomic!NoEndpoints, NoEndpoints,
         Atomic!RunningObservations, RunningObservations, Atomic!ReadyObservation,
         ReadyObservation, Atomic!DeletedObservation, DeletedObservation
<1> QED
  BY <1>1, <1>2, <1>3 DEF Atomic!ProviderObservations, ProviderObservations

\* The Lease a handler reads is one of the Leases of Atomic.
LEMMA LeaseIsKnown ==
    ASSUME LeaseIssued
    PROVE  lease \in Leases
<1>1. CASE Class = "Work"
  BY <1>1 DEF LeaseIssued, Leases
<1>2. CASE Class # "Work"
  BY <1>2 DEF LeaseIssued, Leases
<1> QED
  BY <1>1, <1>2

\* Creation is creation.
LEMMA AtomicInit == Init => Atomic!AggregateInit
<1> SUFFICES ASSUME Init PROVE Atomic!AggregateInit
  OBVIOUS
<1>1. PICK t \in EligibilityTimes :
        /\ lease = IF Class = "Work" THEN [leaseRevision |-> 1, expiresAt |-> t]
                   ELSE NoLeaseAuthorization
        /\ env = CreatedInstance(t, lease, OperationBudget)
  BY DEF Init
<1>2. lease \in Leases
  BY InvInit, LeaseIsKnown DEF Inv
<1>3. env.operation.leaseAuthorization = lease
  BY <1>1 DEF CreatedInstance
<1>4. env = Atomic!CreatedInstance(t, lease, OperationBudget)
  BY <1>1, Zenon DEF CreatedInstance, Atomic!CreatedInstance, NoPhase, Atomic!NoPhase, NoTime,
                     Atomic!NoTime
<1>5. Atomic!ValidLeaseAuthorization(env)
  BY <1>1, <1>3 DEF Atomic!ValidLeaseAuthorization, Atomic!NoLeaseAuthorization,
                    NoLeaseAuthorization
<1> QED
  BY <1>2, <1>4, <1>5 DEF Atomic!AggregateInit

\* An accepted command is a step of Atomic.
LEMMA AtomicCommand ==
    ASSUME Inv, Commands
    PROVE  Atomic!AggregateNext
<1>1. PICK kind \in CommandsKinds, revoked \in BOOLEAN, a \in {lease, NoLeaseAuthorization} :
          AcceptCommand(CommandOf(kind, revoked, a))
  BY CommandsCases
<1>2. PICK c : c = CommandOf(kind, revoked, a)
  OBVIOUS
<1>3. c \in Command /\ AcceptCommand(c)
  BY <1>1, <1>2, CommandOfType
<1>4. /\ CommandAllowed(env, c, clock) /\ Validate(AcceptedInstance(c))
      /\ env' = NotBefore(PlanCommand(env, c, Len(ops) + 1), SupersededLease(c))
      /\ env' = AcceptedInstance(c)
  BY <1>3 DEF AcceptCommand, CommandAccepted, AcceptedInstance
<1>5. /\ env.operation.id = Len(ops) /\ Len(ops) > 0 /\ Len(ops) \in Nat /\ ops \in Seq(Row)
      /\ clock \in Nat /\ clock <= MaxClock /\ MaxClock \in Nat /\ LeaseDuration \in Nat
  BY ReconcileAssumption DEF Inv, TypeOK, OneActiveOperation
<1>6. SupersededLease(c) \in IF Active(env) THEN 0..(MaxClock + LeaseDuration) \cup {NoTime}
                             ELSE {NoTime}
  <2>1. CASE ~Active(env)
    BY <2>1 DEF SupersededLease
  <2>2. CASE Active(env)
    <3>1. ops[Len(ops)] \in Row /\ Len(ops) \in DOMAIN ops
      BY <1>5
    <3>2. /\ ops[Len(ops)].leaseExpiresAt \in Nat \cup {NoTime}
          /\ ops[Len(ops)].leaseExpiresAt <= clock + LeaseDuration
      BY <3>1 DEF Inv, LeasesBounded, Row
    <3>3. SupersededLease(c) \in {ops[Len(ops)].leaseExpiresAt, NoTime}
      BY <1>5 DEF SupersededLease
    <3> QED
      BY <1>5, <2>2, <3>2, <3>3
  <2> QED
    BY <2>1, <2>2
<1>7. Atomic!Accept(c, clock)
  BY <1>4, <1>5, <1>6, AtomicAccept
<1>8. c = Atomic!Issued(kind, revoked, a, clock)
  BY <1>2 DEF CommandOf, Atomic!Issued
<1>9. /\ kind \in ApiKinds \cup BusKinds \cup {"Expire"} /\ clock \in 0..(MaxClock + LeaseDuration)
      /\ a \in Leases \cup {Atomic!NoLeaseAuthorization}
  BY <1>5, LeaseIsKnown DEF CommandsKinds, Inv, NoLeaseAuthorization, Atomic!NoLeaseAuthorization
<1> QED
  BY <1>7, <1>8, <1>9, Zenon DEF Atomic!AggregateNext

\* A refresh of the Lease is a step of Atomic.
LEMMA AtomicRefreshStep ==
    ASSUME Inv, RefreshWorkLease
    PROVE  Atomic!AggregateNext
<1>1. clock \in 0..(MaxClock + LeaseDuration) /\ lease \in Leases
  BY ReconcileAssumption, LeaseIsKnown DEF Inv, TypeOK
<1>2. Atomic!Refresh(lease, clock)
  BY AtomicRefresh DEF RefreshWorkLease
<1> QED
  BY <1>1, <1>2, Zenon DEF Atomic!AggregateNext

\* A save that commits is a step of Atomic.
LEMMA AtomicSave ==
    ASSUME Inv, NEW w \in Workers, SaveReconciled(w),
           SaveCurrent(w) /\ Validate(workers[w].updated)
    PROVE  Atomic!AggregateNext
<1>1. PICK now \in Nat : now = workers[w].now
  BY SaveIsCurrent DEF SaveReconciled
<1>2. env' = workers[w].updated /\ Validate(env')
  BY DEF SaveReconciled
<1>3. /\ Active(env) /\ Computed(env, now, env') /\ now <= clock
  BY <1>1, <1>2, SaveIsCurrent DEF SaveReconciled
<1>4. now \in 0..(MaxClock + LeaseDuration)
  BY <1>3, ReconcileAssumption DEF Inv, TypeOK
<1>5. CASE /\ TimedOut(env, now)
           /\ TimeoutCleanupAllowed(env, now, CleanupDeadline(now))
           /\ env' = BeginTimeoutCleanup(env, now, CleanupDeadline(now))
  <2>1. Atomic!BeginCleanup(now)
    BY <1>2, <1>3, <1>5, AtomicBeginCleanup
  <2> QED
    BY <1>4, <2>1, Zenon DEF Atomic!AggregateNext
<1>6. ASSUME NEW obs \in ProviderObservations(env, NextAction(env)),
             /\ ~TimedOut(env, now)
             /\ ObservationAccepted(env, obs)
             /\ ObservationApplies(env, obs, now)
             /\ env' = Deferred(ApplyProviderObservation(env, obs), now)
      PROVE  Atomic!AggregateNext
  <2>1. Atomic!Observe(obs, now)
    BY <1>3, <1>6, AtomicObserve
  <2>2. obs \in Atomic!ProviderObservations(env, Atomic!NextAction(env))
    BY AtomicAnswers
  <2> QED
    BY <1>4, <2>1, <2>2, Zenon DEF Atomic!AggregateNext
<1>7. ASSUME NEW code \in {"Timeout", "Provider"},
             RetryAllowed(env, now + RetryDelay) /\ env' = ApplyRetry(env, code, now + RetryDelay)
      PROVE  Atomic!AggregateNext
  <2>1. Atomic!Retry(code, now)
    BY <1>2, <1>3, <1>7, AtomicRetry
  <2> QED
    BY <1>4, <2>1, Zenon DEF Atomic!AggregateNext, Atomic!FailureCodes
<1>8. ASSUME NEW code \in {"Timeout", "Provider"},
             FailureAllowed(env) /\ env' = ApplyProviderFailure(env, code)
      PROVE  Atomic!AggregateNext
  <2>1. Atomic!Fail(code)
    BY <1>2, <1>3, <1>8, AtomicFail
  <2> QED
    BY <2>1, Zenon DEF Atomic!AggregateNext, Atomic!FailureCodes
<1> QED
  BY <1>3, <1>5, <1>6, <1>7, <1>8 DEF Computed

\* Every step leaves the aggregate alone or is a step of Atomic.
LEMMA AtomicStep == Inv /\ [Next]_vars => UNCHANGED env \/ Atomic!AggregateNext
<1> SUFFICES ASSUME Inv, [Next]_vars, env' # env PROVE Atomic!AggregateNext
  OBVIOUS
<1>1. ASSUME NEW w \in Workers, WorkerStep(w) PROVE Atomic!AggregateNext
  <2>1. SaveReconciled(w) /\ SaveCurrent(w) /\ Validate(workers[w].updated)
    BY <1>1 DEF WorkerStep, Poll, ClaimNothing, Heartbeat, Claim, BeginCleanup, CallProvider,
                Observe, ProviderObserves, Fail, ProviderFails, SaveReconciled
  <2> QED
    BY <2>1, AtomicSave
<1>2. ASSUME NEW w \in Workers, ExpiryLoopFails(w) \/ Kill(w) PROVE FALSE
  BY <1>2 DEF ExpiryLoopFails, Kill
<1>3. ~UNCHANGED vars /\ ~Tick /\ ~RenewLease
  BY DEF vars, Tick, RenewLease
<1> QED
  BY <1>1, <1>2, <1>3, AtomicCommand, AtomicRefreshStep DEF Next

-----------------------------------------------------------------------------
(* What every behaviour keeps *)

\* The invariant holds in every reachable state.
LEMMA InvHolds == Spec => []Inv
BY InvInit, InvStep, PTL DEF Spec

\* The aggregate, the operation rows, the snapshots of the workers and the Outbox agree,
\* whatever processes, commands and clocks interleave.
THEOREM RowsAlwaysFaithful == Spec => []RowsFaithful
<1>1. Inv => RowsFaithful
  <2>1. Inv => SnapshotFaithful
    BY DEF Inv, WorkersSound, WorkerSound, SnapshotSound, SnapshotFaithful, HoldsLease, Holding
  <2> QED
    BY <2>1 DEF Inv, RowsFaithful
<1> QED
  BY <1>1, InvHolds, PTL

\* The outbox holds one event per revision, in order and without a gap.
THEOREM OutboxAlwaysContiguous == Spec => []OutboxContiguous
<1>1. Inv => OutboxContiguous
  BY DEF Inv
<1> QED
  BY <1>1, InvHolds, PTL

\* No operation is leased while the lease of the one it superseded directly still runs.  Of an
\* operation superseded before that one nothing is said (see OlderLeasesExpire).
THEOREM SupersededLeaseAlwaysExpires == Spec => []SupersededLeaseExpires
<1>1. Inv => SupersededLeaseExpires
  BY DEF Inv, SupersededFenced, SupersededLeaseExpires
<1> QED
  BY <1>1, InvHolds, PTL

\* The service implements the atomic aggregate: workers with leases, superseded operations,
\* stopped processes and stale reads move the stored aggregate only by whole lifecycle
\* functions of its current value.
THEOREM ImplementsAggregate == Spec => AtomicAggregate
<1>1. Inv /\ [Next]_vars => [UNCHANGED env \/ Atomic!AggregateNext]_env
  BY AtomicStep
<1> QED
  BY <1>1, InvHolds, AtomicInit, PTL DEF Spec, AtomicAggregate

===============================================================================
