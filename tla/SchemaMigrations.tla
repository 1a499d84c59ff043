-------------------------- MODULE SchemaMigrations --------------------------
(***************************************************************************)
(* The Migration Job (crates/persistence-sqlx: coordinator.rs, schema.rs,  *)
(* catalog.rs): attempts of releases that migrate the domains' schemas     *)
(* under session advisory locks, with their ledger                         *)
(* platform_meta.release_attempts and the history of each domain.          *)
(*                                                                         *)
(* One job is one attempt in a process of its own.  Every statement        *)
(* outside a transaction is a step.  A job may crash, and the session that *)
(* holds the release lock may break while the job goes on with a domain.   *)
(***************************************************************************)
EXTENDS Naturals, Sequences, FiniteSets, SequencesExt

CONSTANTS
    Jobs,             \* attempts
    NoJob,            \* the holder of a free lock
    Releases,         \* release identities
    Domains,          \* Domain::ALL, in order
    Catalog,          \* the migrations of each release and domain: id and sha256
    MaxMigrationFaults  \* bound: crashes, broken sessions and failed statements

ASSUME MigrationAssumption ==
    /\ NoJob \notin Jobs /\ Releases # {}
    /\ Domains \in Seq(STRING)
    /\ DOMAIN Catalog = Releases
    /\ \A r \in Releases, d \in Range(Domains) :
           /\ Catalog[r][d] \in Seq([id : Nat, sha : STRING])
           /\ \A i \in DOMAIN Catalog[r][d] : Catalog[r][d][i].id = i
    /\ MaxMigrationFaults \in Nat

VARIABLES
    releaseOf,    \* the release of each job
    hashed,       \* whether the catalogs carry sha256 values
    ledger,       \* platform_meta.release_attempts in the order of started_at
    releaseLock,  \* the global advisory lock
    domainLock,   \* the advisory lock of each domain
    history,      \* schema_migrations of each domain
    job,          \* each job: its step, domain, position and coordinator session
    migrationFaults

migrationVars ==
    <<releaseOf, hashed, ledger, releaseLock, domainLock, history, job, migrationFaults>>

MigrationInit ==
    /\ releaseOf \in [Jobs -> Releases]
    /\ hashed \in BOOLEAN
    /\ ledger = <<>>
    /\ releaseLock = NoJob
    /\ domainLock = [d \in Range(Domains) |-> NoJob]
    /\ history = [d \in Range(Domains) |-> <<>>]
    /\ job = [j \in Jobs |-> [pc |-> "waiting", domain |-> 1, at |-> 0, session |-> TRUE]]
    /\ migrationFaults = 0

-----------------------------------------------------------------------------

To(j, pc) == job' = [job EXCEPT ![j].pc = pc]

\* The job returns an error; its sessions keep their locks until the process exits.
Errs(j) == To(j, "error")

DomainOf(j) == Domains[job[j].domain]

Migrations(j) == Catalog[releaseOf[j]][DomainOf(j)]

Entry(j) == CHOOSE i \in DOMAIN ledger : ledger[i].job = j

HasEntry(j, s) == \E i \in DOMAIN ledger : ledger[i].job = j /\ ledger[i].state = s

SetState(j, s) == ledger' = [ledger EXCEPT ![Entry(j)].state = s]

MigrationFault ==
    migrationFaults < MaxMigrationFaults /\ migrationFaults' = migrationFaults + 1

-----------------------------------------------------------------------------
(* apply: the release lock and the attempt *)

\* pg_advisory_lock of the release.
LockRelease(j) ==
    /\ job[j].pc = "waiting" /\ job[j].session /\ releaseLock = NoJob
    /\ releaseLock' = j
    /\ To(j, "abandon")
    /\ UNCHANGED <<releaseOf, hashed, ledger, domainLock, history, migrationFaults>>

\* prepare_attempt: every attempt left running is marked failed.
AbandonAttempts(j) ==
    /\ job[j].pc = "abandon" /\ job[j].session
    /\ ledger' = [i \in DOMAIN ledger |->
                     IF ledger[i].state = "running"
                     THEN [ledger[i] EXCEPT !.state = "failed"] ELSE ledger[i]]
    /\ To(j, "prepare")
    /\ UNCHANGED <<releaseOf, hashed, releaseLock, domainLock, history, migrationFaults>>

Unresolved == {i \in DOMAIN ledger : ledger[i].state = "failed" /\ ~ledger[i].resolved}

\* Mutant: only the attempt before this one can block.
BlockedByLast(j) ==
    /\ Len(ledger) \in Unresolved
    /\ releaseOf[ledger[Len(ledger)].job] # releaseOf[j]

\* prepare_attempt: the last unresolved failure is of another release.
Blocked(j) ==
    \E i \in Unresolved :
        /\ \A k \in Unresolved : k <= i
        /\ releaseOf[ledger[i].job] # releaseOf[j]

\* prepare_attempt: the row of the attempt, or ReleaseBlocked with the lock still held.
PrepareAttempt(j) ==
    /\ job[j].pc = "prepare" /\ job[j].session
    /\ IF Blocked(j) THEN Errs(j) /\ UNCHANGED ledger
       ELSE /\ ledger' = Append(ledger, [job |-> j, state |-> "running", resolved |-> FALSE])
            /\ To(j, "domain")
    /\ UNCHANGED <<releaseOf, hashed, releaseLock, domainLock, history, migrationFaults>>

\* set_current_domain, or the end of the loop.
SetCurrentDomain(j) ==
    /\ job[j].pc = "domain" /\ job[j].session
    /\ IF job[j].domain > Len(Domains) THEN To(j, "succeed")
       ELSE IF HasEntry(j, "running") THEN To(j, "lock") ELSE Errs(j)
    /\ UNCHANGED <<releaseOf, hashed, ledger, releaseLock, domainLock, history,
                   migrationFaults>>

\* finish_attempt, then the release lock is given back.
FinishAttempt(j, s) ==
    /\ job[j].session
    /\ IF HasEntry(j, "running")
       THEN /\ SetState(j, s) /\ releaseLock' = NoJob
            /\ To(j, IF s = "failed" THEN "error" ELSE "done")
       ELSE Errs(j) /\ UNCHANGED <<ledger, releaseLock>>
    /\ UNCHANGED <<releaseOf, hashed, domainLock, history, migrationFaults>>

Succeed(j) == job[j].pc = "succeed" /\ FinishAttempt(j, "succeeded")

Fail(j) == job[j].pc = "fail" /\ FinishAttempt(j, "failed")

-----------------------------------------------------------------------------
(* apply_domain *)

LockDomain(j) ==
    /\ job[j].pc = "lock" /\ domainLock[DomainOf(j)] = NoJob
    /\ domainLock' = [domainLock EXCEPT ![DomainOf(j)] = j]
    /\ To(j, "classify")
    /\ UNCHANGED <<releaseOf, hashed, ledger, releaseLock, history, migrationFaults>>

\* SchemaVerifier::classify of rows that are all applied.
Classify(rows, migrations) ==
    IF Len(rows) > Len(migrations) THEN "ahead"
    ELSE IF \E i \in DOMAIN rows : rows[i].id # migrations[i].id THEN "unknown"
    ELSE IF hashed /\ \E i \in DOMAIN rows : rows[i].sha # migrations[i].sha
         THEN "checksumMismatch"
    ELSE IF Len(rows) < Len(migrations) THEN "behind" ELSE "ready"

\* The history is classified and counted.
StartDomain(j) ==
    /\ job[j].pc = "classify"
    /\ IF Classify(history[DomainOf(j)], Migrations(j)) \in {"ready", "behind"}
       THEN job' = [job EXCEPT ![j].pc = "apply", ![j].at = Len(history[DomainOf(j)])]
       ELSE To(j, "fail")
    /\ UNCHANGED <<releaseOf, hashed, ledger, releaseLock, domainLock, history,
                   migrationFaults>>

\* One transaction: the SQL and its row in the history, or neither.
ApplyMigration(j) ==
    LET next == Migrations(j)[job[j].at + 1]
    IN  /\ job[j].pc = "apply" /\ job[j].at < Len(Migrations(j))
        /\ \/ /\ \A i \in DOMAIN history[DomainOf(j)] : history[DomainOf(j)][i].id # next.id
              /\ history' = [history EXCEPT ![DomainOf(j)] = Append(@, next)]
              /\ job' = [job EXCEPT ![j].at = @ + 1]
              /\ UNCHANGED migrationFaults
           \/ MigrationFault /\ To(j, "fail") /\ UNCHANGED history
        /\ UNCHANGED <<releaseOf, hashed, ledger, releaseLock, domainLock>>

UnlockDomain(j) ==
    /\ job[j].pc = "apply" /\ job[j].at = Len(Migrations(j))
    /\ domainLock' = [domainLock EXCEPT ![DomainOf(j)] = NoJob]
    /\ job' = [job EXCEPT ![j].pc = "domain", ![j].domain = @ + 1]
    /\ UNCHANGED <<releaseOf, hashed, ledger, releaseLock, history, migrationFaults>>

-----------------------------------------------------------------------------
(* Sessions and processes *)

Alive(j) == job[j].pc \notin {"done", "exited"}

Freed(j, lock) == IF lock = j THEN NoJob ELSE lock

\* Mutant: a session that is back in the pool keeps its locks.
EndSessionsPooled(j) == UNCHANGED <<releaseLock, domainLock>>

\* The locks of the sessions of a process that ends are free.
EndSessions(j) ==
    /\ releaseLock' = Freed(j, releaseLock)
    /\ domainLock' = [d \in Range(Domains) |-> Freed(j, domainLock[d])]

\* The process that got an error exits.
ExitProcess(j) ==
    /\ job[j].pc = "error"
    /\ EndSessions(j)
    /\ To(j, "exited")
    /\ UNCHANGED <<releaseOf, hashed, ledger, history, migrationFaults>>

Crash(j) ==
    /\ Alive(j) /\ MigrationFault
    /\ EndSessions(j)
    /\ To(j, "exited")
    /\ UNCHANGED <<releaseOf, hashed, ledger, history>>

\* The coordinator's session breaks; the domain's goes on.
BreakSession(j) ==
    /\ Alive(j) /\ job[j].pc # "error" /\ job[j].session /\ MigrationFault
    /\ job' = [job EXCEPT ![j].session = FALSE]
    /\ releaseLock' = Freed(j, releaseLock)
    /\ UNCHANGED <<releaseOf, hashed, ledger, domainLock, history>>

\* The next statement on the broken session fails.
SessionFails(j) ==
    /\ ~job[j].session
    /\ job[j].pc \in {"waiting", "abandon", "prepare", "domain", "succeed", "fail"}
    /\ Errs(j)
    /\ UNCHANGED <<releaseOf, hashed, ledger, releaseLock, domainLock, history,
                   migrationFaults>>

\* External: a reviewed forward repair resolves the failures of a release that has stopped.
Resolve ==
    /\ Unresolved # {}
    /\ \A j \in Jobs : job[j].pc \in {"waiting", "done", "exited"}
    /\ ledger' = [i \in DOMAIN ledger |-> [ledger[i] EXCEPT !.resolved = i \in Unresolved \/ @]]
    /\ UNCHANGED <<releaseOf, hashed, releaseLock, domainLock, history, job, migrationFaults>>

JobStep(j) ==
    \/ LockRelease(j) \/ AbandonAttempts(j) \/ PrepareAttempt(j) \/ SetCurrentDomain(j)
    \/ LockDomain(j) \/ StartDomain(j) \/ ApplyMigration(j) \/ UnlockDomain(j)
    \/ Succeed(j) \/ Fail(j) \/ SessionFails(j) \/ ExitProcess(j)

MigrationNext == Resolve \/ \E j \in Jobs : JobStep(j) \/ Crash(j) \/ BreakSession(j)

-----------------------------------------------------------------------------
(* Properties *)

MigrationTypeOK ==
    /\ \A i \in DOMAIN ledger : ledger[i].state \in {"running", "succeeded", "failed"}
    /\ releaseLock \in Jobs \cup {NoJob}
    /\ \A d \in Range(Domains) : domainLock[d] \in Jobs \cup {NoJob}

\* The history of a domain has no gap and no repetition, and with hashed catalogs it is a
\* prefix of what one release declares, whichever attempts overlapped or were cut short.
HistoryWhole ==
    \A d \in Range(Domains) :
        /\ \A i \in DOMAIN history[d] : history[d][i].id = i
        /\ hashed => \E r \in Releases : IsPrefix(history[d], Catalog[r][d])

\* An attempt that the ledger calls succeeded has left every domain with all its migrations.
SucceededComplete ==
    \A i \in DOMAIN ledger :
        ledger[i].state = "succeeded" =>
            \A d \in Range(Domains) :
                Len(history[d]) >= Len(Catalog[releaseOf[ledger[i].job]][d])

\* One attempt is running at a time.
OneRunning ==
    Cardinality({i \in DOMAIN ledger : ledger[i].state = "running"}) <= 1

\* No attempt of another release starts after a failure that is not resolved, an attempt whose
\* process died or lost its session included, and two releases never migrate at once.
FailureBlocks ==
    /\ \A i, k \in DOMAIN ledger :
           i < k /\ i \in Unresolved => releaseOf[ledger[i].job] = releaseOf[ledger[k].job]
    /\ \A j, k \in Jobs :
           job[j].pc \in {"classify", "apply"} /\ job[k].pc \in {"classify", "apply"} =>
               releaseOf[j] = releaseOf[k]

\* Once a release is under way every attempt comes to an end: no lock that a failed, dead or
\* disconnected one held keeps the next from starting.
MigrationEnds ==
    (releaseLock # NoJob) ~> (\A j \in Jobs : job[j].pc \in {"done", "exited"})

=============================================================================
