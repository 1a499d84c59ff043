------------------------------ MODULE Platform ------------------------------
(***************************************************************************)
(* What every request and every release passes through: the schema         *)
(* migrations of a release, the relay of a console, and the requests of a  *)
(* browser.  The three share no state that changes while they run, so a    *)
(* behaviour is one of the first, of the second or of the third, chosen at *)
(* the start.                                                              *)
(***************************************************************************)
EXTENDS SchemaMigrations, ConsoleRelay, BrowserRequests

VARIABLE part  \* the part that runs

platformVars == <<part, migrationVars, relayVars, requestVars>>

PlatformInit ==
    /\ part \in {"migration", "relay", "requests"}
    /\ MigrationInit /\ RelayInit /\ RequestInit
    \* The parts that do not run start in one of their initial states.
    /\ part # "migration" => ~hashed /\ releaseOf = [j \in Jobs |-> CHOOSE r \in Releases : TRUE]
    /\ part # "relay" => kind = "xterm"

OfMigration(A) == part = "migration" /\ A /\ UNCHANGED <<part, relayVars, requestVars>>

OfRelay(A) == part = "relay" /\ A /\ UNCHANGED <<part, migrationVars, requestVars>>

OfRequests(A) == part = "requests" /\ A /\ UNCHANGED <<part, migrationVars, relayVars>>

PlatformNext ==
    OfMigration(MigrationNext) \/ OfRelay(RelayNext) \/ OfRequests(RequestNext)

\* A migration job that can take a step takes it; nothing else is assumed to go on.
PlatformSpec ==
    /\ PlatformInit /\ [][PlatformNext]_platformVars
    /\ WF_platformVars(OfMigration(\E j \in Jobs : JobStep(j)))

\* Schemas and ledger: histories are whole, a success left all its migrations, one attempt runs
\* at a time, and a failure holds back every other release.
MigrationsSound ==
    /\ MigrationTypeOK
    /\ HistoryWhole /\ SucceededComplete /\ OneRunning /\ FailureBlocks

\* A console is relayed in order, within its limits, to the machine it was opened for.
RelaySound == RelayTypeOK /\ InOrder /\ ConsoleCurrent

\* Nothing is served without authority: logins make one session, logouts end them, and a request
\* whose authority had ended is refused.
RequestsSound == RequestTypeOK /\ ServedAuthorized /\ OneSessionPerLogin /\ LogoutRevokes

=============================================================================
