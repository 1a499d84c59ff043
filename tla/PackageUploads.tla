--------------------------- MODULE PackageUploads ---------------------------
(***************************************************************************)
(* A problem package of the Control Service: the upload session, the       *)
(* objects its client puts, the workers that complete it, and the cleanup  *)
(* of the object versions that a failed completion leaves behind.          *)
(*                                                                         *)
(* A worker is one handler of complete_upload.  The requests it stands for *)
(* carry the same idempotency key; a request with another key finds the    *)
(* session taken and changes nothing.  The lease of a session that is      *)
(* being completed is live until its time is up.                           *)
(***************************************************************************)
EXTENDS Naturals, FiniteSets

CONSTANTS
  FileCount,           \* the number of files of the package
  Completers,          \* the workers
  MaxVersions,         \* bound: versions of one object
  MaxLapses,           \* bound: leases that run out, stops and failed reads
  MaxCleanupAttempts   \* 20 in the code: failed deletions of one version

ASSUME UploadAssumption ==
  /\ FileCount \in Nat \ {0} /\ MaxVersions \in Nat \ {0}
  /\ MaxLapses \in Nat /\ MaxCleanupAttempts \in Nat

VARIABLES
  session,    \* control.problem_package_upload_sessions
  key,        \* control.idempotency_ledger of the completion
  fileRow,    \* object_version of control.problem_package_upload_files, 0: NULL
  objects,    \* the object store: what each version of each object is
  completer,  \* the local state of each complete_upload
  package,    \* control.problem_packages: the version of each file, or NoPackage
  orphans,    \* control.object_cleanup_ledger: the attempts of each version not deleted yet
  lapses      \* faults so far

uploadVars == <<session, key, fileRow, objects, completer, package, orphans, lapses>>

-----------------------------------------------------------------------------

Files    == 1..FileCount
Versions == 1..MaxVersions
Nobody   == "nobody"
NoPackage == [f \in Files |-> 0]

\* What a version of an object is: not there, what the manifest declares, of
\* another size or media type, or deleted.
Contents == {"absent", "declared", "other", "deleted"}

IdleCompleter == [step |-> "idle", file |-> 1, version |-> 0, frozen |-> NoPackage]

UploadTypeOK ==
  /\ session \in [state : {"none", "pending", "completing", "completed", "failed"},
                  open : BOOLEAN, holder : Completers \cup {Nobody}, live : BOOLEAN]
  /\ key \in {"absent", "in_progress", "completed"}
  /\ fileRow \in [Files -> 0..MaxVersions]
  /\ objects \in [Files -> [Versions -> Contents]]
  /\ completer \in [Completers -> [step : {"idle", "renew", "read", "record", "failing"},
                                   file : 1..FileCount + 1, version : 0..MaxVersions,
                                   frozen : [Files -> 0..MaxVersions]]]
  /\ package \in [Files -> 0..MaxVersions]
  /\ orphans \in [Files -> [Versions -> 0..MaxCleanupAttempts + 1]]
  /\ lapses \in 0..MaxLapses

\* orphans: 0 is no row, n + 1 a row with n failed attempts.
UploadInit ==
  /\ session = [state |-> "none", open |-> FALSE, holder |-> Nobody, live |-> FALSE]
  /\ key = "absent"
  /\ fileRow = [f \in Files |-> 0]
  /\ objects = [f \in Files |-> [v \in Versions |-> "absent"]]
  /\ completer = [p \in Completers |-> IdleCompleter]
  /\ package = NoPackage
  /\ orphans = [f \in Files |-> [v \in Versions |-> 0]]
  /\ lapses = 0

-----------------------------------------------------------------------------
(* The session and the client's uploads *)

\* create_upload: the session, its files and the signed addresses, with the
\* result of the idempotency key, are one transaction.
CreateUpload ==
  /\ session.state = "none"
  /\ session' = [session EXCEPT !.state = "pending", !.open = TRUE]
  /\ UNCHANGED <<key, fileRow, objects, completer, package, orphans, lapses>>

\* freeze_current: the version that an object has when no version is named.
CurrentVersion(f) ==
  LET there == {v \in Versions : objects[f][v] \in {"declared", "other"}}
  IN IF there = {} THEN 0 ELSE CHOOSE v \in there : \A w \in there : w <= v

\* The client puts an object at a signed address as long as the address is valid, also
\* while and after the session is completed: the signed If-None-Match refuses an object
\* that is there, so that a second put succeeds only once the first was cleaned up.
PutObject(f, what) ==
  /\ session.state # "none" /\ session.open
  /\ CurrentVersion(f) = 0
  /\ \E v \in Versions :
       /\ objects[f][v] = "absent"
       /\ \A w \in 1..v - 1 : objects[f][w] # "absent"
       /\ objects' = [objects EXCEPT ![f][v] = what]
  /\ UNCHANGED <<session, key, fileRow, completer, package, orphans, lapses>>

\* expires_at passes, of the session and of the addresses.
UploadExpires ==
  /\ session.open
  /\ session' = [session EXCEPT !.open = FALSE]
  /\ UNCHANGED <<key, fileRow, objects, completer, package, orphans, lapses>>

-----------------------------------------------------------------------------
(* complete_upload *)

Claimed(p) ==
  /\ session' = [session EXCEPT !.state = "completing", !.holder = p, !.live = TRUE]
  /\ key' = "in_progress"
  /\ completer' = [completer EXCEPT ![p] = [IdleCompleter EXCEPT !.step = "renew"]]
  /\ UNCHANGED <<fileRow, objects, package, orphans, lapses>>

\* reserve_completion of a session nobody has begun to complete.  In every other
\* state the transaction is rolled back, with the reservation of the key.
ReserveCompletion(p) ==
  /\ completer[p].step = "idle"
  /\ key = "absent"
  /\ session.state = "pending" /\ session.open
  /\ Claimed(p)

\* Mutant: the session is taken over only before it expires.
ReclaimCompletionOpen(p) ==
  /\ completer[p].step = "idle"
  /\ key = "in_progress"
  /\ session.state = "completing" /\ ~session.live /\ session.open
  /\ Claimed(p)

\* reserve_completion of the same request: the session is taken over once the
\* lease of the worker before has run out.
ReclaimCompletion(p) ==
  /\ completer[p].step = "idle"
  /\ key = "in_progress"
  /\ session.state = "completing" /\ ~session.live
  /\ Claimed(p)

\* The worker holds the unexpired lease of the session.
Fenced(p) == session.state = "completing" /\ session.holder = p /\ session.live

\* An error of the request: what the worker had in memory is gone.
GiveUp(p) ==
  /\ completer' = [completer EXCEPT ![p] = IdleCompleter]
  /\ UNCHANGED <<session, key, fileRow, objects, package, orphans, lapses>>

\* renew_completion_lease, before each file.
RenewCompletionLease(p) ==
  /\ completer[p].step = "renew" /\ completer[p].file <= FileCount
  /\ \/ /\ Fenced(p)
        /\ completer' = [completer EXCEPT ![p].step = "read"]
        /\ UNCHANGED <<session, key, fileRow, objects, package, orphans, lapses>>
     \/ ~Fenced(p) /\ GiveUp(p)

\* freeze_current of a file that has no version on record, else the version it has.
VersionToRead(f) == IF fileRow[f] = 0 THEN CurrentVersion(f) ELSE fileRow[f]

\* read_verified: the version is there and is what the manifest declares.
ReadVerified(f, v) == v # 0 /\ objects[f][v] = "declared"

\* The object is read; one that is missing, is not what was declared or cannot
\* be read now fails the upload.
ReadObject(p) ==
  LET f == completer[p].file
      v == VersionToRead(f)
  IN /\ completer[p].step = "read"
     /\ \/ /\ ReadVerified(f, v)
           /\ completer' = [completer EXCEPT ![p].step = "record", ![p].version = v]
           /\ UNCHANGED lapses
        \/ /\ ~ReadVerified(f, v)
           /\ completer' = [completer EXCEPT ![p].step = "failing"]
           /\ UNCHANGED lapses
        \/ /\ lapses < MaxLapses
           /\ lapses' = lapses + 1
           /\ completer' = [completer EXCEPT ![p].step = "failing"]
     /\ UNCHANGED <<session, key, fileRow, objects, package, orphans>>

\* record_frozen_version: under the lease, a row that has no version or this one.
RecordFrozenVersion(p) ==
  LET f == completer[p].file
      v == completer[p].version
  IN /\ completer[p].step = "record"
     /\ \/ /\ Fenced(p) /\ fileRow[f] \in {0, v}
           /\ fileRow' = [fileRow EXCEPT ![f] = v]
           /\ completer' = [completer EXCEPT ![p] =
                [step |-> "renew", file |-> f + 1, version |-> 0,
                 frozen |-> [completer[p].frozen EXCEPT ![f] = v]]]
           /\ UNCHANGED <<session, key, objects, package, orphans, lapses>>
        \/ ~(Fenced(p) /\ fileRow[f] \in {0, v}) /\ GiveUp(p)

\* commit_completed_package: the session is locked under the lease, the rows are
\* compared, and the package, the session and the key are written together.
CommitCompletedPackage(p) ==
  /\ completer[p].step = "renew" /\ completer[p].file > FileCount
  /\ \/ /\ Fenced(p) /\ fileRow = completer[p].frozen
        /\ package' = completer[p].frozen
        /\ session' = [session EXCEPT !.state = "completed", !.holder = Nobody, !.live = FALSE]
        /\ key' = "completed"
        /\ completer' = [completer EXCEPT ![p] = IdleCompleter]
        /\ UNCHANGED <<fileRow, objects, orphans, lapses>>
     \/ ~(Fenced(p) /\ fileRow = completer[p].frozen) /\ GiveUp(p)

\* Mutant: a worker that has lost its lease schedules its versions for deletion all the same.
FailUploadLate(p) ==
  /\ completer[p].step = "failing"
  /\ session' = IF Fenced(p) THEN [session EXCEPT !.state = "failed", !.holder = Nobody, !.live = FALSE]
                ELSE session
  /\ orphans' = [f \in Files |-> [v \in Versions |->
       IF orphans[f][v] = 0 /\ completer[p].frozen[f] = v THEN 1 ELSE orphans[f][v]]]
  /\ key' = IF Fenced(p) THEN "absent" ELSE key
  /\ completer' = [completer EXCEPT ![p] = IdleCompleter]
  /\ UNCHANGED <<fileRow, objects, package, lapses>>

\* fail_upload: the session fails for good, the versions this worker has frozen
\* are scheduled for deletion and the key is free again.
FailUpload(p) ==
  /\ completer[p].step = "failing"
  /\ \/ /\ Fenced(p)
        /\ session' = [session EXCEPT !.state = "failed", !.holder = Nobody, !.live = FALSE]
        /\ orphans' = [f \in Files |-> [v \in Versions |->
             IF orphans[f][v] = 0 /\ completer[p].frozen[f] = v THEN 1 ELSE orphans[f][v]]]
        /\ key' = "absent"
        /\ completer' = [completer EXCEPT ![p] = IdleCompleter]
        /\ UNCHANGED <<fileRow, objects, package, lapses>>
     \/ ~Fenced(p) /\ GiveUp(p)

\* completion_lease_expires_at passes, while a worker waits for the store or for
\* the database or because it is gone.
CompletionLeaseLapses ==
  /\ session.state = "completing" /\ session.live
  /\ completer[session.holder].step = "idle" \/ lapses < MaxLapses
  /\ lapses' = IF completer[session.holder].step = "idle" THEN lapses ELSE lapses + 1
  /\ session' = [session EXCEPT !.live = FALSE]
  /\ UNCHANGED <<key, fileRow, objects, completer, package, orphans>>

\* A process stops, or the client goes away and the handler with it.
CompleterStops(p) ==
  /\ completer[p].step # "idle" /\ lapses < MaxLapses
  /\ lapses' = lapses + 1
  /\ completer' = [completer EXCEPT ![p] = IdleCompleter]
  /\ UNCHANGED <<session, key, fileRow, objects, package, orphans>>

-----------------------------------------------------------------------------
(* cleanup_loop *)

\* cleanup_one_object: the row is locked while the version is deleted.
CleanupDeletes(f, v) ==
  /\ orphans[f][v] # 0
  /\ objects' = [objects EXCEPT ![f][v] = "deleted"]
  /\ orphans' = [orphans EXCEPT ![f][v] = 0]
  /\ UNCHANGED <<session, key, fileRow, completer, package, lapses>>

\* The deletion fails and another attempt is scheduled.  After the last attempt
\* the error ends the process and the row stays as it is.
CleanupFails(f, v) ==
  /\ orphans[f][v] \in 1..MaxCleanupAttempts
  /\ orphans' = [orphans EXCEPT ![f][v] = @ + 1]
  /\ UNCHANGED <<session, key, fileRow, objects, completer, package, lapses>>

CompleterStep(p) ==
  \/ RenewCompletionLease(p) \/ ReadObject(p) \/ RecordFrozenVersion(p)
  \/ CommitCompletedPackage(p) \/ FailUpload(p)

UploadStep ==
  \/ CreateUpload \/ UploadExpires \/ CompletionLeaseLapses
  \/ \E f \in Files, what \in {"declared", "other"} : PutObject(f, what)
  \/ \E p \in Completers :
       ReserveCompletion(p) \/ ReclaimCompletion(p) \/ CompleterStep(p) \/ CompleterStops(p)
  \/ \E f \in Files, v \in Versions : CleanupDeletes(f, v) \/ CleanupFails(f, v)

-----------------------------------------------------------------------------
(* Properties *)

\* A completed package is what one worker verified: each of its files is the version on
\* record, that version has the declared size and type, and it is neither deleted nor about
\* to be, whatever the client puts and whichever worker took the session over
\* (record_frozen_version, commit_completed_package, fail_upload).
PackageWhole ==
  session.state = "completed" =>
    \A f \in Files :
      LET v == package[f]
      IN v # 0 /\ fileRow[f] = v /\ objects[f][v] = "declared" /\ orphans[f][v] = 0

\* A session is completed by one worker at a time: a worker whose lease was taken over never
\* changes the session or its rows again (the fence in each of the worker's statements).
TakenOverStays ==
  [][\A p \in Completers :
       session.holder # p /\ completer'[p] # completer[p] /\ completer[p].step # "idle"
         => UNCHANGED <<session, fileRow, package, orphans>>]_uploadVars

\* A completion that has begun comes to an end: as long as the client repeats its request the
\* session is completed or failed, whichever workers were lost on the way (reserve_completion
\* takes a session over once its lease has run out).
CompletionSettles == session.state = "completing" ~> session.state \in {"completed", "failed"}

=============================================================================
