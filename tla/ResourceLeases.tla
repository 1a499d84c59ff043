--------------------------- MODULE ResourceLeases ---------------------------
(***************************************************************************)
(* Resource requests, Leases and capacity claims of the Resource Service   *)
(* (store.rs, lib.rs, api.rs) and the workers that reconcile them with     *)
(* Kubernetes and the Environment Service (capacity.rs).                   *)
(*                                                                         *)
(* A request has one claim and one Lease, which approve creates together.  *)
(* Every transaction, every call of a worker and every step between two of *)
(* them is an action.  A worker works from the rows it read; a store error *)
(* ends its process, and the next one starts with the next poll.           *)
(*                                                                         *)
(* Time is not counted: an expiry, the minute after which a provisioning   *)
(* claim is recovered and a retry delay pass by an action of their own.    *)
(* Queries that take the oldest row take any, which allows every order.    *)
(***************************************************************************)
EXTENDS Naturals

CONSTANTS
    Requests,           \* resource requests
    Workers,            \* processes, each with a CapacityReconcileWorker
    AttemptLimit,       \* failed attempts of one step after which it is given up (3)
    HandOffAuthorised,  \* whether the handoff route passes the Lease it verified to its store
    MaxLeaseRevision,   \* bound: no renewal at this revision
    MaxClaimRevision,   \* bound: no recovery of a provisioning claim at this revision
    MaxStops            \* bound: times a process is killed

ASSUME ResourceAssumption ==
    /\ AttemptLimit \in Nat \ {0}
    /\ HandOffAuthorised \in BOOLEAN
    /\ MaxLeaseRevision \in Nat
    /\ MaxClaimRevision \in Nat
    /\ MaxStops \in Nat

VARIABLES
    requests,       \* state of the rows of resource_requests
    leases,         \* the rows of resource_leases
    claims,         \* the rows of capacity_claims
    attempts,       \* failed attempts in capacity_attempts, by step
    due,            \* active Leases whose expires_at has passed
    stale,          \* provisioning claims that were not updated for a minute
    waiting,        \* claims with a retry scheduled later
    namespaces,     \* the quota shells in Kubernetes, by the claim revision they carry
    environments,   \* the Work environments of the Environment Service
    workers,        \* the local state of each worker
    stops           \* processes killed so far

rows == <<requests, leases, claims, attempts>>
timers == <<due, stale, waiting>>
outside == <<namespaces, environments>>
vars == <<rows, timers, outside, workers, stops>>

-----------------------------------------------------------------------------

RequestStates ==
    {"None", "Reviewing", "Allocating", "Active", "Expiring", "Expired", "Rejected", "Cancelled"}

LeaseStates == {"None", "Allocating", "Active", "Expiring", "Expired", "Revoked"}

ClaimStates ==
    {"None", "Reserved", "Provisioning", "Ready", "Blocked", "HandedOff", "Releasing", "Released"}

\* No namespace; one that exists carries the revision of the claim it was created for.
Absent == 0

\* What Resource can tell apart of a Work environment.
EnvironmentStates == {"None", "Running", "Expiring", "Failed", "Deleted"}

Lease == [state : LeaseStates, revision : Nat, revoked : BOOLEAN]

Claim == [state : ClaimStates, revision : Nat, synced : Nat]

\* The steps whose failures are counted, of those of capacity_attempts.
AttemptSteps == {"handoff", "expire", "release"}

Environment == [state : EnvironmentStates, leaseRevision : Nat]

\* How far reconcile_once has come.
Points ==
    {"idle", "reserve", "ready", "blocked", "rejected", "handoff", "activate", "refresh", "call",
     "accepted", "refused", "sync", "update", "synced", "cleanup", "expire", "delete", "release",
     "status", "verify", "complete", "expireFailed", "releaseFailed"}

AtPoint(pc) == [pc |-> pc]

\* A ProvisioningCapacityClaim: the row and the revisions it was read at.
WithItem(pc, r, claimRevision, leaseRevision) ==
    [pc |-> pc, item |-> r, claimRevision |-> claimRevision, leaseRevision |-> leaseRevision]

\* Between two items: the points at which nothing is read yet.
Between == {"idle", "handoff", "sync", "cleanup"}

Worker ==
    [pc : Between]
    \cup [pc : Points \ Between, item : Requests, claimRevision : Nat, leaseRevision : Nat]

Move(w, next) == workers' = [workers EXCEPT ![w] = next]

Step(w, pc) ==
    Move(w, WithItem(pc, workers[w].item, workers[w].claimRevision, workers[w].leaseRevision))

At(w, pc) == workers[w].pc = pc

Item(w) == workers[w].item

Init ==
    /\ requests = [r \in Requests |-> "None"]
    /\ leases = [r \in Requests |-> [state |-> "None", revision |-> 0, revoked |-> FALSE]]
    /\ claims = [r \in Requests |-> [state |-> "None", revision |-> 0, synced |-> 0]]
    /\ attempts = [r \in Requests |-> [step \in AttemptSteps |-> 0]]
    /\ due = {} /\ stale = {} /\ waiting = {}
    /\ namespaces = [r \in Requests |-> Absent]
    /\ environments = [r \in Requests |-> [state |-> "None", leaseRevision |-> 0]]
    /\ workers = [w \in Workers |-> AtPoint("idle")]
    /\ stops = 0

-----------------------------------------------------------------------------
(* Rows *)

SetRequest(r, state) == requests' = [requests EXCEPT ![r] = state]

\* transition_lease
SetLease(r, state, revoked) ==
    leases' = [leases EXCEPT ![r] = [state |-> state, revision |-> leases[r].revision + 1,
                                     revoked |-> revoked]]

\* transition_claim and update_claim, by so many transitions
SetClaim(r, state, transitions) ==
    claims' = [claims EXCEPT ![r] = [state |-> state,
                                     revision |-> claims[r].revision + transitions,
                                     synced |-> claims[r].synced]]

\* One more failed attempt of a step
CountFailure(r, step) ==
    attempts' = [attempts EXCEPT ![r] = [attempts[r] EXCEPT ![step] = attempts[r][step] + 1]]

SetNamespace(r, revision) == namespaces' = [namespaces EXCEPT ![r] = revision]

SetEnvironment(r, state, leaseRevision) ==
    environments' = [environments EXCEPT ![r] = [state |-> state,
                                                 leaseRevision |-> leaseRevision]]

\* Mutant: the Lease expires and its request is forgotten.
BeginExpiryOfLease(r, revoked) == SetLease(r, "Expiring", revoked) /\ UNCHANGED requests

\* The Lease and its request begin to expire, together.
BeginExpiry(r, revoked) ==
    /\ requests[r] \in {"Active", "Allocating"}
    /\ SetLease(r, "Expiring", revoked)
    /\ SetRequest(r, "Expiring")

-----------------------------------------------------------------------------
(* The owner and the administrator *)

\* create
CreateRequest(r) ==
    /\ requests[r] = "None"
    /\ SetRequest(r, "Reviewing")
    /\ UNCHANGED <<leases, claims, attempts, timers, outside, workers, stops>>

\* approve: an approval within the policy inserts the claim and the Lease.
Approve(r) ==
    /\ requests[r] = "Reviewing"
    /\ SetRequest(r, "Allocating")
    /\ SetLease(r, "Allocating", FALSE)
    /\ SetClaim(r, "Reserved", 1)
    /\ UNCHANGED <<attempts, timers, outside, workers, stops>>

\* reject_or_cancel
CloseRequest(r, terminal) ==
    /\ requests[r] = "Reviewing"
    /\ SetRequest(r, terminal)
    /\ UNCHANGED <<leases, claims, attempts, timers, outside, workers, stops>>

\* retry
RetryRequest(r) ==
    /\ requests[r] = "Rejected"
    /\ SetRequest(r, "Reviewing")
    /\ UNCHANGED <<leases, claims, attempts, timers, outside, workers, stops>>

\* Mutant: a Lease that is not over can be renewed.
RenewLeaseNotOver(r) ==
    /\ leases[r].state \in {"Active", "Expiring"}
    /\ leases[r].revision < MaxLeaseRevision
    /\ SetLease(r, "Active", FALSE)
    /\ due' = due \ {r}
    /\ UNCHANGED <<requests, claims, attempts, stale, waiting, outside, workers, stops>>

\* renew_lease: the new expiry is later than the old one and than now.
RenewLease(r) ==
    /\ leases[r].state = "Active"
    /\ leases[r].revision < MaxLeaseRevision
    /\ SetLease(r, "Active", FALSE)
    /\ due' = due \ {r}
    /\ UNCHANGED <<requests, claims, attempts, stale, waiting, outside, workers, stops>>

\* revoke_lease
RevokeLease(r) ==
    /\ leases[r].state \in {"Allocating", "Active", "Expiring"}
    /\ BeginExpiry(r, TRUE)
    /\ UNCHANGED <<claims, attempts, timers, outside, workers, stops>>

-----------------------------------------------------------------------------
(* Fences: the rows a worker's transaction checks under its locks. *)

\* The claim is as the worker read it and in one of these states.
ClaimFence(w, states) ==
    /\ claims[Item(w)].revision = workers[w].claimRevision
    /\ claims[Item(w)].state \in states

\* The Lease is as the worker read it and in this state.
LeaseFence(w, state) ==
    /\ leases[Item(w)].revision = workers[w].leaseRevision
    /\ leases[Item(w)].state = state

\* The check of the transaction at each point that has one.
Fence(w) ==
    /\ workers[w].pc \in {"ready", "blocked", "rejected"} => ClaimFence(w, {"Provisioning"})
    /\ workers[w].pc = "activate" =>
           LeaseFence(w, "Allocating") /\ requests[Item(w)] = "Allocating"
    /\ workers[w].pc \in {"accepted", "refused"} => ClaimFence(w, {"Ready"})
    /\ workers[w].pc = "synced" =>
           /\ claims[Item(w)].state = "HandedOff"
           /\ LeaseFence(w, "Active")
           /\ claims[Item(w)].synced < workers[w].leaseRevision
    /\ workers[w].pc = "release" => ClaimFence(w, {"Blocked", "HandedOff"})
    /\ workers[w].pc = "complete" =>
           /\ ClaimFence(w, {"Releasing"})
           /\ LeaseFence(w, "Expiring")
           /\ requests[Item(w)] = "Expiring"
    /\ workers[w].pc \in {"expireFailed", "releaseFailed"} =>
           claims[Item(w)].state \in {"HandedOff", "Releasing"}

\* CapacityClaimStateConflict, RevisionConflict or StateConflict: the process ends.
Conflict(w) ==
    /\ ~Fence(w)
    /\ Move(w, AtPoint("idle"))
    /\ UNCHANGED <<rows, timers, outside, stops>>

-----------------------------------------------------------------------------
(* The quota shell *)

\* The rows claim_next_capacity_shell selects.
ShellRow(r) ==
    claims[r].state = "Reserved" \/ (claims[r].state = "Provisioning" /\ r \in stale)

\* claim_next_capacity_shell.  A row whose Lease is no longer Allocating is an error: the
\* poll ends there, before anything else is looked at, and nothing changes.
ClaimShell(w, r) ==
    /\ At(w, "idle")
    /\ ShellRow(r)
    /\ claims[r].state = "Provisioning" => claims[r].revision < MaxClaimRevision
    /\ leases[r].state = "Allocating"
    /\ SetClaim(r, "Provisioning", IF claims[r].state = "Reserved" THEN 1 ELSE 2)
    /\ stale' = stale \ {r}
    /\ Move(w, WithItem("reserve", r, claims'[r].revision, leases[r].revision))
    /\ UNCHANGED <<requests, leases, attempts, due, waiting, outside, stops>>

\* No shell to provide: reconcile_once goes on.
NoShell(w) ==
    /\ At(w, "idle")
    /\ \A r \in Requests : ~ShellRow(r)
    /\ Move(w, AtPoint("handoff"))
    /\ UNCHANGED <<rows, timers, outside, stops>>

\* No provider for the binding, or a plan it refuses.
RejectPlan(w) ==
    /\ At(w, "reserve")
    /\ Step(w, "rejected")
    /\ UNCHANGED <<rows, timers, outside, stops>>

\* verify_document: there is no namespace, or it carries the revision the worker has.
Verified(w) == namespaces[Item(w)] \in {Absent, workers[w].claimRevision}

\* KubernetesCapacityProvider::reserve: namespace and quota are created or verified.  A
\* namespace that an earlier revision of the claim left behind is another's.
Reserve(w) ==
    /\ At(w, "reserve")
    /\ Verified(w)
    /\ SetNamespace(Item(w), workers[w].claimRevision)
    /\ Step(w, "ready")
    /\ UNCHANGED <<rows, timers, environments, stops>>

\* It is another's, or a call fails, before or after the namespace was created.
ReserveFails(w) ==
    /\ At(w, "reserve")
    /\ \/ UNCHANGED namespaces
       \/ /\ namespaces[Item(w)] = Absent
          /\ SetNamespace(Item(w), workers[w].claimRevision)
    /\ Step(w, "blocked")
    /\ UNCHANGED <<rows, timers, environments, stops>>

\* mark_capacity_shell_ready
MarkShellReady(w) ==
    /\ At(w, "ready")
    /\ Fence(w)
    /\ SetClaim(Item(w), "Ready", 1)
    /\ stale' = stale \ {Item(w)}
    /\ Move(w, AtPoint("handoff"))
    /\ UNCHANGED <<requests, leases, attempts, due, waiting, outside, stops>>

\* mark_capacity_shell_blocked; after a refused plan the poll ends.
MarkShellBlocked(w) ==
    /\ workers[w].pc \in {"blocked", "rejected"}
    /\ Fence(w)
    /\ SetClaim(Item(w), "Blocked", 1)
    /\ stale' = stale \ {Item(w)}
    /\ Move(w, AtPoint(IF At(w, "rejected") THEN "idle" ELSE "handoff"))
    /\ UNCHANGED <<requests, leases, attempts, due, waiting, outside, stops>>

-----------------------------------------------------------------------------
(* reconcile_ready_handoff *)

\* next_ready_capacity_handoff
NextReady(w, r) ==
    /\ At(w, "handoff")
    /\ claims[r].state = "Ready"
    /\ Move(w, WithItem(IF leases[r].state = "Active" THEN "refresh" ELSE "activate",
                        r, claims[r].revision, leases[r].revision))
    /\ UNCHANGED <<rows, timers, outside, stops>>

NoneReady(w) ==
    /\ At(w, "handoff")
    /\ \A r \in Requests : claims[r].state # "Ready"
    /\ Move(w, AtPoint("sync"))
    /\ UNCHANGED <<rows, timers, outside, stops>>

\* activate_lease
ActivateLease(w) ==
    /\ At(w, "activate")
    /\ Fence(w)
    /\ SetLease(Item(w), "Active", FALSE)
    /\ SetRequest(Item(w), "Active")
    /\ Step(w, "refresh")
    /\ UNCHANGED <<claims, attempts, timers, outside, stops>>

\* verify_environment_lease: what the Environment Service is told of the Lease.
Authorised(r) == leases[r].state = "Active" /\ r \notin due

\* refresh_ready_claim.  The Environment Service verifies the Lease when it gets the handoff;
\* the read decides, since a Lease that changes in between fails its revision check.
RefreshReady(w) ==
    /\ At(w, "refresh")
    /\ IF claims[Item(w)].state = "Ready"
       THEN Move(w, WithItem(IF Authorised(Item(w)) THEN "call" ELSE "refused", Item(w),
                             claims[Item(w)].revision, leases[Item(w)].revision))
       ELSE Move(w, AtPoint("sync"))
    /\ UNCHANGED <<rows, timers, outside, stops>>

\* accept_resource_work_handoff: the environment is created by this handoff or was by an
\* earlier one; its answer arrives or is lost.  Only a Lease authorization that reaches the
\* store lets build_create_instance make a Work environment.
HandOff(w) ==
    /\ At(w, "call")
    /\ HandOffAuthorised
    /\ IF environments[Item(w)].state = "None"
       THEN SetEnvironment(Item(w), "Running", workers[w].leaseRevision)
       ELSE UNCHANGED environments
    /\ Step(w, "accepted") \/ Step(w, "refused")
    /\ UNCHANGED <<rows, timers, namespaces, stops>>

\* The handoff does not arrive or is refused: LeaseAuthorizationRequired, to mention one.
HandOffFails(w) ==
    /\ At(w, "call")
    /\ Step(w, "refused")
    /\ UNCHANGED <<rows, timers, outside, stops>>

\* mark_capacity_handed_off
MarkHandedOff(w) ==
    /\ At(w, "accepted")
    /\ Fence(w)
    /\ SetClaim(Item(w), "HandedOff", 1)
    /\ Move(w, AtPoint("sync"))
    /\ UNCHANGED <<requests, leases, attempts, timers, outside, stops>>

\* retry_or_block_capacity_handoff: the last attempt's failure blocks the claim.
RetryOrBlockHandOff(w) ==
    /\ At(w, "refused")
    /\ Fence(w)
    /\ CountFailure(Item(w), "handoff")
    /\ IF attempts[Item(w)]["handoff"] + 1 >= AttemptLimit THEN SetClaim(Item(w), "Blocked", 1)
       ELSE UNCHANGED claims
    /\ Move(w, AtPoint("sync"))
    /\ UNCHANGED <<requests, leases, timers, outside, stops>>

-----------------------------------------------------------------------------
(* reconcile_lease_sync *)

Unsynced(r) ==
    /\ claims[r].state = "HandedOff"
    /\ leases[r].state = "Active"
    /\ claims[r].synced < leases[r].revision

\* next_unsynced_active_lease
NextUnsynced(w, r) ==
    /\ At(w, "sync")
    /\ Unsynced(r)
    /\ Move(w, WithItem("update", r, claims[r].revision, leases[r].revision))
    /\ UNCHANGED <<rows, timers, outside, stops>>

NoneUnsynced(w) ==
    /\ At(w, "sync")
    /\ \A r \in Requests : ~Unsynced(r)
    /\ Move(w, AtPoint("cleanup"))
    /\ UNCHANGED <<rows, timers, outside, stops>>

\* refresh_work_lease takes the revision up, or has it; its answer may be lost.
SyncLease(w) ==
    /\ At(w, "update")
    /\ environments[Item(w)].state # "None"
    /\ environments[Item(w)].leaseRevision <= workers[w].leaseRevision
    /\ SetEnvironment(Item(w), environments[Item(w)].state, workers[w].leaseRevision)
    /\ Step(w, "synced") \/ Move(w, AtPoint("cleanup"))
    /\ UNCHANGED <<rows, timers, namespaces, stops>>

\* A failed update is tried again with the next poll.
SyncLeaseFails(w) ==
    /\ At(w, "update")
    /\ Move(w, AtPoint("cleanup"))
    /\ UNCHANGED <<rows, timers, outside, stops>>

\* mark_lease_synced
MarkLeaseSynced(w) ==
    /\ At(w, "synced")
    /\ Fence(w)
    /\ claims' = [claims EXCEPT ![Item(w)] = [state |-> claims[Item(w)].state,
                                              revision |-> claims[Item(w)].revision,
                                              synced |-> workers[w].leaseRevision]]
    /\ Move(w, AtPoint("cleanup"))
    /\ UNCHANGED <<requests, leases, attempts, timers, outside, stops>>

-----------------------------------------------------------------------------
(* reconcile_lease_cleanup *)

\* After the last failed attempt of a step an administrator is needed.
GivenUp(r) == \E step \in {"expire", "release"} : attempts[r][step] >= AttemptLimit

\* The rows next_lease_cleanup selects.
CleanupDue(r) ==
    /\ claims[r].state \in {"Blocked", "HandedOff", "Releasing"}
    /\ leases[r].state = "Expiring" \/ (leases[r].state = "Active" /\ r \in due)
    /\ ~GivenUp(r)
    /\ r \notin waiting

\* The call the state of the claim asks for.
CleanupPoint(state) ==
    CASE state = "HandedOff" -> "expire" [] state = "Blocked" -> "delete" [] OTHER -> "status"

\* next_lease_cleanup: an expired Lease begins to expire in the same transaction.
NextCleanup(w, r) ==
    /\ At(w, "cleanup")
    /\ CleanupDue(r)
    /\ IF leases[r].state = "Active" THEN BeginExpiry(r, FALSE)
       ELSE UNCHANGED <<leases, requests>>
    /\ Move(w, WithItem(CleanupPoint(claims[r].state), r, claims[r].revision,
                        leases'[r].revision))
    /\ UNCHANGED <<claims, attempts, timers, outside, stops>>

NoCleanup(w) ==
    /\ At(w, "cleanup")
    /\ \A r \in Requests : ~CleanupDue(r)
    /\ Move(w, AtPoint("idle"))
    /\ UNCHANGED <<rows, timers, outside, stops>>

\* accept_resource_work_cleanup has expired the environment, now or before; its
\* answer may be lost.
RequestCleanup(w) ==
    /\ At(w, "expire")
    /\ environments[Item(w)].state # "None"
    /\ IF environments[Item(w)].state = "Running"
       THEN SetEnvironment(Item(w), "Expiring", environments[Item(w)].leaseRevision)
       ELSE UNCHANGED environments
    /\ Step(w, "release") \/ Step(w, "expireFailed")
    /\ UNCHANGED <<rows, timers, namespaces, stops>>

RequestCleanupFails(w) ==
    /\ At(w, "expire")
    /\ Step(w, "expireFailed")
    /\ UNCHANGED <<rows, timers, outside, stops>>

\* Mutant: the namespace of any revision of the claim is deleted.
ReleaseBeforeHandOffAny(w) ==
    /\ At(w, "delete")
    /\ SetNamespace(Item(w), Absent)
    /\ Step(w, "release") \/ Move(w, AtPoint("idle"))
    /\ UNCHANGED <<rows, timers, environments, stops>>

\* release_before_handoff of a blocked claim: no namespace is there, or it carries the
\* revision of the claim and is deleted.  The answer may be lost.
ReleaseBeforeHandOff(w) ==
    /\ At(w, "delete")
    /\ Verified(w)
    /\ SetNamespace(Item(w), Absent)
    /\ Step(w, "release") \/ Move(w, AtPoint("idle"))
    /\ UNCHANGED <<rows, timers, environments, stops>>

\* No provider, a failed call or another's namespace: nothing is recorded.
ReleaseBeforeHandOffFails(w) ==
    /\ At(w, "delete")
    /\ Move(w, AtPoint("idle"))
    /\ UNCHANGED <<rows, timers, outside, stops>>

\* mark_capacity_releasing
MarkReleasing(w) ==
    /\ At(w, "release")
    /\ Fence(w)
    /\ SetClaim(Item(w), "Releasing", 1)
    /\ Move(w, AtPoint("idle"))
    /\ UNCHANGED <<requests, leases, attempts, timers, outside, stops>>

\* Mutant: an environment that is not found counts as cleaned up.
StatusPointNotFound(state) ==
    CASE state \in {"Deleted", "None"} -> "verify"
      [] state = "Failed" -> "expireFailed"
      [] OTHER -> "idle"

\* What reconcile_releasing_capacity makes of cleanup_status; an unknown environment is an
\* error answer.
StatusPoint(state) ==
    CASE state = "Deleted" -> "verify"
      [] state \in {"None", "Failed"} -> "expireFailed"
      [] OTHER -> "idle"

CleanupStatus(w) ==
    LET pc == StatusPoint(environments[Item(w)].state)
    IN  /\ At(w, "status")
        /\ IF pc = "idle" THEN Move(w, AtPoint("idle")) ELSE Step(w, pc)
        /\ UNCHANGED <<rows, timers, outside, stops>>

CleanupStatusFails(w) ==
    /\ At(w, "status")
    /\ Step(w, "expireFailed")
    /\ UNCHANGED <<rows, timers, outside, stops>>

\* verify_released: the namespace is absent.
VerifyReleased(w) ==
    /\ At(w, "verify")
    /\ namespaces[Item(w)] = Absent
    /\ Step(w, "complete")
    /\ UNCHANGED <<rows, timers, outside, stops>>

\* It is still there, or cannot be read, or no provider is configured for it.
VerifyReleasedFails(w) ==
    /\ At(w, "verify")
    /\ Step(w, "releaseFailed")
    /\ UNCHANGED <<rows, timers, outside, stops>>

\* complete_lease_expiry
EndedLeaseState(lease) == IF lease.revoked THEN "Revoked" ELSE "Expired"

\* complete_capacity_release
CompleteRelease(w) ==
    /\ At(w, "complete")
    /\ Fence(w)
    /\ SetClaim(Item(w), "Released", 1)
    /\ SetLease(Item(w), EndedLeaseState(leases[Item(w)]), leases[Item(w)].revoked)
    /\ SetRequest(Item(w), "Expired")
    /\ Move(w, AtPoint("idle"))
    /\ UNCHANGED <<attempts, timers, outside, stops>>

\* record_reconciliation_failure: a later attempt, none after the last.
RecordFailure(w) ==
    /\ workers[w].pc \in {"expireFailed", "releaseFailed"}
    /\ Fence(w)
    /\ CountFailure(Item(w), IF At(w, "expireFailed") THEN "expire" ELSE "release")
    /\ waiting' = waiting \cup {Item(w)}
    /\ Move(w, AtPoint("idle"))
    /\ UNCHANGED <<requests, leases, claims, due, stale, outside, stops>>

\* The process is killed.
Stop(w) ==
    /\ ~At(w, "idle")
    /\ stops < MaxStops
    /\ stops' = stops + 1
    /\ Move(w, AtPoint("idle"))
    /\ UNCHANGED <<rows, timers, outside>>

-----------------------------------------------------------------------------
(* Time, Kubernetes and the Environment Service *)

LeaseFallsDue(r) ==
    /\ leases[r].state = "Active" /\ r \notin due
    /\ due' = due \cup {r}
    /\ UNCHANGED <<rows, stale, waiting, outside, workers, stops>>

ShellGoesStale(r) ==
    /\ claims[r].state = "Provisioning" /\ r \notin stale
    /\ stale' = stale \cup {r}
    /\ UNCHANGED <<rows, due, waiting, outside, workers, stops>>

RetryFallsDue(r) ==
    /\ r \in waiting
    /\ waiting' = waiting \ {r}
    /\ UNCHANGED <<rows, due, stale, outside, workers, stops>>

\* The Environment Service: expired or deleted by its owner, failed, or taken up again.
EnvironmentMoves(r, from, to) ==
    /\ environments[r].state \in from
    /\ SetEnvironment(r, to, environments[r].leaseRevision)
    /\ UNCHANGED <<rows, timers, namespaces, workers, stops>>

EnvironmentExpires(r) == EnvironmentMoves(r, {"Running", "Failed"}, "Expiring")

EnvironmentFails(r) == EnvironmentMoves(r, {"Running", "Expiring"}, "Failed")

\* The cleanup of an environment ends with its namespace.
EnvironmentDeleted(r) ==
    /\ environments[r].state = "Expiring"
    /\ SetEnvironment(r, "Deleted", environments[r].leaseRevision)
    /\ SetNamespace(r, Absent)
    /\ UNCHANGED <<rows, timers, workers, stops>>

-----------------------------------------------------------------------------

ShellStep(w) ==
    \/ \E r \in Requests : ClaimShell(w, r)
    \/ NoShell(w) \/ RejectPlan(w) \/ Reserve(w) \/ ReserveFails(w)
    \/ MarkShellReady(w) \/ MarkShellBlocked(w)

HandOffStep(w) ==
    \/ \E r \in Requests : NextReady(w, r)
    \/ NoneReady(w) \/ ActivateLease(w) \/ RefreshReady(w) \/ HandOff(w) \/ HandOffFails(w)
    \/ MarkHandedOff(w) \/ RetryOrBlockHandOff(w)

SyncStep(w) ==
    \/ \E r \in Requests : NextUnsynced(w, r)
    \/ NoneUnsynced(w) \/ SyncLease(w) \/ SyncLeaseFails(w) \/ MarkLeaseSynced(w)

CleanupStep(w) ==
    \/ \E r \in Requests : NextCleanup(w, r)
    \/ NoCleanup(w) \/ RequestCleanup(w) \/ RequestCleanupFails(w)
    \/ ReleaseBeforeHandOff(w) \/ ReleaseBeforeHandOffFails(w) \/ MarkReleasing(w)
    \/ CleanupStatus(w) \/ CleanupStatusFails(w) \/ VerifyReleased(w) \/ VerifyReleasedFails(w)
    \/ CompleteRelease(w) \/ RecordFailure(w)

WorkerStep(w) ==
    ShellStep(w) \/ HandOffStep(w) \/ SyncStep(w) \/ CleanupStep(w) \/ Conflict(w)

ApiStep(r) ==
    \/ CreateRequest(r) \/ Approve(r) \/ RetryRequest(r) \/ RenewLease(r) \/ RevokeLease(r)
    \/ \E terminal \in {"Rejected", "Cancelled"} : CloseRequest(r, terminal)

OutsideStep(r) ==
    \/ LeaseFallsDue(r) \/ ShellGoesStale(r) \/ RetryFallsDue(r)
    \/ EnvironmentExpires(r) \/ EnvironmentFails(r) \/ EnvironmentDeleted(r)

Next ==
    \/ \E r \in Requests : ApiStep(r) \/ OutsideStep(r)
    \/ \E w \in Workers : WorkerStep(w) \/ Stop(w)

Spec == Init /\ [][Next]_vars

\* Processes go on and are started again, and time passes.
FairSpec ==
    /\ Spec
    /\ \A w \in Workers : WF_vars(WorkerStep(w))
    /\ \A r \in Requests :
           WF_vars(LeaseFallsDue(r)) /\ WF_vars(ShellGoesStale(r)) /\ WF_vars(RetryFallsDue(r))

-----------------------------------------------------------------------------
(* Properties *)

\* Every row, timer and local state has its type.
TypeOK ==
    /\ requests \in [Requests -> RequestStates]
    /\ leases \in [Requests -> Lease]
    /\ claims \in [Requests -> Claim]
    /\ attempts \in [Requests -> [AttemptSteps -> Nat]]
    /\ due \subseteq Requests /\ stale \subseteq Requests /\ waiting \subseteq Requests
    /\ namespaces \in [Requests -> Nat]
    /\ environments \in [Requests -> Environment]
    /\ workers \in [Workers -> Worker]
    /\ stops \in Nat

\* The states a Lease and its claim may be in under each state of the request.
Agree(request, lease, claim) ==
    /\ request = "Allocating" =>
           lease = "Allocating" /\ claim \in {"Reserved", "Provisioning", "Ready", "Blocked"}
    /\ request = "Active" => lease = "Active" /\ claim \in {"Ready", "Blocked", "HandedOff"}
    /\ request = "Expiring" => lease = "Expiring" /\ claim \notin {"None", "Released"}
    /\ request = "Expired" => lease \in {"Expired", "Revoked"} /\ claim = "Released"
    /\ request \in {"None", "Reviewing", "Rejected", "Cancelled"} =>
           lease = "None" /\ claim = "None"

\* Request, Lease and claim tell the same story after every transaction, though they are
\* written by different ones: capacity that is in use is under a Lease, a Lease is not over
\* while its capacity is held, and capacity is not released under a Lease that is not over
\* (approve, activate_lease, revoke_lease, next_lease_cleanup, complete_capacity_release).
RowsAgree == \A r \in Requests : Agree(requests[r], leases[r].state, claims[r].state)

\* Capacity is released only after the tombstone of its environment: no lost or repeated
\* answer, stale worker or late handoff leaves an environment running on a released claim.
ReleasedAfterTombstone ==
    \A r \in Requests : claims[r].state = "Released" => environments[r].state = "Deleted"

\* The Environment Service has an environment only under a Lease that was activated, and
\* knows no later revision of it than Resource; Resource takes no revision for acknowledged
\* that the environment does not have (lease_synced_revision).
EnvironmentFollowsLease ==
    \A r \in Requests :
        /\ environments[r].state # "None" => leases[r].state \notin {"None", "Allocating"}
        /\ environments[r].leaseRevision <= leases[r].revision
        /\ claims[r].synced <= environments[r].leaseRevision

\* A Lease that is revoked or has begun to expire never authorises again, whichever renewal
\* or activation was under way (the revision fences of renew_lease and activate_lease).
LeaseNotRevived ==
    [][\A r \in Requests :
           leases[r].state \in {"Expiring", "Expired", "Revoked"} =>
               leases'[r].state \notin {"Allocating", "Active"}]_vars

\* What docs/status/implementation-status.md says of revocation: it shares the saga of expiry,
\* which ends with Lease and claim terminal or with a recorded failure of the cleanup.  The
\* code never concludes a Lease that was revoked before its claim was taken up: no cleanup
\* selects a Reserved claim (next_lease_cleanup), and claim_next_capacity_shell makes an error
\* of it that ends the process, each time it is started, before any other row is looked at.
RevocationConcludes ==
    \A r \in Requests :
        leases[r].revoked /\ claims[r].state = "Reserved"
            ~> claims[r].state = "Released" \/ \E step \in AttemptSteps : attempts[r][step] > 0

\* The namespace an environment lives in, with all that runs there, is not taken from under
\* it, though the worker may not know of the environment: when every answer to the handoff
\* was lost, the claim is Blocked as one that was never handed off is, and its release deletes
\* namespaces (release_before_handoff, verify_document).
ShellKept ==
    \A r \in Requests :
        environments[r].state \notin {"None", "Deleted"} => namespaces[r] # Absent

\* The rows have their types and agree.
RowsSound == TypeOK /\ RowsAgree

\* An environment lives under a Lease and a claim, from its creation to its tombstone.
EnvironmentCovered == ReleasedAfterTombstone /\ EnvironmentFollowsLease

=============================================================================
