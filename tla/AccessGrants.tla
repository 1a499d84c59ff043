---------------------------- MODULE AccessGrants ----------------------------
(***************************************************************************)
(* The access grants of the Access Service and the jobs that activate      *)
(* them (services/access-service/src/grants.rs): the grants of ONE actor   *)
(* for ONE environment.  A grant is requested by its owner, decided by an  *)
(* activation worker of some Access process that asks the Environment      *)
(* Service for the endpoints, and ended by its owner, by the environment   *)
(* or by its expiry.                                                       *)
(*                                                                         *)
(* The operations that end a grant also terminate its sessions: they are   *)
(* completed in AccessService, which composes this module with the SSH     *)
(* and the console sessions.                                               *)
(***************************************************************************)
EXTENDS Naturals, Sequences

CONSTANTS Grants,       \* identifiers of grant rows
          Processes,    \* Access Service processes sharing the database
          NoGrant,      \* what an idle worker works on
          NoProcess,    \* the holder of a job that is not leased
          MaxAttempts,  \* activation_max_attempts
          MaxRevision   \* bound: renewals stop when a revision reaches it

ASSUME GrantConstants == /\ NoGrant \notin Grants
                         /\ NoProcess \notin Processes
                         /\ MaxAttempts \in Nat \ {0}
                         /\ MaxRevision \in Nat \ {0}

VARIABLES
  grant,       \* access.access_grants: state, revision, expires_at <= now
  job,         \* access.access_grant_activation_jobs
  worker,      \* the activation loop of each process
  membership,  \* the actor's course membership is active
  announced    \* access.outbox_events of each grant: the states announced

grantVars == <<grant, job, worker, membership, announced>>

LiveStates     == {"requested", "active"}
TerminalStates == {"denied", "expired", "revoked"}
Answers        == {"eligible", "expired", "denied", "unavailable"}

IdleWorker == [step |-> "idle", grant |-> NoGrant, answer |-> "none"]

GrantTypeOK ==
  /\ grant \in [Grants -> [state : {"none"} \cup LiveStates \cup TerminalStates,
                           revision : 0..MaxRevision + 2, lapsed : BOOLEAN]]
  /\ job \in [Grants -> [state : {"none", "pending", "retry", "leased",
                                  "completed", "failed"},
                         holder : Processes \cup {NoProcess},
                         live : BOOLEAN, attempts : 0..MaxAttempts]]
  /\ worker \in [Processes -> [step : {"idle", "claimed", "answered"},
                               grant : Grants \cup {NoGrant},
                               answer : Answers \cup {"none"}]]
  /\ membership \in BOOLEAN
  /\ announced \in [Grants -> Seq(LiveStates \cup TerminalStates)]

GrantInit ==
  /\ grant = [g \in Grants |-> [state |-> "none", revision |-> 0, lapsed |-> FALSE]]
  /\ job = [g \in Grants |-> [state |-> "none", holder |-> NoProcess,
                              live |-> FALSE, attempts |-> 0]]
  /\ worker = [p \in Processes |-> IdleWorker]
  /\ membership = TRUE
  /\ announced = [g \in Grants |-> <<>>]

-----------------------------------------------------------------------------
(* The rows *)

\* A grant that a session may be opened under: active and not yet expired.
Usable(g) == grant[g].state = "active" /\ ~grant[g].lapsed

\* active_membership: the actor has an active, unexpired membership.
ActiveMembership == membership

\* Every change of state gives the row a new revision and writes its event in
\* the same transaction (enqueue_grant_event).  A grant is activated before its
\* expiry, and the expiry of an ended one is not read.
Moved(g, s) == [grant EXCEPT ![g] = [state |-> s, revision |-> grant[g].revision + 1,
                                     lapsed |-> FALSE]]
EnqueueGrantEvent(g, s) == announced' = [announced EXCEPT ![g] = Append(@, s)]

\* A job that ends gives its lease up.
Settled(g, s) == [job EXCEPT ![g] = [state |-> s, holder |-> NoProcess,
                                     live |-> FALSE, attempts |-> job[g].attempts]]

\* lock_activation_lease: the worker still holds the unexpired lease of the job.
LockActivationLease(p, g) ==
  job[g].state = "leased" /\ job[g].holder = p /\ job[g].live

\* complete_activation_job, under that lease.
CompleteActivationJob(g) == job' = Settled(g, "completed")

-----------------------------------------------------------------------------
(* The owner's requests *)

\* create_access_grant: one grant of an actor and an environment is live at a
\* time (a unique index), and it starts with a job to activate it.  A retry
\* under the same idempotency key is answered from the ledger and changes
\* nothing.
CreateAccessGrant(g) ==
  /\ grant[g].state = "none"
  /\ ActiveMembership
  /\ \A h \in Grants : grant[h].state \notin LiveStates
  /\ grant' = [grant EXCEPT ![g] = [state |-> "requested", revision |-> 1, lapsed |-> FALSE]]
  /\ job' = [job EXCEPT ![g].state = "pending"]
  /\ EnqueueGrantEvent(g, "requested")
  /\ UNCHANGED <<worker, membership>>

\* renew_access_grant: an active grant, at the revision the client has seen, is
\* given a later expiry; it may have passed its old one.  The row gets a new
\* revision and no event is written; the membership is not read again.
RenewAccessGrant(g) ==
  /\ grant[g].state = "active"
  /\ grant[g].revision < MaxRevision
  /\ grant' = [grant EXCEPT ![g] = [state |-> "active", revision |-> grant[g].revision + 1,
                                    lapsed |-> FALSE]]
  /\ UNCHANGED <<job, worker, membership, announced>>

\* The grant half of revoke_access_grant.
RevokeGrantRow(g) ==
  /\ grant[g].state \in LiveStates
  /\ grant' = Moved(g, "revoked")
  /\ EnqueueGrantEvent(g, "revoked")
  /\ UNCHANGED <<job, worker, membership>>

\* The grant half of revoke_environment_grants: every live grant of the
\* environment, in one transaction.
RevokeEnvironmentRows ==
  LET live == {g \in Grants : grant[g].state \in LiveStates}
  IN  /\ live # {}
      /\ grant' = [g \in Grants |-> IF g \in live THEN Moved(g, "revoked")[g] ELSE grant[g]]
      /\ announced' = [g \in Grants |-> IF g \in live THEN Append(announced[g], "revoked")
                                                     ELSE announced[g]]
      /\ UNCHANGED <<job, worker, membership>>

\* The grant half of expire_grants: only an active grant expires.
ExpireGrantRow(g) ==
  /\ grant[g].state = "active" /\ grant[g].lapsed
  /\ grant' = Moved(g, "expired")
  /\ EnqueueGrantEvent(g, "expired")
  /\ UNCHANGED <<job, worker, membership>>

-----------------------------------------------------------------------------
(* The activation workers *)

\* activate_one takes a job that is due, or one whose lease has run out.
ClaimActivation(p, g) ==
  /\ worker[p] = IdleWorker
  /\ job[g].state \in {"pending", "retry"} \/ (job[g].state = "leased" /\ ~job[g].live)
  /\ job' = [job EXCEPT ![g] = [state |-> "leased", holder |-> p, live |-> TRUE,
                                attempts |-> job[g].attempts]]
  /\ worker' = [worker EXCEPT ![p] = [step |-> "claimed", grant |-> g, answer |-> "none"]]
  /\ UNCHANGED <<grant, membership, announced>>

\* activate_one reads the grant: one that is not requested any more needs no
\* activation, and its job is completed if the lease is still held.
CompleteInactiveGrant(p) ==
  LET g == worker[p].grant
  IN  /\ worker[p].step = "claimed"
      /\ grant[g].state # "requested"
      /\ IF LockActivationLease(p, g) THEN CompleteActivationJob(g) ELSE UNCHANGED job
      /\ worker' = [worker EXCEPT ![p] = IdleWorker]
      /\ UNCHANGED <<grant, membership, announced>>

\* resolve_endpoint_eligibility of the Environment Service, outside any
\* transaction: the endpoints are eligible (their eligibility may have run out
\* when the answer is used), denied, or the service does not answer.
ResolveEligibility(p, answer) ==
  /\ worker[p].step = "claimed"
  /\ grant[worker[p].grant].state = "requested"
  /\ worker' = [worker EXCEPT ![p] = [step |-> "answered", grant |-> worker[p].grant,
                                      answer |-> answer]]
  /\ UNCHANGED <<grant, job, membership, announced>>

\* deny_grant_tx: the grant and its job end together.
DenyGrantTx(g) ==
  /\ grant' = Moved(g, "denied")
  /\ job' = Settled(g, "failed")
  /\ EnqueueGrantEvent(g, "denied")

\* Mutant: a worker that has lost its lease completes the job.
ActivateGrantStale(p) ==
  LET g == worker[p].grant
  IN  /\ worker[p].step = "answered"
      /\ worker[p].answer \in {"eligible", "expired"}
      /\ \/ /\ ~LockActivationLease(p, g)
            /\ CompleteActivationJob(g)
            /\ UNCHANGED <<grant, announced>>
         \/ /\ LockActivationLease(p, g)
            /\ grant[g].state = "requested"
            /\ grant' = Moved(g, "active")
            /\ CompleteActivationJob(g)
            /\ EnqueueGrantEvent(g, "active")
      /\ worker' = [worker EXCEPT ![p] = IdleWorker]
      /\ UNCHANGED membership

\* Mutant: the state of the grant is not read again under the lease.
ActivateGrantUnread(p) ==
  LET g == worker[p].grant
  IN  /\ worker[p].step = "answered"
      /\ worker[p].answer \in {"eligible", "expired"}
      /\ LockActivationLease(p, g)
      /\ grant' = Moved(g, "active")
      /\ CompleteActivationJob(g)
      /\ EnqueueGrantEvent(g, "active")
      /\ worker' = [worker EXCEPT ![p] = IdleWorker]
      /\ UNCHANGED membership

\* activate_grant: fenced by the lease, and by the state of the grant.
ActivateGrant(p) ==
  LET g == worker[p].grant
  IN  /\ worker[p].step = "answered"
      /\ worker[p].answer \in {"eligible", "expired"}
      /\ \/ /\ ~LockActivationLease(p, g)
            /\ UNCHANGED <<grant, job, announced>>
         \/ /\ LockActivationLease(p, g)
            /\ grant[g].state # "requested"
            /\ CompleteActivationJob(g)
            /\ UNCHANGED <<grant, announced>>
         \/ /\ LockActivationLease(p, g)
            /\ grant[g].state = "requested"
            /\ grant[g].lapsed \/ worker[p].answer = "expired"
            /\ DenyGrantTx(g)
         \/ /\ LockActivationLease(p, g)
            /\ grant[g].state = "requested"
            /\ ~grant[g].lapsed /\ worker[p].answer = "eligible"
            /\ grant' = Moved(g, "active")
            /\ CompleteActivationJob(g)
            /\ EnqueueGrantEvent(g, "active")
      /\ worker' = [worker EXCEPT ![p] = IdleWorker]
      /\ UNCHANGED membership

\* deny_grant: a grant that is not requested any more rolls the denial back, and
\* its job stays leased until the lease runs out.
DenyGrant(p) ==
  LET g == worker[p].grant
  IN  /\ worker[p].step = "answered" /\ worker[p].answer = "denied"
      /\ IF LockActivationLease(p, g) /\ grant[g].state = "requested"
           THEN DenyGrantTx(g)
           ELSE UNCHANGED <<grant, job, announced>>
      /\ worker' = [worker EXCEPT ![p] = IdleWorker]
      /\ UNCHANGED membership

\* retry_activation: after activation_max_attempts the job fails; the grant is
\* left requested.  A grant that is not requested any more rolls it back.
RetryActivation(p) ==
  LET g         == worker[p].grant
      exhausted == job[g].attempts + 1 >= MaxAttempts
  IN  /\ worker[p].step = "answered" /\ worker[p].answer = "unavailable"
      /\ IF LockActivationLease(p, g) /\ grant[g].state = "requested"
           THEN job' = [job EXCEPT ![g] = [state |-> IF exhausted THEN "failed" ELSE "retry",
                                           holder |-> NoProcess, live |-> FALSE,
                                           attempts |-> job[g].attempts + 1]]
           ELSE UNCHANGED job
      /\ worker' = [worker EXCEPT ![p] = IdleWorker]
      /\ UNCHANGED <<grant, membership, announced>>

-----------------------------------------------------------------------------
(* Time and the world *)

\* expires_at of a live grant is reached.
GrantLapses(g) ==
  /\ grant[g].state \in LiveStates /\ ~grant[g].lapsed
  /\ grant' = [grant EXCEPT ![g].lapsed = TRUE]
  /\ UNCHANGED <<job, worker, membership, announced>>

\* lease_expires_at of a leased job is reached.
LeaseLapses(g) ==
  /\ job[g].state = "leased" /\ job[g].live
  /\ job' = [job EXCEPT ![g].live = FALSE]
  /\ UNCHANGED <<grant, worker, membership, announced>>

\* The course ends the actor's membership; no grant and no session is touched.
MembershipEnds ==
  /\ membership
  /\ membership' = FALSE
  /\ UNCHANGED <<grant, job, worker, announced>>

\* The steps of a worker that has taken a job.
WorkerStep(p) ==
  \/ CompleteInactiveGrant(p)
  \/ \E a \in Answers : ResolveEligibility(p, a)
  \/ ActivateGrant(p)
  \/ DenyGrant(p)
  \/ RetryActivation(p)

\* From the request of a grant to its decision.
ActivationStep ==
  \/ \E g \in Grants : CreateAccessGrant(g) \/ LeaseLapses(g)
  \/ \E p \in Processes, g \in Grants : ClaimActivation(p, g)
  \/ \E p \in Processes : WorkerStep(p)

\* What happens to a grant besides.
GrantStep ==
  \/ \E g \in Grants : RenewAccessGrant(g) \/ GrantLapses(g)
  \/ MembershipEnds
=============================================================================
