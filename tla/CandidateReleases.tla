------------------------- MODULE CandidateReleases -------------------------
(***************************************************************************)
(* From a candidate to a release, in one course of the Control Service:    *)
(* the course's policies, the teachers' decisions, the builds that         *)
(* approvals request, their results, and the releases of environments and  *)
(* evaluations.                                                            *)
(*                                                                         *)
(* A desk is one handler, in a process deployed with some trust revision:  *)
(* processes of an old and of a new deployment serve at the same time.  A  *)
(* transaction that reads and then writes is two steps here, with the      *)
(* locks it holds in between: the advisory lock of the course              *)
(* (activate_policy, create_release), the candidate's row for update       *)
(* (decide_candidate) or shared (create_release).                          *)
(***************************************************************************)
EXTENDS Naturals, Sequences

CONSTANTS
  ContainerCandidates,   \* environment candidates with a container to build
  MachineCandidates,     \* environment candidates on the deployment's base disk
  EvaluationCandidates,  \* evaluation candidates
  Desks,                 \* handlers
  MaxPolicies,           \* bound: revisions of the course's policy
  MaxTrust,              \* bound: trust revisions of deployments
  MaxReleases            \* bound: releases of the course

ASSUME ReleaseAssumption == MaxPolicies \in Nat /\ MaxTrust \in Nat \ {0}

VARIABLES
  activePolicy,       \* revision of the policy with superseded_at NULL, 0: none
  trustRevision,      \* ControlConfig.trust_revision of each desk's process
  candidatePolicy,    \* policy_revision of control.candidates, 0: no row
  approval,           \* control.candidate_approvals
  build,              \* control.container_build_projections
  agentBuild,         \* how the build ended in agent.container_build_requests
  unsettled,          \* JetStream: the candidates whose build event is still to be delivered
  desk,               \* the transaction of each handler
  releases,           \* control.environment_template_releases in version order
  evaluationReleases, \* the releases of the Evaluation Service
  rejectedBuilds      \* build events in quarantine

releaseVars == <<activePolicy, trustRevision, candidatePolicy, approval, build, agentBuild,
                 unsettled, desk, releases, evaluationReleases, rejectedBuilds>>

-----------------------------------------------------------------------------

EnvironmentCandidates == ContainerCandidates \cup MachineCandidates
Candidates == EnvironmentCandidates \cup EvaluationCandidates

Decisions == {"approved", "rejected", "withdrawn"}
NoApproval == [decision |-> "none", policy |-> 0, trust |-> 0]
Approvals == [decision : Decisions \cup {"none"}, policy : 0..MaxPolicies, trust : 0..MaxTrust]

FreeDesk == [does |-> "nothing"]
DeskStates ==
  {FreeDesk} \cup [does : {"decide"}, candidate : Candidates, decision : Decisions]
  \cup [does : {"release", "publish"}, candidate : Candidates]

BuildStates == {"none", "requested", "succeeded", "failed", "cancelled"}

ReleaseTypeOK ==
  /\ activePolicy \in 0..MaxPolicies
  /\ trustRevision \in [Desks -> 1..MaxTrust]
  /\ candidatePolicy \in [Candidates -> 0..MaxPolicies]
  /\ approval \in [Candidates -> Approvals]
  /\ build \in [ContainerCandidates -> BuildStates]
  /\ agentBuild \in [ContainerCandidates -> BuildStates]
  /\ unsettled \subseteq ContainerCandidates
  /\ desk \in [Desks -> DeskStates]
  /\ releases \in Seq([candidate : EnvironmentCandidates, withdrawn : BOOLEAN])
  /\ evaluationReleases \subseteq EvaluationCandidates
  /\ rejectedBuilds \subseteq ContainerCandidates

ReleaseInit ==
  /\ activePolicy = 0
  /\ trustRevision = [d \in Desks |-> 1]
  /\ candidatePolicy = [c \in Candidates |-> 0]
  /\ approval = [c \in Candidates |-> NoApproval]
  /\ build = [c \in ContainerCandidates |-> "none"]
  /\ agentBuild = [c \in ContainerCandidates |-> "none"]
  /\ unsettled = {}
  /\ desk = [d \in Desks |-> FreeDesk]
  /\ releases = <<>>
  /\ evaluationReleases = {}
  /\ rejectedBuilds = {}

-----------------------------------------------------------------------------
(* Locks *)

\* pg_advisory_xact_lock of the course.
CourseLockFree == \A d \in Desks : desk[d].does # "release"

\* SELECT ... FOR UPDATE of the candidate waits for any lock on the row,
ForUpdate(c) == \A d \in Desks : desk[d].does \in {"decide", "release"} => desk[d].candidate # c

\* FOR SHARE for one that is held for update.
ForShare(c) == \A d \in Desks : desk[d].does = "decide" => desk[d].candidate # c

-----------------------------------------------------------------------------
(* Policies and candidates *)

\* Mutant: a policy is activated without the lock of the course.
ActivatePolicyUnlocked ==
  /\ activePolicy < MaxPolicies
  /\ activePolicy' = activePolicy + 1
  /\ UNCHANGED <<trustRevision, candidatePolicy, approval, build, agentBuild, unsettled, desk,
                 releases, evaluationReleases, rejectedBuilds>>

\* activate_policy: the active policy is superseded by the next revision, under
\* the lock of the course.
ActivatePolicy ==
  /\ CourseLockFree
  /\ activePolicy < MaxPolicies
  /\ activePolicy' = activePolicy + 1
  /\ UNCHANGED <<trustRevision, candidatePolicy, approval, build, agentBuild, unsettled, desk,
                 releases, evaluationReleases, rejectedBuilds>>

\* One process is replaced by one deployed with another trust revision; the others go on.
Redeploy(d) ==
  /\ desk[d] = FreeDesk
  /\ \E revision \in 1..MaxTrust \ {trustRevision[d]} :
       trustRevision' = [trustRevision EXCEPT ![d] = revision]
  /\ UNCHANGED <<activePolicy, candidatePolicy, approval, build, agentBuild, unsettled, desk,
                 releases, evaluationReleases, rejectedBuilds>>

\* insert_candidate, of a candidate generated under a policy that was active once.
\* The same candidate again leaves the row as it is.
InsertCandidate(c) ==
  /\ candidatePolicy[c] = 0
  /\ \E revision \in 1..activePolicy : candidatePolicy' = [candidatePolicy EXCEPT ![c] = revision]
  /\ UNCHANGED <<activePolicy, trustRevision, approval, build, agentBuild, unsettled, desk,
                 releases, evaluationReleases, rejectedBuilds>>

-----------------------------------------------------------------------------
(* decide_candidate *)

\* The candidate's row is locked and compared with the request, which names the
\* candidate's policy and this process's trust revision; that policy is the active one.
DecideReads(d, c, decision) ==
  /\ desk[d] = FreeDesk
  /\ ForUpdate(c)
  /\ candidatePolicy[c] # 0 /\ candidatePolicy[c] = activePolicy
  /\ approval[c] = NoApproval
  /\ desk' = [desk EXCEPT ![d] = [does |-> "decide", candidate |-> c, decision |-> decision]]
  /\ UNCHANGED <<activePolicy, trustRevision, candidatePolicy, approval, build, agentBuild,
                 unsettled, releases, evaluationReleases, rejectedBuilds>>

\* An approved container candidate has its build requested, with the event to the
\* Agent Service, in the transaction of the decision.
RequestBuild(c, decision) ==
  build' = IF c \in ContainerCandidates /\ decision = "approved"
           THEN [build EXCEPT ![c] = "requested"] ELSE build

\* The decision is appended, the only one of the candidate's revision.
DecideCommits(d) ==
  /\ desk[d].does = "decide"
  /\ LET c == desk[d].candidate
     IN /\ approval' = [approval EXCEPT ![c] =
             [decision |-> desk[d].decision, policy |-> candidatePolicy[c],
              trust |-> trustRevision[d]]]
        /\ RequestBuild(c, desk[d].decision)
  /\ desk' = [desk EXCEPT ![d] = FreeDesk]
  /\ UNCHANGED <<activePolicy, trustRevision, candidatePolicy, agentBuild, unsettled, releases,
                 evaluationReleases, rejectedBuilds>>

-----------------------------------------------------------------------------
(* Results of builds *)

\* The Agent Service ends the build it was asked for, once, with the event that announces
\* it (AgentBuilds has the rest).
AgentEndsBuild(c, verdict) ==
  /\ build[c] # "none" /\ agentBuild[c] = "none"
  /\ agentBuild' = [agentBuild EXCEPT ![c] = verdict]
  /\ unsettled' = unsettled \cup {c}
  /\ UNCHANGED <<activePolicy, trustRevision, candidatePolicy, approval, build, desk, releases,
                 evaluationReleases, rejectedBuilds>>

\* double_ack, which may be lost, or a Nak: the event is delivered again, unless this was
\* the last of the deliveries its durable consumer is created with (--max-deliver).  Their
\* number is left open: any delivery may be the last.
SettleOrReturn(c) == unsettled' \in {unsettled, unsettled \ {c}}

\* What AgentClient::artifact answers: send_json by the status, and its error.
Readback == {"resolution", "unavailable", "denied", "rejected"}

\* project_artifact: a requested build succeeds; one that has succeeded with this
\* artifact is left as it is.
ProjectArtifact(c) ==
  /\ build[c] \in {"requested", "succeeded"}
  /\ build' = [build EXCEPT ![c] = "succeeded"]

\* The completed event: the artifact is read back from the Agent Service.  The
\* message is returned when the service cannot answer; a refusal of Control's
\* identity ends the process and leaves the message; any other error sends it to
\* quarantine, as does a build in another state.
ConsumeBuildCompleted(c, answer) ==
  /\ c \in unsettled /\ agentBuild[c] = "succeeded"
  /\ \/ /\ answer = "resolution"
        /\ ProjectArtifact(c)
        /\ SettleOrReturn(c)
        /\ UNCHANGED rejectedBuilds
     \/ /\ \/ answer = "rejected"
           \/ answer = "resolution" /\ build[c] \notin {"requested", "succeeded"}
        /\ rejectedBuilds' = rejectedBuilds \cup {c}
        /\ unsettled' = unsettled \ {c}
        /\ UNCHANGED build
     \/ /\ answer \in {"unavailable", "denied"}
        /\ SettleOrReturn(c)
        /\ UNCHANGED <<build, rejectedBuilds>>
  /\ UNCHANGED <<activePolicy, trustRevision, candidatePolicy, approval, agentBuild, desk,
                 releases, evaluationReleases>>

\* project_build_failure: a requested build ends; one in this state is left.
ProjectBuildFailure(c) == build' = [build EXCEPT ![c] = agentBuild[c]]

\* The failed event, whose diagnostic tells a cancelled build.  A build in another state
\* sends it to quarantine.
ConsumeBuildFailed(c) ==
  /\ c \in unsettled /\ agentBuild[c] \in {"failed", "cancelled"}
  /\ IF build[c] \in {"requested", agentBuild[c]}
     THEN ProjectBuildFailure(c) /\ SettleOrReturn(c) /\ UNCHANGED rejectedBuilds
     ELSE /\ rejectedBuilds' = rejectedBuilds \cup {c}
          /\ unsettled' = unsettled \ {c}
          /\ UNCHANGED build
  /\ UNCHANGED <<activePolicy, trustRevision, candidatePolicy, approval, agentBuild, desk,
                 releases, evaluationReleases>>

-----------------------------------------------------------------------------
(* Releases *)

\* CandidateApproval::is_release_eligible, asked with the active policy and the trust
\* revision of the desk's process.
IsReleaseEligible(d, c) ==
  /\ approval[c].decision = "approved"
  /\ approval[c].policy = activePolicy
  /\ approval[c].trust = trustRevision[d]

\* The artifact of the release: of the build that this approval requested, or the
\* base disk of the deployment.
ArtifactAvailable(c) == c \in ContainerCandidates => build[c] = "succeeded"

\* create_release, under the lock of the course: the candidate, its approval, the
\* active policy and the artifact are read and compared.
ReleaseReads(d, c) ==
  /\ desk[d] = FreeDesk
  /\ CourseLockFree /\ ForShare(c)
  /\ candidatePolicy[c] # 0
  /\ IsReleaseEligible(d, c) /\ candidatePolicy[c] = approval[c].policy
  /\ ArtifactAvailable(c)
  /\ Len(releases) < MaxReleases
  /\ desk' = [desk EXCEPT ![d] = [does |-> "release", candidate |-> c]]
  /\ UNCHANGED <<activePolicy, trustRevision, candidatePolicy, approval, build, agentBuild,
                 unsettled, releases, evaluationReleases, rejectedBuilds>>

\* The release gets the next version of the course and its event is enqueued.
ReleaseCommits(d) ==
  /\ desk[d].does = "release"
  /\ releases' = Append(releases, [candidate |-> desk[d].candidate, withdrawn |-> FALSE])
  /\ desk' = [desk EXCEPT ![d] = FreeDesk]
  /\ UNCHANGED <<activePolicy, trustRevision, candidatePolicy, approval, build, agentBuild,
                 unsettled, evaluationReleases, rejectedBuilds>>

\* withdraw_release: a fact beside the release, once.
WithdrawVersion(v) ==
  /\ ~releases[v].withdrawn
  /\ releases' = [releases EXCEPT ![v].withdrawn = TRUE]
  /\ UNCHANGED <<activePolicy, trustRevision, candidatePolicy, approval, build, agentBuild,
                 unsettled, desk, evaluationReleases, rejectedBuilds>>

\* prepare_evaluation_release: the same checks without any lock, and the command
\* for the Evaluation Service.
PrepareEvaluationRelease(d, c) ==
  /\ desk[d] = FreeDesk
  /\ candidatePolicy[c] # 0 /\ IsReleaseEligible(d, c)
  /\ desk' = [desk EXCEPT ![d] = [does |-> "publish", candidate |-> c]]
  /\ UNCHANGED <<activePolicy, trustRevision, candidatePolicy, approval, build, agentBuild,
                 unsettled, releases, evaluationReleases, rejectedBuilds>>

\* create_evaluation_release: the Evaluation Service publishes what it is sent.
PublishEvaluationRelease(d) ==
  /\ desk[d].does = "publish"
  /\ evaluationReleases' = evaluationReleases \cup {desk[d].candidate}
  /\ desk' = [desk EXCEPT ![d] = FreeDesk]
  /\ UNCHANGED <<activePolicy, trustRevision, candidatePolicy, approval, build, agentBuild,
                 unsettled, releases, rejectedBuilds>>

\* An error or the end of the process: the transaction is rolled back.
DeskAborts(d) ==
  /\ desk[d] # FreeDesk
  /\ desk' = [desk EXCEPT ![d] = FreeDesk]
  /\ UNCHANGED <<activePolicy, trustRevision, candidatePolicy, approval, build, agentBuild,
                 unsettled, releases, evaluationReleases, rejectedBuilds>>

-----------------------------------------------------------------------------

ReleaseStep ==
  \/ ActivatePolicy
  \/ \E c \in Candidates : InsertCandidate(c)
  \/ \E c \in ContainerCandidates :
       \/ \E verdict \in {"succeeded", "failed", "cancelled"} : AgentEndsBuild(c, verdict)
       \/ \E answer \in Readback : ConsumeBuildCompleted(c, answer)
       \/ ConsumeBuildFailed(c)
  \/ \E d \in Desks :
       \/ Redeploy(d)
       \/ \E c \in Candidates, decision \in Decisions : DecideReads(d, c, decision)
       \/ \E c \in EnvironmentCandidates : ReleaseReads(d, c)
       \/ \E c \in EvaluationCandidates : PrepareEvaluationRelease(d, c)
       \/ DecideCommits(d) \/ ReleaseCommits(d) \/ PublishEvaluationRelease(d) \/ DeskAborts(d)
  \/ \E v \in 1..Len(releases) : WithdrawVersion(v)

-----------------------------------------------------------------------------
(* Properties *)

\* A release is current when it is committed: its candidate is approved under the policy
\* that is active at that moment, for which the candidate was generated, and under the trust
\* revision of the process that commits, and a container comes from a build that succeeded,
\* also when a policy is activated, a result arrives or another process is redeployed
\* between create_release's checks and its commit.
ReleaseCurrent ==
  [][\A v \in DOMAIN releases' \ DOMAIN releases :
       LET c == releases'[v].candidate
       IN /\ \E d \in Desks : desk'[d] # desk[d] /\ IsReleaseEligible(d, c)
          /\ candidatePolicy[c] = activePolicy
          /\ c \in ContainerCandidates => build[c] = "succeeded"]_releaseVars

\* A decision stands: of two teachers who decide at the same time one is refused, and an
\* approval is never replaced (decide_candidate's row lock and the unique revision).
DecisionStands ==
  [][\A c \in Candidates : approval[c] # NoApproval => approval'[c] = approval[c]]_releaseVars

\* A build belongs to an approval: one is requested for the approved container candidates
\* and no others, in one transaction with the decision.
BuildOfApproval ==
  \A c \in ContainerCandidates : build[c] # "none" <=> approval[c].decision = "approved"

\* A build's result stands and is the Agent Service's, however often and in whatever state
\* its event is delivered (project_artifact, project_build_failure).
BuildVerdictHolds ==
  /\ \A c \in ContainerCandidates : build[c] \in {"none", "requested", agentBuild[c]}
  /\ \A c \in rejectedBuilds : build[c] \in {"requested", "succeeded"}

=============================================================================
