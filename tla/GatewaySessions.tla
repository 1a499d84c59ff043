--------------------------- MODULE GatewaySessions ---------------------------
(***************************************************************************)
(* SSH access: the actor's public key, the one-time authorizations and the *)
(* session rows of the Access Service (services/access-service/src/        *)
(* grants.rs) and the OpenSSH gateway process of each connection           *)
(* (access-gateway/src/main.rs), which talks to the service over a network *)
(* that may lose a request or its answer.                                  *)
(***************************************************************************)
EXTENDS AccessGrants

CONSTANTS Connections,         \* SSH connections arriving at a gateway
          MaxSessionRevision   \* bound: heartbeats stop when a revision reaches it

ASSUME GatewayConstants == MaxSessionRevision \in Nat \ {0}

VARIABLES
  key,            \* the actor's key: absent, registered or revoked
  authorization,  \* access.ssh_authorizations, one per connection
  session,        \* access.gateway_sessions, one per connection
  gateway         \* the gateway's forced command of each connection

gatewayVars == <<key, authorization, session, gateway>>

SessionEnded == {"none", "closed"}
NoSession == [state |-> "none", revision |-> 0, grant |-> NoGrant]

GatewayTypeOK ==
  /\ key \in {"absent", "registered", "revoked"}
  /\ authorization \in [Connections -> {"none", "issued", "consumed", "expired"}]
  /\ session \in [Connections -> [state : {"none", "active", "terminating",
                                           "termination_overdue", "closed"},
                                  revision : 0..MaxSessionRevision + 3,
                                  grant : Grants \cup {NoGrant}]]
  /\ gateway \in [Connections -> [phase : {"idle", "authorized", "running", "closing", "ended"},
                                  known : 0..MaxSessionRevision + 3]]

GatewayInit ==
  /\ key = "absent"
  /\ authorization = [c \in Connections |-> "none"]
  /\ session = [c \in Connections |-> NoSession]
  /\ gateway = [c \in Connections |-> [phase |-> "idle", known |-> 0]]

Phase(c, phase, known) == gateway' = [gateway EXCEPT ![c] = [phase |-> phase, known |-> known]]

\* A session row in its next state, at its next revision.
SessionMoved(c, s) ==
  [state |-> s, revision |-> session[c].revision + 1, grant |-> session[c].grant]

-----------------------------------------------------------------------------
(* Keys *)

\* create_ssh_key: a fingerprint is registered once.
CreateSshKey ==
  /\ key = "absent"
  /\ key' = "registered"
  /\ UNCHANGED <<authorization, session, gateway>>

\* terminate_sessions_for_key: the active sessions of the key.
TerminateSessionsForKey ==
  session' = [c \in Connections |-> IF session[c].state = "active"
                                      THEN SessionMoved(c, "terminating") ELSE session[c]]

\* delete_ssh_key: the key and its sessions in one transaction.
DeleteSshKey ==
  /\ key = "registered"
  /\ key' = "revoked"
  /\ TerminateSessionsForKey
  /\ UNCHANGED <<authorization, gateway>>

\* terminate_sessions_for_grant, the gateway half: the active sessions of a set
\* of grants.
TerminateGatewaySessions(gs) ==
  session' = [c \in Connections |->
                IF session[c].state = "active" /\ session[c].grant \in gs
                  THEN SessionMoved(c, "terminating") ELSE session[c]]

-----------------------------------------------------------------------------
(* Opening a connection *)

\* authorize_ssh, called by authorized_keys of the gateway: the key is not
\* revoked and its actor has some usable grant; a one-time token is issued.
AuthorizeSsh(c) ==
  /\ gateway[c].phase = "idle"
  /\ key = "registered"
  /\ ActiveMembership
  /\ \E g \in Grants : Usable(g)
  /\ authorization' = [authorization EXCEPT ![c] = "issued"]
  /\ Phase(c, "authorized", 0)
  /\ UNCHANGED <<key, session>>

\* The token's lifetime ends.
AuthorizationExpires(c) ==
  /\ authorization[c] = "issued"
  /\ authorization' = [authorization EXCEPT ![c] = "expired"]
  /\ UNCHANGED <<key, session, gateway>>

\* create_gateway_session: the authorization is consumed once and the grant, the
\* endpoint, the key and the membership are read again and share-locked until
\* the session row is written, so that no revocation commits in between.
\* force_command starts the target's ssh when the answer arrives; when it is
\* lost the process ends and the row stays.
CreateGatewaySession(c, g) ==
  /\ gateway[c].phase = "authorized"
  /\ authorization[c] = "issued"
  /\ key = "registered"
  /\ ActiveMembership
  /\ Usable(g)
  /\ session' = [session EXCEPT ![c] = [state |-> "active", revision |-> 1, grant |-> g]]
  /\ authorization' = [authorization EXCEPT ![c] = "consumed"]
  /\ \/ Phase(c, "running", 1)
     \/ Phase(c, "ended", 1)
  /\ UNCHANGED key

\* force_command ends without a session: the service refuses the request or
\* cannot be reached.
SessionRefused(c) ==
  /\ gateway[c].phase = "authorized"
  /\ Phase(c, "ended", 0)
  /\ UNCHANGED <<key, authorization, session>>

-----------------------------------------------------------------------------
(* A running connection *)

\* heartbeat_gateway_session accepts the revision the gateway has seen.
HeartbeatAccepted(c) ==
  /\ session[c].revision = gateway[c].known
  /\ session[c].state \in {"active", "terminating"}

\* force_command's heartbeat: it goes on while the answer is an active session;
\* any other answer kills the target's ssh and the session is closed next.
Heartbeat(c) ==
  /\ gateway[c].phase = "running"
  /\ \/ /\ HeartbeatAccepted(c)
        /\ gateway[c].known < MaxSessionRevision
        /\ session' = [session EXCEPT ![c] = SessionMoved(c, session[c].state)]
        /\ Phase(c, IF session[c].state = "active" THEN "running" ELSE "closing",
                 gateway[c].known + 1)
     \/ /\ ~HeartbeatAccepted(c)
        /\ Phase(c, "closing", gateway[c].known)
        /\ UNCHANGED session
  /\ UNCHANGED <<key, authorization>>

\* The heartbeat's request or its answer is lost, or the gateway host fails:
\* the process ends, its ssh with it, and nothing is reported.
GatewayLost(c) ==
  /\ gateway[c].phase \in {"running", "closing"}
  /\ \/ UNCHANGED session
     \/ /\ gateway[c].phase = "running"
        /\ HeartbeatAccepted(c)
        /\ gateway[c].known < MaxSessionRevision
        /\ session' = [session EXCEPT ![c] = SessionMoved(c, session[c].state)]
  /\ Phase(c, "ended", gateway[c].known)
  /\ UNCHANGED <<key, authorization>>

\* The target's ssh exits.
TargetExits(c) ==
  /\ gateway[c].phase = "running"
  /\ Phase(c, "closing", gateway[c].known)
  /\ UNCHANGED <<key, authorization, session>>

\* close_gateway_session at the revision the gateway has seen; a refusal ends
\* the process as well.
CloseGatewaySession(c) ==
  /\ gateway[c].phase = "closing"
  /\ IF session[c].revision = gateway[c].known /\ session[c].state \notin SessionEnded
       THEN session' = [session EXCEPT ![c] = SessionMoved(c, "closed")]
       ELSE UNCHANGED session
  /\ Phase(c, "ended", gateway[c].known)
  /\ UNCHANGED <<key, authorization>>

\* mark_overdue, the gateway half: the terminating sessions cs whose terminate_by
\* has passed.
MarkGatewayOverdue(cs) ==
  session' = [c \in Connections |-> IF c \in cs THEN SessionMoved(c, "termination_overdue")
                                               ELSE session[c]]

\* What the gateway process of a connection does by itself.
GatewayProcessStep(c) == Heartbeat(c) \/ CloseGatewaySession(c)

\* The steps that touch no other row than these.
GatewayStep ==
  \/ CreateSshKey
  \/ DeleteSshKey
  \/ \E c \in Connections :
       \/ AuthorizeSsh(c) \/ AuthorizationExpires(c) \/ SessionRefused(c)
       \/ \E g \in Grants : CreateGatewaySession(c, g)
       \/ GatewayProcessStep(c) \/ GatewayLost(c) \/ TargetExits(c)
=============================================================================
