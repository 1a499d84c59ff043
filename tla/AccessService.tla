---------------------------- MODULE AccessService ----------------------------
(***************************************************************************)
(* The Access Service: its grants, SSH sessions and consoles, in several   *)
(* processes over one database.  This module adds the operations that      *)
(* change the rows of more than one of them, and the properties of the     *)
(* whole.  A behaviour is about the requests for grants, or about the      *)
(* SSH or the browser clients of a grant that has been activated (one      *)
(* browser while the environment moves, or a crowd at the capacity limit): *)
(* these share only the grant's row, and are explored one at a time.       *)
(***************************************************************************)
EXTENDS GatewaySessions, ConsoleSessions

CONSTANT MaxStops   \* bound on the number of times a process stops

ASSUME StopsConstant == MaxStops \in Nat

VARIABLES client,   \* whose requests the behaviour is about
          stops     \* how often a process has stopped

vars == <<grantVars, gatewayVars, consoleVars, client, stops>>

Clients == {"owner", "ssh", "browser", "crowd"}

\* A grant that has been requested and activated.
ActivatedInit(g) ==
  /\ grant = [h \in Grants |-> IF h = g
       THEN [state |-> "active", revision |-> 2, lapsed |-> FALSE]
       ELSE [state |-> "none", revision |-> 0, lapsed |-> FALSE]]
  /\ job = [h \in Grants |-> [state |-> IF h = g THEN "completed" ELSE "none",
                              holder |-> NoProcess, live |-> FALSE, attempts |-> 0]]
  /\ worker = [p \in Processes |-> IdleWorker]
  /\ membership = TRUE
  /\ announced = [h \in Grants |-> IF h = g THEN <<"requested", "active">> ELSE <<>>]

Init ==
  /\ client \in Clients
  /\ stops = 0
  /\ IF client = "owner" THEN GrantInit ELSE ActivatedInit(CHOOSE g \in Grants : TRUE)
  /\ GatewayInit
  /\ ConsoleInit

\* The consoles opened under a set of grants.
ConsolesOf(gs) == {k \in Consoles : console[k].grant \in gs}

\* terminate_sessions_for_grant: in the transaction that ends the grants, their
\* SSH sessions and their consoles are terminated; afterwards the process that
\* did it cancels its own consoles.
TerminateSessionsForGrants(p, gs) ==
  /\ TerminateGatewaySessions(gs)
  /\ console' = Terminated(ConsolesOf(gs))
  /\ CancelMatching(p, ConsolesOf(gs))
  /\ UNCHANGED <<key, authorization, gateway>>
  /\ UNCHANGED <<bff, loggingOut, environment, watermark, capability, redeeming>>

\* revoke_access_grant, served by process p.
RevokeAccessGrant(p, g) == RevokeGrantRow(g) /\ TerminateSessionsForGrants(p, {g})

\* environment_revocation_loop: the Environment Service asks for it before it
\* stops, restarts, deletes or expires the environment.
RevokeEnvironmentGrants(p) ==
  /\ RevokeEnvironmentRows
  /\ TerminateSessionsForGrants(p, {g \in Grants : grant[g].state \in LiveStates})

\* expire_grants of process p's maintenance, one grant a transaction.
ExpireGrant(p, g) == ExpireGrantRow(g) /\ TerminateSessionsForGrants(p, {g})

\* mark_overdue: one transaction for both kinds of session.
MarkOverdue(cs, ks) ==
  /\ cs # {} \/ ks # {}
  /\ \A c \in cs : session[c].state = "terminating"
  /\ \A k \in ks : console[k].state = "terminating"
  /\ MarkGatewayOverdue(cs)
  /\ MarkConsoleOverdue(ks)
  /\ UNCHANGED <<key, authorization, gateway, grantVars>>
  /\ UNCHANGED <<bff, loggingOut, environment, watermark, capability, redeeming, bridge>>

\* A process stops: whatever it held in memory is gone; another one is started
\* in its place, under a new owner name.
ProcessStops(p) ==
  /\ stops < MaxStops
  /\ stops' = stops + 1
  /\ worker' = [worker EXCEPT ![p] = IdleWorker]
  /\ BridgesLost(p)
  /\ UNCHANGED <<grant, job, membership, announced, gatewayVars>>

\* A step of one actor on the rows of one part.
PartStep ==
  \/ client # "crowd" /\ GrantStep /\ UNCHANGED <<gatewayVars, consoleVars>>
  \/ client = "owner" /\ ActivationStep /\ UNCHANGED <<gatewayVars, consoleVars>>
  \/ client = "ssh" /\ GatewayStep /\ UNCHANGED <<grantVars, consoleVars>>
  \/ /\ \/ client = "browser" /\ (ConsoleStep({CHOOSE k \in Consoles : TRUE}) \/ EnvironmentMoves)
        \/ client = "crowd" /\ ConsoleStep(Consoles)
     /\ UNCHANGED <<grantVars, gatewayVars>>

\* A step that ends grants, or sessions of both kinds.
EndingStep ==
  \/ \E p \in Processes, g \in Grants : RevokeAccessGrant(p, g) \/ ExpireGrant(p, g)
  \/ \E p \in Processes : RevokeEnvironmentGrants(p)
  \/ \E cs \in SUBSET Connections, ks \in SUBSET Consoles : MarkOverdue(cs, ks)

Next ==
  /\ UNCHANGED client
  /\ \/ (PartStep \/ EndingStep) /\ UNCHANGED stops
     \/ \E p \in Processes : ProcessStops(p)

\* What runs by itself: the gateway's heartbeat timer and its last request, the
\* task of a bridge, and the periodic maintenance of each process.
Fairness ==
  /\ \A c \in Connections :
       WF_vars(GatewayProcessStep(c) /\ UNCHANGED <<grantVars, consoleVars, client, stops>>)
  /\ \A k \in Consoles :
       WF_vars(BridgeStep(k) /\ UNCHANGED <<grantVars, gatewayVars, client, stops>>)
  /\ \A p \in Processes :
       WF_vars(CancelOwnedTerminating(p) /\ UNCHANGED <<grantVars, gatewayVars, client, stops>>)

Spec == Init /\ [][Next]_vars /\ Fairness

-----------------------------------------------------------------------------
(* Properties *)

\* Every row and every process holds a value of its type.
TypeOK ==
  /\ GrantTypeOK /\ GatewayTypeOK /\ ConsoleTypeOK
  /\ client \in Clients /\ stops \in 0..MaxStops

\* An SSH session row is active only while its grant is active and the key it was
\* opened with is not revoked: the share locks of create_gateway_session and the
\* terminations in the revoking transactions leave no gap between them.
SshUnderLiveGrant ==
  \A c \in Connections :
    session[c].state = "active" => grant[session[c].grant].state = "active" /\ key = "registered"

\* A console is active only at the newest environment revision that the service
\* has applied, though a redemption never reads that revision: the check of the
\* environment's bridge, the activation of opening sessions only and the drift
\* event close every order between them.
ActiveConsoleCurrent ==
  \A k \in Consoles : console[k].state = "active" => console[k].environment >= watermark

\* The sessions that hold a console never exceed max_console_sessions, in all
\* processes together: the count is taken and the row written under one lock.
CapacityHeld == Cardinality({k \in Consoles : console[k].state \in HeldStates}) <= MaxConsoles

\* A grant that is still requested has a job that will decide it, unless the job
\* has used up its attempts; a worker whose lease has run out never settles it.
RequestPursued ==
  \A g \in Grants :
    grant[g].state = "requested" =>
      \/ job[g].state \in {"pending", "retry", "leased"}
      \/ job[g].state = "failed" /\ job[g].attempts = MaxAttempts

\* The last event written for a grant announces the state of its row.
AnnouncedFollows ==
  \A g \in Grants :
    grant[g].state # "none" =>
      announced[g] # <<>> /\ announced[g][Len(announced[g])] = grant[g].state

\* A grant that is denied, expired or revoked stays so, whatever an activation
\* worker that started before finds out afterwards.
EndedGrantsStay ==
  [][\A g \in Grants : grant[g].state \in TerminalStates =>
                         grant'[g].state = grant[g].state]_vars

\* The shell of an SSH session that is to be terminated is killed: the next
\* heartbeat of its gateway is refused.
RevokedShellEnds ==
  \A c \in Connections :
    session[c].state \in {"terminating", "termination_overdue"} /\ gateway[c].phase = "running"
      ~> gateway[c].phase # "running"

\* A terminated console is cut off by the process that bridges it, whichever
\* process terminated it and however far its bridge had got.
TerminatedConsoleEnds ==
  \A k \in Consoles :
    console[k].state \in {"terminating", "termination_overdue"}
      ~> bridge[k].phase \notin {"opened", "registered", "accepted", "relaying"}

\* No session without its authority: an open shell has a live grant and key, an open console
\* the current environment, and no more consoles are open than the limit allows.
SessionsAuthorized == TypeOK /\ SshUnderLiveGrant /\ ActiveConsoleCurrent /\ CapacityHeld

\* A grant is pursued until it is decided, and its consumers have been told what it is.
GrantsFollowed == RequestPursued /\ AnnouncedFollows


=============================================================================
