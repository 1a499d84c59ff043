--------------------------- MODULE ConsoleSessions ---------------------------
(***************************************************************************)
(* Browser consoles: the one-time capabilities and session rows of the     *)
(* Access Service (services/access-service/src/console.rs), the bridge     *)
(* that one process runs for each open console, the registry through       *)
(* which that process cancels it, the browser session of the actor         *)
(* (crates/auth/src/repository.rs) and the environment's own check when    *)
(* the bridge connects (services/environment-service/src/                  *)
(* terminal_bridge.rs).                                                    *)
(***************************************************************************)
EXTENDS AccessGrants, FiniteSets

CONSTANTS Consoles,        \* capabilities, each good for one console session
          NoConsole,       \* no redemption is in progress
          MaxConsoles,     \* max_console_sessions
          MaxEnvironment   \* bound on the revisions of the environment

ASSUME ConsoleConstants == /\ NoConsole \notin Consoles
                           /\ MaxConsoles \in Nat \ {0}
                           /\ MaxEnvironment \in Nat \ {0}

VARIABLES
  bff,          \* access.bff_sessions, the actor's browser session
  loggingOut,   \* processes between the two transactions of a logout
  environment,  \* the current revision of the environment
  watermark,    \* access.inbox_watermarks: the last state event applied
  capability,   \* access.console_capabilities
  redeeming,    \* the redemption under the capacity lock
  console,      \* access.console_sessions
  bridge        \* the bridge task of each console, and its registry entry

consoleVars == <<bff, loggingOut, environment, watermark, capability, redeeming, console, bridge>>

OpenStates  == {"opening", "active"}
HeldStates  == OpenStates \cup {"terminating", "termination_overdue"}
NoRedeeming == [console |-> NoConsole, process |-> NoProcess]
NoBridge    == [phase |-> "none", process |-> NoProcess, cancelled |-> FALSE]
\* A capability that cannot be redeemed: what it was bound to is not read.
Spent(s)    == [state |-> s, grant |-> NoGrant, revision |-> 0, environment |-> 0]
NoRow       == [state |-> "none", grant |-> NoGrant, environment |-> 0]

ConsoleTypeOK ==
  /\ bff \in {"live", "ended"}
  /\ loggingOut \in SUBSET Processes
  /\ environment \in 1..MaxEnvironment
  /\ watermark \in 0..MaxEnvironment
  /\ capability \in [Consoles -> [state : {"none", "issued", "consumed", "expired"},
                                  grant : Grants \cup {NoGrant},
                                  revision : 0..MaxRevision + 2,
                                  environment : 0..MaxEnvironment]]
  /\ redeeming \in [console : Consoles \cup {NoConsole}, process : Processes \cup {NoProcess}]
  /\ console \in [Consoles -> [state : HeldStates \cup {"none", "closed"},
                               grant : Grants \cup {NoGrant},
                               environment : 0..MaxEnvironment]]
  /\ bridge \in [Consoles -> [phase : {"none", "opened", "registered", "accepted", "relaying",
                                       "finishing", "ended", "lost"},
                              process : Processes \cup {NoProcess}, cancelled : BOOLEAN]]

ConsoleInit ==
  /\ bff = "live"
  /\ loggingOut = {}
  /\ environment = 1
  /\ watermark = 0
  /\ capability = [k \in Consoles |-> Spent("none")]
  /\ redeeming = NoRedeeming
  /\ console = [k \in Consoles |-> NoRow]
  /\ bridge = [k \in Consoles |-> NoBridge]

-----------------------------------------------------------------------------
(* Rows, registry and events *)

Row(k, s) == [state |-> s, grant |-> console[k].grant,
              environment |-> console[k].environment]
SetRow(k, s) == console' = [console EXCEPT ![k] = Row(k, s)]
BridgePhase(k, phase) ==
  bridge' = [bridge EXCEPT ![k] = [phase |-> phase, process |-> bridge[k].process,
                                   cancelled |-> bridge[k].cancelled]]

\* The UPDATE every termination makes: the open sessions among ks.
Terminated(ks) ==
  [k \in Consoles |-> IF k \in ks /\ console[k].state \in OpenStates
                        THEN Row(k, "terminating") ELSE console[k]]

\* ConsoleRegistry: the consoles registered in process p.
Registered(p) == {k \in Consoles : /\ bridge[k].process = p
                                   /\ bridge[k].phase \in {"registered", "accepted", "relaying",
                                                           "finishing"}}

\* cancel_matching: the registered bridges of p among ks are cancelled.
CancelMatching(p, ks) ==
  bridge' = [k \in Consoles |->
               IF k \in ks \cap Registered(p)
                 THEN [phase |-> bridge[k].phase, process |-> p, cancelled |-> TRUE]
                 ELSE bridge[k]]

-----------------------------------------------------------------------------
(* Capabilities *)

\* resolve_availability: a usable grant, an active membership, and an environment
\* that is eligible at the revision the capability will be bound to.
ResolveAvailability(g) == Usable(g) /\ ActiveMembership

\* issue_capability and insert_capability, whose INSERT reads the grant, the
\* browser session and the membership again.  The capability is bound to the
\* revisions of the grant and of the environment.
IssueCapability(k, g) ==
  /\ capability[k].state = "none"
  /\ bff = "live"
  /\ ResolveAvailability(g)
  /\ capability' = [capability EXCEPT ![k] = [state |-> "issued", grant |-> g,
                                              revision |-> grant[g].revision,
                                              environment |-> environment]]
  /\ UNCHANGED <<bff, loggingOut, environment, watermark, redeeming, console, bridge>>

\* The capability's thirty seconds end; one that is being redeemed has been
\* checked already.
CapabilityExpires(k) ==
  /\ capability[k].state = "issued" /\ redeeming.console # k
  /\ capability' = [capability EXCEPT ![k] = Spent("expired")]
  /\ UNCHANGED <<bff, loggingOut, environment, watermark, redeeming, console, bridge>>

\* consume_capability up to its checks: under the advisory lock the held sessions
\* are counted, the capability's row is locked, and the grant, the browser session
\* and the membership are read without a lock.
RedeemCheck(p, k) ==
  /\ redeeming = NoRedeeming
  /\ Cardinality({j \in Consoles : console[j].state \in HeldStates}) < MaxConsoles
  /\ capability[k].state = "issued"
  /\ bff = "live"
  /\ ActiveMembership
  /\ Usable(capability[k].grant)
  /\ grant[capability[k].grant].revision = capability[k].revision
  /\ redeeming' = [console |-> k, process |-> p]
  /\ UNCHANGED <<bff, loggingOut, environment, watermark, capability, console, bridge>>

\* The rest of consume_capability: the session row and the consumption commit,
\* the lock is released and connect starts the bridge.
RedeemCommit ==
  LET k == redeeming.console
  IN  /\ redeeming # NoRedeeming
      /\ capability' = [capability EXCEPT ![k] = Spent("consumed")]
      /\ console' = [console EXCEPT ![k] = [state |-> "opening", grant |-> capability[k].grant,
                                            environment |-> capability[k].environment]]
      /\ bridge' = [bridge EXCEPT ![k] = [phase |-> "opened", process |-> redeeming.process,
                                          cancelled |-> FALSE]]
      /\ redeeming' = NoRedeeming
      /\ UNCHANGED <<bff, loggingOut, environment, watermark>>

-----------------------------------------------------------------------------
(* The bridge *)

\* bridge registers the session in the registry of its process.
RegisterBridge(k) ==
  /\ bridge[k].phase = "opened"
  /\ BridgePhase(k, "registered")
  /\ UNCHANGED <<bff, loggingOut, environment, watermark, capability, redeeming, console>>

\* The environment accepts the connection (upgrade of its terminal bridge) only
\* at its current revision.
UpstreamAccepts(k) ==
  /\ bridge[k].phase = "registered"
  /\ console[k].environment = environment
  /\ BridgePhase(k, "accepted")
  /\ UNCHANGED <<bff, loggingOut, environment, watermark, capability, redeeming, console>>

\* The connection is refused or cannot be made.
UpstreamFails(k) ==
  /\ bridge[k].phase = "registered"
  /\ BridgePhase(k, "finishing")
  /\ UNCHANGED <<bff, loggingOut, environment, watermark, capability, redeeming, console>>

\* Mutant: the session is activated whatever its state has become.
ActivateConsoleAlways(k) ==
  /\ bridge[k].phase = "accepted"
  /\ SetRow(k, "active") /\ BridgePhase(k, "relaying")
  /\ UNCHANGED <<bff, loggingOut, environment, watermark, capability, redeeming>>

\* bridge_inner activates the session only if it is still opening, else it ends.
ActivateConsole(k) ==
  /\ bridge[k].phase = "accepted"
  /\ IF console[k].state = "opening"
       THEN SetRow(k, "active") /\ BridgePhase(k, "relaying")
       ELSE BridgePhase(k, "finishing") /\ UNCHANGED console
  /\ UNCHANGED <<bff, loggingOut, environment, watermark, capability, redeeming>>

\* bridge_inner sees its cancellation.
RelayCancelled(k) ==
  /\ bridge[k].phase = "relaying" /\ bridge[k].cancelled
  /\ BridgePhase(k, "finishing")
  /\ UNCHANGED <<bff, loggingOut, environment, watermark, capability, redeeming, console>>

\* The browser, the environment or the authorization's deadline ends the relay.
RelayEnds(k) ==
  /\ bridge[k].phase = "relaying"
  /\ BridgePhase(k, "finishing")
  /\ UNCHANGED <<bff, loggingOut, environment, watermark, capability, redeeming, console>>

\* close_session: any held state is closed; a store failure is logged only.
CloseConsole(k) ==
  /\ bridge[k].phase = "finishing"
  /\ \/ console[k].state \in HeldStates /\ SetRow(k, "closed")
     \/ UNCHANGED console
  /\ bridge' = [bridge EXCEPT ![k] = [phase |-> "ended", process |-> NoProcess,
                                      cancelled |-> FALSE]]
  /\ UNCHANGED <<bff, loggingOut, environment, watermark, capability, redeeming>>

-----------------------------------------------------------------------------
(* The browser session *)

\* expires_at or idle_expires_at is reached (cleanup_expired_auth_state revokes
\* such sessions later, which changes nothing for a reader).
BffLapses ==
  /\ bff = "live"
  /\ bff' = "ended"
  /\ UNCHANGED <<loggingOut, environment, watermark, capability, redeeming, console, bridge>>

\* logout and backchannel_logout: the browser session is revoked first ...
LogoutRevoke(p) ==
  /\ bff = "live"
  /\ bff' = "ended"
  /\ loggingOut' = loggingOut \cup {p}
  /\ UNCHANGED <<environment, watermark, capability, redeeming, console, bridge>>

\* ... and its consoles are terminated by terminate_bff_sessions in a second
\* transaction, and cancelled in this process.
TerminateBffSessions(p) ==
  /\ p \in loggingOut
  /\ loggingOut' = loggingOut \ {p}
  /\ console' = Terminated(Consoles)
  /\ CancelMatching(p, Consoles)
  /\ UNCHANGED <<bff, environment, watermark, capability, redeeming>>

\* reconcile_ineligible_bff_sessions, a part of every process's maintenance.
ReconcileIneligible ==
  /\ bff # "live"
  /\ \E k \in Consoles : console[k].state \in OpenStates
  /\ console' = Terminated(Consoles)
  /\ UNCHANGED <<bff, loggingOut, environment, watermark, capability, redeeming, bridge>>

-----------------------------------------------------------------------------
(* The environment *)

\* The environment takes a step and writes its state event.
EnvironmentMoves ==
  /\ environment < MaxEnvironment
  /\ environment' = environment + 1
  /\ UNCHANGED <<bff, loggingOut, watermark, capability, redeeming, console, bridge>>

\* classify_environment_sequence: an event at or below the watermark is a replay.
Replay(seq) == seq <= watermark

\* apply_environment_state_event of a delivery to process p: consoles frozen at an
\* older revision are terminated, then cancelled if they are this process's own.
\* Events may be skipped by the stream's filter, and redelivered.
ApplyEnvironmentState(p, seq) ==
  LET older == {k \in Consoles : /\ console[k].environment < seq
                                 /\ console[k].state \in OpenStates}
  IN  /\ seq \in 1..environment
      /\ ~Replay(seq)
      /\ watermark' = seq
      /\ console' = Terminated(older)
      /\ CancelMatching(p, older)
      /\ UNCHANGED <<bff, loggingOut, environment, capability, redeeming>>

-----------------------------------------------------------------------------
(* Maintenance *)

\* mark_overdue, the console half: the terminating consoles ks whose terminate_by
\* has passed.
MarkConsoleOverdue(ks) ==
  console' = [k \in Consoles |-> IF k \in ks THEN Row(k, "termination_overdue") ELSE console[k]]


\* cancel_owned_terminating_sessions.
CancelOwnedTerminating(p) ==
  LET owned == {k \in Registered(p) : console[k].state \in {"terminating", "termination_overdue"}}
  IN  /\ \E k \in owned : ~bridge[k].cancelled
      /\ CancelMatching(p, owned)
      /\ UNCHANGED <<bff, loggingOut, environment, watermark, capability, redeeming, console>>

\* A process ends: its bridges, its registry and its open redemption are gone,
\* and the rows of its consoles keep their state.
BridgesLost(p) ==
  /\ bridge' = [k \in Consoles |->
                  IF bridge[k].process = p /\ bridge[k].phase \notin {"none", "ended"}
                    THEN [phase |-> "lost", process |-> NoProcess, cancelled |-> FALSE]
                    ELSE bridge[k]]
  /\ redeeming' = IF redeeming.process = p THEN NoRedeeming ELSE redeeming
  /\ loggingOut' = loggingOut \ {p}
  /\ UNCHANGED <<bff, environment, watermark, capability, console>>

\* What a bridge does by itself once the environment has answered.
BridgeStep(k) ==
  \/ RegisterBridge(k) \/ UpstreamAccepts(k) \/ UpstreamFails(k)
  \/ ActivateConsole(k) \/ RelayCancelled(k) \/ CloseConsole(k)

\* The steps that touch no other row than these, capabilities being issued for
\* the consoles ks.
ConsoleStep(ks) ==
  \/ \E k \in ks, g \in Grants : IssueCapability(k, g)
  \/ \E k \in Consoles : \/ CapabilityExpires(k)
                         \/ BridgeStep(k) \/ RelayEnds(k)
  \/ \E p \in Processes : \/ \E k \in Consoles : RedeemCheck(p, k)
                          \/ LogoutRevoke(p) \/ TerminateBffSessions(p)
                          \/ \E seq \in 1..MaxEnvironment : ApplyEnvironmentState(p, seq)
                          \/ CancelOwnedTerminating(p)
  \/ RedeemCommit \/ BffLapses \/ ReconcileIneligible
=============================================================================
