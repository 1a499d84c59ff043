-------------------------- MODULE BrowserRequests ---------------------------
(***************************************************************************)
(* The browser side of Access: login, browser sessions and their ends      *)
(* (access-service main.rs, crates/auth repository.rs) and the requests it *)
(* authorizes and forwards (proxy.rs), with the authorization decision it  *)
(* gives the other services and the answer of Environment Service about    *)
(* an environment (resolver.rs).                                           *)
(*                                                                         *)
(* One actor with one course membership, one endpoint grant and one        *)
(* environment.  A request is a sequence of statements and calls, and the  *)
(* session, the membership, the grant and the environment may end between  *)
(* any two of them.  Session c is the one that callback c creates.         *)
(***************************************************************************)
EXTENDS Naturals, FiniteSets

CONSTANTS
    Transactions,           \* OIDC transactions
    Callbacks,              \* calls of the callback, and the sessions they create
    MaxEnvironmentChanges   \* bound: changes of the environment

ASSUME RequestAssumption == MaxEnvironmentChanges \in Nat

VARIABLES
    oidc,        \* access.oidc_transactions: state, and whether it has expired
    callback,    \* the callbacks that run: step and transaction
    session,     \* access.bff_sessions: state, whether it has lapsed, whether a console
                 \* row refers to it, whether its retention is over
    provider,    \* the identity provider's session: live, logged out
    logoutSeen,  \* the logout token is in access.backchannel_logout_events
    raced,       \* callbacks that had their identity when the logout was consumed
    member,      \* the course membership is active
    endpoint,    \* the endpoint grant: active, and the environment revision it names
    instance,    \* the environment: revision, running and ready, and whether all its endpoints
                 \* are healthy (the one of the grant is)
    request      \* the request under way

requestVars == <<oidc, callback, session, provider, logoutSeen, raced, member, endpoint,
                 instance, request>>

NoRequest == [pc |-> "none", kind |-> "none", session |-> CHOOSE c \in Callbacks : TRUE,
              csrf |-> TRUE, expected |-> 0, late |-> FALSE]

RequestInit ==
    /\ oidc = [t \in Transactions |-> [state |-> "none", expired |-> FALSE]]
    /\ callback = [c \in Callbacks |-> [pc |-> "none", tx |-> CHOOSE t \in Transactions : TRUE]]
    /\ session = [c \in Callbacks |-> [state |-> "none", lapsed |-> FALSE, pinned |-> FALSE,
                                       old |-> FALSE]]
    /\ provider = TRUE /\ logoutSeen = FALSE /\ raced = {}
    /\ member = TRUE
    /\ endpoint = [active |-> TRUE, rev |-> 1]
    /\ instance = [rev |-> 1, ready |-> TRUE, healthy |-> TRUE]
    /\ request = NoRequest

Authority == <<member, endpoint, instance>>

Sessions == <<oidc, callback, session, provider, logoutSeen, raced>>

-----------------------------------------------------------------------------
(* Login *)

Login(t) ==
    /\ oidc[t].state = "none"
    /\ oidc' = [oidc EXCEPT ![t].state = "open"]
    /\ UNCHANGED <<callback, session, provider, logoutSeen, raced, Authority, request>>

\* consume_oidc_transaction: an open row is locked and consumed; otherwise the call is refused.
ConsumeTransaction(c, t) ==
    /\ callback[c].pc = "none" /\ oidc[t].state = "open" /\ ~oidc[t].expired
    /\ oidc' = [oidc EXCEPT ![t].state = "consumed"]
    /\ callback' = [callback EXCEPT ![c] = [pc |-> "consumed", tx |-> t]]
    /\ UNCHANGED <<session, provider, logoutSeen, raced, Authority, request>>

\* exchange_code: the provider answers for a session of its own that is live.
ExchangeCode(c) ==
    /\ callback[c].pc = "consumed"
    /\ callback' = [callback EXCEPT ![c].pc = IF provider THEN "exchanged" ELSE "refused"]
    /\ UNCHANGED <<oidc, session, provider, logoutSeen, raced, Authority, request>>

\* upsert_actor and create_bff_session; the cookie is set.
CreateSession(c) ==
    /\ callback[c].pc = "exchanged"
    /\ callback' = [callback EXCEPT ![c].pc = "done"]
    /\ session' = [session EXCEPT ![c].state = "live"]
    /\ UNCHANGED <<oidc, provider, logoutSeen, raced, Authority, request>>

-----------------------------------------------------------------------------
(* The ends of a session *)

\* load_bff_session finds the row; it moves the idle deadline forward.
LiveSession(c) == session[c].state = "live" /\ ~session[c].lapsed

\* expires_at or idle_expires_at of a session, or expires_at of a transaction, passes.
Lapse ==
    /\ \/ \E c \in Callbacks :
              /\ LiveSession(c)
              /\ session' = [session EXCEPT ![c].lapsed = TRUE]
              /\ UNCHANGED oidc
       \/ \E t \in Transactions :
              /\ oidc[t].state \in {"open", "consumed"} /\ ~oidc[t].expired
              /\ oidc' = [oidc EXCEPT ![t].expired = TRUE]
              /\ UNCHANGED session
       \/ \E c \in Callbacks :
              /\ session[c].state = "revoked" /\ ~session[c].old
              /\ session' = [session EXCEPT ![c].old = TRUE]
              /\ UNCHANGED oidc
    /\ UNCHANGED <<callback, provider, logoutSeen, raced, Authority, request>>

\* logout revokes the session of the cookie.
Logout(c) ==
    /\ LiveSession(c)
    /\ session' = [session EXCEPT ![c].state = "revoked"]
    /\ UNCHANGED <<oidc, callback, provider, logoutSeen, raced, Authority, request>>

\* External: the provider ends its session and sends its logout token, again and again.
ProviderLogout ==
    /\ provider /\ provider' = FALSE
    /\ UNCHANGED <<oidc, callback, session, logoutSeen, raced, Authority, request>>

\* consume_backchannel_logout: the token is reserved and every session of the provider's is
\* revoked in one transaction; a replay changes nothing.
BackchannelLogout ==
    /\ ~provider /\ ~logoutSeen
    /\ logoutSeen' = TRUE
    /\ raced' = {c \in Callbacks : callback[c].pc = "exchanged"}
    /\ session' = [c \in Callbacks |->
                      IF session[c].state = "live"
                      THEN [session[c] EXCEPT !.state = "revoked"] ELSE session[c]]
    /\ UNCHANGED <<oidc, callback, provider, Authority, request>>

Overdue(c) == session[c].state = "revoked" /\ session[c].old

\* A session past its retention that a console row still refers to (ON DELETE RESTRICT).
PinnedForGood == \E c \in Callbacks : Overdue(c) /\ session[c].pinned

\* cleanup_expired_auth_state: one transaction, which a row that cannot be deleted undoes.
Cleanup ==
    /\ ~PinnedForGood
    /\ session' = [c \in Callbacks |->
           IF session[c].state = "live" /\ session[c].lapsed
           THEN [session[c] EXCEPT !.state = "revoked"]
           ELSE IF Overdue(c) THEN [session[c] EXCEPT !.state = "deleted"] ELSE session[c]]
    /\ oidc' = [t \in Transactions |->
           IF oidc[t].state \in {"open", "consumed"} /\ oidc[t].expired
           THEN [oidc[t] EXCEPT !.state = "deleted"] ELSE oidc[t]]
    /\ UNCHANGED <<callback, provider, logoutSeen, raced, Authority, request>>

-----------------------------------------------------------------------------
(* The authority behind a request *)

EndMembership ==
    /\ member /\ member' = FALSE
    /\ UNCHANGED <<Sessions, endpoint, instance, request>>

RevokeEndpointGrant ==
    /\ endpoint.active /\ endpoint' = [endpoint EXCEPT !.active = FALSE]
    /\ UNCHANGED <<Sessions, member, instance, request>>

\* An operation moves the environment to another revision, away from Ready or back.
ChangeInstance ==
    /\ instance.rev <= MaxEnvironmentChanges
    /\ \E h \in BOOLEAN :
           instance' = [rev |-> instance.rev + 1, ready |-> ~instance.ready, healthy |-> h]
    /\ UNCHANGED <<Sessions, member, endpoint, request>>

\* authorize of a course scope: an active membership with an allowed role.
Authorize == member

\* authorize_console_instance: the expected revision, running and ready.
ConsoleEligible(rev) == instance.rev = rev /\ instance.ready

\* authorize_endpoint_eligibility: and the endpoint of the grant is healthy at that revision.
EndpointEligible(rev) == instance.rev = rev /\ instance.ready

\* authorize_owner_resolution: and all the endpoints are.
OwnerEligible(rev) == instance.rev = rev /\ instance.ready /\ instance.healthy

\* What OwnerResolverClient makes of each answer: it may also be lost, late or invalid.
OwnerAnswer(rev) == {OwnerEligible(rev), FALSE}

EndpointAnswer(rev) == {EndpointEligible(rev), FALSE}

ConsoleAnswer(rev) == {ConsoleEligible(rev), FALSE}

-----------------------------------------------------------------------------
(* A request.  What it rests on never comes back once it has ended, so     *)
(* everything was in force at one moment of the request exactly if it was  *)
(* in force when the request arrived; late says that it was not.           *)

RequestTo(pc) == request' = [request EXCEPT !.pc = pc]

\* An error ends the request.
Refuse == request' = NoRequest

Continue(ok, pc) == IF ok THEN RequestTo(pc) ELSE Refuse

\* The statement that each kind of request begins with.
FirstStage(kind) ==
    CASE kind \in {"course", "resource", "runtime", "console"} -> "session"
      [] kind \in {"control", "owned"} -> "forward"
      [] kind = "decision" -> "decide"

\* A request of any kind arrives with the cookie of a session; a decision names the session and
\* the revision of the environment that its caller has seen.
Arrive(c, kind, csrf, rev) ==
    /\ request.pc = "none" /\ session[c].state # "none"
    /\ request' = [pc |-> FirstStage(kind), kind |-> kind, session |-> c, csrf |-> csrf,
                   expected |-> rev,
                   late |-> \/ ~LiveSession(c)
                            \/ kind # "owned" /\ ~member
                            \/ kind = "decision" /\ ~OwnerEligible(rev)
                            \/ /\ kind \in {"runtime", "console"}
                               /\ ~(endpoint.active /\ ConsoleEligible(endpoint.rev))]
    /\ UNCHANGED <<Sessions, Authority>>

\* forward_control: the paths of evaluation releases name their course and are authorized first;
\* for the others Control Service asks for a decision.
ForwardControl(c, csrf) == Arrive(c, "course", csrf, 0) \/ Arrive(c, "control", csrf, 0)

\* forward_environment: the collection names its course and is authorized first; for a path under
\* /environments/{id} Environment Service compares the owner and asks nobody.
ForwardEnvironment(c, csrf) == Arrive(c, "course", csrf, 0) \/ Arrive(c, "owned", csrf, 0)

\* forward_evaluation: a freeze and the results of a course are authorized first; a frozen
\* submission is looked up by its actor.
ForwardEvaluation(c, csrf) == Arrive(c, "course", csrf, 0) \/ Arrive(c, "owned", csrf, 0)

\* A service calls authorization_decision with a session and the scope of an environment.
AskDecision(c) == \E rev \in 1..instance.rev : Arrive(c, "decision", TRUE, rev)

\* authorize_resource_request: the course is that of the request, or of its target.
ResourceAuthority == {"membership", "target"}

\* authenticated_session, before the authority of the request is read.
CheckSession ==
    /\ request.pc = "session"
    /\ \E pc \in CASE request.kind = "course" -> {"membership"}
                   [] request.kind = "resource" -> ResourceAuthority
                   [] request.kind \in {"runtime", "console"} -> {"grant"} :
           Continue(LiveSession(request.session), pc)
    /\ UNCHANGED <<Sessions, Authority>>

\* resource_target_request: the request, and before it the lease, is fetched from Resource
\* Service; what the actor may not see ends the request.
FetchTarget ==
    /\ request.pc = "target"
    /\ RequestTo("membership") \/ Refuse
    /\ UNCHANGED <<Sessions, Authority>>

\* load_membership_snapshot and authorize: authorize_environment_course, authorize_resource_scope.
CheckMembership ==
    /\ request.pc = "membership"
    /\ Continue(Authorize, CASE request.kind = "course" -> "forward"
                             [] request.kind = "resource" -> "delegate"
                             [] request.kind = "decision" -> "owner"
                             [] request.kind = "control" -> "served")
    /\ UNCHANGED <<Sessions, Authority>>

\* require_browser_origin and verify_csrf_token, for every method but GET.
CsrfVerified == request.csrf

\* forward_resource: the CSRF check and the delegation for Resource Service.
Delegate ==
    /\ request.pc = "delegate"
    /\ Continue(CsrfVerified, "served")
    /\ UNCHANGED <<Sessions, Authority>>

\* forward: the session (again), the CSRF check, and the request is sent on.
Forward ==
    /\ request.pc = "forward"
    /\ Continue(LiveSession(request.session) /\ CsrfVerified,
                CASE request.kind = "course" -> "served"
                  [] request.kind = "owned" -> "load"
                  [] request.kind = "control" -> "decide")
    /\ UNCHANGED <<Sessions, Authority>>

\* load_owned, load_completed: the row is the actor's or the request is refused; neither the
\* session nor a membership is read.
LoadOwned ==
    /\ request.pc = "load"
    /\ RequestTo("served") \/ Refuse
    /\ UNCHANGED <<Sessions, Authority>>

\* authorization_decision: the session that the caller names, then its memberships.
Decide ==
    /\ request.pc = "decide"
    /\ Continue(LiveSession(request.session), "membership")
    /\ UNCHANGED <<Sessions, Authority>>

\* resolve_environment_owner, for the scope of an environment only: Environment Service answers
\* for the revision the caller has seen.
ResolveOwner ==
    /\ request.pc = "owner"
    /\ \E ok \in OwnerAnswer(request.expected) : Continue(ok, "decision")
    /\ UNCHANGED <<Sessions, Authority>>

\* resolve_environment_owner: the decision takes the revision and the expiry of the answer;
\* validate_observed_revisions may still refuse it.
Permit ==
    /\ request.pc = "decision"
    /\ RequestTo("served") \/ Refuse
    /\ UNCHANGED <<Sessions, Authority>>

\* Mutant: the query does not join the membership.
CheckGrantAlone ==
    /\ request.pc = "grant"
    /\ IF endpoint.active
       THEN request' = [request EXCEPT !.pc = IF request.kind = "runtime" THEN "eligibility"
                                              ELSE "console",
                                       !.expected = endpoint.rev]
       ELSE Refuse
    /\ UNCHANGED <<Sessions, Authority>>

\* authorize_runtime, resolve_availability: one query joins the grant with the membership.
CheckGrant ==
    /\ request.pc = "grant"
    /\ IF endpoint.active /\ member
       THEN request' = [request EXCEPT !.pc = IF request.kind = "runtime" THEN "eligibility"
                                              ELSE "console",
                                       !.expected = endpoint.rev]
       ELSE Refuse
    /\ UNCHANGED <<Sessions, Authority>>

\* OwnerResolver::resolve_endpoint_eligibility: Environment Service answers for the endpoint.
ResolveEndpoint ==
    /\ request.pc = "eligibility"
    /\ \E ok \in EndpointAnswer(request.expected) : Continue(ok, "send")
    /\ UNCHANGED <<Sessions, Authority>>

\* forward_runtime sends the request to the service of the environment.
ForwardRuntime ==
    /\ request.pc = "send"
    /\ RequestTo("served")
    /\ UNCHANGED <<Sessions, Authority>>

\* OwnerResolver::resolve_console_eligibility: the instance, then its release and lease.
ResolveConsole ==
    /\ request.pc = "console"
    /\ \E ok \in ConsoleAnswer(request.expected) : Continue(ok, "release")
    /\ UNCHANGED <<Sessions, Authority>>

ResolveConsoleRelease ==
    /\ request.pc = "release"
    /\ RequestTo("insert") \/ Refuse
    /\ UNCHANGED <<Sessions, Authority>>

\* insert_capability reads the grant, the session and the membership again; its row refers to
\* the session for good.
InsertCapability ==
    /\ request.pc = "insert"
    /\ IF LiveSession(request.session) /\ endpoint.active /\ member
       THEN RequestTo("served") /\ session' = [session EXCEPT ![request.session].pinned = TRUE]
       ELSE Refuse /\ UNCHANGED session
    /\ UNCHANGED <<oidc, callback, provider, logoutSeen, raced, Authority>>

\* The response goes to the browser, or is too large or lost: the request has been served.
Respond ==
    /\ request.pc = "served"
    /\ request' = NoRequest
    /\ UNCHANGED <<Sessions, Authority>>

RequestStep ==
    \/ CheckSession \/ FetchTarget \/ CheckMembership \/ Delegate \/ Forward \/ LoadOwned
    \/ Decide \/ ResolveOwner \/ Permit \/ CheckGrant \/ ResolveEndpoint \/ ForwardRuntime
    \/ ResolveConsole \/ ResolveConsoleRelease \/ InsertCapability \/ Respond

RequestNext ==
    \/ \E t \in Transactions : Login(t) \/ \E c \in Callbacks : ConsumeTransaction(c, t)
    \/ \E c \in Callbacks :
           \/ ExchangeCode(c) \/ CreateSession(c) \/ Logout(c)
           \/ \E csrf \in BOOLEAN :
                  \/ ForwardControl(c, csrf) \/ ForwardEnvironment(c, csrf)
                  \/ ForwardEvaluation(c, csrf) \/ Arrive(c, "resource", csrf, 0)
           \/ AskDecision(c)
           \/ \E kind \in {"runtime", "console"} : Arrive(c, kind, TRUE, 0)
    \/ Lapse \/ ProviderLogout \/ BackchannelLogout \/ Cleanup
    \/ EndMembership \/ RevokeEndpointGrant \/ ChangeInstance
    \/ RequestStep

-----------------------------------------------------------------------------
(* Properties *)

RequestTypeOK ==
    /\ \A t \in Transactions : oidc[t].state \in {"none", "open", "consumed", "deleted"}
    /\ \A c \in Callbacks :
           /\ session[c].state \in {"none", "live", "revoked", "deleted"}
           /\ callback[c].pc \in {"none", "consumed", "exchanged", "refused", "done"}
    /\ request.pc \in {"none", "session", "target", "membership", "delegate", "forward",
                       "load", "decide", "owner", "decision", "grant", "eligibility", "send", "console",
                       "release", "insert", "served"}

\* A request is served only if at one moment since it arrived everything it rests on was in force
\* at once, however many statements and calls of other services lie between its checks: the
\* session always; the membership, unless the row is only compared with its owner; for a decision
\* the revision it was asked about; for a console or a runtime the grant and its revision.  A
\* mutating request also carries its CSRF token.
ServedAuthorized ==
    request.pc = "served" =>
        /\ ~request.late
        /\ request.kind \in {"course", "control", "owned", "resource"} => request.csrf

\* One OIDC transaction creates one session, though its callback may be called twice at once.
OneSessionPerLogin ==
    \A c, d \in Callbacks :
        c # d /\ callback[c].pc # "none" /\ callback[d].pc # "none" =>
            callback[c].tx # callback[d].tx

\* Once the provider's logout is consumed no session of the provider's is live, except that of
\* a callback that already had its identity and had not yet created the session: the logout
\* revokes rows, and that row does not exist yet.
LogoutRevokes ==
    logoutSeen => \A c \in Callbacks : session[c].state = "live" => c \in raced

=============================================================================
