--------------------------- MODULE PlatformProofs ---------------------------
(***************************************************************************)
(* Proofs about browser requests, schema migrations and the relay of a     *)
(* console, for any number of callbacks, jobs, releases and migrations and *)
(* for links of any capacity.                                              *)
(***************************************************************************)
EXTENDS Platform, FiniteSetTheorems, SequenceTheorems, TLAPS

(***************************************************************************)
(* Browser requests.  What a request lacked when it arrived it still lacks *)
(* when the check of it runs: sessions, memberships, grants and revisions  *)
(* end and do not come back.  So a late request always has a check ahead   *)
(* of it that refuses it.                                                  *)
(***************************************************************************)
Kinds == {"none", "course", "control", "owned", "decision", "resource", "runtime", "console"}

AllStages == {"none", "session", "target", "membership", "delegate", "forward", "load", "decide",
              "owner", "decision", "grant", "eligibility", "send", "console", "release", "insert", "served"}

\* The stages of a request of each kind.
Stages(k) ==
  {pc \in AllStages :
     \/ k = "none" /\ pc = "none"
     \/ k = "course" /\ pc \in {"session", "membership", "forward", "served"}
     \/ k = "control" /\ pc \in {"forward", "decide", "membership", "served"}
     \/ k = "owned" /\ pc \in {"forward", "load", "served"}
     \/ k = "decision" /\ pc \in {"decide", "membership", "owner", "decision", "served"}
     \/ k = "resource" /\ pc \in {"session", "target", "membership", "delegate", "served"}
     \/ k = "runtime" /\ pc \in {"session", "grant", "eligibility", "send", "served"}
     \/ k = "console" /\ pc \in {"session", "grant", "console", "release", "insert", "served"}}

\* The checks that a request of kind k at stage pc has behind it.
SessionPassed(k, pc) ==
  /\ pc \notin {"none", "session"}
  /\ ~(k \in {"control", "owned"} /\ pc = "forward")
  /\ ~(k = "decision" /\ pc = "decide")

MemberPassed(k, pc) ==
  \/ pc \in {"delegate", "owner", "decision", "eligibility", "send", "console", "release",
             "insert", "served"}
  \/ k = "course" /\ pc = "forward"

GrantPassed(k, pc) == pc \in {"eligibility", "send", "console", "release", "insert", "served"}

EligiblePassed(k, pc) == pc \in {"send", "release", "insert", "served"}

OwnerPassed(k, pc) == pc \in {"decision", "served"}

CsrfPassed(k, pc) == pc = "served" \/ (k \in {"control", "owned"} /\ pc # "forward")

Routed == {"runtime", "console"}

\* The kinds that a browser cannot send with a method that changes something.
Unguarded == Routed \cup {"decision"}

\* A late request fails a check that is still ahead of it.
WillBeRefused(r) ==
  r.late =>
    /\ r.pc # "none"
    /\ \/ ~SessionPassed(r.kind, r.pc) /\ ~LiveSession(r.session)
       \/ r.kind # "owned" /\ ~MemberPassed(r.kind, r.pc) /\ ~member
       \/ r.kind = "decision" /\ ~OwnerPassed(r.kind, r.pc) /\ ~OwnerEligible(r.expected)
       \/ r.kind \in Routed /\ ~GrantPassed(r.kind, r.pc) /\ ~endpoint.active
       \/ r.kind \in Routed /\ ~EligiblePassed(r.kind, r.pc) /\ ~ConsoleEligible(1)

RequestFits(r) ==
  /\ r.kind \in Kinds /\ r.pc \in Stages(r.kind)
  /\ r.pc # "none" => r.session \in Callbacks /\ session[r.session].state # "none"
  /\ r.kind \in Routed /\ GrantPassed(r.kind, r.pc) => r.expected = 1
  /\ r.kind = "decision" => r.expected <= instance.rev
  /\ CsrfPassed(r.kind, r.pc) /\ r.kind \notin Unguarded => r.csrf
  /\ WillBeRefused(r)

OidcRow == [state : {"none", "open", "consumed", "deleted"}, expired : BOOLEAN]

BffRow == [state : {"none", "live", "revoked", "deleted"}, lapsed : BOOLEAN, pinned : BOOLEAN,
           old : BOOLEAN]

RequestRow == [pc : AllStages, kind : Kinds, session : Callbacks \cup {NoRequest.session},
               csrf : BOOLEAN, expected : Nat, late : BOOLEAN]

CallbackRow == [pc : {"none", "consumed", "exchanged", "refused", "done"},
                tx : Transactions \cup {CHOOSE t \in Transactions : TRUE}]

\* The rows of logins and sessions.
LoginInv ==
  /\ oidc \in [Transactions -> OidcRow]
  /\ callback \in [Callbacks -> CallbackRow]
  /\ session \in [Callbacks -> BffRow]
  /\ provider \in BOOLEAN /\ logoutSeen \in BOOLEAN
  /\ \A c \in Callbacks : callback[c].pc # "done" => session[c].state = "none"
  /\ \A c \in Callbacks : callback[c].pc # "none" =>
                            /\ callback[c].tx \in Transactions
                            /\ oidc[callback[c].tx].state \in {"consumed", "deleted"}
  /\ OneSessionPerLogin
  /\ logoutSeen => /\ ~provider
                   /\ \A c \in Callbacks : callback[c].pc = "exchanged" => c \in raced
  /\ LogoutRevokes

\* The authority behind the requests.
AuthorityInv ==
  /\ member \in BOOLEAN
  /\ endpoint \in [active : BOOLEAN, rev : {1}]
  /\ instance \in [rev : Nat \ {0}, ready : BOOLEAN, healthy : BOOLEAN]
  /\ instance.rev = 1 => instance.ready

RequestInv == LoginInv /\ AuthorityInv /\ request \in RequestRow /\ RequestFits(request)

\* What a step does not give back: a session that has ended, the membership, the grant, the
\* revision of the environment.
Monotone ==
  /\ \A c \in Callbacks :
       session[c].state # "none" => /\ session'[c].state # "none"
                                    /\ LiveSession(c)' => LiveSession(c)
  /\ member' => member
  /\ endpoint'.active => endpoint.active
  /\ ConsoleEligible(1)' => ConsoleEligible(1)
  /\ instance.rev <= instance'.rev
  /\ \A n \in Nat : n <= instance.rev /\ OwnerEligible(n)' => OwnerEligible(n)

\* A request that stands still stays refused.
LEMMA RequestStands ==
  ASSUME RequestInv, Monotone, UNCHANGED request, LoginInv', AuthorityInv'
  PROVE  RequestInv'
<1>1. RequestFits(request)'
  <2>1. RequestFits(request) /\ request' = request
    BY DEF RequestInv
  <2>2. request.pc # "none" => request.session \in Callbacks /\ session[request.session].state # "none"
    BY <2>1 DEF RequestFits
  <2>3. request.expected \in Nat /\ instance.rev \in Nat /\ instance'.rev \in Nat
        /\ (request.kind = "decision" => request.expected <= instance.rev)
    BY <2>1 DEF RequestInv, RequestRow, AuthorityInv, RequestFits
  <2>4. instance.rev <= instance'.rev /\ (request.kind = "decision" => request.expected <= instance'.rev)
    BY <2>3 DEF Monotone
  <2>5. request.kind = "decision" => (OwnerEligible(request.expected)' => OwnerEligible(request.expected))
    BY <2>1, <2>3 DEF Monotone, OwnerEligible
  <2>6. WillBeRefused(request)'
    BY <2>1, <2>2, <2>5 DEF RequestFits, WillBeRefused, Monotone, SessionPassed, MemberPassed,
                      GrantPassed, EligiblePassed, OwnerPassed
  <2> QED BY <2>1, <2>2, <2>4, <2>6 DEF RequestFits, Monotone, GrantPassed, CsrfPassed
<1> QED BY <1>1 DEF RequestInv

LEMMA NoRequestRow ==
  /\ NoRequest \in RequestRow /\ NoRequest.pc = "none" /\ NoRequest.kind = "none"
  /\ NoRequest.late = FALSE /\ NoRequest.csrf = TRUE
<1>1. PICK d : d = CHOOSE c \in Callbacks : TRUE
  OBVIOUS
<1>2. NoRequest = [pc |-> "none", kind |-> "none", session |-> d, csrf |-> TRUE, expected |-> 0,
                   late |-> FALSE]
  BY <1>1 DEF NoRequest
<1>3. NoRequest.session = d
  BY <1>2
<1>4. NoRequest \in [pc : AllStages, kind : Kinds, session : Callbacks \cup {d},
                      csrf : BOOLEAN, expected : Nat, late : BOOLEAN]
  BY <1>2 DEF AllStages, Kinds
<1> QED BY <1>2, <1>3, <1>4 DEF RequestRow

LEMMA InitRequests == RequestInit => RequestInv
<1> SUFFICES ASSUME RequestInit PROVE RequestInv
  OBVIOUS
<1>1. LoginInv
  BY DEF RequestInit, LoginInv, OidcRow, BffRow, CallbackRow, OneSessionPerLogin, LogoutRevokes
<1>2. AuthorityInv
  BY DEF RequestInit, AuthorityInv
<1>3. request \in RequestRow
  BY NoRequestRow DEF RequestInit
<1>4. /\ request.pc = "none" /\ request.kind = "none" /\ request.late = FALSE
      /\ request.csrf = TRUE
  BY NoRequestRow DEF RequestInit
<1>5. RequestFits(request)
  BY <1>4 DEF RequestFits, Kinds, Stages, AllStages, Routed, Unguarded, GrantPassed, CsrfPassed, WillBeRefused
<1> QED BY <1>1, <1>2, <1>3, <1>5 DEF RequestInv

\* Nothing about the authority changes.
LEMMA SameAuthority ==
  ASSUME AuthorityInv, UNCHANGED Authority
  PROVE  /\ AuthorityInv' /\ UNCHANGED <<member, endpoint, instance>>
         /\ ConsoleEligible(1)' = ConsoleEligible(1)
         /\ instance.rev \in Nat /\ instance.rev <= instance'.rev
         /\ \A n \in Nat : OwnerEligible(n)' <=> OwnerEligible(n)
BY DEF AuthorityInv, Authority, ConsoleEligible, OwnerEligible

LEMMA SameLogins == ASSUME LoginInv, UNCHANGED Sessions PROVE LoginInv' /\ UNCHANGED session
BY DEF LoginInv, Sessions, OneSessionPerLogin, LogoutRevokes

\* The steps of logins and sessions.
LEMMA LoginKeeps ==
  ASSUME LoginInv,
         \/ \E t \in Transactions : Login(t)
         \/ \E c \in Callbacks, t \in Transactions : ConsumeTransaction(c, t)
         \/ \E c \in Callbacks : ExchangeCode(c) \/ CreateSession(c)
  PROVE  /\ LoginInv' /\ UNCHANGED <<Authority, request>>
         /\ \A c \in Callbacks : session[c].state # "none" => session'[c] = session[c]
<1> USE DEF LoginInv
<1>1. ASSUME NEW t \in Transactions, Login(t)
      PROVE  /\ LoginInv' /\ UNCHANGED <<Authority, request, session>>
  <2>1. /\ oidc[t] \in OidcRow /\ oidc[t].state = "none"
        /\ oidc' = [oidc EXCEPT ![t] = [oidc[t] EXCEPT !.state = "open"]]
        /\ UNCHANGED <<callback, session, provider, logoutSeen, raced, Authority, request>>
    BY <1>1 DEF Login
  <2>2. [oidc[t] EXCEPT !.state = "open"] \in OidcRow
    BY <2>1 DEF OidcRow
  <2>3. oidc' \in [Transactions -> OidcRow] /\ \A u \in Transactions \ {t} : oidc'[u] = oidc[u]
    BY <2>1, <2>2
  <2>4. \A c \in Callbacks : callback[c].pc # "none" => callback[c].tx # t
    BY <2>1
  <2> QED BY <2>1, <2>3, <2>4 DEF OneSessionPerLogin, LogoutRevokes
<1>2. ASSUME NEW c \in Callbacks, NEW t \in Transactions, ConsumeTransaction(c, t)
      PROVE  /\ LoginInv' /\ UNCHANGED <<Authority, request, session>>
  <2> DEFINE o == [oidc[t] EXCEPT !.state = "consumed"]
             b == [pc |-> "consumed", tx |-> t]
  <2>1. /\ oidc[t] \in OidcRow /\ oidc[t].state = "open" /\ callback[c].pc = "none"
        /\ oidc' = [oidc EXCEPT ![t] = o]
        /\ callback' = [callback EXCEPT ![c] = b]
        /\ UNCHANGED <<session, provider, logoutSeen, raced, Authority, request>>
    BY <1>2 DEF ConsumeTransaction
  <2>2. o \in OidcRow /\ o.state = "consumed"
    BY <2>1 DEF OidcRow
  <2>3. b \in CallbackRow /\ b.pc = "consumed" /\ b.tx = t
    BY DEF CallbackRow
  <2> HIDE DEF o, b
  <2>4. /\ oidc' \in [Transactions -> OidcRow] /\ oidc'[t] = o
        /\ \A u \in Transactions \ {t} : oidc'[u] = oidc[u]
    BY <2>1, <2>2
  <2>5. /\ callback' \in [Callbacks -> CallbackRow] /\ callback'[c] = b
        /\ \A d \in Callbacks \ {c} : callback'[d] = callback[d]
    BY <2>1, <2>3
  <2>6. \A d \in Callbacks : callback[d].pc # "none" => callback[d].tx # t
    BY <2>1
  <2>7. ASSUME NEW d \in Callbacks
        PROVE  /\ callback'[d].pc # "done" => session'[d].state = "none"
               /\ callback'[d].pc # "none" => /\ callback'[d].tx \in Transactions
                                              /\ oidc'[callback'[d].tx].state \in {"consumed", "deleted"}
               /\ callback'[d].pc = "exchanged" => callback[d].pc = "exchanged"
    <3>1. CASE d = c
      BY <2>1, <2>2, <2>3, <2>4, <2>5, <3>1
    <3>2. CASE d # c
      BY <2>1, <2>2, <2>4, <2>5, <3>2
    <3> QED BY <3>1, <3>2
  <2>8. OneSessionPerLogin'
    <3> SUFFICES ASSUME NEW d \in Callbacks, NEW e \in Callbacks, d # e,
                        callback'[d].pc # "none", callback'[e].pc # "none"
                 PROVE  callback'[d].tx # callback'[e].tx
      BY DEF OneSessionPerLogin
    <3> QED BY <2>3, <2>5, <2>6 DEF OneSessionPerLogin
  <2> QED BY <2>1, <2>4, <2>5, <2>7, <2>8 DEF LogoutRevokes
<1>3. ASSUME NEW c \in Callbacks, ExchangeCode(c)
      PROVE  /\ LoginInv' /\ UNCHANGED <<Authority, request, session>>
  <2> DEFINE b == [callback[c] EXCEPT !.pc = IF provider THEN "exchanged" ELSE "refused"]
  <2>1. /\ callback[c] \in CallbackRow /\ callback[c].pc = "consumed"
        /\ callback' = [callback EXCEPT ![c] = b]
        /\ UNCHANGED <<oidc, session, provider, logoutSeen, raced, Authority, request>>
    BY <1>3 DEF ExchangeCode
  <2>2. /\ b \in CallbackRow /\ b.pc \in {"exchanged", "refused"} /\ b.tx = callback[c].tx
        /\ b.pc = "exchanged" => provider
    BY <2>1 DEF CallbackRow
  <2> HIDE DEF b
  <2>3. /\ callback' \in [Callbacks -> CallbackRow] /\ callback'[c] = b
        /\ \A d \in Callbacks \ {c} : callback'[d] = callback[d]
    BY <2>1, <2>2
  <2> QED BY <2>1, <2>2, <2>3 DEF OneSessionPerLogin, LogoutRevokes
<1>4. ASSUME NEW c \in Callbacks, CreateSession(c)
      PROVE  /\ LoginInv' /\ UNCHANGED <<Authority, request>>
             /\ \A d \in Callbacks : session[d].state # "none" => session'[d] = session[d]
  <2> DEFINE b == [callback[c] EXCEPT !.pc = "done"]
             s == [session[c] EXCEPT !.state = "live"]
  <2>1. /\ callback[c] \in CallbackRow /\ callback[c].pc = "exchanged" /\ session[c] \in BffRow
        /\ session[c].state = "none"
        /\ callback' = [callback EXCEPT ![c] = b] /\ session' = [session EXCEPT ![c] = s]
        /\ UNCHANGED <<oidc, provider, logoutSeen, raced, Authority, request>>
    BY <1>4 DEF CreateSession
  <2>2. b \in CallbackRow /\ b.pc = "done" /\ b.tx = callback[c].tx
    BY <2>1 DEF CallbackRow
  <2>3. s \in BffRow
    BY <2>1 DEF BffRow
  <2> HIDE DEF b, s
  <2>4. /\ callback' \in [Callbacks -> CallbackRow] /\ callback'[c] = b
        /\ \A d \in Callbacks \ {c} : callback'[d] = callback[d]
    BY <2>1, <2>2
  <2>5. /\ session' \in [Callbacks -> BffRow]
        /\ \A d \in Callbacks \ {c} : session'[d] = session[d]
    BY <2>1, <2>3
  <2>6. LogoutRevokes'
    BY <2>1, <2>5 DEF LogoutRevokes
  <2>7. OneSessionPerLogin'
    BY <2>1, <2>2, <2>4 DEF OneSessionPerLogin
  <2> QED BY <2>1, <2>2, <2>4, <2>5, <2>6, <2>7
<1> QED BY <1>1, <1>2, <1>3, <1>4

\* Sessions end: every one keeps its row, or loses it in a way that does not bring it to life.
LEMMA SessionsOnlyEnd ==
  ASSUME LoginInv, session' \in [Callbacks -> BffRow],
         \A c \in Callbacks : /\ session'[c].state = "none" <=> session[c].state = "none"
                              /\ session'[c].state = "live" => session[c].state = "live"
                              /\ session[c].lapsed => session'[c].lapsed,
         oidc' \in [Transactions -> OidcRow],
         \A t \in Transactions : oidc[t].state \in {"consumed", "deleted"} =>
                                   oidc'[t].state \in {"consumed", "deleted"},
         \/ UNCHANGED <<logoutSeen, raced>>
         \/ /\ logoutSeen' = TRUE /\ ~provider
            /\ raced' = {c \in Callbacks : callback[c].pc = "exchanged"}
            /\ \A c \in Callbacks : session'[c].state # "live",
         UNCHANGED <<callback, provider>>
  PROVE  /\ LoginInv'
         /\ \A c \in Callbacks :
              session[c].state # "none" => /\ session'[c].state # "none"
                                           /\ LiveSession(c)' => LiveSession(c)
<1>1. \A c \in Callbacks : session[c] \in BffRow /\ session'[c] \in BffRow
  BY DEF LoginInv
<1>2. \A c \in Callbacks : LiveSession(c)' => LiveSession(c)
  BY DEF LiveSession
<1>3. LogoutRevokes'
  BY DEF LogoutRevokes, LoginInv
<1>4. OneSessionPerLogin'
  BY DEF OneSessionPerLogin, LoginInv
<1>5. logoutSeen' => /\ ~provider'
                     /\ \A c \in Callbacks : callback'[c].pc = "exchanged" => c \in raced'
  BY DEF LoginInv
<1> QED BY <1>2, <1>3, <1>4, <1>5 DEF LoginInv


\* Logout, the provider's logout, the passing of time and the cleanup only end sessions.
LEMMA EndsKeep ==
  ASSUME LoginInv, Lapse \/ ProviderLogout \/ BackchannelLogout \/ Cleanup \/
                   \E c \in Callbacks : Logout(c)
  PROVE  /\ LoginInv' /\ UNCHANGED <<Authority, request>>
         /\ \A c \in Callbacks :
              session[c].state # "none" => /\ session'[c].state # "none"
                                           /\ LiveSession(c)' => LiveSession(c)
<1>0. /\ \A c \in Callbacks : session[c] \in BffRow
      /\ \A t \in Transactions : oidc[t] \in OidcRow
      /\ session \in [Callbacks -> BffRow] /\ oidc \in [Transactions -> OidcRow]
  BY DEF LoginInv
<1>1. CASE ProviderLogout
  <2>1. LoginInv' /\ UNCHANGED <<Authority, request, session>>
    BY <1>1 DEF ProviderLogout, LoginInv, OneSessionPerLogin, LogoutRevokes
  <2> QED BY <2>1 DEF LiveSession
<1>2. ASSUME NEW c \in Callbacks, NEW s \in BffRow, session' = [session EXCEPT ![c] = s],
             s.state \in {session[c].state, "revoked"}, session[c].state # "none",
             session[c].lapsed => s.lapsed,
             UNCHANGED <<oidc, callback, provider, logoutSeen, raced, Authority, request>>
      PROVE  /\ LoginInv' /\ UNCHANGED <<Authority, request>>
             /\ \A d \in Callbacks :
                  session[d].state # "none" => /\ session'[d].state # "none"
                                               /\ LiveSession(d)' => LiveSession(d)
  <2>1. /\ session' \in [Callbacks -> BffRow]
        /\ \A d \in Callbacks : session'[d] = IF d = c THEN s ELSE session[d]
    BY <1>0, <1>2
  <2>2. \A d \in Callbacks : /\ session'[d].state = "none" <=> session[d].state = "none"
                             /\ session'[d].state = "live" => session[d].state = "live"
                             /\ session[d].lapsed => session'[d].lapsed
    BY <1>2, <2>1
  <2> QED BY <1>0, <1>2, <2>1, <2>2, SessionsOnlyEnd
<1>3. ASSUME NEW c \in Callbacks, Logout(c)
      PROVE  /\ LoginInv' /\ UNCHANGED <<Authority, request>>
             /\ \A d \in Callbacks :
                  session[d].state # "none" => /\ session'[d].state # "none"
                                               /\ LiveSession(d)' => LiveSession(d)
  <2> DEFINE s == [session[c] EXCEPT !.state = "revoked"]
  <2>1. s \in BffRow /\ s.state = "revoked" /\ s.lapsed = session[c].lapsed
    BY <1>0 DEF BffRow
  <2>2. session' = [session EXCEPT ![c] = s] /\ session[c].state = "live"
        /\ UNCHANGED <<oidc, callback, provider, logoutSeen, raced, Authority, request>>
    BY <1>3 DEF Logout, LiveSession
  <2> HIDE DEF s
  <2> QED BY <1>2, <2>1, <2>2
<1>4. CASE Lapse
  <2>1. ASSUME NEW c \in Callbacks, LiveSession(c), session' = [session EXCEPT ![c].lapsed = TRUE],
               UNCHANGED oidc
        PROVE  /\ LoginInv' /\ UNCHANGED <<Authority, request>>
               /\ \A d \in Callbacks :
                    session[d].state # "none" => /\ session'[d].state # "none"
                                                 /\ LiveSession(d)' => LiveSession(d)
    <3> DEFINE s == [session[c] EXCEPT !.lapsed = TRUE]
    <3>1. s \in BffRow /\ s.state = session[c].state /\ s.lapsed
      BY <1>0 DEF BffRow
    <3>2. session' = [session EXCEPT ![c] = s] /\ session[c].state = "live"
          /\ UNCHANGED <<callback, provider, logoutSeen, raced, Authority, request>>
      BY <1>4, <2>1 DEF Lapse, LiveSession
    <3> HIDE DEF s
    <3> QED BY <1>2, <2>1, <3>1, <3>2
  <2>2. ASSUME NEW c \in Callbacks, session[c].state = "revoked",
               session' = [session EXCEPT ![c].old = TRUE], UNCHANGED oidc
        PROVE  /\ LoginInv' /\ UNCHANGED <<Authority, request>>
               /\ \A d \in Callbacks :
                    session[d].state # "none" => /\ session'[d].state # "none"
                                                 /\ LiveSession(d)' => LiveSession(d)
    <3> DEFINE s == [session[c] EXCEPT !.old = TRUE]
    <3>1. s \in BffRow /\ s.state = session[c].state /\ s.lapsed = session[c].lapsed
      BY <1>0 DEF BffRow
    <3>2. session' = [session EXCEPT ![c] = s]
          /\ UNCHANGED <<callback, provider, logoutSeen, raced, Authority, request>>
      BY <1>4, <2>2 DEF Lapse
    <3> HIDE DEF s
    <3> QED BY <1>2, <2>2, <3>1, <3>2
  <2>3. ASSUME NEW t \in Transactions, oidc' = [oidc EXCEPT ![t].expired = TRUE],
               UNCHANGED session
        PROVE  /\ LoginInv' /\ UNCHANGED <<Authority, request>>
               /\ \A d \in Callbacks :
                    session[d].state # "none" => /\ session'[d].state # "none"
                                                 /\ LiveSession(d)' => LiveSession(d)
    <3> DEFINE o == [oidc[t] EXCEPT !.expired = TRUE]
    <3>1. o \in OidcRow /\ o.state = oidc[t].state
      BY <1>0 DEF OidcRow
    <3>2. oidc' = [oidc EXCEPT ![t] = o]
          /\ UNCHANGED <<callback, provider, logoutSeen, raced, Authority, request>>
      BY <1>4, <2>3 DEF Lapse
    <3> HIDE DEF o
    <3>3. oidc' \in [Transactions -> OidcRow] /\ \A u \in Transactions : oidc'[u].state = oidc[u].state
      BY <1>0, <3>1, <3>2
    <3> QED BY <1>0, <2>3, <3>2, <3>3, SessionsOnlyEnd
  <2> QED BY <1>4, <2>1, <2>2, <2>3 DEF Lapse
<1>5. CASE BackchannelLogout
  <2>1. /\ logoutSeen' = TRUE /\ ~provider
        /\ raced' = {c \in Callbacks : callback[c].pc = "exchanged"}
        /\ UNCHANGED <<oidc, callback, provider, Authority, request>>
    BY <1>5 DEF BackchannelLogout
  <2>2. ASSUME NEW c \in Callbacks
        PROVE  /\ session'[c] \in BffRow
               /\ session'[c].state # "live" /\ session'[c].lapsed = session[c].lapsed
               /\ session'[c].state = "none" <=> session[c].state = "none"
    <3>1. session'[c] = IF session[c].state = "live"
                        THEN [session[c] EXCEPT !.state = "revoked"] ELSE session[c]
      BY <1>5 DEF BackchannelLogout
    <3> QED BY <1>0, <3>1 DEF BffRow
  <2>3. session' \in [Callbacks -> BffRow]
    <3>1. session' = [c \in Callbacks |-> session'[c]]
      BY <1>5 DEF BackchannelLogout
    <3> QED BY <2>2, <3>1
  <2> QED BY <1>0, <2>1, <2>2, <2>3, SessionsOnlyEnd
<1>6. CASE Cleanup
  <2>1. UNCHANGED <<callback, provider, logoutSeen, raced, Authority, request>>
    BY <1>6 DEF Cleanup
  <2>2. ASSUME NEW c \in Callbacks
        PROVE  /\ session'[c] \in BffRow
               /\ session'[c].state = "live" => session[c].state = "live"
               /\ session'[c].lapsed = session[c].lapsed
               /\ session'[c].state = "none" <=> session[c].state = "none"
    <3>1. session'[c] = IF session[c].state = "live" /\ session[c].lapsed
                        THEN [session[c] EXCEPT !.state = "revoked"]
                        ELSE IF Overdue(c) THEN [session[c] EXCEPT !.state = "deleted"]
                        ELSE session[c]
      BY <1>6 DEF Cleanup
    <3> QED BY <1>0, <3>1 DEF BffRow, Overdue
  <2>3. session' \in [Callbacks -> BffRow]
    <3>1. session' = [c \in Callbacks |-> session'[c]]
      BY <1>6 DEF Cleanup
    <3> QED BY <2>2, <3>1
  <2>4. ASSUME NEW t \in Transactions
        PROVE  /\ oidc'[t] \in OidcRow
               /\ oidc[t].state \in {"consumed", "deleted"} => oidc'[t].state \in {"consumed", "deleted"}
    <3>1. oidc'[t] = IF oidc[t].state \in {"open", "consumed"} /\ oidc[t].expired
                     THEN [oidc[t] EXCEPT !.state = "deleted"] ELSE oidc[t]
      BY <1>6 DEF Cleanup
    <3> QED BY <1>0, <3>1 DEF OidcRow
  <2>5. oidc' \in [Transactions -> OidcRow]
    <3>1. oidc' = [t \in Transactions |-> oidc'[t]]
      BY <1>6 DEF Cleanup
    <3> QED BY <2>4, <3>1
  <2> QED BY <2>1, <2>2, <2>3, <2>4, <2>5, SessionsOnlyEnd
<1> QED BY <1>1, <1>3, <1>4, <1>5, <1>6

\* The authority behind the requests ends.
LEMMA AuthorityEnds ==
  ASSUME AuthorityInv, EndMembership \/ RevokeEndpointGrant \/ ChangeInstance
  PROVE  /\ AuthorityInv' /\ UNCHANGED <<Sessions, request>>
         /\ (member' => member) /\ (endpoint'.active => endpoint.active)
         /\ ConsoleEligible(1)' => ConsoleEligible(1)
         /\ instance.rev <= instance'.rev
         /\ \A n \in Nat : n <= instance.rev /\ OwnerEligible(n)' => OwnerEligible(n)
<1>1. CASE EndMembership
  <2>1. UNCHANGED <<instance, Sessions, request>> /\ (member' => member)
        /\ (endpoint'.active => endpoint.active) /\ AuthorityInv'
    BY <1>1 DEF EndMembership, AuthorityInv, Sessions
  <2>2. instance.rev \in Nat
    BY DEF AuthorityInv
  <2> QED BY <2>1, <2>2 DEF ConsoleEligible, OwnerEligible
<1>2. CASE RevokeEndpointGrant
  <2>1. UNCHANGED <<instance, Sessions, request>> /\ (member' => member)
        /\ (endpoint'.active => endpoint.active) /\ AuthorityInv'
    BY <1>2 DEF RevokeEndpointGrant, AuthorityInv, Sessions
  <2>2. instance.rev \in Nat
    BY DEF AuthorityInv
  <2> QED BY <2>1, <2>2 DEF ConsoleEligible, OwnerEligible
<1>3. CASE ChangeInstance
  <2>1. PICK h \in BOOLEAN :
          instance' = [rev |-> instance.rev + 1, ready |-> ~instance.ready, healthy |-> h]
    BY <1>3 DEF ChangeInstance
  <2>2. instance.rev \in Nat \ {0} /\ instance.ready \in BOOLEAN
    BY DEF AuthorityInv
  <2>3. instance' \in [rev : Nat \ {0}, ready : BOOLEAN, healthy : BOOLEAN] /\ instance'.rev # 1
    BY <2>1, <2>2
  <2>4. instance'.rev = instance.rev + 1 /\ instance.rev \in Nat
    BY <2>1, <2>2
  <2>5. \A n \in Nat : n <= instance.rev => ~OwnerEligible(n)'
    BY <2>4 DEF OwnerEligible
  <2> QED BY <1>3, <2>3, <2>4, <2>5 DEF ChangeInstance, AuthorityInv, ConsoleEligible
<1> QED BY <1>1, <1>2, <1>3


\* A request that is refused or answered leaves nothing behind.
LEMMA RefuseKeeps ==
  ASSUME RequestInv, request' = NoRequest, LoginInv', AuthorityInv'
  PROVE  RequestInv'
<1>1. /\ request' \in RequestRow /\ request'.pc = "none" /\ request'.kind = "none"
      /\ request'.late = FALSE /\ request'.csrf = TRUE
  BY NoRequestRow
<1>2. RequestFits(request)'
  BY <1>1 DEF RequestFits, Kinds, Stages, AllStages, Routed, Unguarded, GrantPassed, CsrfPassed, WillBeRefused
<1> QED BY <1>1, <1>2 DEF RequestInv

\* A request goes on to another stage of its kind, with one more check behind it.
LEMMA AdvanceKeeps ==
  ASSUME RequestInv, NEW pc \in Stages(request.kind), request.pc # "none", pc # "none",
         NEW n \in Nat, request' = [request EXCEPT !.pc = pc, !.expected = n],
         LoginInv', \A c \in Callbacks : session'[c].state = session[c].state
                                         /\ session'[c].lapsed = session[c].lapsed,
         AuthorityInv, UNCHANGED Authority,
         request.kind \in Routed /\ pc \in {"eligibility", "send", "console", "release", "insert",
                                            "served"} => n = 1,
         request.kind = "decision" => n = request.expected,
         CsrfPassed(request.kind, pc) /\ ~CsrfPassed(request.kind, request.pc)
           /\ request.kind \notin Unguarded => request.csrf,
         SessionPassed(request.kind, pc) /\ ~SessionPassed(request.kind, request.pc) =>
           LiveSession(request.session),
         request.kind # "owned" /\ MemberPassed(request.kind, pc)
           /\ ~MemberPassed(request.kind, request.pc) => member,
         request.kind = "decision" /\ OwnerPassed(request.kind, pc)
           /\ ~OwnerPassed(request.kind, request.pc) => OwnerEligible(request.expected),
         request.kind \in Routed /\ GrantPassed(request.kind, pc)
           /\ ~GrantPassed(request.kind, request.pc) => endpoint.active,
         request.kind \in Routed /\ EligiblePassed(request.kind, pc)
           /\ ~EligiblePassed(request.kind, request.pc) => ConsoleEligible(1)
  PROVE  RequestInv'
<1>1. request \in RequestRow /\ RequestFits(request)
  BY DEF RequestInv
<1>2. pc \in AllStages
  BY DEF Stages
<1>3. PICK r : r = request'
  OBVIOUS
<1>4. /\ r \in RequestRow /\ r.pc = pc /\ r.kind = request.kind /\ r.session = request.session
      /\ r.csrf = request.csrf /\ r.late = request.late /\ r.expected = n
  BY <1>1, <1>2, <1>3 DEF RequestRow
<1>7. r.session \in Callbacks /\ session'[r.session].state # "none"
      /\ (LiveSession(r.session)' <=> LiveSession(r.session))
  BY <1>1, <1>4 DEF RequestFits, LiveSession
<1>9. AuthorityInv' /\ member' = member /\ endpoint' = endpoint /\ instance' = instance
      /\ (ConsoleEligible(1)' <=> ConsoleEligible(1))
      /\ (OwnerEligible(n)' <=> OwnerEligible(n))
  BY SameAuthority
<1>10. WillBeRefused(r)'
  <2>1. WillBeRefused(request)
    BY <1>1 DEF RequestFits
  <2>6. SUFFICES ASSUME r.late
                 PROVE  \/ ~SessionPassed(r.kind, r.pc) /\ ~LiveSession(r.session)
                        \/ r.kind # "owned" /\ ~MemberPassed(r.kind, r.pc) /\ ~member
                        \/ /\ r.kind = "decision" /\ ~OwnerPassed(r.kind, r.pc)
                           /\ ~OwnerEligible(request.expected)
                        \/ r.kind \in Routed /\ ~GrantPassed(r.kind, r.pc) /\ ~endpoint.active
                        \/ r.kind \in Routed /\ ~EligiblePassed(r.kind, r.pc) /\ ~ConsoleEligible(1)
    BY <1>4, <1>7, <1>9 DEF WillBeRefused, SessionPassed, MemberPassed, GrantPassed, EligiblePassed,
                            OwnerPassed
  <2> QED BY <1>4, <2>1, <2>6 DEF WillBeRefused
<1>11. r.kind \in Routed /\ GrantPassed(r.kind, r.pc) => r.expected = 1
  BY <1>4 DEF GrantPassed
<1>12. CsrfPassed(r.kind, r.pc) /\ r.kind \notin Unguarded => r.csrf
  BY <1>1, <1>4 DEF RequestFits
<1>15. r.kind = "decision" => r.expected <= instance'.rev
  BY <1>1, <1>4, <1>9 DEF RequestFits
<1>13. r.kind \in Kinds /\ r.pc \in Stages(r.kind)
  BY <1>1, <1>4 DEF RequestFits
<1>14. RequestFits(r)'
  BY <1>4, <1>7, <1>10, <1>11, <1>12, <1>13, <1>15 DEF RequestFits, GrantPassed, CsrfPassed
<1> QED BY <1>3, <1>4, <1>9, <1>14 DEF RequestInv


LEMMA ArriveKeeps ==
  ASSUME RequestInv, NEW c \in Callbacks, NEW csrf \in BOOLEAN, NEW rev \in Nat,
         NEW k \in Kinds \ {"none"}, k = "decision" => rev <= instance.rev,
         Arrive(c, k, csrf, rev)
  PROVE  RequestInv'
<1>1. LoginInv' /\ AuthorityInv' /\ UNCHANGED <<session, member, endpoint, instance>>
      /\ (ConsoleEligible(1)' <=> ConsoleEligible(1))
      /\ (OwnerEligible(rev)' <=> OwnerEligible(rev))
  BY SameLogins, SameAuthority DEF RequestInv, Arrive
<1>2. session[c].state # "none" /\ endpoint.rev = 1
  BY DEF Arrive, RequestInv, AuthorityInv
<1>0. FirstStage(k) = IF k \in {"control", "owned"} THEN "forward"
                      ELSE IF k = "decision" THEN "decide" ELSE "session"
  BY DEF FirstStage, Kinds
<1>3. PICK l \in BOOLEAN : /\ request' = [pc |-> FirstStage(k), kind |-> k, session |-> c,
                                          csrf |-> csrf, expected |-> rev, late |-> l]
                           /\ l => \/ ~LiveSession(c)
                                   \/ k # "owned" /\ ~member
                                   \/ k = "decision" /\ ~OwnerEligible(rev)
                                   \/ k \in Routed /\ ~(endpoint.active /\ ConsoleEligible(1))
  BY <1>2 DEF Arrive, Routed
<1>4. PICK r : r = request'
  OBVIOUS
<1>5. r \in RequestRow
  BY <1>0, <1>3, <1>4 DEF RequestRow, AllStages, Kinds
<1>6. /\ r.pc = FirstStage(k) /\ r.kind = k /\ r.session = c /\ r.late = l /\ r.expected = rev
      /\ r.csrf = csrf
  BY <1>3, <1>4
<1>7. LiveSession(c)' <=> LiveSession(c)
  BY <1>1 DEF LiveSession
<1>8. WillBeRefused(r)'
  BY <1>0, <1>1, <1>3, <1>6, <1>7
     DEF WillBeRefused, SessionPassed, MemberPassed, GrantPassed, EligiblePassed, OwnerPassed, Routed
<1>9. r.kind \in Kinds /\ r.pc \in Stages(r.kind)
  BY <1>0, <1>6 DEF Kinds, Stages, AllStages
<1>10. /\ ~CsrfPassed(r.kind, r.pc) \/ r.kind \in Unguarded
       /\ ~GrantPassed(r.kind, r.pc)
  BY <1>0, <1>6 DEF CsrfPassed, GrantPassed, Unguarded
<1>11. RequestFits(r)'
  BY <1>1, <1>2, <1>6, <1>8, <1>9, <1>10 DEF RequestFits, GrantPassed, CsrfPassed
<1> QED BY <1>1, <1>4, <1>5, <1>11 DEF RequestInv

\* A step that changes nothing but the stage of the request.
LEMMA StageKeeps ==
  ASSUME RequestInv, NEW pc \in Stages(request.kind), request.pc # "none", pc # "none",
         RequestTo(pc), UNCHANGED <<Sessions, Authority>>,
         request.kind \in Routed /\ pc \in {"eligibility", "send", "console", "release", "insert",
                                            "served"} => request.expected = 1,
         CsrfPassed(request.kind, pc) /\ ~CsrfPassed(request.kind, request.pc)
           /\ request.kind \notin Unguarded => request.csrf,
         SessionPassed(request.kind, pc) /\ ~SessionPassed(request.kind, request.pc) =>
           LiveSession(request.session),
         request.kind # "owned" /\ MemberPassed(request.kind, pc)
           /\ ~MemberPassed(request.kind, request.pc) => member,
         request.kind = "decision" /\ OwnerPassed(request.kind, pc)
           /\ ~OwnerPassed(request.kind, request.pc) => OwnerEligible(request.expected),
         request.kind \in Routed /\ GrantPassed(request.kind, pc)
           /\ ~GrantPassed(request.kind, request.pc) => endpoint.active,
         request.kind \in Routed /\ EligiblePassed(request.kind, pc)
           /\ ~EligiblePassed(request.kind, request.pc) => ConsoleEligible(1)
  PROVE  RequestInv'
<1>1. request \in RequestRow
  BY DEF RequestInv
<1>2. /\ request' = [request EXCEPT !.pc = pc, !.expected = request.expected]
      /\ request.expected \in Nat
  BY <1>1 DEF RequestTo, RequestRow
<1>3. LoginInv' /\ UNCHANGED session
  BY SameLogins DEF RequestInv
<1> QED BY <1>2, <1>3, AdvanceKeeps DEF RequestInv

\* The steps of a request.
LEMMA RequestStepKeeps ==
  ASSUME RequestInv, RequestStep
  PROVE  RequestInv'
<1>0. /\ request \in RequestRow /\ RequestFits(request) /\ LoginInv /\ AuthorityInv
      /\ request.kind \in Kinds /\ request.pc \in Stages(request.kind)
      /\ endpoint.rev = 1
  BY DEF RequestInv, RequestFits, AuthorityInv
<1>1. UNCHANGED <<Sessions, Authority>> => LoginInv' /\ AuthorityInv'
  BY <1>0, SameLogins, SameAuthority
<1>2. ASSUME request' = NoRequest, UNCHANGED <<Sessions, Authority>> PROVE RequestInv'
  BY <1>1, <1>2, RefuseKeeps
<1> USE DEF Refuse, Continue, Stages, AllStages, Kinds, Routed, SessionPassed, MemberPassed,
            GrantPassed, EligiblePassed, OwnerPassed, CsrfPassed, Unguarded
<1>3. CASE CheckSession
  <2>1. PICK pc : /\ \/ request.kind = "course" /\ pc = "membership"
                     \/ request.kind = "resource" /\ pc \in {"membership", "target"}
                     \/ request.kind \in {"runtime", "console"} /\ pc = "grant"
                  /\ Continue(LiveSession(request.session), pc)
    <3>1. request.pc = "session" /\ request.kind \in {"course", "resource", "runtime", "console"}
      BY <1>0, <1>3 DEF CheckSession
    <3> QED BY <1>3, <3>1 DEF CheckSession, ResourceAuthority
  <2>2. request.pc = "session" /\ UNCHANGED <<Sessions, Authority>>
    BY <1>3 DEF CheckSession
  <2>3. CASE LiveSession(request.session)
    <3>1. RequestTo(pc)
      BY <2>1, <2>3
    <3>2. pc \in Stages(request.kind)
      BY <2>1
    <3> QED BY <2>1, <2>2, <2>3, <3>1, <3>2, StageKeeps
  <2>4. CASE ~LiveSession(request.session)
    BY <1>2, <2>1, <2>2, <2>4
  <2> QED BY <2>3, <2>4
<1>4. CASE FetchTarget
  BY <1>0, <1>2, <1>4, StageKeeps DEF FetchTarget
<1>5. CASE CheckMembership
  BY <1>0, <1>2, <1>5, StageKeeps DEF CheckMembership, Authorize
<1>6. CASE Delegate
  BY <1>0, <1>2, <1>6, StageKeeps DEF Delegate, CsrfVerified
<1>7. CASE Forward
  <2>1. request.pc = "forward" /\ request.kind \in {"course", "control", "owned"}
        /\ UNCHANGED <<Sessions, Authority>>
    BY <1>0, <1>7 DEF Forward
  <2>2. CASE LiveSession(request.session) /\ CsrfVerified
    <3>1. PICK pc : /\ \/ request.kind = "course" /\ pc = "served"
                       \/ request.kind = "owned" /\ pc = "load"
                       \/ request.kind = "control" /\ pc = "decide"
                    /\ RequestTo(pc)
      BY <1>7, <2>1, <2>2 DEF Forward
    <3>2. pc \in Stages(request.kind)
      BY <2>1, <3>1
    <3> QED BY <1>0, <2>1, <2>2, <3>1, <3>2, StageKeeps DEF CsrfVerified
  <2>3. CASE ~(LiveSession(request.session) /\ CsrfVerified)
    BY <1>2, <1>7, <2>1, <2>3 DEF Forward
  <2> QED BY <2>2, <2>3
<1>18. CASE LoadOwned
  BY <1>0, <1>2, <1>18, StageKeeps DEF LoadOwned, RequestFits
<1>8. CASE Decide
  BY <1>0, <1>2, <1>8, StageKeeps DEF Decide
<1>9. CASE ResolveOwner
  BY <1>0, <1>2, <1>9, StageKeeps DEF ResolveOwner, OwnerAnswer
<1>10. CASE Permit
  BY <1>0, <1>2, <1>10, StageKeeps DEF Permit, RequestFits
<1>11. CASE CheckGrant
  <2>1. request.pc = "grant" /\ request.kind \in {"runtime", "console"}
        /\ UNCHANGED <<Sessions, Authority>>
    BY <1>0, <1>11 DEF CheckGrant
  <2>2. CASE endpoint.active /\ member
    <3>1. PICK pc : /\ pc = IF request.kind = "runtime" THEN "eligibility" ELSE "console"
                    /\ request' = [request EXCEPT !.pc = pc, !.expected = endpoint.rev]
      BY <1>11, <2>2 DEF CheckGrant
    <3>2. LoginInv' /\ UNCHANGED session
      BY <1>0, <2>1, SameLogins
    <3>3. pc \in Stages(request.kind)
      BY <2>1, <3>1
    <3> QED BY <1>0, <2>1, <2>2, <3>1, <3>2, <3>3, AdvanceKeeps
  <2>3. CASE ~(endpoint.active /\ member)
    BY <1>2, <1>11, <2>1, <2>3 DEF CheckGrant
  <2> QED BY <2>2, <2>3
<1>12. CASE ResolveEndpoint
  <2>1. request.expected = 1
    BY <1>0, <1>12 DEF ResolveEndpoint, RequestFits
  <2> QED BY <1>0, <1>2, <1>12, <2>1, StageKeeps
          DEF ResolveEndpoint, EndpointAnswer, EndpointEligible, ConsoleEligible
<1>13. CASE ForwardRuntime
  BY <1>0, <1>13, StageKeeps DEF ForwardRuntime, RequestFits
<1>14. CASE ResolveConsole
  <2>1. request.expected = 1
    BY <1>0, <1>14 DEF ResolveConsole, RequestFits
  <2> QED BY <1>0, <1>2, <1>14, <2>1, StageKeeps DEF ResolveConsole, ConsoleAnswer
<1>15. CASE ResolveConsoleRelease
  BY <1>0, <1>2, <1>15, StageKeeps DEF ResolveConsoleRelease, RequestFits
<1>16. CASE Respond
  BY <1>2, <1>16 DEF Respond
<1>17. CASE InsertCapability
  <2>1. request.pc = "insert" /\ request.kind = "console" /\ request.expected = 1
        /\ request.session \in Callbacks /\ session[request.session].state # "none"
    BY <1>0, <1>17 DEF InsertCapability, RequestFits
  <2>2. CASE LiveSession(request.session) /\ endpoint.active /\ member
    <3>1. PICK c \in Callbacks : c = request.session
      BY <2>1
    <3> DEFINE s == [session[c] EXCEPT !.pinned = TRUE]
    <3>2. session[c] \in BffRow /\ session \in [Callbacks -> BffRow]
      BY <1>0 DEF LoginInv
    <3>3. s \in BffRow /\ s.state = session[c].state /\ s.lapsed = session[c].lapsed
      BY <3>2 DEF BffRow
    <3>4. session' = [session EXCEPT ![c] = s] /\ RequestTo("served")
          /\ UNCHANGED <<oidc, callback, provider, logoutSeen, raced, Authority>>
      BY <1>17, <2>2, <3>1 DEF InsertCapability
    <3> HIDE DEF s
    <3>5. /\ session' \in [Callbacks -> BffRow]
          /\ \A d \in Callbacks : /\ session'[d].state = session[d].state
                                  /\ session'[d].lapsed = session[d].lapsed
      BY <3>2, <3>3, <3>4
    <3>6. LoginInv'
      BY <1>0, <3>4, <3>5, SessionsOnlyEnd DEF LoginInv
    <3>7. request' = [request EXCEPT !.pc = "served", !.expected = 1]
      BY <1>0, <2>1, <3>4 DEF RequestTo, RequestRow
    <3>8. "served" \in Stages(request.kind)
      BY <2>1
    <3> QED BY <1>0, <2>1, <2>2, <3>4, <3>5, <3>6, <3>7, <3>8, AdvanceKeeps
  <2>3. CASE ~(LiveSession(request.session) /\ endpoint.active /\ member)
    <3>1. request' = NoRequest /\ UNCHANGED <<Sessions, Authority>>
      BY <1>17, <2>3 DEF InsertCapability, Sessions
    <3> QED BY <1>2, <3>1
  <2> QED BY <2>2, <2>3
<1> QED BY <1>3, <1>4, <1>5, <1>6, <1>7, <1>8, <1>9, <1>10, <1>11, <1>12, <1>13, <1>14, <1>15,
           <1>16, <1>17, <1>18 DEF RequestStep


LEMMA RequestNextKeeps == ASSUME RequestInv, RequestNext PROVE RequestInv'
<1>0. LoginInv /\ AuthorityInv
  BY DEF RequestInv
<1>1. CASE \/ \E t \in Transactions : Login(t)
           \/ \E c \in Callbacks, t \in Transactions : ConsumeTransaction(c, t)
           \/ \E c \in Callbacks : ExchangeCode(c) \/ CreateSession(c)
  <2>1. /\ LoginInv' /\ UNCHANGED <<Authority, request>>
        /\ \A c \in Callbacks : session[c].state # "none" => session'[c] = session[c]
    BY <1>0, <1>1, LoginKeeps
  <2>2. Monotone /\ AuthorityInv'
    BY <1>0, <2>1, SameAuthority DEF Monotone, LiveSession
  <2> QED BY <2>1, <2>2, RequestStands
<1>2. CASE Lapse \/ ProviderLogout \/ BackchannelLogout \/ Cleanup \/ \E c \in Callbacks : Logout(c)
  <2>1. /\ LoginInv' /\ UNCHANGED <<Authority, request>>
        /\ \A c \in Callbacks :
             session[c].state # "none" => /\ session'[c].state # "none"
                                          /\ LiveSession(c)' => LiveSession(c)
    BY <1>0, <1>2, EndsKeep
  <2>2. Monotone /\ AuthorityInv'
    BY <1>0, <2>1, SameAuthority DEF Monotone
  <2> QED BY <2>1, <2>2, RequestStands
<1>3. CASE EndMembership \/ RevokeEndpointGrant \/ ChangeInstance
  <2>1. /\ AuthorityInv' /\ UNCHANGED <<Sessions, request>>
        /\ (member' => member) /\ (endpoint'.active => endpoint.active)
        /\ ConsoleEligible(1)' => ConsoleEligible(1)
        /\ instance.rev <= instance'.rev
        /\ \A n \in Nat : n <= instance.rev /\ OwnerEligible(n)' => OwnerEligible(n)
    BY <1>0, <1>3, AuthorityEnds
  <2>2. LoginInv' /\ UNCHANGED session
    BY <1>0, <2>1, SameLogins
  <2>3. Monotone
    BY <2>1, <2>2 DEF Monotone, LiveSession
  <2> QED BY <2>1, <2>2, <2>3, RequestStands
<1>4. CASE \E c \in Callbacks, csrf \in BOOLEAN :
             \/ ForwardControl(c, csrf) \/ ForwardEnvironment(c, csrf)
             \/ ForwardEvaluation(c, csrf) \/ Arrive(c, "resource", csrf, 0)
             \/ \E k \in {"runtime", "console"} : Arrive(c, k, csrf, 0)
  BY <1>4, ArriveKeeps DEF ForwardControl, ForwardEnvironment, ForwardEvaluation, Kinds
<1>5. CASE \E c \in Callbacks : AskDecision(c)
  <2>1. PICK c \in Callbacks, rev \in 1..instance.rev : Arrive(c, "decision", TRUE, rev)
    BY <1>5 DEF AskDecision
  <2>2. rev \in Nat /\ rev <= instance.rev
    BY <1>0 DEF AuthorityInv
  <2> QED BY <2>1, <2>2, ArriveKeeps DEF Kinds
<1> QED BY <1>1, <1>2, <1>3, <1>4, <1>5, RequestStepKeeps DEF RequestNext

LEMMA RequestImplies == RequestInv => RequestsSound
<1> SUFFICES ASSUME RequestInv PROVE RequestsSound
  OBVIOUS
<1>1. RequestTypeOK
  BY DEF RequestInv, LoginInv, OidcRow, BffRow, CallbackRow, RequestRow, AllStages, RequestTypeOK
<1>2. ServedAuthorized
  <2>1. RequestFits(request) /\ request \in RequestRow
    BY DEF RequestInv
  <2>2. WillBeRefused(request) /\ (CsrfPassed(request.kind, request.pc) /\ request.kind \notin Unguarded
          => request.csrf)
    BY <2>1 DEF RequestFits
  <2> QED BY <2>2 DEF ServedAuthorized, WillBeRefused, SessionPassed, MemberPassed, GrantPassed,
                      EligiblePassed, OwnerPassed, CsrfPassed, Routed, Unguarded
<1> QED BY <1>1, <1>2 DEF RequestsSound, RequestInv, LoginInv

\* A request is served only if everything it rests on was in force at once at a moment since it
\* arrived (for a row compared with its owner that is the session alone), a mutating one only
\* with its CSRF token, one OIDC transaction makes one session, and a consumed logout leaves no
\* session alive but those whose callback already had its identity: for any number of
\* transactions, callbacks and environment changes.
THEOREM RequestsAlwaysSound == PlatformSpec => []RequestsSound
<1>1. PlatformInit => RequestInv
  BY InitRequests DEF PlatformInit
<1>2. RequestInv /\ [PlatformNext]_platformVars => RequestInv'
  <2> SUFFICES ASSUME RequestInv, [PlatformNext]_platformVars PROVE RequestInv'
    OBVIOUS
  <2>1. CASE RequestNext
    BY <2>1, RequestNextKeeps
  <2>2. CASE UNCHANGED requestVars
    <3>1. UNCHANGED <<Sessions, Authority, request>>
      BY <2>2 DEF requestVars, Sessions, Authority
    <3>2. LoginInv' /\ UNCHANGED session /\ AuthorityInv' /\ UNCHANGED <<member, endpoint>>
          /\ ConsoleEligible(1)' = ConsoleEligible(1) /\ instance.rev <= instance'.rev
          /\ \A n \in Nat : OwnerEligible(n)' <=> OwnerEligible(n)
      BY <3>1, SameLogins, SameAuthority DEF RequestInv
    <3>3. Monotone
      BY <3>2 DEF Monotone, LiveSession
    <3> QED BY <3>1, <3>2, <3>3, RequestStands
  <2> QED BY <2>1, <2>2 DEF PlatformNext, OfMigration, OfRelay, OfRequests, platformVars
<1> QED BY <1>1, <1>2, RequestImplies, PTL DEF PlatformSpec


-----------------------------------------------------------------------------
(***************************************************************************)
(* Sequences.                                                              *)
(***************************************************************************)

\* A sequence whose elements are replaced is a sequence of the same length.
LEMMA Replaced ==
  ASSUME NEW S, NEW s \in Seq(S), NEW t, t \in [DOMAIN s -> S]
  PROVE  t \in Seq(S) /\ Len(t) = Len(s) /\ DOMAIN t = DOMAIN s
<1>1. Len(s) \in Nat /\ DOMAIN s = 1..Len(s)
  BY LenProperties
<1>2. t = [i \in 1..Len(s) |-> t[i]] /\ \A i \in 1..Len(s) : t[i] \in S
  BY <1>1
<1>3. t \in Seq(S)
  BY <1>1, <1>2
<1> QED BY <1>1, <1>3, LenProperties

\* An appended element comes after the others.
LEMMA Appended ==
  ASSUME NEW S, NEW s \in Seq(S), NEW e \in S
  PROVE  /\ Append(s, e) \in Seq(S) /\ Len(Append(s, e)) = Len(s) + 1
         /\ DOMAIN s = 1..Len(s) /\ DOMAIN Append(s, e) = 1..Len(s) + 1
         /\ Append(s, e)[Len(s) + 1] = e
         /\ \A i \in 1..Len(s) : Append(s, e)[i] = s[i]
BY AppendProperties, LenProperties

\* Equal up to the length of the first: a prefix.
LEMMA PrefixByElement ==
  ASSUME NEW S, NEW s \in Seq(S), NEW t \in Seq(S), Len(s) <= Len(t),
         \A i \in 1..Len(s) : s[i] = t[i]
  PROVE  IsPrefix(s, t)
<1>1. Len(s) \in Nat /\ Len(t) \in Nat /\ 1..Len(s) \subseteq 1..Len(t)
  BY LenProperties
<1>2. \A i \in 1..Len(s) : s[i] \in S /\ t[i] \in S
  BY <1>1, ElementOfSeq
<1>3. /\ SubSeq(s, 1, Len(s)) = [i \in 1..Len(s) |-> s[i]]
      /\ SubSeq(t, 1, Len(s)) = [i \in 1..Len(s) |-> t[i]]
  BY <1>1, <1>2
<1>4. SubSeq(s, 1, Len(s)) = SubSeq(t, 1, Len(s))
  BY <1>3
<1> QED BY <1>4 DEF IsPrefix


-----------------------------------------------------------------------------
(***************************************************************************)
(* Schema migrations.  A coordinator whose session lives holds the release *)
(* lock; one whose session broke goes on with a domain under the domain's  *)
(* lock, and its attempt, which the next job marks failed, still blocks    *)
(* every other release.                                                    *)
(***************************************************************************)
Schemas == Range(Domains)

CatalogRow == [id : Nat, sha : STRING]

AttemptRow == [job : Jobs, state : {"running", "succeeded", "failed"}, resolved : BOOLEAN]

Early == {"waiting", "abandon", "prepare"}

Working == {"domain", "lock", "classify", "apply", "succeed", "fail"}

JobRecord == [pc : Early \cup Working \cup {"error", "done", "exited"},
              domain : 1..Len(Domains) + 1, at : Nat, session : BOOLEAN]

\* An attempt that is running, or failed and not resolved: it holds back other releases.
Open(i) == ledger[i].state \in {"running", "failed"} /\ ~ledger[i].resolved

Running(i) == ledger[i].state = "running"

ReleaseAt(i) == releaseOf[ledger[i].job]

MigrationTypes ==
  /\ releaseOf \in [Jobs -> Releases] /\ hashed \in BOOLEAN
  /\ ledger \in Seq(AttemptRow)
  /\ releaseLock \in Jobs \cup {NoJob}
  /\ domainLock \in [Schemas -> Jobs \cup {NoJob}]
  /\ history \in [Schemas -> Seq(CatalogRow)]
  /\ job \in [Jobs -> JobRecord]

\* The last element of the set of positions s.
HasLast(s) == s = {} \/ \E m \in s : \A k \in s : k <= m

\* One row an attempt, one attempt running, and all that holds back is of one release.
LedgerFits ==
  /\ \A i, k \in DOMAIN ledger : ledger[i].job = ledger[k].job => i = k
  /\ \A i, k \in DOMAIN ledger : Running(i) /\ Running(k) => i = k
  /\ \A i \in DOMAIN ledger : Running(i) => ~ledger[i].resolved
  /\ \A i, k \in DOMAIN ledger : i < k /\ Open(i) => ReleaseAt(i) = ReleaseAt(k)
  /\ HasLast(Unresolved)

\* The rows h are the first migrations ms.
FirstOf(h, ms) == Len(h) <= Len(ms) /\ \A i \in 1..Len(h) : h[i] = ms[i]

HistoryFits ==
  \A d \in Schemas :
    /\ \A i \in 1..Len(history[d]) : history[d][i].id = i
    /\ hashed => \E r \in Releases : FirstOf(history[d], Catalog[r][d])

Complete ==
  \A i \in DOMAIN ledger : ledger[i].state = "succeeded" =>
    \A d \in Schemas : Len(history[d]) >= Len(Catalog[ReleaseAt(i)][d])

NoEntry(j) == \A i \in DOMAIN ledger : ledger[i].job # j

OpenEntry(j) == \E i \in DOMAIN ledger : ledger[i].job = j /\ Open(i)

NoneRunning == \A i \in DOMAIN ledger : ~Running(i)

\* What the job j may rely on when it is at x.
Fits(j, x) ==
  /\ x.session /\ x.pc \in (Early \ {"waiting"}) \cup Working => releaseLock = j
  /\ x.session /\ x.pc = "prepare" => NoneRunning
  /\ x.pc \in Early => NoEntry(j)
  /\ x.pc \in Working => OpenEntry(j)
  /\ x.pc \in {"lock", "classify", "apply"} => x.domain <= Len(Domains)
  /\ x.pc \in {"classify", "apply"} => domainLock[Domains[x.domain]] = j
  /\ x.pc = "apply" =>
       /\ x.at = Len(history[Domains[x.domain]])
       /\ x.at <= Len(Catalog[releaseOf[j]][Domains[x.domain]])
       /\ hashed => FirstOf(history[Domains[x.domain]], Catalog[releaseOf[j]][Domains[x.domain]])
  /\ x.pc = "succeed" => x.domain = Len(Domains) + 1
  /\ \A i \in 1..Len(Domains) : i < x.domain =>
       Len(history[Domains[i]]) >= Len(Catalog[releaseOf[j]][Domains[i]])

MigrationInv ==
  /\ MigrationTypes /\ LedgerFits /\ HistoryFits /\ Complete
  /\ \A j \in Jobs : Fits(j, job[j])


\* Domains are numbered.
LEMMA DomainNumbers ==
  /\ Len(Domains) \in Nat /\ DOMAIN Domains = 1..Len(Domains)
  /\ \A i \in 1..Len(Domains) : Domains[i] \in Schemas
  /\ \A d \in Schemas : \E i \in 1..Len(Domains) : d = Domains[i]
<1>1. Len(Domains) \in Nat /\ DOMAIN Domains = 1..Len(Domains)
  BY MigrationAssumption, LenProperties
<1> QED BY <1>1 DEF Schemas, Range

\* The catalog of a release and a domain.
LEMMA CatalogTyped ==
  ASSUME NEW r \in Releases, NEW d \in Schemas
  PROVE  /\ Catalog[r][d] \in Seq(CatalogRow) /\ Len(Catalog[r][d]) \in Nat
         /\ \A i \in 1..Len(Catalog[r][d]) : /\ Catalog[r][d][i] \in CatalogRow
                                             /\ Catalog[r][d][i].id = i
<1>1. /\ Catalog[r][d] \in Seq(CatalogRow)
      /\ \A i \in DOMAIN Catalog[r][d] : Catalog[r][d][i].id = i
  BY MigrationAssumption DEF Schemas, CatalogRow
<1> QED BY <1>1, LenProperties, ElementOfSeq

LEMMA HistoryTyped ==
  ASSUME MigrationTypes, NEW d \in Schemas
  PROVE  /\ history[d] \in Seq(CatalogRow) /\ Len(history[d]) \in Nat
         /\ DOMAIN history[d] = 1..Len(history[d])
         /\ \A i \in 1..Len(history[d]) : history[d][i] \in CatalogRow
<1>1. history[d] \in Seq(CatalogRow)
  BY DEF MigrationTypes
<1> QED BY <1>1, LenProperties, ElementOfSeq

LEMMA InitMigrations == MigrationInit => MigrationInv
<1> SUFFICES ASSUME MigrationInit PROVE MigrationInv
  OBVIOUS
<1>1. MigrationTypes
  <2>1. <<>> \in Seq(AttemptRow) /\ <<>> \in Seq(CatalogRow)
    OBVIOUS
  <2>2. [pc |-> "waiting", domain |-> 1, at |-> 0, session |-> TRUE] \in JobRecord
    BY DomainNumbers DEF JobRecord, Early
  <2> QED BY <2>1, <2>2 DEF MigrationInit, MigrationTypes, Schemas
<1>2. DOMAIN ledger = {} /\ \A d \in Schemas : history[d] = <<>>
  BY DEF MigrationInit, Schemas
<1>3. LedgerFits /\ Complete /\ \A j \in Jobs : NoEntry(j)
  BY <1>2 DEF LedgerFits, Complete, HasLast, Unresolved, NoEntry
<1>4. HistoryFits
  <2> SUFFICES ASSUME NEW d \in Schemas
               PROVE  /\ \A i \in 1..Len(history[d]) : history[d][i].id = i
                      /\ \E r \in Releases : FirstOf(history[d], Catalog[r][d])
    BY DEF HistoryFits
  <2>1. Len(history[d]) = 0 /\ 1..Len(history[d]) = {}
    BY <1>2
  <2>2. PICK r \in Releases : TRUE
    BY MigrationAssumption
  <2>3. FirstOf(history[d], Catalog[r][d])
    BY <2>1, CatalogTyped DEF FirstOf
  <2> QED BY <2>1, <2>3
<1>5. ASSUME NEW j \in Jobs PROVE Fits(j, job[j])
  <2>1. job[j].pc = "waiting" /\ job[j].domain = 1
    BY DEF MigrationInit
  <2> QED BY <1>3, <2>1, DomainNumbers DEF Fits, Early, Working
<1> QED BY <1>1, <1>3, <1>4, <1>5 DEF MigrationInv

\* Another job than the one that steps: its locks, its entry and the history of its domain
\* stand still.
LEMMA OtherFits ==
  ASSUME MigrationTypes, NEW k \in Jobs, Fits(k, job[k]),
         job'[k] = job[k], UNCHANGED <<releaseOf, hashed>>,
         releaseLock = k => releaseLock' = k,
         \A d \in Schemas : domainLock[d] = k => domainLock'[d] = k /\ history'[d] = history[d],
         \A d \in Schemas : Len(history'[d]) \in Nat /\ Len(history'[d]) >= Len(history[d]),
         NoEntry(k) => NoEntry(k)', OpenEntry(k) => OpenEntry(k)',
         releaseLock = k /\ NoneRunning => NoneRunning'
  PROVE  Fits(k, job[k])'
<1>1. PICK x \in JobRecord : x = job[k] /\ x = job'[k]
  BY DEF MigrationTypes
<1>2. Fits(k, x)
  BY <1>1
<1>3. x.pc \in {"lock", "classify", "apply"} => Domains[x.domain] \in Schemas
  BY <1>2, DomainNumbers DEF Fits, JobRecord
<1>4. ASSUME NEW i \in 1..Len(Domains), i < x.domain
      PROVE  Len(history'[Domains[i]]) >= Len(Catalog[releaseOf'[k]][Domains[i]])
  <2>1. Domains[i] \in Schemas /\ releaseOf[k] \in Releases
    BY DomainNumbers DEF MigrationTypes
  <2>2. Len(history[Domains[i]]) \in Nat /\ Len(Catalog[releaseOf[k]][Domains[i]]) \in Nat
    BY <2>1, HistoryTyped, CatalogTyped
  <2>3. Len(history[Domains[i]]) >= Len(Catalog[releaseOf[k]][Domains[i]])
    BY <1>2, <1>4 DEF Fits
  <2> QED BY <2>1, <2>2, <2>3
<1>5. x.session /\ x.pc \in (Early \ {"waiting"}) \cup Working => releaseLock' = k
  BY <1>2 DEF Fits
<1>6. x.session /\ x.pc = "prepare" => NoneRunning'
  <2>1. x.session /\ x.pc = "prepare" => releaseLock = k /\ NoneRunning
    BY <1>2 DEF Fits, Early
  <2> QED BY <2>1
<1>7. x.pc \in {"classify", "apply"} =>
        domainLock'[Domains[x.domain]] = k
        /\ history'[Domains[x.domain]] = history[Domains[x.domain]]
  BY <1>2, <1>3 DEF Fits
<1>8. Fits(k, x)'
  BY <1>2, <1>4, <1>5, <1>6, <1>7 DEF Fits
<1> QED BY <1>1, <1>8

\* A step of a job that leaves the ledger and the histories alone.
LEMMA QuietKeeps ==
  ASSUME MigrationInv, NEW j \in Jobs, NEW r \in JobRecord, job' = [job EXCEPT ![j] = r],
         UNCHANGED <<releaseOf, hashed, ledger, history>>,
         releaseLock' \in Jobs \cup {NoJob}, domainLock' \in [Schemas -> Jobs \cup {NoJob}],
         \A k \in Jobs \ {j} : releaseLock = k => releaseLock' = k,
         \A k \in Jobs \ {j}, d \in Schemas : domainLock[d] = k => domainLock'[d] = k,
         Fits(j, r)'
  PROVE  MigrationInv'
<1>1. MigrationTypes /\ LedgerFits /\ HistoryFits /\ Complete
  BY DEF MigrationInv
<1>2. MigrationTypes'
  BY <1>1 DEF MigrationTypes
<1>3. /\ \A i : Open(i)' <=> Open(i)
      /\ \A i : Running(i)' <=> Running(i)
      /\ \A i : ReleaseAt(i)' = ReleaseAt(i)
      /\ Unresolved' = Unresolved
  BY DEF Open, Running, ReleaseAt, Unresolved
<1>4. LedgerFits' /\ HistoryFits' /\ Complete'
  BY <1>1, <1>3 DEF LedgerFits, HistoryFits, Complete
<1>5. ASSUME NEW k \in Jobs \ {j} PROVE Fits(k, job[k])'
  <2>1. job'[k] = job[k] /\ Fits(k, job[k])
    BY <1>1 DEF MigrationTypes, MigrationInv
  <2>2. \A d \in Schemas : Len(history'[d]) \in Nat /\ Len(history'[d]) >= Len(history[d])
    BY <1>1, HistoryTyped
  <2>3. (NoEntry(k)' <=> NoEntry(k)) /\ (OpenEntry(k)' <=> OpenEntry(k))
        /\ (NoneRunning' <=> NoneRunning)
    BY <1>3 DEF NoEntry, OpenEntry, NoneRunning
  <2> QED BY <1>1, <2>1, <2>2, <2>3, OtherFits
<1>6. job'[j] = r
  BY <1>1 DEF MigrationTypes
<1>7. Fits(j, job[j])'
  <2>1. PICK x : x = r
    OBVIOUS
  <2> QED BY <1>6, <2>1 DEF Fits
<1> QED BY <1>2, <1>4, <1>5, <1>7 DEF MigrationInv


\* The record of a job at another step.
LEMMA Stepped ==
  ASSUME MigrationTypes, NEW j \in Jobs,
         NEW pc \in Early \cup Working \cup {"error", "done", "exited"}, To(j, pc)
  PROVE  \E r \in JobRecord :
           /\ job' = [job EXCEPT ![j] = r] /\ r.pc = pc /\ r.domain = job[j].domain
           /\ r.at = job[j].at /\ r.session = job[j].session
<1> DEFINE r == [job[j] EXCEPT !.pc = pc]
<1>1. job[j] \in JobRecord
  BY DEF MigrationTypes
<1>2. /\ r \in JobRecord /\ r.pc = pc /\ r.domain = job[j].domain /\ r.at = job[j].at
      /\ r.session = job[j].session
  BY <1>1 DEF JobRecord
<1>3. job' = [job EXCEPT ![j] = r]
  BY DEF To
<1> HIDE DEF r
<1> QED BY <1>2, <1>3

\* With the ledger, the entries stand still.
LEMMA SameEntries ==
  ASSUME UNCHANGED ledger, NEW j
  PROVE  /\ NoEntry(j)' <=> NoEntry(j)
         /\ OpenEntry(j)' <=> OpenEntry(j)
         /\ NoneRunning' <=> NoneRunning
BY DEF NoEntry, OpenEntry, NoneRunning, Open, Running

\* A job that has ended relies on nothing but the domains it has done.
LEMMA EndedFits ==
  ASSUME NEW j \in Jobs, Fits(j, job[j]), UNCHANGED <<releaseOf, history>>,
         NEW r \in JobRecord, r.domain = job[j].domain, r.pc \in {"error", "done", "exited"}
  PROVE  Fits(j, r)'
BY DEF Fits, Early, Working

\* The steps of a job up to its attempt, and those in which it ends.
LEMMA QuietSteps ==
  ASSUME MigrationInv, NEW j \in Jobs,
         \/ LockRelease(j) \/ SetCurrentDomain(j) \/ SessionFails(j)
         \/ ExitProcess(j) \/ Crash(j) \/ BreakSession(j)
         \/ PrepareAttempt(j) /\ UNCHANGED ledger
         \/ (Succeed(j) \/ Fail(j)) /\ UNCHANGED ledger
         \/ ApplyMigration(j) /\ UNCHANGED history
  PROVE  MigrationInv'
<1>0. /\ MigrationTypes /\ Fits(j, job[j]) /\ job[j] \in JobRecord /\ NoJob \notin Jobs
      /\ releaseLock \in Jobs \cup {NoJob} /\ domainLock \in [Schemas -> Jobs \cup {NoJob}]
  BY MigrationAssumption DEF MigrationInv, MigrationTypes
<1>1. ASSUME To(j, "error"), UNCHANGED <<releaseOf, hashed, ledger, releaseLock, domainLock, history>>
      PROVE  MigrationInv'
  <2>1. PICK r \in JobRecord : /\ job' = [job EXCEPT ![j] = r] /\ r.pc = "error"
                               /\ r.domain = job[j].domain
    BY <1>0, <1>1, Stepped
  <2>2. Fits(j, r)'
    BY <1>0, <1>1, <2>1, EndedFits
  <2> QED BY <1>0, <1>1, <2>1, <2>2, QuietKeeps
<1>2. CASE LockRelease(j)
  <2>1. /\ To(j, "abandon") /\ releaseLock' = j /\ releaseLock = NoJob /\ job[j].pc = "waiting"
        /\ UNCHANGED <<releaseOf, hashed, ledger, domainLock, history>>
    BY <1>2 DEF LockRelease
  <2>2. PICK r \in JobRecord : /\ job' = [job EXCEPT ![j] = r] /\ r.pc = "abandon"
                               /\ r.domain = job[j].domain
    BY <1>0, <2>1, Stepped DEF Early
  <2>3. Fits(j, r)'
    BY <1>0, <2>1, <2>2, SameEntries DEF Fits, Early, Working
  <2>4. \A k \in Jobs \ {j} : releaseLock # k
    BY <1>0, <2>1
  <2> QED BY <1>0, <2>1, <2>2, <2>3, <2>4, QuietKeeps
<1>3. CASE SetCurrentDomain(j)
  <2>1. /\ job[j].pc = "domain" /\ job[j].session
        /\ UNCHANGED <<releaseOf, hashed, ledger, releaseLock, domainLock, history>>
    BY <1>3 DEF SetCurrentDomain
  <2>2. CASE To(j, "error")
    BY <1>1, <2>1, <2>2
  <2>3. ASSUME NEW pc \in {"succeed", "lock"}, To(j, pc),
               pc = "succeed" => job[j].domain > Len(Domains),
               pc = "lock" => ~(job[j].domain > Len(Domains))
        PROVE  MigrationInv'
    <3>1. PICK r \in JobRecord : /\ job' = [job EXCEPT ![j] = r] /\ r.pc = pc
                                 /\ r.domain = job[j].domain
      BY <1>0, <2>3, Stepped DEF Working
    <3>2. /\ pc = "succeed" => r.domain = Len(Domains) + 1
          /\ pc = "lock" => r.domain <= Len(Domains)
      BY <2>3, <3>1, DomainNumbers DEF JobRecord
    <3>3. Fits(j, r)'
      BY <1>0, <2>1, <2>3, <3>1, <3>2, SameEntries DEF Fits, Early, Working
    <3> QED BY <1>0, <2>1, <3>1, <3>3, QuietKeeps
  <2> QED BY <1>3, <2>2, <2>3 DEF SetCurrentDomain, Errs
<1>4. CASE SessionFails(j)
  BY <1>1, <1>4 DEF SessionFails, Errs
<1>5. CASE PrepareAttempt(j) /\ UNCHANGED ledger
  <2>1. ledger' # Append(ledger, [job |-> j, state |-> "running", resolved |-> FALSE])
    <3>1. ledger \in Seq(AttemptRow)
      BY <1>0 DEF MigrationTypes
    <3>2. [job |-> j, state |-> "running", resolved |-> FALSE] \in AttemptRow
      BY DEF AttemptRow
    <3>3. PICK e \in AttemptRow : e = [job |-> j, state |-> "running", resolved |-> FALSE]
      BY <3>2
    <3>4. Len(Append(ledger, e)) = Len(ledger) + 1 /\ Len(ledger) \in Nat
      BY <3>1, Appended, LenProperties
    <3> QED BY <1>5, <3>3, <3>4
  <2> QED BY <1>1, <1>5, <2>1 DEF PrepareAttempt, Errs
<1>6. CASE (Succeed(j) \/ Fail(j)) /\ UNCHANGED ledger
  <2>1. PICK s \in {"succeeded", "failed"} : FinishAttempt(j, s)
    BY <1>6 DEF Succeed, Fail
  <2>2. CASE ~HasEntry(j, "running")
    BY <1>1, <2>1, <2>2 DEF FinishAttempt, Errs
  <2>3. CASE HasEntry(j, "running")
    <3>1. PICK i \in DOMAIN ledger : ledger[i].job = j /\ ledger[i].state = "running"
      BY <2>3 DEF HasEntry
    <3>2. Entry(j) = i
      <4>1. \A k \in DOMAIN ledger : ledger[k].job = j => k = i
        BY <3>1 DEF MigrationInv, LedgerFits
      <4> QED BY <3>1, <4>1 DEF Entry
    <3>3. ledger' = [ledger EXCEPT ![i].state = s]
      BY <2>1, <2>3, <3>2 DEF FinishAttempt, SetState
    <3>4. ledger[i] \in AttemptRow
      BY <1>0, <3>1, LenProperties, ElementOfSeq DEF MigrationTypes
    <3>5. ledger'[i].state = s
      BY <3>1, <3>3, <3>4 DEF AttemptRow
    <3> QED BY <1>6, <3>1, <3>5
  <2> QED BY <2>2, <2>3
<1>7. CASE ExitProcess(j) \/ Crash(j)
  <2>1. /\ To(j, "exited") /\ EndSessions(j)
        /\ UNCHANGED <<releaseOf, hashed, ledger, history>>
    BY <1>7 DEF ExitProcess, Crash
  <2>2. PICK r \in JobRecord : /\ job' = [job EXCEPT ![j] = r] /\ r.pc = "exited"
                               /\ r.domain = job[j].domain
    BY <1>0, <2>1, Stepped
  <2>3. Fits(j, r)'
    BY <1>0, <2>1, <2>2, EndedFits
  <2>4. /\ releaseLock' \in Jobs \cup {NoJob} /\ domainLock' \in [Schemas -> Jobs \cup {NoJob}]
        /\ \A k \in Jobs \ {j} : releaseLock = k => releaseLock' = k
        /\ \A k \in Jobs \ {j}, d \in Schemas : domainLock[d] = k => domainLock'[d] = k
    BY <1>0, <2>1 DEF EndSessions, Freed, Schemas
  <2> QED BY <2>1, <2>2, <2>3, <2>4, QuietKeeps
<1>8. CASE BreakSession(j)
  <2>1. /\ releaseLock' = Freed(j, releaseLock)
        /\ job' = [job EXCEPT ![j] = [job[j] EXCEPT !.session = FALSE]]
        /\ UNCHANGED <<releaseOf, hashed, ledger, domainLock, history>>
    BY <1>8 DEF BreakSession
  <2>2. PICK x \in JobRecord : x = job[j]
    BY <1>0
  <2>3. PICK r \in JobRecord : /\ job' = [job EXCEPT ![j] = r] /\ r.session = FALSE
                               /\ r.pc = x.pc /\ r.domain = x.domain /\ r.at = x.at
    <3>1. [x EXCEPT !.session = FALSE] \in JobRecord
      BY DEF JobRecord
    <3>2. PICK r \in JobRecord : r = [x EXCEPT !.session = FALSE]
      BY <3>1
    <3>3. r.session = FALSE /\ r.pc = x.pc /\ r.domain = x.domain /\ r.at = x.at
      BY <3>2 DEF JobRecord
    <3> QED BY <2>1, <2>2, <3>2, <3>3
  <2>4. Fits(j, x)
    BY <1>0, <2>2
  <2>5. Fits(j, r)'
    BY <2>1, <2>3, <2>4, SameEntries DEF Fits
  <2>6. /\ releaseLock' \in Jobs \cup {NoJob}
        /\ \A k \in Jobs \ {j} : releaseLock = k => releaseLock' = k
    BY <1>0, <2>1 DEF Freed
  <2> QED BY <1>0, <2>1, <2>3, <2>5, <2>6, QuietKeeps
<1>9. CASE ApplyMigration(j) /\ UNCHANGED history
  <2>1. /\ job[j].pc = "apply"
        /\ UNCHANGED <<releaseOf, hashed, ledger, releaseLock, domainLock>>
    BY <1>9 DEF ApplyMigration
  <2>2. To(j, "fail")
    <3>1. PICK d \in Schemas : d = DomainOf(j)
      BY <1>0, <2>1, DomainNumbers DEF Fits, DomainOf, JobRecord
    <3>2. history[d] \in Seq(CatalogRow) /\ Len(history[d]) \in Nat
      BY <1>0, HistoryTyped
    <3>3. ASSUME NEW e, history' = [history EXCEPT ![d] = Append(@, e)] PROVE FALSE
      <4>1. history'[d] = Append(history[d], e) /\ history'[d] = history[d]
        BY <1>0, <1>9, <3>3 DEF MigrationTypes
      <4>2. Len(Append(history[d], e)) = Len(history[d]) + 1
        BY <3>2
      <4> QED BY <3>2, <4>1, <4>2
    <3> QED BY <1>9, <3>1, <3>3 DEF ApplyMigration
  <2>3. PICK r \in JobRecord : /\ job' = [job EXCEPT ![j] = r] /\ r.pc = "fail"
                               /\ r.domain = job[j].domain /\ r.session = job[j].session
    BY <1>0, <2>2, Stepped DEF Working
  <2>4. Fits(j, r)'
    BY <1>0, <1>9, <2>1, <2>3, SameEntries DEF Fits, Early, Working
  <2> QED BY <1>0, <1>9, <2>1, <2>3, <2>4, QuietKeeps
<1> QED BY <1>2, <1>3, <1>4, <1>7, <1>8, <1>9, <1>5, <1>6

\* The steps of a job under the lock of its domain, up to the migrations themselves.
LEMMA DomainSteps ==
  ASSUME MigrationInv, NEW j \in Jobs, LockDomain(j) \/ StartDomain(j) \/ UnlockDomain(j)
  PROVE  MigrationInv'
<1>0. /\ MigrationTypes /\ Fits(j, job[j]) /\ job[j] \in JobRecord /\ NoJob \notin Jobs
      /\ releaseLock \in Jobs \cup {NoJob} /\ domainLock \in [Schemas -> Jobs \cup {NoJob}]
      /\ releaseOf[j] \in Releases /\ HistoryFits
  BY MigrationAssumption DEF MigrationInv, MigrationTypes
<1>1. PICK x \in JobRecord : x = job[j]
  BY <1>0
<1>2. Fits(j, x) /\ x.pc \in {"lock", "classify", "apply"}
  BY <1>0, <1>1 DEF LockDomain, StartDomain, UnlockDomain
<1>3. PICK d \in Schemas : d = Domains[x.domain] /\ d = DomainOf(j)
  BY <1>1, <1>2, DomainNumbers DEF Fits, DomainOf, JobRecord
<1>4. PICK ms \in Seq(CatalogRow) :
        /\ ms = Catalog[releaseOf[j]][d] /\ ms = Migrations(j) /\ Len(ms) \in Nat
        /\ \A i \in 1..Len(ms) : ms[i] \in CatalogRow /\ ms[i].id = i
  BY <1>0, <1>3, CatalogTyped DEF Migrations
<1>5. PICK h \in Seq(CatalogRow) :
        /\ h = history[d] /\ Len(h) \in Nat /\ DOMAIN h = 1..Len(h)
        /\ \A i \in 1..Len(h) : h[i] \in CatalogRow /\ h[i].id = i
  BY <1>0, <1>3, HistoryTyped DEF HistoryFits
<1>6. CASE LockDomain(j)
  <2>1. /\ x.pc = "lock" /\ domainLock[d] = NoJob /\ domainLock' = [domainLock EXCEPT ![d] = j]
        /\ To(j, "classify") /\ UNCHANGED <<releaseOf, hashed, ledger, releaseLock, history>>
    BY <1>1, <1>3, <1>6 DEF LockDomain
  <2>2. PICK r \in JobRecord : /\ job' = [job EXCEPT ![j] = r] /\ r.pc = "classify"
                               /\ r.domain = x.domain /\ r.session = x.session
    BY <1>0, <1>1, <2>1, Stepped DEF Working
  <2>3. domainLock'[Domains[r.domain]] = j
    BY <1>0, <1>3, <2>1, <2>2
  <2>4. Fits(j, r)'
    BY <1>2, <2>1, <2>2, <2>3, SameEntries DEF Fits, Early, Working
  <2>5. /\ domainLock' \in [Schemas -> Jobs \cup {NoJob}]
        /\ \A k \in Jobs \ {j}, e \in Schemas : domainLock[e] = k => domainLock'[e] = k
    BY <1>0, <2>1
  <2> QED BY <1>0, <2>1, <2>2, <2>4, <2>5, QuietKeeps
<1>7. CASE StartDomain(j)
  <2>1. x.pc = "classify" /\ UNCHANGED <<releaseOf, hashed, ledger, releaseLock, domainLock, history>>
    BY <1>1, <1>7 DEF StartDomain
  <2>2. CASE To(j, "fail")
    <3>1. PICK r \in JobRecord : /\ job' = [job EXCEPT ![j] = r] /\ r.pc = "fail"
                                 /\ r.domain = x.domain /\ r.session = x.session
      BY <1>0, <1>1, <2>2, Stepped DEF Working
    <3>2. Fits(j, r)'
      BY <1>2, <2>1, <3>1, SameEntries DEF Fits, Early, Working
    <3> QED BY <1>0, <2>1, <3>1, <3>2, QuietKeeps
  <2>3. CASE /\ Classify(h, ms) \in {"ready", "behind"}
             /\ job' = [job EXCEPT ![j].pc = "apply", ![j].at = Len(h)]
    <3>1. Len(h) <= Len(ms)
      BY <1>4, <1>5, <2>3 DEF Classify
    <3>2. hashed => \A i \in 1..Len(h) : h[i].sha = ms[i].sha
      BY <1>5, <2>3 DEF Classify
    <3>3. hashed => FirstOf(h, ms)
      <4> SUFFICES ASSUME hashed, NEW i \in 1..Len(h) PROVE h[i] = ms[i]
        BY <3>1 DEF FirstOf
      <4>1. i \in 1..Len(ms) /\ h[i].sha = ms[i].sha
        BY <1>4, <1>5, <3>1, <3>2
      <4>2. h[i] \in CatalogRow /\ ms[i] \in CatalogRow /\ h[i].id = ms[i].id
        BY <1>4, <1>5, <4>1
      <4> QED BY <4>1, <4>2 DEF CatalogRow
    <3>4. PICK r \in JobRecord : /\ job' = [job EXCEPT ![j] = r] /\ r.pc = "apply" /\ r.at = Len(h)
                                 /\ r.domain = x.domain /\ r.session = x.session
      <4>1. [x EXCEPT !.pc = "apply", !.at = Len(h)] \in JobRecord
        BY <1>5 DEF JobRecord, Working
      <4>2. PICK r \in JobRecord : r = [x EXCEPT !.pc = "apply", !.at = Len(h)]
        BY <4>1
      <4>3. r.pc = "apply" /\ r.at = Len(h) /\ r.domain = x.domain /\ r.session = x.session
        BY <4>2 DEF JobRecord
      <4>4. job' = [job EXCEPT ![j] = r]
        BY <1>1, <2>3, <4>2
      <4> QED BY <4>3, <4>4
    <3>5. Fits(j, r)'
      BY <1>2, <1>3, <1>4, <1>5, <2>1, <3>1, <3>3, <3>4, SameEntries DEF Fits, Early, Working
    <3> QED BY <1>0, <2>1, <3>4, <3>5, QuietKeeps
  <2> QED BY <1>3, <1>4, <1>5, <1>7, <2>2, <2>3 DEF StartDomain
<1>8. CASE UnlockDomain(j)
  <2>1. /\ x.pc = "apply" /\ x.at = Len(ms)
        /\ domainLock' = [domainLock EXCEPT ![d] = NoJob]
        /\ UNCHANGED <<releaseOf, hashed, ledger, releaseLock, history>>
    BY <1>1, <1>3, <1>4, <1>8 DEF UnlockDomain
  <2>2. PICK r \in JobRecord : /\ job' = [job EXCEPT ![j] = r] /\ r.pc = "domain"
                               /\ r.domain = x.domain + 1 /\ r.session = x.session
    <3>1. x.domain + 1 \in 1..Len(Domains) + 1
      BY <1>2, DomainNumbers DEF Fits, JobRecord
    <3>2. [x EXCEPT !.pc = "domain", !.domain = x.domain + 1] \in JobRecord
      BY <3>1 DEF JobRecord, Working
    <3>3. PICK r \in JobRecord : r = [x EXCEPT !.pc = "domain", !.domain = x.domain + 1]
      BY <3>2
    <3>4. r.pc = "domain" /\ r.domain = x.domain + 1 /\ r.session = x.session
      BY <3>3 DEF JobRecord
    <3>5. job' = [job EXCEPT ![j] = r]
      BY <1>1, <1>8, <3>3 DEF UnlockDomain
    <3> QED BY <3>4, <3>5
  <2>3. ASSUME NEW i \in 1..Len(Domains), i < r.domain
        PROVE  Len(history[Domains[i]]) >= Len(Catalog[releaseOf[j]][Domains[i]])
    <3>1. i < x.domain \/ i = x.domain
      BY <2>2, <2>3, DomainNumbers DEF JobRecord
    <3>2. CASE i = x.domain
      <4>1. Len(h) = Len(ms)
        BY <1>2, <1>3, <1>5, <2>1 DEF Fits
      <4>2. history[Domains[i]] = h /\ Catalog[releaseOf[j]][Domains[i]] = ms
        BY <1>3, <1>4, <1>5, <3>2
      <4> QED BY <1>4, <1>5, <4>1, <4>2
    <3> QED BY <1>2, <3>1, <3>2 DEF Fits
  <2>4. Fits(j, r)'
    BY <1>2, <2>1, <2>2, <2>3, SameEntries DEF Fits, Early, Working
  <2>5. /\ domainLock' \in [Schemas -> Jobs \cup {NoJob}]
        /\ \A k \in Jobs \ {j}, e \in Schemas : domainLock[e] = k => domainLock'[e] = k
    <3>1. domainLock[d] = j
      BY <1>2, <1>3, <2>1 DEF Fits
    <3> QED BY <1>0, <2>1, <3>1
  <2> QED BY <1>0, <2>1, <2>2, <2>4, <2>5, QuietKeeps
<1> QED BY <1>6, <1>7, <1>8



\* The rows of the ledger.
LEMMA LedgerTyped ==
  ASSUME MigrationTypes
  PROVE  /\ Len(ledger) \in Nat /\ DOMAIN ledger = 1..Len(ledger)
         /\ \A i \in DOMAIN ledger : i \in Nat /\ ledger[i] \in AttemptRow
<1>1. ledger \in Seq(AttemptRow)
  BY DEF MigrationTypes
<1> QED BY <1>1, LenProperties, ElementOfSeq

\* A set with one position more has a last one too.
LEMMA LastOfMore ==
  ASSUME NEW s \in SUBSET Nat, HasLast(s), NEW n \in Nat
  PROVE  HasLast(s \cup {n})
<1>1. CASE s = {}
  BY <1>1 DEF HasLast
<1>2. CASE s # {}
  <2>1. PICK m \in s : \A k \in s : k <= m
    BY <1>2 DEF HasLast
  <2>2. CASE n <= m
    BY <2>1, <2>2 DEF HasLast
  <2>3. CASE m < n
    BY <2>1, <2>3 DEF HasLast
  <2> QED BY <2>2, <2>3
<1> QED BY <1>1, <1>2

\* The ledger with the states of its rows changed: nothing begins to run or to hold back.
LEMMA LedgerMoves ==
  ASSUME MigrationTypes, LedgerFits, UNCHANGED releaseOf,
         ledger' \in [DOMAIN ledger -> AttemptRow],
         \A i \in DOMAIN ledger :
           /\ ledger'[i].job = ledger[i].job
           /\ Running(i)' => Running(i) /\ ~ledger'[i].resolved
           /\ Open(i)' => Open(i),
         HasLast(Unresolved')
  PROVE  /\ ledger' \in Seq(AttemptRow) /\ DOMAIN ledger' = DOMAIN ledger /\ LedgerFits'
         /\ \A k : NoEntry(k) => NoEntry(k)'
         /\ NoneRunning => NoneRunning'
<1>1. ledger \in Seq(AttemptRow)
  BY DEF MigrationTypes
<1>2. PICK t : t = ledger'
  OBVIOUS
<1>3. t \in Seq(AttemptRow) /\ DOMAIN t = DOMAIN ledger
  BY <1>1, <1>2, Replaced
<1>4. \A i \in DOMAIN ledger : ReleaseAt(i)' = ReleaseAt(i)
  BY DEF ReleaseAt
<1>5. DOMAIN ledger' = DOMAIN ledger
  BY <1>2, <1>3
<1>6. LedgerFits'
  <2>1. \A i, k \in DOMAIN ledger' : ledger'[i].job = ledger'[k].job => i = k
    BY <1>5 DEF LedgerFits
  <2>2. \A i, k \in DOMAIN ledger' : Running(i)' /\ Running(k)' => i = k
    BY <1>5 DEF LedgerFits
  <2>3. \A i, k \in DOMAIN ledger' : i < k /\ Open(i)' => ReleaseAt(i)' = ReleaseAt(k)'
    BY <1>4, <1>5 DEF LedgerFits
  <2>4. HasLast(Unresolved)'
    <3>1. PICK u : u = Unresolved'
      OBVIOUS
    <3> QED BY <3>1 DEF HasLast
  <2> QED BY <1>5, <2>1, <2>2, <2>3, <2>4 DEF LedgerFits
<1>7. \A k : NoEntry(k) => NoEntry(k)'
  BY <1>5 DEF NoEntry
<1>8. NoneRunning => NoneRunning'
  BY <1>5 DEF NoneRunning
<1> QED BY <1>2, <1>3, <1>5, <1>6, <1>7, <1>8

\* A step of a job that holds the release lock and changes the ledger.
LEMMA LedgerKeeps ==
  ASSUME MigrationInv, NEW j \in Jobs, NEW r \in JobRecord, job' = [job EXCEPT ![j] = r],
         UNCHANGED <<releaseOf, hashed, domainLock, history>>,
         releaseLock = j, releaseLock' \in Jobs \cup {NoJob},
         ledger' \in Seq(AttemptRow), LedgerFits', Complete',
         \A k \in Jobs \ {j} : (NoEntry(k) => NoEntry(k)') /\ (OpenEntry(k) => OpenEntry(k)'),
         Fits(j, r)'
  PROVE  MigrationInv'
<1>1. MigrationTypes /\ HistoryFits
  BY DEF MigrationInv
<1>2. MigrationTypes' /\ HistoryFits'
  BY <1>1 DEF MigrationTypes, HistoryFits
<1>3. ASSUME NEW k \in Jobs \ {j} PROVE Fits(k, job[k])'
  <2>1. job'[k] = job[k] /\ Fits(k, job[k]) /\ releaseLock # k
    BY <1>1 DEF MigrationTypes, MigrationInv
  <2>2. \A d \in Schemas : Len(history'[d]) \in Nat /\ Len(history'[d]) >= Len(history[d])
    BY <1>1, HistoryTyped
  <2> QED BY <1>1, <2>1, <2>2, OtherFits
<1>4. Fits(j, job[j])'
  <2>1. job'[j] = r
    BY <1>1 DEF MigrationTypes
  <2>2. PICK x : x = r
    OBVIOUS
  <2> QED BY <2>1, <2>2 DEF Fits
<1> QED BY <1>2, <1>3, <1>4 DEF MigrationInv

\* The attempts left running are marked failed.
LEMMA AbandonKeeps ==
  ASSUME MigrationInv, NEW j \in Jobs, AbandonAttempts(j)
  PROVE  MigrationInv'
<1>0. /\ MigrationTypes /\ LedgerFits /\ Complete /\ Fits(j, job[j]) /\ job[j] \in JobRecord
      /\ NoJob \notin Jobs
  BY MigrationAssumption DEF MigrationInv, MigrationTypes
<1>1. /\ job[j].pc = "abandon" /\ job[j].session /\ To(j, "prepare")
      /\ ledger' = [i \in DOMAIN ledger |-> IF ledger[i].state = "running"
                                             THEN [ledger[i] EXCEPT !.state = "failed"]
                                             ELSE ledger[i]]
      /\ UNCHANGED <<releaseOf, hashed, releaseLock, domainLock, history>>
  BY DEF AbandonAttempts
<1>2. ASSUME NEW i \in DOMAIN ledger
      PROVE  /\ ledger'[i] \in AttemptRow /\ ledger'[i].job = ledger[i].job
             /\ ledger'[i].resolved = ledger[i].resolved
             /\ ledger'[i].state = IF ledger[i].state = "running" THEN "failed" ELSE ledger[i].state
  <2>1. ledger[i] \in AttemptRow
    BY <1>0, LedgerTyped
  <2>2. CASE ledger[i].state = "running"
    <3>1. ledger'[i] = [ledger[i] EXCEPT !.state = "failed"]
      BY <1>1, <2>2
    <3> QED BY <2>1, <2>2, <3>1 DEF AttemptRow
  <2> QED BY <1>1, <2>1, <2>2
<1>3. \A i \in DOMAIN ledger : ~Running(i)' /\ (Open(i)' <=> Open(i))
  BY <1>2 DEF Running, Open
<1>4. ledger' \in [DOMAIN ledger -> AttemptRow] /\ DOMAIN ledger' = DOMAIN ledger
  BY <1>1, <1>2
<1>5. HasLast(Unresolved')
  <2>1. Unresolved \subseteq Nat /\ HasLast(Unresolved)
    BY <1>0, LedgerTyped DEF Unresolved, LedgerFits
  <2>2. CASE NoneRunning
    <3>1. Unresolved' = Unresolved
      BY <1>2, <1>4, <2>2 DEF Unresolved, NoneRunning, Running
    <3> QED BY <2>1, <3>1
  <2>3. CASE ~NoneRunning
    <3>1. PICK n \in DOMAIN ledger : Running(n)
      BY <2>3 DEF NoneRunning
    <3>2. n \in Nat /\ \A i \in DOMAIN ledger : Running(i) => i = n
      BY <1>0, <3>1, LedgerTyped DEF LedgerFits
    <3>3. ~ledger[n].resolved
      BY <1>0, <3>1 DEF LedgerFits
    <3>4. Unresolved' = Unresolved \cup {n}
      BY <1>2, <1>4, <3>1, <3>2, <3>3 DEF Unresolved, Running
    <3> QED BY <2>1, <3>2, <3>4, LastOfMore
  <2> QED BY <2>2, <2>3
<1>6. /\ ledger' \in Seq(AttemptRow) /\ LedgerFits' /\ \A k : NoEntry(k) => NoEntry(k)'
  BY <1>0, <1>1, <1>2, <1>3, <1>4, <1>5, LedgerMoves
<1>7. Complete'
  BY <1>0, <1>1, <1>2, <1>4 DEF Complete, ReleaseAt
<1>8. \A k : OpenEntry(k) => OpenEntry(k)'
  BY <1>2, <1>3, <1>4 DEF OpenEntry
<1>9. NoneRunning'
  BY <1>3, <1>4 DEF NoneRunning
<1>10. PICK r \in JobRecord : /\ job' = [job EXCEPT ![j] = r] /\ r.pc = "prepare"
                              /\ r.domain = job[j].domain
  BY <1>0, <1>1, Stepped DEF Early
<1>11. releaseLock = j /\ NoEntry(j)
  BY <1>0, <1>1 DEF Fits, Early
<1>12. Fits(j, r)'
  BY <1>0, <1>1, <1>6, <1>9, <1>10, <1>11 DEF Fits, Early, Working
<1> QED BY <1>1, <1>6, <1>7, <1>8, <1>10, <1>11, <1>12, LedgerKeeps



\* A new attempt: what it finds unresolved is of its own release.
LEMMA PrepareKeeps ==
  ASSUME MigrationInv, NEW j \in Jobs, PrepareAttempt(j), ~Blocked(j)
  PROVE  MigrationInv'
<1>0. /\ MigrationTypes /\ LedgerFits /\ Complete /\ Fits(j, job[j]) /\ job[j] \in JobRecord
      /\ NoJob \notin Jobs /\ ledger \in Seq(AttemptRow)
  BY MigrationAssumption DEF MigrationInv, MigrationTypes
<1>1. /\ job[j].pc = "prepare" /\ job[j].session /\ To(j, "domain")
      /\ ledger' = Append(ledger, [job |-> j, state |-> "running", resolved |-> FALSE])
      /\ UNCHANGED <<releaseOf, hashed, releaseLock, domainLock, history>>
  BY DEF PrepareAttempt
<1>2. PICK e \in AttemptRow : /\ ledger' = Append(ledger, e)
                              /\ e.job = j /\ e.state = "running" /\ e.resolved = FALSE
  <2>1. [job |-> j, state |-> "running", resolved |-> FALSE] \in AttemptRow
    BY DEF AttemptRow
  <2> QED BY <1>1, <2>1
<1>3. PICK n \in Nat : /\ n = Len(ledger) /\ DOMAIN ledger = 1..n /\ DOMAIN ledger' = 1..n + 1
                       /\ ledger' \in Seq(AttemptRow) /\ ledger'[n + 1] = e
                       /\ \A i \in 1..n : ledger'[i] = ledger[i]
  <2>1. Len(ledger) \in Nat
    BY <1>0, LedgerTyped
  <2> QED BY <1>0, <1>2, <2>1, Appended
<1>4. releaseLock = j /\ NoEntry(j) /\ NoneRunning
  BY <1>0, <1>1 DEF Fits, Early
<1>5. /\ \A i \in 1..n : /\ Open(i)' <=> Open(i)
                         /\ ReleaseAt(i)' = ReleaseAt(i) /\ ~Running(i)'
                         /\ i \in Unresolved' <=> i \in Unresolved
                         /\ Open(i) => i \in Unresolved
      /\ Running(n + 1)' /\ ReleaseAt(n + 1)' = releaseOf[j] /\ n + 1 \notin Unresolved'
      /\ Unresolved' = Unresolved
  <2>1. \A i \in 1..n : i \in 1..n + 1 /\ ~Running(i)
    BY <1>3, <1>4 DEF NoneRunning
  <2>2. \A i \in 1..n : /\ Open(i)' <=> Open(i)
                        /\ ReleaseAt(i)' = ReleaseAt(i) /\ ~Running(i)'
                        /\ Open(i) => ledger[i].state = "failed" /\ ~ledger[i].resolved
    BY <1>1, <1>3, <2>1 DEF Open, ReleaseAt, Running
  <2>3. \A i \in 1..n : /\ i \in Unresolved' <=> i \in Unresolved
                        /\ Open(i) => i \in Unresolved
    BY <1>3, <2>1, <2>2 DEF Unresolved
  <2>4. Running(n + 1)' /\ ReleaseAt(n + 1)' = releaseOf[j] /\ n + 1 \notin Unresolved'
    BY <1>1, <1>2, <1>3 DEF Running, ReleaseAt, Unresolved
  <2>5. Unresolved \subseteq 1..n /\ Unresolved' \subseteq 1..n + 1
    BY <1>3 DEF Unresolved
  <2>6. Unresolved' = Unresolved
    <3>1. \A i \in 1..n + 1 : i \in 1..n \/ i = n + 1
      BY <1>3
    <3>2. Unresolved' \subseteq 1..n
      BY <2>4, <2>5, <3>1
    <3> QED BY <2>3, <2>5, <3>2
  <2> QED BY <2>2, <2>3, <2>4, <2>6
<1>6. \A i \in Unresolved : ReleaseAt(i) = releaseOf[j]
  <2> SUFFICES ASSUME NEW i \in Unresolved PROVE ReleaseAt(i) = releaseOf[j]
    OBVIOUS
  <2>1. PICK m \in Unresolved : \A k \in Unresolved : k <= m
    BY <1>0 DEF LedgerFits, HasLast
  <2>2. ReleaseAt(m) = releaseOf[j]
    BY <2>1 DEF Blocked, ReleaseAt
  <2>3. i \in DOMAIN ledger /\ m \in DOMAIN ledger /\ Open(i) /\ i \in Nat /\ m \in Nat /\ i <= m
    BY <1>3, <2>1 DEF Unresolved, Open
  <2>4. CASE i < m
    BY <1>0, <2>2, <2>3, <2>4 DEF LedgerFits
  <2> QED BY <2>2, <2>3, <2>4
<1>7. LedgerFits'
  <2>1. \A i \in DOMAIN ledger' : i \in 1..n \/ i = n + 1
    BY <1>3
  <2>2. \A i, k \in DOMAIN ledger' : ledger'[i].job = ledger'[k].job => i = k
    <3>1. \A i \in 1..n : ledger'[i].job # j
      BY <1>3, <1>4 DEF NoEntry
    <3> QED BY <1>0, <1>2, <1>3, <2>1, <3>1 DEF LedgerFits
  <2>3. \A i, k \in DOMAIN ledger' : Running(i)' /\ Running(k)' => i = k
    BY <1>5, <2>1
  <2>4. \A i \in DOMAIN ledger' : Running(i)' => ~ledger'[i].resolved
    BY <1>2, <1>3, <1>5, <2>1
  <2>5. ASSUME NEW i \in DOMAIN ledger', NEW k \in DOMAIN ledger', i < k, Open(i)'
        PROVE  ReleaseAt(i)' = ReleaseAt(k)'
    <3>1. i \in 1..n /\ Open(i)
      BY <1>3, <1>5, <2>5
    <3>2. CASE k \in 1..n
      BY <1>0, <1>3, <1>5, <2>5, <3>1, <3>2 DEF LedgerFits
    <3>3. CASE k = n + 1
      BY <1>5, <1>6, <3>1, <3>3
    <3> QED BY <2>1, <3>2, <3>3
  <2>6. HasLast(Unresolved)'
    BY <1>0, <1>5 DEF LedgerFits, HasLast
  <2> QED BY <2>2, <2>3, <2>4, <2>5, <2>6 DEF LedgerFits
<1>8. Complete'
  <2> SUFFICES ASSUME NEW i \in DOMAIN ledger', ledger'[i].state = "succeeded", NEW d \in Schemas
               PROVE  Len(history'[d]) >= Len(Catalog[ReleaseAt(i)'][d])
    BY DEF Complete
  <2>1. i \in 1..n
    BY <1>2, <1>3
  <2>2. ledger[i].state = "succeeded" /\ ReleaseAt(i)' = ReleaseAt(i)
    BY <1>3, <1>5, <2>1
  <2> QED BY <1>0, <1>1, <1>3, <2>1, <2>2 DEF Complete
<1>9. \A k \in Jobs \ {j} : (NoEntry(k) => NoEntry(k)') /\ (OpenEntry(k) => OpenEntry(k)')
  <2>1. \A i \in 1..n : i \in 1..n + 1
    BY <1>3
  <2>2. \A i \in 1..n + 1 : i \in 1..n \/ i = n + 1
    BY <1>3
  <2>3. \A k \in Jobs \ {j} : NoEntry(k) => NoEntry(k)'
    BY <1>2, <1>3, <2>2 DEF NoEntry
  <2>4. \A k \in Jobs \ {j} : OpenEntry(k) => OpenEntry(k)'
    BY <1>3, <1>5, <2>1 DEF OpenEntry
  <2> QED BY <2>3, <2>4
<1>10. OpenEntry(j)'
  <2>1. n + 1 \in DOMAIN ledger' /\ ledger'[n + 1].job = j /\ Open(n + 1)'
    BY <1>2, <1>3 DEF Open
  <2> QED BY <2>1 DEF OpenEntry
<1>11. PICK r \in JobRecord : /\ job' = [job EXCEPT ![j] = r] /\ r.pc = "domain"
                              /\ r.domain = job[j].domain
  BY <1>0, <1>1, Stepped DEF Working
<1>12. Fits(j, r)'
  BY <1>0, <1>1, <1>4, <1>10, <1>11 DEF Fits, Early, Working
<1> QED BY <1>0, <1>1, <1>3, <1>4, <1>7, <1>8, <1>9, <1>11, <1>12, LedgerKeeps

\* The end of an attempt: one that succeeds has every domain behind it.
LEMMA FinishKeeps ==
  ASSUME MigrationInv, NEW j \in Jobs, Succeed(j) \/ Fail(j), HasEntry(j, "running")
  PROVE  MigrationInv'
<1>0. /\ MigrationTypes /\ LedgerFits /\ Complete /\ Fits(j, job[j]) /\ job[j] \in JobRecord
      /\ NoJob \notin Jobs
  BY MigrationAssumption DEF MigrationInv, MigrationTypes
<1>1. PICK s \in {"succeeded", "failed"} :
        FinishAttempt(j, s) /\ job[j].pc = IF s = "failed" THEN "fail" ELSE "succeed"
  BY DEF Succeed, Fail
<1>2. PICK n \in DOMAIN ledger : ledger[n].job = j /\ ledger[n].state = "running"
  BY DEF HasEntry
<1>3. Entry(j) = n
  <2>1. \A k \in DOMAIN ledger : ledger[k].job = j => k = n
    BY <1>0, <1>2 DEF LedgerFits
  <2> QED BY <1>2, <2>1 DEF Entry
<1>4. /\ ledger' = [ledger EXCEPT ![n].state = s] /\ job[j].session /\ releaseLock' = NoJob
      /\ To(j, IF s = "failed" THEN "error" ELSE "done")
      /\ UNCHANGED <<releaseOf, hashed, domainLock, history>>
  BY <1>1, <1>3 DEF FinishAttempt, SetState
<1>5. /\ releaseLock = j
      /\ s = "succeeded" => job[j].domain = Len(Domains) + 1
      /\ \A i \in 1..Len(Domains) : i < job[j].domain =>
           Len(history[Domains[i]]) >= Len(Catalog[releaseOf[j]][Domains[i]])
  BY <1>0, <1>1, <1>4 DEF Fits, Working
<1>6. /\ ledger' \in [DOMAIN ledger -> AttemptRow] /\ DOMAIN ledger' = DOMAIN ledger
      /\ ledger'[n].state = s /\ ledger'[n].job = j /\ ledger'[n].resolved = ledger[n].resolved
      /\ \A i \in DOMAIN ledger \ {n} : ledger'[i] = ledger[i]
  <2>1. ledger \in [DOMAIN ledger -> AttemptRow] /\ ledger[n] \in AttemptRow
    <3>1. ledger \in Seq(AttemptRow)
      BY <1>0 DEF MigrationTypes
    <3> QED BY <1>0, <1>2, <3>1, LedgerTyped
  <2>2. PICK e \in AttemptRow : /\ e = [ledger[n] EXCEPT !.state = s] /\ e.state = s
                                /\ e.job = ledger[n].job /\ e.resolved = ledger[n].resolved
    <3>1. [ledger[n] EXCEPT !.state = s] \in AttemptRow
      BY <2>1 DEF AttemptRow
    <3> QED BY <2>1, <3>1 DEF AttemptRow
  <2>3. ledger' = [ledger EXCEPT ![n] = e]
    BY <1>4, <2>2
  <2> QED BY <1>2, <2>1, <2>2, <2>3
<1>7. ~ledger[n].resolved /\ Running(n)
  BY <1>0, <1>2 DEF LedgerFits, Running
<1>8. \A i \in DOMAIN ledger : /\ ledger'[i].job = ledger[i].job
                               /\ Running(i)' => Running(i) /\ ~ledger'[i].resolved
                               /\ Open(i)' => Open(i)
  <2>1. \A i \in DOMAIN ledger \ {n} :
          (Running(i)' <=> Running(i)) /\ (Open(i)' <=> Open(i))
    BY <1>6 DEF Running, Open
  <2>2. ~Running(n)' /\ Open(n)
    BY <1>2, <1>6, <1>7 DEF Running, Open
  <2> QED BY <1>0, <1>2, <1>6, <2>1, <2>2 DEF LedgerFits
<1>9. HasLast(Unresolved')
  <2>1. Unresolved \subseteq Nat /\ HasLast(Unresolved) /\ n \in Nat
    BY <1>0, <1>2, LedgerTyped DEF Unresolved, LedgerFits
  <2>2. Unresolved' = IF s = "failed" THEN Unresolved \cup {n} ELSE Unresolved
    BY <1>1, <1>2, <1>6, <1>7 DEF Unresolved
  <2> QED BY <2>1, <2>2, LastOfMore
<1>10. ledger' \in Seq(AttemptRow) /\ LedgerFits' /\ \A k : NoEntry(k) => NoEntry(k)'
  BY <1>0, <1>4, <1>6, <1>8, <1>9, LedgerMoves
<1>11. Complete'
  <2> SUFFICES ASSUME NEW i \in DOMAIN ledger', ledger'[i].state = "succeeded", NEW d \in Schemas
               PROVE  Len(history'[d]) >= Len(Catalog[ReleaseAt(i)'][d])
    BY DEF Complete
  <2>1. CASE i # n
    BY <1>0, <1>4, <1>6, <2>1 DEF Complete, ReleaseAt
  <2>2. CASE i = n
    <3>1. PICK m \in 1..Len(Domains) : d = Domains[m]
      BY DomainNumbers
    <3>2. m < job[j].domain
      BY <1>5, <1>6, <2>2, DomainNumbers
    <3>3. ReleaseAt(i)' = releaseOf[j]
      BY <1>4, <1>6, <2>2 DEF ReleaseAt
    <3> QED BY <1>4, <1>5, <3>1, <3>2, <3>3
  <2> QED BY <2>1, <2>2
<1>12. \A k \in Jobs \ {j} : OpenEntry(k) => OpenEntry(k)'
  <2>1. \A i \in DOMAIN ledger \ {n} : Open(i) => Open(i)'
    BY <1>6 DEF Open
  <2> QED BY <1>2, <1>6, <2>1 DEF OpenEntry
<1>13. PICK r \in JobRecord : /\ job' = [job EXCEPT ![j] = r] /\ r.pc \in {"error", "done"}
                              /\ r.domain = job[j].domain
  <2>1. PICK pc \in {"error", "done"} : To(j, pc)
    BY <1>4
  <2> QED BY <1>0, <2>1, Stepped
<1>14. Fits(j, r)'
  BY <1>0, <1>4, <1>13, EndedFits
<1> QED BY <1>4, <1>5, <1>10, <1>11, <1>12, <1>13, <1>14, LedgerKeeps



\* A repair resolves what held back; no job is at work.
LEMMA ResolveKeeps ==
  ASSUME MigrationInv, Resolve
  PROVE  MigrationInv'
<1>0. /\ MigrationTypes /\ LedgerFits /\ HistoryFits /\ Complete
      /\ \A j \in Jobs : Fits(j, job[j]) /\ job[j] \in JobRecord
  BY DEF MigrationInv, MigrationTypes
<1>1. /\ \A j \in Jobs : job[j].pc \in {"waiting", "done", "exited"}
      /\ ledger' = [i \in DOMAIN ledger |->
                      [ledger[i] EXCEPT !.resolved = i \in Unresolved \/ ledger[i].resolved]]
      /\ UNCHANGED <<releaseOf, hashed, releaseLock, domainLock, history, job>>
  BY DEF Resolve
<1>2. ASSUME NEW i \in DOMAIN ledger
      PROVE  /\ ledger'[i] \in AttemptRow /\ ledger'[i].job = ledger[i].job
             /\ ledger'[i].state = ledger[i].state
             /\ ledger'[i].resolved <=> i \in Unresolved \/ ledger[i].resolved
  <2>1. ledger[i] \in AttemptRow
    BY <1>0, LedgerTyped
  <2>2. PICK b \in BOOLEAN : b = (i \in Unresolved \/ ledger[i].resolved)
    OBVIOUS
  <2>3. ledger'[i] = [ledger[i] EXCEPT !.resolved = b]
    BY <1>1, <2>2
  <2> QED BY <2>1, <2>2, <2>3 DEF AttemptRow
<1>3. ledger' \in [DOMAIN ledger -> AttemptRow] /\ DOMAIN ledger' = DOMAIN ledger
  BY <1>1, <1>2
<1>4. \A i \in DOMAIN ledger : (Running(i)' <=> Running(i)) /\ (Open(i)' => Open(i))
  BY <1>2 DEF Running, Open
<1>5. \A i \in DOMAIN ledger : Running(i)' => ~ledger'[i].resolved
  BY <1>0, <1>2, <1>4 DEF LedgerFits, Running, Unresolved
<1>6. Unresolved' = {}
  BY <1>2, <1>3 DEF Unresolved
<1>7. HasLast(Unresolved')
  BY <1>6 DEF HasLast
<1>8. ledger' \in Seq(AttemptRow) /\ LedgerFits' /\ \A k : NoEntry(k) => NoEntry(k)'
  BY <1>0, <1>1, <1>2, <1>3, <1>4, <1>5, <1>7, LedgerMoves
<1>9. Complete'
  BY <1>0, <1>1, <1>2, <1>3 DEF Complete, ReleaseAt
<1>10. MigrationTypes' /\ HistoryFits'
  BY <1>0, <1>1, <1>8 DEF MigrationTypes, HistoryFits
<1>11. ASSUME NEW j \in Jobs PROVE Fits(j, job[j])'
  <2>1. PICK x \in JobRecord : x = job[j] /\ x = job'[j]
    BY <1>0, <1>1
  <2>2. Fits(j, x) /\ x.pc \in {"waiting", "done", "exited"}
    BY <1>0, <1>1, <2>1
  <2>3. Fits(j, x)'
    BY <1>1, <1>8, <2>2 DEF Fits, Early, Working
  <2> QED BY <2>1, <2>3
<1> QED BY <1>8, <1>9, <1>10, <1>11 DEF MigrationInv

\* A migration and its row: the history of the domain grows under the domain's lock.
LEMMA ApplyKeeps ==
  ASSUME MigrationInv, NEW j \in Jobs, ApplyMigration(j), ~UNCHANGED history
  PROVE  MigrationInv'
<1>0. /\ MigrationTypes /\ LedgerFits /\ HistoryFits /\ Complete
      /\ Fits(j, job[j]) /\ job[j] \in JobRecord /\ NoJob \notin Jobs
      /\ releaseOf[j] \in Releases
  BY MigrationAssumption DEF MigrationInv, MigrationTypes
<1>1. PICK x \in JobRecord : x = job[j]
  BY <1>0
<1>2. Fits(j, x) /\ x.pc = "apply"
  BY <1>0, <1>1 DEF ApplyMigration
<1>3. PICK d \in Schemas : d = Domains[x.domain] /\ d = DomainOf(j)
  BY <1>1, <1>2, DomainNumbers DEF Fits, DomainOf, JobRecord
<1>4. PICK ms \in Seq(CatalogRow) :
        /\ ms = Catalog[releaseOf[j]][d] /\ ms = Migrations(j) /\ Len(ms) \in Nat
        /\ \A i \in 1..Len(ms) : ms[i] \in CatalogRow /\ ms[i].id = i
  BY <1>0, <1>3, CatalogTyped DEF Migrations
<1>5. PICK h \in Seq(CatalogRow) :
        /\ h = history[d] /\ Len(h) \in Nat /\ DOMAIN h = 1..Len(h)
        /\ \A i \in 1..Len(h) : h[i] \in CatalogRow /\ h[i].id = i
  BY <1>0, <1>3, HistoryTyped DEF HistoryFits
<1>6. /\ x.at = Len(h) /\ domainLock[d] = j /\ x.at < Len(ms)
      /\ hashed => FirstOf(h, ms)
  BY <1>1, <1>2, <1>3, <1>4, <1>5 DEF Fits, ApplyMigration
<1>7. PICK e \in CatalogRow : e = ms[Len(h) + 1] /\ e.id = Len(h) + 1
  <2>1. Len(h) + 1 \in 1..Len(ms)
    BY <1>4, <1>5, <1>6
  <2> QED BY <1>4, <2>1
<1>8. /\ history' = [history EXCEPT ![d] = Append(h, e)]
      /\ job' = [job EXCEPT ![j].at = job[j].at + 1]
      /\ UNCHANGED <<releaseOf, hashed, ledger, releaseLock, domainLock>>
  BY <1>1, <1>3, <1>4, <1>5, <1>6, <1>7 DEF ApplyMigration
<1>9. PICK g \in Seq(CatalogRow) :
        /\ g = Append(h, e) /\ Len(g) = Len(h) + 1 /\ g[Len(h) + 1] = e
        /\ \A i \in 1..Len(h) : g[i] = h[i]
  <2>1. Append(h, e) \in Seq(CatalogRow)
    BY Appended
  <2>2. PICK g \in Seq(CatalogRow) : g = Append(h, e)
    BY <2>1
  <2> QED BY <2>2, Appended
<1>10. /\ history' \in [Schemas -> Seq(CatalogRow)] /\ history'[d] = g
       /\ \A c \in Schemas \ {d} : history'[c] = history[c]
  BY <1>0, <1>8, <1>9 DEF MigrationTypes
<1>11. \A i \in 1..Len(g) : i \in 1..Len(h) \/ i = Len(h) + 1
  BY <1>5, <1>9
<1>12. Len(g) <= Len(ms) /\ Len(g) \in Nat /\ Len(g) >= Len(h)
  BY <1>4, <1>5, <1>6, <1>9
<1>13. hashed => FirstOf(g, ms)
  BY <1>6, <1>7, <1>9, <1>11, <1>12 DEF FirstOf
<1>14. HistoryFits'
  <2> SUFFICES ASSUME NEW c \in Schemas
               PROVE  /\ \A i \in 1..Len(history'[c]) : history'[c][i].id = i
                      /\ hashed' => \E r \in Releases : FirstOf(history'[c], Catalog[r][c])
    <3>1. \A c \in Schemas : \A r : FirstOf(history'[c], Catalog[r][c]) <=> FirstOf(history[c], Catalog[r][c])'
      BY DEF FirstOf
    <3> QED BY <3>1 DEF HistoryFits
  <2>1. CASE c = d
    <3>1. \A i \in 1..Len(g) : g[i].id = i
      BY <1>5, <1>7, <1>9, <1>11
    <3> QED BY <1>0, <1>4, <1>8, <1>10, <1>13, <2>1, <3>1
  <2>2. CASE c # d
    BY <1>0, <1>8, <1>10, <2>2 DEF HistoryFits
  <2> QED BY <2>1, <2>2
<1>15. \A c \in Schemas : /\ Len(history[c]) \in Nat /\ Len(history'[c]) \in Nat
                          /\ Len(history'[c]) >= Len(history[c])
  <2> SUFFICES ASSUME NEW c \in Schemas
               PROVE  /\ Len(history[c]) \in Nat /\ Len(history'[c]) \in Nat
                      /\ Len(history'[c]) >= Len(history[c])
    OBVIOUS
  <2>1. Len(history[c]) \in Nat
    BY <1>0, HistoryTyped
  <2> QED BY <1>5, <1>10, <1>12, <2>1
<1>16. Complete'
  <2> SUFFICES ASSUME NEW i \in DOMAIN ledger', ledger'[i].state = "succeeded", NEW c \in Schemas
               PROVE  Len(history'[c]) >= Len(Catalog[ReleaseAt(i)'][c])
    BY DEF Complete
  <2>1. ReleaseAt(i)' = ReleaseAt(i) /\ ReleaseAt(i) \in Releases
    <3>1. ledger[i] \in AttemptRow
      BY <1>0, <1>8, LedgerTyped
    <3> QED BY <1>0, <1>8, <3>1 DEF ReleaseAt, AttemptRow, MigrationTypes
  <2>2. Len(history[c]) >= Len(Catalog[ReleaseAt(i)][c])
    BY <1>0, <1>8 DEF Complete
  <2>3. Len(Catalog[ReleaseAt(i)][c]) \in Nat
    BY <2>1, CatalogTyped
  <2> QED BY <1>15, <2>1, <2>2, <2>3
<1>17. LedgerFits'
  <2>1. /\ \A i : (Open(i)' <=> Open(i)) /\ (Running(i)' <=> Running(i)) /\ ReleaseAt(i)' = ReleaseAt(i)
        /\ Unresolved' = Unresolved
    BY <1>8 DEF Open, Running, ReleaseAt, Unresolved
  <2> QED BY <1>0, <1>8, <2>1 DEF LedgerFits
<1>18. PICK r \in JobRecord : /\ job' = [job EXCEPT ![j] = r] /\ r.pc = "apply"
                              /\ r.at = Len(g) /\ r.domain = x.domain /\ r.session = x.session
  <2>1. [x EXCEPT !.at = x.at + 1] \in JobRecord
    BY DEF JobRecord
  <2>2. PICK r \in JobRecord : r = [x EXCEPT !.at = x.at + 1]
    BY <2>1
  <2>3. r.pc = x.pc /\ r.at = x.at + 1 /\ r.domain = x.domain /\ r.session = x.session
    BY <2>2 DEF JobRecord
  <2>4. job' = [job EXCEPT ![j] = r]
    BY <1>1, <1>8, <2>2
  <2> QED BY <1>2, <1>6, <1>9, <2>3, <2>4
<1>19. ASSUME NEW k \in Jobs \ {j} PROVE Fits(k, job[k])'
  <2>1. job'[k] = job[k] /\ Fits(k, job[k])
    BY <1>0, <1>18 DEF MigrationTypes, MigrationInv
  <2>2. \A c \in Schemas : domainLock[c] = k => domainLock'[c] = k /\ history'[c] = history[c]
    BY <1>6, <1>8, <1>10
  <2> QED BY <1>0, <1>8, <1>15, <2>1, <2>2, SameEntries, OtherFits
<1>20. Fits(j, r)'
  <2>1. \A i \in 1..Len(Domains) : i < r.domain =>
          Len(history'[Domains[i]]) >= Len(Catalog[releaseOf[j]][Domains[i]])
    <3> SUFFICES ASSUME NEW i \in 1..Len(Domains), i < r.domain
                 PROVE  Len(history'[Domains[i]]) >= Len(Catalog[releaseOf[j]][Domains[i]])
      OBVIOUS
    <3>1. Domains[i] \in Schemas
      BY DomainNumbers
    <3>2. Len(history[Domains[i]]) >= Len(Catalog[releaseOf[j]][Domains[i]])
      BY <1>2, <1>18 DEF Fits
    <3>3. Len(Catalog[releaseOf[j]][Domains[i]]) \in Nat
      BY <1>0, <3>1, CatalogTyped
    <3> QED BY <1>15, <3>1, <3>2, <3>3
  <2>2. /\ history'[Domains[r.domain]] = g /\ Catalog[releaseOf'[j]][Domains[r.domain]] = ms
        /\ domainLock'[Domains[r.domain]] = j
    BY <1>3, <1>4, <1>6, <1>8, <1>10, <1>18
  <2>3. hashed' => FirstOf(history'[Domains[r.domain]], Catalog[releaseOf'[j]][Domains[r.domain]])
    BY <1>8, <1>13, <2>2
  <2>4. /\ OpenEntry(j)' /\ r.domain <= Len(Domains)
        /\ r.session => releaseLock' = j
    BY <1>2, <1>8, <1>18, SameEntries DEF Fits, Working
  <2>5. r.at = Len(history'[Domains[r.domain]])
        /\ r.at <= Len(Catalog[releaseOf'[j]][Domains[r.domain]])
    BY <1>12, <1>18, <2>2
  <2> QED BY <1>8, <1>18, <2>1, <2>2, <2>3, <2>4, <2>5 DEF Fits, Early, Working, FirstOf
<1>21. Fits(j, job[j])'
  <2>1. job'[j] = r
    BY <1>0, <1>18 DEF MigrationTypes
  <2> QED BY <1>20, <2>1 DEF Fits
<1>22. MigrationTypes'
  BY <1>0, <1>8, <1>10, <1>18 DEF MigrationTypes
<1> QED BY <1>14, <1>16, <1>17, <1>19, <1>21, <1>22 DEF MigrationInv



LEMMA MigrationNextKeeps ==
  ASSUME MigrationInv, MigrationNext
  PROVE  MigrationInv'
<1>1. CASE Resolve
  BY <1>1, ResolveKeeps
<1>2. ASSUME NEW j \in Jobs, JobStep(j) \/ Crash(j) \/ BreakSession(j) PROVE MigrationInv'
  <2>1. CASE \/ LockRelease(j) \/ SetCurrentDomain(j) \/ SessionFails(j)
             \/ ExitProcess(j) \/ Crash(j) \/ BreakSession(j)
    BY <2>1, QuietSteps
  <2>2. CASE LockDomain(j) \/ StartDomain(j) \/ UnlockDomain(j)
    BY <2>2, DomainSteps
  <2>3. CASE AbandonAttempts(j)
    BY <2>3, AbandonKeeps
  <2>4. CASE PrepareAttempt(j)
    <3>1. CASE Blocked(j)
      <4>1. UNCHANGED ledger
        BY <2>4, <3>1 DEF PrepareAttempt
      <4> QED BY <2>4, <4>1, QuietSteps
    <3>2. CASE ~Blocked(j)
      BY <2>4, <3>2, PrepareKeeps
    <3> QED BY <3>1, <3>2
  <2>5. CASE ApplyMigration(j)
    <3>1. CASE UNCHANGED history
      BY <2>5, <3>1, QuietSteps
    <3>2. CASE ~UNCHANGED history
      BY <2>5, <3>2, ApplyKeeps
    <3> QED BY <3>1, <3>2
  <2>6. CASE Succeed(j) \/ Fail(j)
    <3>1. CASE HasEntry(j, "running")
      BY <2>6, <3>1, FinishKeeps
    <3>2. CASE ~HasEntry(j, "running")
      <4>1. UNCHANGED ledger
        BY <2>6, <3>2 DEF Succeed, Fail, FinishAttempt
      <4> QED BY <2>6, <4>1, QuietSteps
    <3> QED BY <3>1, <3>2
  <2> QED BY <1>2, <2>1, <2>2, <2>3, <2>4, <2>5, <2>6 DEF JobStep
<1> QED BY <1>1, <1>2 DEF MigrationNext

LEMMA MigrationImplies == MigrationInv => MigrationsSound
<1> SUFFICES ASSUME MigrationInv PROVE MigrationsSound
  OBVIOUS
<1>0. /\ MigrationTypes /\ LedgerFits /\ HistoryFits /\ Complete
      /\ \A j \in Jobs : Fits(j, job[j])
  BY DEF MigrationInv
<1>1. MigrationTypeOK
  <2>1. \A i \in DOMAIN ledger : ledger[i].state \in {"running", "succeeded", "failed"}
    BY <1>0, LedgerTyped DEF AttemptRow
  <2> QED BY <1>0, <2>1 DEF MigrationTypes, MigrationTypeOK, Schemas
<1>2. HistoryWhole
  <2> SUFFICES ASSUME NEW d \in Schemas
               PROVE  /\ \A i \in DOMAIN history[d] : history[d][i].id = i
                      /\ hashed => \E r \in Releases : IsPrefix(history[d], Catalog[r][d])
    BY DEF HistoryWhole, Schemas
  <2>1. \A i \in DOMAIN history[d] : history[d][i].id = i
    BY <1>0, HistoryTyped DEF HistoryFits
  <2>2. ASSUME hashed PROVE \E r \in Releases : IsPrefix(history[d], Catalog[r][d])
    <3>1. PICK r \in Releases : FirstOf(history[d], Catalog[r][d])
      BY <1>0, <2>2 DEF HistoryFits
    <3>2. history[d] \in Seq(CatalogRow) /\ Catalog[r][d] \in Seq(CatalogRow)
      BY <1>0, HistoryTyped, CatalogTyped
    <3>3. Len(history[d]) <= Len(Catalog[r][d])
          /\ \A i \in 1..Len(history[d]) : history[d][i] = Catalog[r][d][i]
      BY <3>1 DEF FirstOf
    <3>4. IsPrefix(history[d], Catalog[r][d])
      BY <3>2, <3>3, PrefixByElement
    <3> QED BY <3>4
  <2> QED BY <2>1, <2>2
<1>3. SucceededComplete
  BY <1>0 DEF Complete, SucceededComplete, ReleaseAt, Schemas
<1>4. OneRunning
  <2> DEFINE S == {i \in DOMAIN ledger : ledger[i].state = "running"}
  <2>1. \A i, k \in S : i = k
    BY <1>0 DEF LedgerFits, Running
  <2> SUFFICES Cardinality(S) <= 1
    BY DEF OneRunning
  <2> HIDE DEF S
  <2>2. CASE S = {}
    BY <2>2, FS_EmptySet
  <2>3. CASE S # {}
    <3>1. PICK n \in S : TRUE
      BY <2>3
    <3>2. S = {n}
      BY <2>1, <3>1
    <3> QED BY <3>2, FS_Singleton
  <2> QED BY <2>2, <2>3
<1>5. FailureBlocks
  <2>1. \A i, k \in DOMAIN ledger :
          i < k /\ i \in Unresolved => releaseOf[ledger[i].job] = releaseOf[ledger[k].job]
    BY <1>0 DEF LedgerFits, Unresolved, Open, ReleaseAt
  <2>2. ASSUME NEW j \in Jobs, NEW k \in Jobs, job[j].pc \in {"classify", "apply"},
               job[k].pc \in {"classify", "apply"}
        PROVE  releaseOf[j] = releaseOf[k]
    <3>1. OpenEntry(j) /\ OpenEntry(k)
      BY <1>0, <2>2 DEF Fits, Working
    <3>2. PICK a \in DOMAIN ledger : ledger[a].job = j /\ Open(a)
      BY <3>1 DEF OpenEntry
    <3>3. PICK b \in DOMAIN ledger : ledger[b].job = k /\ Open(b)
      BY <3>1 DEF OpenEntry
    <3>4. a < b \/ b < a \/ a = b
      BY <1>0, LedgerTyped
    <3>5. ReleaseAt(a) = ReleaseAt(b)
      BY <1>0, <3>2, <3>3, <3>4 DEF LedgerFits
    <3> QED BY <3>2, <3>3, <3>5 DEF ReleaseAt
  <2> QED BY <2>1, <2>2 DEF FailureBlocks
<1> QED BY <1>1, <1>2, <1>3, <1>4, <1>5 DEF MigrationsSound

\* Whatever attempts overlap, crash, lose their session or fail, the history of a domain is
\* whole, an attempt recorded as succeeded has left every migration of its release, one attempt
\* runs, and a failure that is not resolved holds back every other release: for any number of
\* jobs, releases, domains, migrations and faults.
THEOREM MigrationsAlwaysSound == PlatformSpec => []MigrationsSound
<1>1. PlatformInit => MigrationInv
  BY InitMigrations DEF PlatformInit
<1>2. MigrationInv /\ [PlatformNext]_platformVars => MigrationInv'
  <2> SUFFICES ASSUME MigrationInv, [PlatformNext]_platformVars PROVE MigrationInv'
    OBVIOUS
  <2>1. CASE MigrationNext
    BY <2>1, MigrationNextKeeps
  <2>2. CASE UNCHANGED migrationVars
    <3>1. UNCHANGED <<releaseOf, hashed, ledger, releaseLock, domainLock, history, job>>
      BY <2>2 DEF migrationVars
    <3>2. Unresolved' = Unresolved
      BY <3>1 DEF Unresolved
    <3> QED BY <3>1, <3>2 DEF MigrationInv, MigrationTypes, LedgerFits, HistoryFits, Complete, Fits,
                Open, Running, ReleaseAt, HasLast, NoneRunning, NoEntry, OpenEntry
  <2> QED BY <2>1, <2>2 DEF PlatformNext, OfMigration, OfRelay, OfRequests, platformVars
<1> QED BY <1>1, <1>2, MigrationImplies, PTL DEF PlatformSpec



-----------------------------------------------------------------------------
(***************************************************************************)
(* The relay of a console.  The frames on their way are numbered: o[l] is  *)
(* the number of frames that have left link l.  A hop that has not ended   *)
(* joins its two links without a gap; behind one that has ended nothing    *)
(* moves on.                                                               *)
(***************************************************************************)
Frame == [n : Nat, resize : BOOLEAN]

HopStages == {"none", "connect", "release", "activate", "executor", "resolve", "validate", "open",
              "revalidate", "relay", "sendDown", "sendUp", "closeDown", "closeUp", "ended"}

HopRecord == [pc : HopStages, frame : Nat \cup Frame]

RelayTypes ==
  /\ kind \in {"xterm", "novnc"}
  /\ down \in [Links -> Seq(Frame)] /\ up \in [Links -> Seq(Nat)]
  /\ hop \in [Hops -> HopRecord]
  /\ typed \in Seq(Frame) /\ stdin \in Seq(Frame) /\ screen \in Seq(Nat)
  /\ printed \in 0..MaxFrames /\ output \in Nat
  /\ \A l \in Links : Len(down[l]) <= LinkCapacity /\ Len(up[l]) <= LinkCapacity

\* The machine is replaced and never comes back: one that was the target at both validations
\* was the target in between.
TargetFits ==
  /\ machine \in Nat
  /\ authority \in [rev : Nat, ready : BOOLEAN, recorded : Nat]
  /\ console \in [rev : Nat, target : Nat, attached : Nat]
  /\ hop[3].pc = "open" => console.target <= machine
  /\ hop[3].pc = "revalidate" => console.target <= console.attached /\ console.attached <= machine
  /\ ConsoleCurrent

\* The executor is asked last.
ExecutorLast == hop[2].pc \in {"none", "release", "executor"} => hop[3].pc = "none"

Holds(p, pc) == IF hop[p].pc = pc THEN 1 ELSE 0

DownFits(o) ==
  /\ o[4] = Len(stdin)
  /\ \A i \in 1..Len(stdin) : stdin[i] = typed[i] /\ Accepted(stdin[i])
  /\ \A l \in Links :
       /\ o[l] + Len(down[l]) <= Len(typed)
       /\ \A i \in 1..Len(down[l]) : down[l][i] = typed[o[l] + i] /\ (l > 1 => Accepted(down[l][i]))
  /\ \A p \in Hops : hop[p].pc # "ended" =>
       o[p] = o[p + 1] + Len(down[p + 1]) + Holds(p, "sendDown")
  /\ \A p \in Hops : hop[p].pc = "sendDown" =>
       hop[p].frame = typed[o[p + 1] + Len(down[p + 1]) + 1] /\ Accepted(hop[p].frame)
  /\ hop[1].pc # "ended" => o[1] + Len(down[1]) = Len(typed)

UpFits(o) ==
  /\ o[1] = Len(screen) /\ \A i \in 1..Len(screen) : screen[i] = i
  /\ \A l \in Links : \A i \in 1..Len(up[l]) : up[l][i] = o[l] + i
  /\ o[4] + Len(up[4]) = printed
  /\ output = IF kind = "xterm" THEN o[4] ELSE 0
  /\ \A l \in Hops : kind = "xterm" => o[l] + Len(up[l]) <= OutputLimit
  /\ \A p \in Hops : hop[p].pc # "ended" => o[p + 1] = o[p] + Len(up[p]) + Holds(p, "sendUp")
  /\ \A p \in Hops : hop[p].pc = "sendUp" => hop[p].frame = o[p] + Len(up[p]) + 1
  /\ kind = "xterm" /\ hop[3].pc # "ended" => output <= OutputLimit

RelayInv ==
  /\ RelayTypes /\ TargetFits /\ ExecutorLast
  /\ \E o \in [Links -> Nat] : DownFits(o)
  /\ \E o \in [Links -> Nat] : UpFits(o)


\* A sequence without its first element.
LEMMA Removed ==
  ASSUME NEW S, NEW s \in Seq(S), s # <<>>
  PROVE  /\ Tail(s) \in Seq(S) /\ Len(s) \in Nat /\ Len(s) >= 1 /\ Len(Tail(s)) = Len(s) - 1
         /\ Head(s) = s[1] /\ Head(s) \in S
         /\ \A i \in 1..Len(s) - 1 : Tail(s)[i] = s[i + 1]
<1>1. Len(s) \in Nat /\ Len(s) # 0
  BY LenProperties, EmptySeq
<1> QED BY <1>1, HeadTailProperties

\* Lengths on the relay.
LEMMA RelayLengths ==
  ASSUME RelayTypes
  PROVE  /\ Len(typed) \in Nat /\ Len(stdin) \in Nat /\ Len(screen) \in Nat
         /\ \A l \in Links : /\ down[l] \in Seq(Frame) /\ Len(down[l]) \in Nat
                             /\ up[l] \in Seq(Nat) /\ Len(up[l]) \in Nat
         /\ \A p \in Hops : p \in Links /\ p + 1 \in Links /\ hop[p] \in HopRecord
<1>1. \A l \in Links : down[l] \in Seq(Frame) /\ up[l] \in Seq(Nat)
  BY DEF RelayTypes
<1>2. \A p \in Hops : p \in Links /\ p + 1 \in Links /\ hop[p] \in HopRecord
  BY DEF RelayTypes, Links, Hops
<1>3. typed \in Seq(Frame) /\ stdin \in Seq(Frame) /\ screen \in Seq(Nat)
  BY DEF RelayTypes
<1> QED BY <1>1, <1>2, <1>3, LenProperties

LEMMA InitRelay == RelayInit => RelayInv
<1> SUFFICES ASSUME RelayInit PROVE RelayInv
  OBVIOUS
<1>1. PICK o \in [Links -> Nat] : \A l \in Links : o[l] = 0
  <2>1. [l \in Links |-> 0] \in [Links -> Nat]
    OBVIOUS
  <2> QED BY <2>1
<1>2. \A p \in Hops : hop[p].pc \in {"connect", "none"}
  BY DEF RelayInit
<1>3. \A l \in Links : down[l] = <<>> /\ up[l] = <<>> /\ Len(down[l]) = 0 /\ Len(up[l]) = 0
  BY DEF RelayInit
<1>4. RelayTypes
  <2>1. \A p \in Hops : [pc |-> IF p = 1 THEN "connect" ELSE "none", frame |-> 0] \in HopRecord
    BY DEF HopRecord, HopStages
  <2>2. hop \in [Hops -> HopRecord]
    BY <2>1 DEF RelayInit
  <2>3. <<>> \in Seq(Frame) /\ <<>> \in Seq(Nat)
    OBVIOUS
  <2>4. down \in [Links -> Seq(Frame)] /\ up \in [Links -> Seq(Nat)]
    BY <2>3 DEF RelayInit
  <2> QED BY <1>3, <2>2, <2>3, <2>4, RelayAssumption DEF RelayInit, RelayTypes
<1>5. TargetFits /\ ExecutorLast
  BY <1>2 DEF RelayInit, TargetFits, ConsoleCurrent, Hops, ExecutorLast
<1>6. 1 \in Links /\ 4 \in Links /\ \A p \in Hops : p \in Links /\ p + 1 \in Links
  BY DEF Links, Hops
<1>7. DownFits(o)
  BY <1>1, <1>2, <1>3, <1>6 DEF RelayInit, DownFits, Holds
<1>8. UpFits(o)
  BY <1>1, <1>2, <1>3, <1>6, RelayAssumption DEF RelayInit, UpFits, Holds, Hops
<1> QED BY <1>4, <1>5, <1>7, <1>8 DEF RelayInv

\* The frames towards the target stand still.
LEMMA DownStands ==
  ASSUME NEW o, DownFits(o), UNCHANGED <<kind, typed, stdin, down>>,
         \A p \in Hops :
           /\ hop'[p].pc # "ended" =>
                hop[p].pc # "ended" /\ (hop'[p].pc = "sendDown" <=> hop[p].pc = "sendDown")
           /\ hop'[p].pc = "sendDown" => hop'[p].frame = hop[p].frame
  PROVE  DownFits(o)'
<1>1. \A f : Accepted(f)' <=> Accepted(f)
  BY DEF Accepted
<1>2. 1 \in Hops
  BY DEF Hops
<1> QED BY <1>1, <1>2 DEF DownFits, Holds

\* The frames towards the browser stand still.
LEMMA UpStands ==
  ASSUME NEW o, UpFits(o), UNCHANGED <<kind, screen, printed, up, output>>,
         \A p \in Hops :
           /\ hop'[p].pc # "ended" =>
                hop[p].pc # "ended" /\ (hop'[p].pc = "sendUp" <=> hop[p].pc = "sendUp")
           /\ hop'[p].pc = "sendUp" => hop'[p].frame = hop[p].frame
  PROVE  UpFits(o)'
<1>1. 3 \in Hops
  BY DEF Hops
<1> QED BY <1>1 DEF UpFits, Holds

\* The record of a hop at another stage.
LEMMA HopStepped ==
  ASSUME RelayTypes, NEW p \in Hops, NEW pc \in HopStages, HopTo(p, pc)
  PROVE  /\ hop' \in [Hops -> HopRecord] /\ hop'[p].pc = pc /\ hop'[p].frame = hop[p].frame
         /\ \A q \in Hops \ {p} : hop'[q] = hop[q]
<1>1. hop \in [Hops -> HopRecord] /\ hop[p] \in HopRecord
  BY DEF RelayTypes
<1>2. PICK r \in HopRecord : r = [hop[p] EXCEPT !.pc = pc] /\ r.pc = pc /\ r.frame = hop[p].frame
  <2>1. [hop[p] EXCEPT !.pc = pc] \in HopRecord
    BY <1>1 DEF HopRecord
  <2> QED BY <1>1, <2>1 DEF HopRecord
<1>3. hop' = [hop EXCEPT ![p] = r]
  BY <1>2 DEF HopTo
<1> QED BY <1>1, <1>2, <1>3

\* Two hops at once.
LEMMA HopsStepped ==
  ASSUME RelayTypes, NEW p \in Hops, NEW q \in Hops, p # q, NEW a \in HopStages, NEW b \in HopStages,
         hop' = [hop EXCEPT ![p].pc = a, ![q].pc = b]
  PROVE  /\ hop' \in [Hops -> HopRecord] /\ hop'[p].pc = a /\ hop'[q].pc = b
         /\ \A r \in Hops \ {p, q} : hop'[r] = hop[r]
<1>1. hop \in [Hops -> HopRecord] /\ hop[p] \in HopRecord /\ hop[q] \in HopRecord
  BY DEF RelayTypes
<1>2. PICK x \in HopRecord : x = [hop[p] EXCEPT !.pc = a] /\ x.pc = a
  <2>1. [hop[p] EXCEPT !.pc = a] \in HopRecord
    BY <1>1 DEF HopRecord
  <2> QED BY <1>1, <2>1 DEF HopRecord
<1>3. PICK y \in HopRecord : y = [hop[q] EXCEPT !.pc = b] /\ y.pc = b
  <2>1. [hop[q] EXCEPT !.pc = b] \in HopRecord
    BY <1>1 DEF HopRecord
  <2> QED BY <1>1, <2>1 DEF HopRecord
<1>4. hop' = [hop EXCEPT ![p] = x, ![q] = y]
  BY <1>1, <1>2, <1>3
<1>5. hop'[p] = x /\ hop'[q] = y /\ \A r \in Hops \ {p, q} : hop'[r] = hop[r]
  BY <1>1, <1>4
<1>6. hop' \in [Hops -> HopRecord]
  BY <1>1, <1>4
<1> QED BY <1>2, <1>3, <1>5, <1>6

\* A hop that takes a frame, or has sent it.
LEMMA HopSet ==
  ASSUME RelayTypes, NEW p \in Hops, NEW pc \in HopStages, NEW f \in Nat \cup Frame,
         hop' = [hop EXCEPT ![p] = [pc |-> pc, frame |-> f]]
  PROVE  /\ hop' \in [Hops -> HopRecord] /\ hop'[p].pc = pc /\ hop'[p].frame = f
         /\ \A q \in Hops \ {p} : hop'[q] = hop[q]
<1>1. hop \in [Hops -> HopRecord]
  BY DEF RelayTypes
<1>2. PICK r \in HopRecord : r = [pc |-> pc, frame |-> f] /\ r.pc = pc /\ r.frame = f
  <2>1. [pc |-> pc, frame |-> f] \in HopRecord
    BY DEF HopRecord
  <2> QED BY <2>1
<1>3. hop' = [hop EXCEPT ![p] = r]
  BY <1>2
<1> QED BY <1>1, <1>2, <1>3

\* A step in which no frame moves: hops end, or stay without one.
LEMMA FramesStand ==
  ASSUME RelayInv, UNCHANGED <<kind, Traffic>>, hop' \in [Hops -> HopRecord],
         \A p \in Hops :
           \/ hop'[p] = hop[p] \/ hop'[p].pc = "ended"
           \/ hop[p].pc \notin {"sendDown", "sendUp", "ended"} /\ hop'[p].pc \notin {"sendDown", "sendUp"},
         TargetFits', ExecutorLast'
  PROVE  RelayInv'
<1>1. UNCHANGED <<down, up, typed, printed, stdin, screen, output>>
  BY DEF Traffic
<1>2. RelayTypes'
  BY <1>1 DEF RelayInv, RelayTypes
<1>3. PICK o \in [Links -> Nat] : DownFits(o)
  BY DEF RelayInv
<1>4. DownFits(o)'
  BY <1>1, <1>3, DownStands
<1>5. PICK u \in [Links -> Nat] : UpFits(u)
  BY DEF RelayInv
<1>6. UpFits(u)'
  BY <1>1, <1>5, UpStands
<1> QED BY <1>2, <1>4, <1>6 DEF RelayInv

\* The target does not change under a hop that does not pass into the relay or to the target.
LEMMA TargetStands ==
  ASSUME TargetFits, UNCHANGED <<console, machine, authority>>,
         \/ hop'[3].pc = hop[3].pc
         \/ hop'[3].pc \notin {"open", "revalidate", "relay", "sendDown", "sendUp"}
         \/ hop[3].pc \in {"relay", "sendDown", "sendUp"} /\ hop'[3].pc \in {"relay", "sendDown", "sendUp"}
  PROVE  TargetFits'
BY DEF TargetFits, ConsoleCurrent

\* Hops that have left the opening do not go back to it.
LEMMA ExecutorStands ==
  ASSUME ExecutorLast,
         \A p \in Hops : \/ hop'[p].pc = hop[p].pc
                         \/ hop[p].pc # "none" /\ hop'[p].pc \notin {"none", "release", "executor"}
  PROVE  ExecutorLast'
<1>1. 2 \in Hops /\ 3 \in Hops
  BY DEF Hops
<1> QED BY <1>1 DEF ExecutorLast


\* The steps that open the console.
LEMMA OpeningSteps ==
  ASSUME RelayInv,
         \/ CheckInstance \/ CheckRelease \/ Activate \/ ConnectExecutor \/ CallerGone
         \/ ResolveTarget \/ ValidateVmi \/ OpenTarget \/ RevalidateVmi
  PROVE  RelayInv'
<1>0. /\ RelayTypes /\ TargetFits /\ ExecutorLast /\ 1 \in Hops /\ 2 \in Hops /\ 3 \in Hops
      /\ hop \in [Hops -> HopRecord] /\ \A p \in Hops : p = 1 \/ p = 2 \/ p = 3
  BY DEF RelayInv, RelayTypes, Hops
<1>1. CASE \/ CheckInstance \/ Activate \/ CallerGone \/ ValidateVmi \/ RevalidateVmi
  <2>1. PICK p \in Hops, pc \in HopStages \ {"sendDown", "sendUp"} :
          /\ HopTo(p, pc) /\ hop[p].pc \notin {"sendDown", "sendUp", "ended"}
          /\ \/ p # 3
             \/ pc = "ended"
             \/ hop[p].pc = "validate" /\ pc = "open" /\ machine = console.target
             \/ hop[p].pc = "revalidate" /\ pc = "relay" /\ machine = console.target
          /\ \/ p = 2 /\ hop[p].pc = "none" /\ pc = "release"
             \/ hop[p].pc # "none" /\ pc \notin {"none", "release", "executor"}
    BY <1>0, <1>1 DEF CheckInstance, Activate, CallerGone, ValidateVmi, RevalidateVmi, HopStages
  <2>2. UNCHANGED <<Traffic, kind, machine, authority, console>>
    BY <1>1 DEF CheckInstance, Activate, CallerGone, ValidateVmi, RevalidateVmi, World
  <2>3. /\ hop' \in [Hops -> HopRecord] /\ hop'[p].pc = pc
        /\ \A q \in Hops \ {p} : hop'[q] = hop[q]
    BY <1>0, <2>1, HopStepped
  <2>4. TargetFits'
    <3>1. CASE p # 3 \/ pc = "ended"
      BY <1>0, <2>1, <2>2, <2>3, <3>1, TargetStands
    <3>2. CASE p = 3 /\ pc # "ended"
      BY <1>0, <2>1, <2>2, <2>3, <3>2 DEF TargetFits, ConsoleCurrent
    <3> QED BY <3>1, <3>2
  <2>5. ExecutorLast'
    <3>1. CASE p = 2 /\ hop[p].pc = "none"
      BY <1>0, <2>3, <3>1 DEF ExecutorLast
    <3>2. CASE ~(p = 2 /\ hop[p].pc = "none")
      <4>1. hop[p].pc # "none" /\ hop'[p].pc \notin {"none", "release", "executor"}
        BY <2>1, <2>3, <3>2
      <4>2. \A q \in Hops : q = p \/ hop'[q].pc = hop[q].pc
        BY <2>3
      <4>3. \A q \in Hops : \/ hop'[q].pc = hop[q].pc
                            \/ hop[q].pc # "none" /\ hop'[q].pc \notin {"none", "release", "executor"}
        BY <4>1, <4>2
      <4> QED BY <1>0, <4>3, ExecutorStands
    <3> QED BY <3>1, <3>2
  <2> QED BY <2>1, <2>2, <2>3, <2>4, <2>5, FramesStand
<1>2. CASE CheckRelease
  <2>1. /\ UNCHANGED <<Traffic, kind, machine, authority, console>>
        /\ hop[3].pc = "none" /\ hop[2].pc = "release" /\ hop[1].pc = "connect"
    BY <1>0, <1>2 DEF CheckRelease, World, ExecutorLast
  <2>2. PICK a \in {"activate", "ended"}, b \in {"executor", "ended"} :
          hop' = [hop EXCEPT ![1].pc = a, ![2].pc = b]
    BY <1>2 DEF CheckRelease
  <2>3. a \in HopStages /\ b \in HopStages
    BY DEF HopStages
  <2>4. hop' \in [Hops -> HopRecord] /\ hop'[1].pc = a /\ hop'[2].pc = b /\ hop'[3] = hop[3]
    <3>1. PICK p \in Hops, q \in Hops : p = 1 /\ q = 2
      BY <1>0
    <3>2. hop' = [hop EXCEPT ![p].pc = a, ![q].pc = b] /\ p # q
      BY <2>2, <3>1
    <3>3. /\ hop' \in [Hops -> HopRecord] /\ hop'[p].pc = a /\ hop'[q].pc = b
          /\ \A r \in Hops \ {p, q} : hop'[r] = hop[r]
      BY <1>0, <2>3, <3>2, HopsStepped
    <3> QED BY <1>0, <3>1, <3>3
  <2>5. TargetFits'
    BY <1>0, <2>1, <2>4, TargetStands
  <2>6. ExecutorLast'
    BY <2>1, <2>4 DEF ExecutorLast
  <2> QED BY <1>0, <2>1, <2>4, <2>5, <2>6, FramesStand
<1>3. CASE ConnectExecutor
  <2>1. /\ UNCHANGED <<Traffic, kind, machine, authority, console>>
        /\ hop[3].pc = "none" /\ hop[2].pc = "executor"
    BY <1>0, <1>3 DEF ConnectExecutor, World, ExecutorLast
  <2>2. CASE HopTo(2, "ended")
    <3>1. /\ hop' \in [Hops -> HopRecord] /\ hop'[2].pc = "ended"
          /\ \A q \in Hops \ {2} : hop'[q] = hop[q]
      BY <1>0, <2>2, HopStepped DEF HopStages
    <3>2. TargetFits'
      BY <1>0, <2>1, <3>1, TargetStands
    <3>3. ExecutorLast'
      BY <3>1 DEF ExecutorLast
    <3> QED BY <1>0, <2>1, <3>1, <3>2, <3>3, FramesStand
  <2>3. CASE hop' = [hop EXCEPT ![2].pc = "relay", ![3].pc = "resolve"]
    <3>1. "relay" \in HopStages /\ "resolve" \in HopStages
      BY DEF HopStages
    <3>2. hop' \in [Hops -> HopRecord] /\ hop'[2].pc = "relay" /\ hop'[3].pc = "resolve"
          /\ hop'[1] = hop[1]
      <4>1. PICK p \in Hops, q \in Hops : p = 2 /\ q = 3
        BY <1>0
      <4>2. hop' = [hop EXCEPT ![p].pc = "relay", ![q].pc = "resolve"] /\ p # q
        BY <2>3, <4>1
      <4>3. /\ hop' \in [Hops -> HopRecord] /\ hop'[p].pc = "relay" /\ hop'[q].pc = "resolve"
            /\ \A r \in Hops \ {p, q} : hop'[r] = hop[r]
        BY <1>0, <3>1, <4>2, HopsStepped
      <4> QED BY <1>0, <4>1, <4>3
    <3>3. TargetFits'
      BY <1>0, <2>1, <3>2, TargetStands
    <3>4. ExecutorLast'
      BY <3>2 DEF ExecutorLast
    <3> QED BY <1>0, <2>1, <3>2, <3>3, <3>4, FramesStand
  <2> QED BY <1>3, <2>2, <2>3 DEF ConnectExecutor
<1>4. CASE ResolveTarget \/ OpenTarget
  <2>1. /\ UNCHANGED <<Traffic, kind, machine, authority>> /\ hop[3].pc \in {"resolve", "open"}
        /\ console \in [rev : Nat, target : Nat, attached : Nat] /\ machine \in Nat
        /\ authority.recorded \in Nat
    BY <1>0, <1>4 DEF ResolveTarget, OpenTarget, World, TargetFits
  <2>2. PICK pc \in {"open", "validate", "relay", "revalidate", "ended"} :
          /\ HopTo(3, pc)
          /\ \/ pc = "ended" /\ UNCHANGED console
             \/ /\ hop[3].pc = "resolve"
                /\ \/ pc = "open" /\ console' = [console EXCEPT !.target = machine]
                   \/ pc = "validate" /\ console' = [console EXCEPT !.target = authority.recorded]
             \/ /\ hop[3].pc = "open" /\ console' = [console EXCEPT !.attached = machine]
                /\ \/ pc = "relay" /\ machine = console.target
                   \/ pc = "revalidate"
    BY <1>4 DEF ResolveTarget, OpenTarget
  <2>3. /\ hop' \in [Hops -> HopRecord] /\ hop'[3].pc = pc
        /\ \A q \in Hops \ {3} : hop'[q] = hop[q]
    <3>1. pc \in HopStages
      BY DEF HopStages
    <3> QED BY <1>0, <2>2, <3>1, HopStepped
  <2>4. TargetFits'
    <3>1. CASE pc = "ended" /\ UNCHANGED console
      BY <1>0, <2>1, <2>3, <3>1, TargetStands
    <3>2. CASE ~(pc = "ended" /\ UNCHANGED console)
      BY <1>0, <2>1, <2>2, <2>3, <3>2 DEF TargetFits, ConsoleCurrent
    <3> QED BY <3>1, <3>2
  <2>5. ExecutorLast'
    <3>1. hop[3].pc # "none" /\ hop'[3].pc \notin {"none", "release", "executor"}
      BY <2>1, <2>3
    <3>2. \A q \in Hops : \/ hop'[q].pc = hop[q].pc
                          \/ hop[q].pc # "none" /\ hop'[q].pc \notin {"none", "release", "executor"}
      BY <2>3, <3>1
    <3> QED BY <1>0, <3>2, ExecutorStands
  <2> QED BY <2>1, <2>3, <2>4, <2>5, FramesStand
<1> QED BY <1>1, <1>2, <1>3, <1>4

\* The steps in which a hop ends or sees an end.
LEMMA EndingSteps ==
  ASSUME RelayInv, NEW p \in Hops,
         SendFails(p) \/ SeesEnd(p) \/ SendClose(p) \/ (p = 1 /\ SeesRevoked)
  PROVE  RelayInv'
<1>0. RelayTypes /\ TargetFits /\ ExecutorLast /\ hop[p] \in HopRecord
  BY DEF RelayInv, RelayTypes
<1>1. PICK pc \in {"ended", "closeDown", "closeUp"} :
        /\ HopTo(p, pc) /\ hop[p].pc # "none"
        /\ pc = "ended" \/ hop[p].pc = "relay"
  BY DEF SendFails, SeesEnd, SendClose, SeesRevoked
<1>2. UNCHANGED <<Traffic, kind, machine, authority, console>>
  BY DEF SendFails, SeesEnd, SendClose, SeesRevoked, World
<1>3. /\ hop' \in [Hops -> HopRecord] /\ hop'[p].pc = pc
      /\ \A q \in Hops \ {p} : hop'[q] = hop[q]
  <2>1. pc \in HopStages
    BY DEF HopStages
  <2> QED BY <1>0, <1>1, <2>1, HopStepped
<1>4. TargetFits'
  <2>1. hop'[3].pc = hop[3].pc \/ hop'[3].pc \notin {"open", "revalidate", "relay", "sendDown", "sendUp"}
    <3>1. 3 \in Hops
      BY DEF Hops
    <3> QED BY <1>1, <1>3, <3>1
  <2> QED BY <1>0, <1>2, <2>1, TargetStands
<1>5. ExecutorLast'
  <2>1. hop'[p].pc \notin {"none", "release", "executor"}
    BY <1>3
  <2>2. \A q \in Hops :
          \/ hop'[q].pc = hop[q].pc
          \/ hop[q].pc # "none" /\ hop'[q].pc \notin {"none", "release", "executor"}
    BY <1>1, <1>3, <2>1
  <2> QED BY <1>0, <2>2, ExecutorStands
<1> QED BY <1>1, <1>2, <1>3, <1>4, <1>5, FramesStand

\* The steps of the world around the relay, and the release of the target.
LEMMA WorldSteps ==
  ASSUME RelayInv, ReleaseTarget \/ Leave \/ Replace \/ ChangeEnvironment \/ Revoke
  PROVE  RelayInv'
<1>0. RelayTypes /\ TargetFits /\ ExecutorLast
  BY DEF RelayInv
<1>1. UNCHANGED <<kind, Traffic, hop, console>>
  BY DEF ReleaseTarget, Leave, Replace, ChangeEnvironment, Revoke, World
<1>2. ExecutorLast'
  BY <1>0, <1>1 DEF ExecutorLast
<1>3. TargetFits'
  <2>1. CASE ReleaseTarget \/ Leave \/ Revoke
    BY <1>0, <1>1, <2>1, TargetStands DEF ReleaseTarget, Leave, Revoke, World
  <2>2. CASE Replace
    BY <1>0, <1>1, <2>2 DEF Replace, TargetFits, ConsoleCurrent
  <2>3. CASE ChangeEnvironment
    <3>1. /\ authority' = [rev |-> authority.rev + 1, ready |-> ~authority.ready,
                           recorded |-> IF authority.ready THEN authority.recorded ELSE machine]
          /\ UNCHANGED machine
      BY <2>3 DEF ChangeEnvironment
    <3>2. authority' \in [rev : Nat, ready : BOOLEAN, recorded : Nat]
      <4>1. PICK n \in Nat, m \in Nat :
              n = authority.rev + 1 /\ m = IF authority.ready THEN authority.recorded ELSE machine
        BY <1>0 DEF TargetFits
      <4>2. PICK b \in BOOLEAN : b = ~authority.ready
        OBVIOUS
      <4>3. authority' = [rev |-> n, ready |-> b, recorded |-> m]
        BY <3>1, <4>1, <4>2
      <4> QED BY <4>3
    <3> QED BY <1>0, <1>1, <3>1, <3>2 DEF TargetFits, ConsoleCurrent
  <2> QED BY <2>1, <2>2, <2>3
<1>4. hop' \in [Hops -> HopRecord] /\ \A p \in Hops : hop'[p] = hop[p]
  BY <1>0, <1>1 DEF RelayTypes
<1> QED BY <1>1, <1>2, <1>3, <1>4, FramesStand

\* A step of the loop of one hop, or of an end of the console, that moves a frame.
LEMMA FrameKeeps ==
  ASSUME RelayInv, UNCHANGED <<kind, machine, authority, console>>, RelayTypes',
         \A p \in Hops : \/ hop'[p] = hop[p]
                         \/ /\ hop[p].pc \in {"relay", "sendDown", "sendUp"}
                            /\ hop'[p].pc \in {"relay", "sendDown", "sendUp", "ended"},
         \E o \in [Links -> Nat] : DownFits(o)', \E o \in [Links -> Nat] : UpFits(o)'
  PROVE  RelayInv'
<1>0. TargetFits /\ ExecutorLast /\ 3 \in Hops
  BY DEF RelayInv, Hops
<1>1. TargetFits'
  BY <1>0, TargetStands
<1>2. ExecutorLast'
  <2>1. \A q \in Hops :
          \/ hop'[q].pc = hop[q].pc
          \/ hop[q].pc # "none" /\ hop'[q].pc \notin {"none", "release", "executor"}
    OBVIOUS
  <2> QED BY <1>0, <2>1, ExecutorStands
<1> QED BY <1>1, <1>2 DEF RelayInv


\* A hop takes a frame towards the target.
LEMMA TakeDownKeeps ==
  ASSUME RelayInv, NEW p \in Hops, TakeDown(p)
  PROVE  RelayInv'
<1>0. RelayTypes
  BY DEF RelayInv
<1>1. /\ hop[p].pc = "relay" /\ down[p] # <<>> /\ down' = [down EXCEPT ![p] = Tail(down[p])]
      /\ UNCHANGED <<up, typed, printed, stdin, screen, output, kind, machine, authority, console>>
  BY DEF TakeDown, World
<1>2. /\ Len(typed) \in Nat /\ Len(stdin) \in Nat /\ p \in Links /\ p + 1 \in Links
      /\ \A l \in Links : down[l] \in Seq(Frame) /\ Len(down[l]) \in Nat
      /\ \A q \in Hops : q \in Links /\ q + 1 \in Links
  BY <1>0, RelayLengths
<1>3. PICK t \in Seq(Frame), n \in Nat, f \in Frame :
        /\ t = Tail(down[p]) /\ f = Head(down[p]) /\ f = down[p][1]
        /\ Len(down[p]) = n + 1 /\ Len(t) = n /\ \A i \in 1..n : t[i] = down[p][i + 1]
  <2>1. PICK s \in Seq(Frame) : s = down[p] /\ s # <<>>
    BY <1>1, <1>2
  <2>2. /\ Tail(s) \in Seq(Frame) /\ Head(s) = s[1] /\ Head(s) \in Frame
        /\ Len(s) \in Nat /\ Len(s) >= 1 /\ Len(Tail(s)) = Len(s) - 1
        /\ \A i \in 1..Len(s) - 1 : Tail(s)[i] = s[i + 1]
    BY <2>1, Removed
  <2>3. PICK n \in Nat : n = Len(s) - 1 /\ Len(s) = n + 1
    <3>1. Len(s) - 1 \in Nat /\ Len(s) = (Len(s) - 1) + 1
      BY <2>2
    <3> QED BY <3>1
  <2> QED BY <2>1, <2>2, <2>3
<1>4. /\ down' \in [Links -> Seq(Frame)] /\ down'[p] = t
      /\ \A l \in Links \ {p} : down'[l] = down[l]
  <2>1. down \in [Links -> Seq(Frame)]
    BY <1>0 DEF RelayTypes
  <2> QED BY <1>1, <1>2, <1>3, <2>1
<1>5. /\ hop' \in [Hops -> HopRecord] /\ \A q \in Hops \ {p} : hop'[q] = hop[q]
      /\ \/ hop'[p].pc = "ended"
         \/ hop'[p].pc = "sendDown" /\ hop'[p].frame = f /\ Accepted(f)
  <2>1. CASE Accepted(f)
    <3>1. hop' = [hop EXCEPT ![p] = [pc |-> "sendDown", frame |-> f]]
      BY <1>3, <2>1 DEF TakeDown
    <3>2. "sendDown" \in HopStages /\ f \in Nat \cup Frame
      BY DEF HopStages
    <3> QED BY <1>0, <2>1, <3>1, <3>2, HopSet
  <2>2. CASE ~Accepted(f)
    <3>1. HopTo(p, "ended")
      BY <1>3, <2>2 DEF TakeDown
    <3>2. "ended" \in HopStages
      BY DEF HopStages
    <3> QED BY <1>0, <3>1, <3>2, HopStepped
  <2> QED BY <2>1, <2>2
<1>6. RelayTypes'
  <2>1. \A l \in Links : Len(down'[l]) <= LinkCapacity
    <3> SUFFICES ASSUME NEW l \in Links PROVE Len(down'[l]) <= LinkCapacity
      OBVIOUS
    <3>1. Len(down[l]) <= LinkCapacity /\ LinkCapacity \in Nat
      BY <1>0, RelayAssumption DEF RelayTypes
    <3>2. CASE l = p
      BY <1>3, <1>4, <3>1, <3>2
    <3> QED BY <1>4, <3>1, <3>2
  <2> QED BY <1>0, <1>1, <1>4, <1>5, <2>1 DEF RelayTypes
<1>7. PICK o \in [Links -> Nat] : DownFits(o)
  BY DEF RelayInv
<1>8. PICK w \in [Links -> Nat] : w[p] = o[p] + 1 /\ \A l \in Links \ {p} : w[l] = o[l]
  <2>1. o[p] + 1 \in Nat
    BY <1>2
  <2>2. [o EXCEPT ![p] = o[p] + 1] \in [Links -> Nat]
    BY <2>1
  <2> QED BY <1>2, <2>2
<1>9. DownFits(w)'
  <2>0. ASSUME NEW l \in Links PROVE w[l] + Len(down'[l]) = o[l] + Len(down[l])
    <3>1. CASE l = p
      <4>1. (o[p] + 1) + n = o[p] + (n + 1)
        BY <1>2
      <4> QED BY <1>3, <1>4, <1>8, <3>1, <4>1
    <3> QED BY <1>4, <1>8, <3>1
  <2>1. \A x : Accepted(x)' <=> Accepted(x)
    BY <1>1 DEF Accepted
  <2>2. p # 4 /\ p # p + 1 /\ 1 \in Hops /\ 4 \in Links
    BY DEF Hops, Links
  <2>3. w[4] = Len(stdin)' /\ \A i \in 1..Len(stdin') : stdin'[i] = typed'[i] /\ Accepted(stdin[i])'
    BY <1>1, <1>7, <1>8, <2>1, <2>2 DEF DownFits
  <2>4. ASSUME NEW l \in Links
        PROVE  /\ w[l] + Len(down'[l]) <= Len(typed')
               /\ \A i \in 1..Len(down'[l]) :
                    down'[l][i] = typed'[w[l] + i] /\ (l > 1 => Accepted(down[l][i])')
    <3>1. CASE l = p
      <4>1. o[p] + (n + 1) <= Len(typed) /\ o[p] \in Nat
        BY <1>2, <1>3, <1>7 DEF DownFits
      <4>2. w[p] + n <= Len(typed)
        BY <1>2, <1>8, <4>1
      <4>3. ASSUME NEW i \in 1..n
            PROVE  t[i] = typed[w[p] + i] /\ (p > 1 => Accepted(t[i]))
        <5>1. i + 1 \in 1..Len(down[p]) /\ o[p] + (i + 1) = w[p] + i
          BY <1>2, <1>3, <1>8
        <5>2. down[p][i + 1] = typed[o[p] + (i + 1)] /\ (p > 1 => Accepted(down[p][i + 1]))
          BY <1>2, <1>7, <5>1 DEF DownFits
        <5> QED BY <1>3, <5>1, <5>2
      <4> QED BY <1>1, <1>3, <1>4, <2>1, <3>1, <4>2, <4>3
    <3>2. CASE l # p
      BY <1>1, <1>4, <1>7, <1>8, <2>1, <3>2 DEF DownFits
    <3> QED BY <3>1, <3>2
  <2>5. ASSUME NEW q \in Hops, hop'[q].pc # "ended"
        PROVE  w[q] = w[q + 1] + Len(down'[q + 1]) + Holds(q, "sendDown")'
    <3>1. CASE q = p
      <4>1. o[p] = o[p + 1] + Len(down[p + 1]) + 0
        BY <1>1, <1>7 DEF DownFits, Holds
      <4>2. Holds(p, "sendDown")' = 1
        BY <1>5, <2>5, <3>1 DEF Holds
      <4>3. w[p + 1] = o[p + 1] /\ down'[p + 1] = down[p + 1]
        BY <1>2, <1>4, <1>8, <2>2
      <4> QED BY <1>2, <1>8, <3>1, <4>1, <4>2, <4>3
    <3>2. CASE q # p
      <4>1. hop'[q] = hop[q] /\ Holds(q, "sendDown")' = Holds(q, "sendDown")
        BY <1>5, <3>2 DEF Holds
      <4>2. w[q] = o[q] /\ w[q + 1] + Len(down'[q + 1]) = o[q + 1] + Len(down[q + 1])
        BY <1>2, <1>8, <2>0, <3>2
      <4> QED BY <1>7, <2>5, <4>1, <4>2 DEF DownFits
    <3> QED BY <3>1, <3>2
  <2>6. ASSUME NEW q \in Hops, hop'[q].pc = "sendDown"
        PROVE  hop'[q].frame = typed'[w[q + 1] + Len(down'[q + 1]) + 1] /\ Accepted(hop[q].frame)'
    <3>1. CASE q = p
      <4>1. o[p] = o[p + 1] + Len(down[p + 1]) + 0
        BY <1>1, <1>7 DEF DownFits, Holds
      <4>2. w[p + 1] = o[p + 1] /\ down'[p + 1] = down[p + 1]
        BY <1>2, <1>4, <1>8, <2>2
      <4>3. 1 \in 1..Len(down[p]) /\ o[p] + 1 = w[p + 1] + Len(down'[p + 1]) + 1
        BY <1>2, <1>3, <4>1, <4>2
      <4>4. f = typed[o[p] + 1]
        BY <1>2, <1>3, <1>7, <4>3 DEF DownFits
      <4>5. hop'[p].frame = f /\ Accepted(f)
        BY <1>5, <2>6, <3>1
      <4> QED BY <1>1, <2>1, <3>1, <4>3, <4>4, <4>5
    <3>2. CASE q # p
      <4>1. hop'[q] = hop[q] /\ hop[q].pc = "sendDown"
        BY <1>5, <2>6, <3>2
      <4>2. hop[q].frame = typed[o[q + 1] + Len(down[q + 1]) + 1] /\ Accepted(hop[q].frame)
        BY <1>7, <4>1 DEF DownFits
      <4>3. w[q + 1] + Len(down'[q + 1]) = o[q + 1] + Len(down[q + 1])
        BY <1>2, <2>0
      <4> QED BY <1>1, <2>1, <4>1, <4>2, <4>3
    <3> QED BY <3>1, <3>2
  <2>7. hop'[1].pc # "ended" => w[1] + Len(down'[1]) = Len(typed')
    <3>1. hop'[1].pc # "ended" => hop[1].pc # "ended"
      BY <1>1, <1>5, <2>2
    <3>2. w[1] + Len(down'[1]) = o[1] + Len(down[1])
      <4>1. 1 \in Links
        BY DEF Links
      <4> QED BY <2>0, <4>1
    <3> QED BY <1>1, <1>7, <3>1, <3>2 DEF DownFits
  <2> QED BY <2>3, <2>4, <2>5, <2>6, <2>7 DEF DownFits
<1>10. PICK u \in [Links -> Nat] : UpFits(u)
  BY DEF RelayInv
<1>11. UpFits(u)'
  BY <1>1, <1>5, <1>10, UpStands
<1> QED BY <1>1, <1>5, <1>6, <1>9, <1>11, FrameKeeps


\* A hop sends its frame on towards the target.
LEMMA SendDownKeeps ==
  ASSUME RelayInv, NEW p \in Hops, SendDown(p)
  PROVE  RelayInv'
<1>0. RelayTypes
  BY DEF RelayInv
<1>1. /\ hop[p].pc = "sendDown" /\ Len(down[p + 1]) < LinkCapacity
      /\ down' = [down EXCEPT ![p + 1] = Append(down[p + 1], hop[p].frame)]
      /\ hop' = [hop EXCEPT ![p] = [pc |-> "relay", frame |-> 0]]
      /\ UNCHANGED <<up, typed, printed, stdin, screen, output, kind, machine, authority, console>>
  BY DEF SendDown, World
<1>2. /\ Len(typed) \in Nat /\ Len(stdin) \in Nat /\ p \in Links /\ p + 1 \in Links
      /\ \A l \in Links : down[l] \in Seq(Frame) /\ Len(down[l]) \in Nat
      /\ \A q \in Hops : q \in Links /\ q + 1 \in Links
  BY <1>0, RelayLengths
<1>3. PICK o \in [Links -> Nat] : DownFits(o)
  BY DEF RelayInv
<1>4. PICK m \in Links, n \in Nat, k \in Nat : /\ m = p + 1 /\ n = Len(down[m]) /\ k = o[m] + n + 1
                                               /\ o[p] = k
  <2>1. Holds(p, "sendDown") = 1
    BY <1>1 DEF Holds
  <2>2. o[p] = o[p + 1] + Len(down[p + 1]) + 1
    BY <1>1, <1>3, <2>1 DEF DownFits
  <2> QED BY <1>2, <2>2
<1>5. k \in 1..Len(typed)
  <2>1. o[p] + Len(down[p]) <= Len(typed) /\ o[m] \in Nat
    BY <1>2, <1>3 DEF DownFits
  <2> QED BY <1>2, <1>4, <2>1
<1>6. PICK f \in Frame : f = hop[p].frame /\ f = typed[k] /\ Accepted(f)
  <2>1. typed[k] \in Frame
    BY <1>0, <1>5, ElementOfSeq DEF RelayTypes
  <2> QED BY <1>1, <1>3, <1>4, <2>1 DEF DownFits
<1>7. PICK t \in Seq(Frame) : /\ t = Append(down[m], f) /\ Len(t) = n + 1 /\ t[n + 1] = f
                              /\ \A i \in 1..n : t[i] = down[m][i]
  <2>1. PICK s \in Seq(Frame) : s = down[m]
    BY <1>2
  <2>2. PICK t : t = Append(s, f)
    OBVIOUS
  <2>3. /\ t \in Seq(Frame) /\ Len(t) = Len(s) + 1 /\ t[Len(s) + 1] = f
        /\ \A i \in 1..Len(s) : t[i] = s[i]
    BY <2>2, Appended
  <2> QED BY <1>4, <2>1, <2>2, <2>3
<1>8. /\ down' \in [Links -> Seq(Frame)] /\ down'[m] = t
      /\ \A l \in Links \ {m} : down'[l] = down[l]
  <2>1. down \in [Links -> Seq(Frame)] /\ down' = [down EXCEPT ![m] = t]
    BY <1>0, <1>1, <1>4, <1>6, <1>7 DEF RelayTypes
  <2> QED BY <2>1
<1>9. /\ hop' \in [Hops -> HopRecord] /\ hop'[p].pc = "relay"
      /\ \A q \in Hops \ {p} : hop'[q] = hop[q]
  <2>1. "relay" \in HopStages /\ 0 \in Nat \cup Frame
    BY DEF HopStages
  <2> QED BY <1>0, <1>1, <2>1, HopSet
<1>10. RelayTypes'
  <2>1. \A l \in Links : Len(down'[l]) <= LinkCapacity
    <3> SUFFICES ASSUME NEW l \in Links PROVE Len(down'[l]) <= LinkCapacity
      OBVIOUS
    <3>1. CASE l = m
      BY <1>1, <1>4, <1>7, <1>8, <3>1, RelayAssumption
    <3> QED BY <1>0, <1>8, <3>1 DEF RelayTypes
  <2> QED BY <1>0, <1>1, <1>8, <1>9, <2>1 DEF RelayTypes
<1>11. DownFits(o)'
  <2>1. \A x : Accepted(x)' <=> Accepted(x)
    BY <1>1 DEF Accepted
  <2>2. m # 1 /\ p # m /\ 1 \in Hops /\ 1 \in Links /\ \A q \in Hops : q # p => q + 1 # m
    BY <1>4 DEF Hops, Links
  <2>3. o[4] = Len(stdin)' /\ \A i \in 1..Len(stdin') : stdin'[i] = typed'[i] /\ Accepted(stdin[i])'
    BY <1>1, <1>3, <2>1 DEF DownFits
  <2>4. ASSUME NEW l \in Links
        PROVE  /\ o[l] + Len(down'[l]) <= Len(typed')
               /\ \A i \in 1..Len(down'[l]) :
                    down'[l][i] = typed'[o[l] + i] /\ (l > 1 => Accepted(down[l][i])')
    <3>1. CASE l = m
      <4>1. o[m] \in Nat /\ o[m] + (n + 1) = k
        BY <1>4
      <4>2. ASSUME NEW i \in 1..n + 1
            PROVE  t[i] = typed[o[m] + i] /\ Accepted(t[i])
        <5>1. CASE i = n + 1
          BY <1>6, <1>7, <4>1, <5>1
        <5>2. CASE i # n + 1
          <6>1. i \in 1..n /\ i \in 1..Len(down[m]) /\ m > 1
            <7>1. i \in 1..n
              BY <5>2
            <7>2. m > 1
              BY <2>2 DEF Links
            <7> QED BY <1>4, <7>1, <7>2
          <6>2. down[m][i] = typed[o[m] + i] /\ Accepted(down[m][i])
            BY <1>3, <6>1 DEF DownFits
          <6> QED BY <1>7, <6>1, <6>2
        <5> QED BY <5>1, <5>2
      <4>3. o[m] + (n + 1) <= Len(typed)
        BY <1>2, <1>5, <4>1
      <4> QED BY <1>1, <1>7, <1>8, <2>1, <3>1, <4>2, <4>3
    <3>2. CASE l # m
      BY <1>1, <1>3, <1>8, <2>1, <3>2 DEF DownFits
    <3> QED BY <3>1, <3>2
  <2>5. ASSUME NEW q \in Hops, hop'[q].pc # "ended"
        PROVE  o[q] = o[q + 1] + Len(down'[q + 1]) + Holds(q, "sendDown")'
    <3>1. CASE q = p
      <4>1. Holds(q, "sendDown")' = 0
        BY <1>9, <3>1 DEF Holds
      <4>2. o[m] \in Nat /\ k = o[m] + (n + 1) + 0
        BY <1>4
      <4> QED BY <1>4, <1>7, <1>8, <3>1, <4>1, <4>2
    <3>2. CASE q # p
      <4>1. hop'[q] = hop[q] /\ Holds(q, "sendDown")' = Holds(q, "sendDown")
        BY <1>9, <3>2 DEF Holds
      <4>2. down'[q + 1] = down[q + 1]
        BY <1>2, <1>8, <2>2, <3>2
      <4> QED BY <1>3, <2>5, <4>1, <4>2 DEF DownFits
    <3> QED BY <3>1, <3>2
  <2>6. ASSUME NEW q \in Hops, hop'[q].pc = "sendDown"
        PROVE  hop'[q].frame = typed'[o[q + 1] + Len(down'[q + 1]) + 1] /\ Accepted(hop[q].frame)'
    <3>1. q # p /\ hop'[q] = hop[q]
      BY <1>9, <2>6
    <3>2. down'[q + 1] = down[q + 1]
      BY <1>2, <1>8, <2>2, <3>1
    <3>3. hop[q].frame = typed[o[q + 1] + Len(down[q + 1]) + 1] /\ Accepted(hop[q].frame)
      BY <1>3, <2>6, <3>1 DEF DownFits
    <3> QED BY <1>1, <2>1, <3>1, <3>2, <3>3
  <2>7. hop'[1].pc # "ended" => o[1] + Len(down'[1]) = Len(typed')
    <3>1. hop'[1].pc # "ended" => hop[1].pc # "ended"
      BY <1>1, <1>9, <2>2
    <3> QED BY <1>1, <1>3, <1>8, <2>2, <3>1 DEF DownFits
  <2> QED BY <2>3, <2>4, <2>5, <2>6, <2>7 DEF DownFits
<1>12. PICK u \in [Links -> Nat] : UpFits(u)
  BY DEF RelayInv
<1>13. UpFits(u)'
  BY <1>1, <1>9, <1>12, UpStands
<1> QED BY <1>1, <1>9, <1>10, <1>11, <1>13, FrameKeeps


\* The target reads a frame.
LEMMA ConsumeKeeps ==
  ASSUME RelayInv, Consume
  PROVE  RelayInv'
<1>0. RelayTypes /\ 4 \in Links /\ hop \in [Hops -> HopRecord] /\ stdin \in Seq(Frame)
  <2>1. RelayTypes
    BY DEF RelayInv
  <2>2. 4 \in Links
    BY DEF Links
  <2> QED BY <2>1, <2>2 DEF RelayTypes
<1>1. /\ down[4] # <<>> /\ down' = [down EXCEPT ![4] = Tail(down[4])]
      /\ stdin' = Append(stdin, Head(down[4]))
      /\ UNCHANGED <<up, typed, printed, screen, output, kind, machine, authority, console, hop>>
  BY DEF Consume, World
<1>2. /\ Len(typed) \in Nat /\ Len(stdin) \in Nat
      /\ \A l \in Links : down[l] \in Seq(Frame) /\ Len(down[l]) \in Nat
      /\ \A q \in Hops : q \in Links /\ q + 1 \in Links
  BY <1>0, RelayLengths
<1>3. PICK t \in Seq(Frame), n \in Nat, f \in Frame :
        /\ t = Tail(down[4]) /\ f = Head(down[4]) /\ f = down[4][1]
        /\ Len(down[4]) = n + 1 /\ Len(t) = n /\ \A i \in 1..n : t[i] = down[4][i + 1]
  <2>1. PICK s \in Seq(Frame) : s = down[4] /\ s # <<>>
    BY <1>0, <1>1, <1>2
  <2>2. /\ Tail(s) \in Seq(Frame) /\ Head(s) = s[1] /\ Head(s) \in Frame
        /\ Len(s) \in Nat /\ Len(s) >= 1 /\ Len(Tail(s)) = Len(s) - 1
        /\ \A i \in 1..Len(s) - 1 : Tail(s)[i] = s[i + 1]
    BY <2>1, Removed
  <2>3. PICK n \in Nat : n = Len(s) - 1 /\ Len(s) = n + 1
    <3>1. Len(s) - 1 \in Nat /\ Len(s) = (Len(s) - 1) + 1
      BY <2>2
    <3> QED BY <3>1
  <2> QED BY <2>1, <2>2, <2>3
<1>4. /\ down' \in [Links -> Seq(Frame)] /\ down'[4] = t
      /\ \A l \in Links \ {4} : down'[l] = down[l]
  <2>1. down \in [Links -> Seq(Frame)]
    BY <1>0 DEF RelayTypes
  <2> QED BY <1>0, <1>1, <1>3, <2>1
<1>5. PICK m \in Nat : m = Len(stdin)
  BY <1>2
<1>6. /\ stdin' \in Seq(Frame) /\ Len(stdin') = m + 1 /\ stdin'[m + 1] = f
      /\ \A i \in 1..m : stdin'[i] = stdin[i]
  BY <1>0, <1>1, <1>3, <1>5, Appended
<1>7. RelayTypes'
  <2>1. \A l \in Links : Len(down'[l]) <= LinkCapacity
    <3> SUFFICES ASSUME NEW l \in Links PROVE Len(down'[l]) <= LinkCapacity
      OBVIOUS
    <3>1. Len(down[l]) <= LinkCapacity /\ LinkCapacity \in Nat
      BY <1>0, RelayAssumption DEF RelayTypes
    <3>2. CASE l = 4
      BY <1>3, <1>4, <3>1, <3>2
    <3> QED BY <1>4, <3>1, <3>2
  <2> QED BY <1>0, <1>1, <1>4, <1>6, <2>1 DEF RelayTypes
<1>8. PICK o \in [Links -> Nat] : DownFits(o)
  BY DEF RelayInv
<1>9. PICK w \in [Links -> Nat] : w[4] = m + 1 /\ \A l \in Links \ {4} : w[l] = o[l]
  <2>1. m + 1 \in Nat
    OBVIOUS
  <2>2. [o EXCEPT ![4] = m + 1] \in [Links -> Nat]
    BY <2>1
  <2> QED BY <1>0, <2>2
<1>10. o[4] = m
  BY <1>5, <1>8 DEF DownFits
<1>11. DownFits(w)'
  <2>1. \A x : Accepted(x)' <=> Accepted(x)
    BY <1>1 DEF Accepted
  <2>2. ASSUME NEW l \in Links PROVE w[l] + Len(down'[l]) = o[l] + Len(down[l])
    <3>1. CASE l = 4
      <4>1. (m + 1) + n = m + (n + 1)
        OBVIOUS
      <4> QED BY <1>3, <1>4, <1>9, <1>10, <3>1, <4>1
    <3> QED BY <1>4, <1>9, <3>1
  <2>3. f = typed[m + 1] /\ Accepted(f)
    <3>1. 1 \in 1..Len(down[4]) /\ 4 > 1
      BY <1>3
    <3>2. down[4][1] = typed[o[4] + 1] /\ Accepted(down[4][1])
      BY <1>0, <1>8, <3>1 DEF DownFits
    <3> QED BY <1>3, <1>10, <3>2
  <2>4. \A i \in 1..Len(stdin') : stdin'[i] = typed'[i] /\ Accepted(stdin[i])'
    <3> SUFFICES ASSUME NEW i \in 1..m + 1 PROVE stdin'[i] = typed[i] /\ Accepted(stdin'[i])
      BY <1>1, <1>6, <2>1
    <3>1. CASE i = m + 1
      BY <1>6, <2>3, <3>1
    <3>2. CASE i # m + 1
      <4>1. i \in 1..m
        BY <3>2
      <4> QED BY <1>5, <1>6, <1>8, <4>1 DEF DownFits
    <3> QED BY <3>1, <3>2
  <2>5. ASSUME NEW l \in Links
        PROVE  /\ w[l] + Len(down'[l]) <= Len(typed')
               /\ \A i \in 1..Len(down'[l]) :
                    down'[l][i] = typed'[w[l] + i] /\ (l > 1 => Accepted(down[l][i])')
    <3>1. CASE l = 4
      <4>1. w[l] + Len(down'[l]) <= Len(typed')
        BY <1>1, <1>8, <2>2 DEF DownFits
      <4>2. ASSUME NEW i \in 1..n
            PROVE  t[i] = typed[(m + 1) + i] /\ Accepted(t[i])
        <5>1. i + 1 \in 1..Len(down[4]) /\ m + (i + 1) = (m + 1) + i /\ 4 > 1
          <6>1. i + 1 \in 1..n + 1
            OBVIOUS
          <6>2. m + (i + 1) = (m + 1) + i
            OBVIOUS
          <6> QED BY <1>3, <6>1, <6>2
        <5>2. down[4][i + 1] = typed[o[4] + (i + 1)] /\ Accepted(down[4][i + 1])
          BY <1>0, <1>8, <5>1 DEF DownFits
        <5> QED BY <1>3, <1>10, <5>1, <5>2
      <4> QED BY <1>1, <1>3, <1>4, <1>9, <2>1, <3>1, <4>1, <4>2
    <3>2. CASE l # 4
      BY <1>1, <1>4, <1>8, <1>9, <2>1, <3>2 DEF DownFits
    <3> QED BY <3>1, <3>2
  <2>6. \A q \in Hops : q # 4 /\ q \in Links \ {4} /\ w[q] = o[q]
                        /\ w[q + 1] + Len(down'[q + 1]) = o[q + 1] + Len(down[q + 1])
    <3>1. \A q \in Hops : q # 4
      BY DEF Hops
    <3> QED BY <1>2, <1>9, <2>2, <3>1
  <2>7. \A q \in Hops : hop'[q].pc # "ended" =>
          w[q] = w[q + 1] + Len(down'[q + 1]) + Holds(q, "sendDown")'
    BY <1>1, <1>8, <2>6 DEF DownFits, Holds
  <2>8. \A q \in Hops : hop'[q].pc = "sendDown" =>
          hop'[q].frame = typed'[w[q + 1] + Len(down'[q + 1]) + 1] /\ Accepted(hop[q].frame)'
    BY <1>1, <1>8, <2>1, <2>6 DEF DownFits
  <2>9. hop'[1].pc # "ended" => w[1] + Len(down'[1]) = Len(typed')
    <3>1. 1 \in Links
      BY DEF Links
    <3> QED BY <1>1, <1>8, <2>2, <3>1 DEF DownFits
  <2>10. w[4] = Len(stdin)'
    BY <1>6, <1>9
  <2> QED BY <2>4, <2>5, <2>7, <2>8, <2>9, <2>10 DEF DownFits
<1>12. PICK u \in [Links -> Nat] : UpFits(u)
  BY DEF RelayInv
<1>13. UpFits(u)'
  BY <1>1, <1>12, UpStands
<1> QED BY <1>1, <1>7, <1>11, <1>13, FrameKeeps

\* The browser sends a frame.
LEMMA TypeKeeps ==
  ASSUME RelayInv, Type
  PROVE  RelayInv'
<1>0. RelayTypes /\ 1 \in Links /\ 1 \in Hops /\ hop \in [Hops -> HopRecord] /\ typed \in Seq(Frame)
  BY DEF RelayInv, RelayTypes, Links, Hops
<1>1. /\ hop[1].pc # "ended" /\ Len(down[1]) < LinkCapacity
      /\ UNCHANGED <<up, printed, stdin, screen, output, kind, machine, authority, console, hop>>
  BY DEF Type, World
<1>2. /\ Len(typed) \in Nat /\ Len(stdin) \in Nat
      /\ \A l \in Links : down[l] \in Seq(Frame) /\ Len(down[l]) \in Nat
      /\ \A q \in Hops : q \in Links /\ q + 1 \in Links
  BY <1>0, RelayLengths
<1>3. PICK f \in Frame : typed' = Append(typed, f) /\ down' = [down EXCEPT ![1] = Append(down[1], f)]
  <2>1. PICK r \in BOOLEAN :
          /\ typed' = Append(typed, [n |-> Len(typed) + 1, resize |-> r])
          /\ down' = [down EXCEPT ![1] = Append(down[1], [n |-> Len(typed) + 1, resize |-> r])]
    <3>1. PICK r \in {FALSE, Len(typed) + 1 = MaxFrames} :
            /\ typed' = Append(typed, [n |-> Len(typed) + 1, resize |-> r])
            /\ down' = [down EXCEPT ![1] = Append(down[1], [n |-> Len(typed) + 1, resize |-> r])]
      BY DEF Type
    <3>2. r \in BOOLEAN
      OBVIOUS
    <3> QED BY <3>1, <3>2
  <2>2. Len(typed) + 1 \in Nat
    BY <1>2
  <2>3. [n |-> Len(typed) + 1, resize |-> r] \in Frame
    BY <2>2 DEF Frame
  <2> QED BY <2>1, <2>3
<1>4. PICK m \in Nat, n \in Nat : m = Len(typed) /\ n = Len(down[1])
  BY <1>0, <1>2
<1>5. /\ typed' \in Seq(Frame) /\ Len(typed') = m + 1 /\ typed'[m + 1] = f
      /\ \A i \in 1..m : typed'[i] = typed[i]
  BY <1>0, <1>3, <1>4, Appended
<1>6. PICK t \in Seq(Frame) : /\ t = Append(down[1], f) /\ Len(t) = n + 1 /\ t[n + 1] = f
                              /\ \A i \in 1..n : t[i] = down[1][i]
  <2>1. PICK s \in Seq(Frame) : s = down[1]
    BY <1>0, <1>2
  <2>2. PICK t : t = Append(s, f)
    OBVIOUS
  <2>3. /\ t \in Seq(Frame) /\ Len(t) = Len(s) + 1 /\ t[Len(s) + 1] = f
        /\ \A i \in 1..Len(s) : t[i] = s[i]
    BY <2>2, Appended
  <2> QED BY <1>4, <2>1, <2>2, <2>3
<1>7. /\ down' \in [Links -> Seq(Frame)] /\ down'[1] = t
      /\ \A l \in Links \ {1} : down'[l] = down[l]
  <2>1. down \in [Links -> Seq(Frame)] /\ down' = [down EXCEPT ![1] = t]
    BY <1>0, <1>3, <1>6 DEF RelayTypes
  <2> QED BY <1>0, <2>1
<1>8. RelayTypes'
  <2>1. \A l \in Links : Len(down'[l]) <= LinkCapacity
    <3> SUFFICES ASSUME NEW l \in Links PROVE Len(down'[l]) <= LinkCapacity
      OBVIOUS
    <3>1. CASE l = 1
      BY <1>1, <1>4, <1>6, <1>7, <3>1, RelayAssumption
    <3> QED BY <1>0, <1>7, <3>1 DEF RelayTypes
  <2> QED BY <1>0, <1>1, <1>5, <1>7, <2>1 DEF RelayTypes
<1>9. PICK o \in [Links -> Nat] : DownFits(o)
  BY DEF RelayInv
<1>10. o[1] + n = m /\ o[1] \in Nat
  BY <1>0, <1>1, <1>4, <1>9 DEF DownFits
<1>11. DownFits(o)'
  <2>1. \A x : Accepted(x)' <=> Accepted(x)
    BY <1>1 DEF Accepted
  <2>2. ASSUME NEW l \in Links, NEW i \in 1..Len(down[l])
        PROVE  o[l] + i \in 1..m /\ typed'[o[l] + i] = typed[o[l] + i]
    <3>1. o[l] + Len(down[l]) <= m /\ o[l] \in Nat /\ Len(down[l]) \in Nat
      BY <1>2, <1>4, <1>9 DEF DownFits
    <3>2. o[l] + i \in 1..m
      BY <3>1
    <3> QED BY <1>5, <3>2
  <2>3. o[4] = Len(stdin)' /\ \A i \in 1..Len(stdin') : stdin'[i] = typed'[i] /\ Accepted(stdin[i])'
    <3>1. Len(stdin) <= m
      <4>1. 4 \in Links
        BY DEF Links
      <4>2. o[4] + Len(down[4]) <= m /\ o[4] = Len(stdin) /\ Len(down[4]) \in Nat
        BY <1>2, <1>4, <1>9, <4>1 DEF DownFits
      <4> QED BY <1>2, <4>2
    <3>2. \A i \in 1..Len(stdin) : i \in 1..m
      BY <1>2, <3>1
    <3> QED BY <1>1, <1>5, <1>9, <2>1, <3>2 DEF DownFits
  <2>4. ASSUME NEW l \in Links
        PROVE  /\ o[l] + Len(down'[l]) <= Len(typed')
               /\ \A i \in 1..Len(down'[l]) :
                    down'[l][i] = typed'[o[l] + i] /\ (l > 1 => Accepted(down[l][i])')
    <3>1. CASE l = 1
      <4>1. o[1] + (n + 1) = m + 1
        BY <1>10
      <4>2. ASSUME NEW i \in 1..n + 1 PROVE t[i] = typed'[o[1] + i]
        <5>1. CASE i = n + 1
          BY <1>5, <1>6, <4>1, <5>1
        <5>2. CASE i # n + 1
          <6>1. i \in 1..n
            BY <5>2
          <6>2. i \in 1..Len(down[1])
            BY <1>4, <6>1
          <6>3. down[1][i] = typed[o[1] + i]
            BY <1>0, <1>9, <6>2 DEF DownFits
          <6> QED BY <1>0, <1>6, <2>2, <6>1, <6>2, <6>3
        <5> QED BY <5>1, <5>2
      <4>3. o[1] + (n + 1) <= Len(typed')
        BY <1>5, <4>1
      <4>4. ~(l > 1)
        BY <3>1
      <4> QED BY <1>6, <1>7, <3>1, <4>2, <4>3, <4>4
    <3>2. CASE l # 1
      <4>1. o[l] + Len(down[l]) <= m /\ o[l] \in Nat /\ Len(down[l]) \in Nat
        BY <1>2, <1>4, <1>9 DEF DownFits
      <4>2. o[l] + Len(down[l]) <= m + 1
        BY <4>1
      <4>3. \A i \in 1..Len(down[l]) : down[l][i] = typed'[o[l] + i]
        BY <1>9, <2>2 DEF DownFits
      <4> QED BY <1>5, <1>7, <1>9, <2>1, <3>2, <4>2, <4>3 DEF DownFits
    <3> QED BY <3>1, <3>2
  <2>5. \A q \in Hops : q + 1 \in Links \ {1} /\ down'[q + 1] = down[q + 1]
    <3>1. \A q \in Hops : q + 1 \in Links \ {1}
      BY DEF Hops, Links
    <3> QED BY <1>7, <3>1
  <2>6. \A q \in Hops : hop'[q].pc # "ended" =>
          o[q] = o[q + 1] + Len(down'[q + 1]) + Holds(q, "sendDown")'
    BY <1>1, <1>9, <2>5 DEF DownFits, Holds
  <2>7. ASSUME NEW q \in Hops, hop'[q].pc = "sendDown"
        PROVE  hop'[q].frame = typed'[o[q + 1] + Len(down'[q + 1]) + 1] /\ Accepted(hop[q].frame)'
    <3>1. hop[q].frame = typed[o[q + 1] + Len(down[q + 1]) + 1] /\ Accepted(hop[q].frame)
      BY <1>1, <1>9, <2>7 DEF DownFits
    <3>2. o[q + 1] + Len(down[q + 1]) + 1 \in 1..m
      <4>1. o[q] = o[q + 1] + Len(down[q + 1]) + 1
        BY <1>1, <1>9, <2>7 DEF DownFits, Holds
      <4>2. o[q] + Len(down[q]) <= m /\ o[q + 1] \in Nat /\ Len(down[q]) \in Nat
            /\ Len(down[q + 1]) \in Nat
        BY <1>2, <1>4, <1>9 DEF DownFits
      <4> QED BY <4>1, <4>2
    <3> QED BY <1>1, <1>5, <2>1, <2>5, <3>1, <3>2
  <2>8. o[1] + Len(down'[1]) = Len(typed')
    BY <1>5, <1>6, <1>7, <1>10
  <2> QED BY <2>3, <2>4, <2>6, <2>7, <2>8 DEF DownFits
<1>12. PICK u \in [Links -> Nat] : UpFits(u)
  BY DEF RelayInv
<1>13. UpFits(u)'
  BY <1>1, <1>12, UpStands
<1> QED BY <1>1, <1>8, <1>11, <1>13, FrameKeeps


\* A hop takes a frame towards the browser; the executor counts it.
LEMMA TakeUpKeeps ==
  ASSUME RelayInv, NEW p \in Hops, TakeUp(p)
  PROVE  RelayInv'
<1>0. RelayTypes
  BY DEF RelayInv
<1>1. PICK m \in Links : m = p + 1
  BY <1>0, RelayLengths
<1>2. /\ hop[p].pc = "relay" /\ up[m] # <<>> /\ up' = [up EXCEPT ![m] = Tail(up[m])]
      /\ output' = IF p = 3 /\ kind = "xterm" THEN output + 1 ELSE output
      /\ UNCHANGED <<down, typed, printed, stdin, screen, kind, machine, authority, console>>
  BY <1>1 DEF TakeUp, World
<1>3. /\ Len(screen) \in Nat /\ output \in Nat /\ OutputLimit \in Nat /\ p \in Links
      /\ \A l \in Links : up[l] \in Seq(Nat) /\ Len(up[l]) \in Nat
      /\ \A q \in Hops : q \in Links /\ q + 1 \in Links
  BY <1>0, RelayLengths, RelayAssumption DEF RelayTypes
<1>4. PICK t \in Seq(Nat), n \in Nat, f \in Nat :
        /\ t = Tail(up[m]) /\ f = Head(up[m]) /\ f = up[m][1]
        /\ Len(up[m]) = n + 1 /\ Len(t) = n /\ \A i \in 1..n : t[i] = up[m][i + 1]
  <2>1. PICK s \in Seq(Nat) : s = up[m] /\ s # <<>>
    BY <1>2, <1>3
  <2>2. /\ Tail(s) \in Seq(Nat) /\ Head(s) = s[1] /\ Head(s) \in Nat
        /\ Len(s) \in Nat /\ Len(s) >= 1 /\ Len(Tail(s)) = Len(s) - 1
        /\ \A i \in 1..Len(s) - 1 : Tail(s)[i] = s[i + 1]
    BY <2>1, Removed
  <2>3. PICK n \in Nat : n = Len(s) - 1 /\ Len(s) = n + 1
    <3>1. Len(s) - 1 \in Nat /\ Len(s) = (Len(s) - 1) + 1
      BY <2>2
    <3> QED BY <3>1
  <2> QED BY <2>1, <2>2, <2>3
<1>5. /\ up' \in [Links -> Seq(Nat)] /\ up'[m] = t
      /\ \A l \in Links \ {m} : up'[l] = up[l]
  <2>1. up \in [Links -> Seq(Nat)]
    BY <1>0 DEF RelayTypes
  <2> QED BY <1>2, <1>4, <2>1
<1>6. /\ hop' \in [Hops -> HopRecord] /\ \A q \in Hops \ {p} : hop'[q] = hop[q]
      /\ \/ hop'[p].pc = "ended"
         \/ hop'[p].pc = "sendUp" /\ hop'[p].frame = f /\ (p = 3 => output' <= OutputLimit)
  <2>1. output' \in Nat
    BY <1>2, <1>3
  <2>2. CASE p = 3 /\ output' > OutputLimit
    <3>1. HopTo(p, "ended")
      BY <2>2 DEF TakeUp
    <3>2. "ended" \in HopStages
      BY DEF HopStages
    <3> QED BY <1>0, <3>1, <3>2, HopStepped
  <2>3. CASE ~(p = 3 /\ output' > OutputLimit)
    <3>1. hop' = [hop EXCEPT ![p] = [pc |-> "sendUp", frame |-> f]]
      BY <1>1, <1>4, <2>3 DEF TakeUp
    <3>2. "sendUp" \in HopStages /\ f \in Nat \cup Frame
      BY DEF HopStages
    <3>3. /\ hop' \in [Hops -> HopRecord] /\ hop'[p].pc = "sendUp" /\ hop'[p].frame = f
          /\ \A q \in Hops \ {p} : hop'[q] = hop[q]
      BY <1>0, <3>1, <3>2, HopSet
    <3>4. p = 3 => output' <= OutputLimit
      BY <1>3, <2>1, <2>3
    <3> QED BY <3>3, <3>4
  <2> QED BY <2>2, <2>3
<1>7. RelayTypes'
  <2>1. \A l \in Links : Len(up'[l]) <= LinkCapacity
    <3> SUFFICES ASSUME NEW l \in Links PROVE Len(up'[l]) <= LinkCapacity
      OBVIOUS
    <3>1. Len(up[l]) <= LinkCapacity /\ LinkCapacity \in Nat
      BY <1>0, RelayAssumption DEF RelayTypes
    <3>2. CASE l = m
      BY <1>4, <1>5, <3>1, <3>2
    <3> QED BY <1>5, <3>1, <3>2
  <2>2. output' \in Nat
    BY <1>2, <1>3
  <2> QED BY <1>0, <1>2, <1>5, <1>6, <2>1, <2>2 DEF RelayTypes
<1>8. PICK o \in [Links -> Nat] : UpFits(o)
  BY DEF RelayInv
<1>9. PICK w \in [Links -> Nat] : w[m] = o[m] + 1 /\ \A l \in Links \ {m} : w[l] = o[l]
  <2>1. o[m] + 1 \in Nat
    OBVIOUS
  <2>2. [o EXCEPT ![m] = o[m] + 1] \in [Links -> Nat]
    BY <2>1
  <2> QED BY <2>2
<1>10. UpFits(w)'
  <2>1. ASSUME NEW l \in Links PROVE w[l] + Len(up'[l]) = o[l] + Len(up[l])
    <3>1. CASE l = m
      <4>1. (o[m] + 1) + n = o[m] + (n + 1)
        OBVIOUS
      <4> QED BY <1>4, <1>5, <1>9, <3>1, <4>1
    <3> QED BY <1>5, <1>9, <3>1
  <2>2. m # 1 /\ p # m /\ 1 \in Links /\ 4 \in Links /\ 3 \in Hops /\ (m = 4 <=> p = 3)
        /\ \A q \in Hops : q # p => q + 1 # m
    BY <1>1 DEF Hops, Links
  <2>3. w[1] = Len(screen') /\ \A i \in 1..Len(screen') : screen'[i] = i
    BY <1>2, <1>8, <1>9, <2>2 DEF UpFits
  <2>4. ASSUME NEW l \in Links, NEW i \in 1..Len(up'[l]) PROVE up'[l][i] = w[l] + i
    <3>1. CASE l = m
      <4>1. i \in 1..n
        BY <1>4, <1>5, <2>4, <3>1
      <4>2. i + 1 \in 1..n + 1 /\ o[m] + (i + 1) = (o[m] + 1) + i
        BY <4>1
      <4>3. up[m][i + 1] = o[m] + (i + 1)
        BY <1>4, <1>8, <4>2 DEF UpFits
      <4> QED BY <1>4, <1>5, <1>9, <3>1, <4>1, <4>2, <4>3
    <3>2. CASE l # m
      <4>1. up'[l] = up[l] /\ w[l] = o[l]
        BY <1>5, <1>9, <3>2
      <4>2. i \in 1..Len(up[l])
        BY <2>4, <4>1
      <4> QED BY <1>8, <4>1, <4>2 DEF UpFits
    <3> QED BY <3>1, <3>2
  <2>5. w[4] + Len(up'[4]) = printed'
    BY <1>2, <1>8, <2>1, <2>2 DEF UpFits
  <2>6. output' = IF kind' = "xterm" THEN w[4] ELSE 0
    <3>1. output = IF kind = "xterm" THEN o[4] ELSE 0
      BY <1>8 DEF UpFits
    <3>2. CASE p = 3
      <4>1. w[4] = o[4] + 1
        BY <1>9, <2>2, <3>2
      <4> QED BY <1>2, <3>1, <3>2, <4>1
    <3>3. CASE p # 3
      <4>1. w[4] = o[4]
        BY <1>9, <2>2, <3>3
      <4> QED BY <1>2, <3>1, <3>3, <4>1
    <3> QED BY <3>2, <3>3
  <2>7. \A l \in Hops : kind' = "xterm" => w[l] + Len(up'[l]) <= OutputLimit
    BY <1>2, <1>3, <1>8, <2>1 DEF UpFits
  <2>8. ASSUME NEW q \in Hops, hop'[q].pc # "ended"
        PROVE  w[q + 1] = w[q] + Len(up'[q]) + Holds(q, "sendUp")'
    <3>1. CASE q = p
      <4>1. o[m] = o[p] + Len(up[p]) + 0
        BY <1>1, <1>2, <1>8 DEF UpFits, Holds
      <4>2. Holds(p, "sendUp")' = 1
        BY <1>6, <2>8, <3>1 DEF Holds
      <4>3. w[p] + Len(up'[p]) = o[p] + Len(up[p]) /\ o[p] \in Nat
        BY <1>3, <2>1
      <4>4. o[m] + 1 = o[p] + Len(up[p]) + 1
        BY <1>3, <4>1, <4>3
      <4> QED BY <1>1, <1>9, <3>1, <4>2, <4>3, <4>4
    <3>2. CASE q # p
      <4>1. hop'[q] = hop[q] /\ Holds(q, "sendUp")' = Holds(q, "sendUp")
        BY <1>6, <3>2 DEF Holds
      <4>2. w[q + 1] = o[q + 1] /\ w[q] + Len(up'[q]) = o[q] + Len(up[q])
        BY <1>3, <1>9, <2>1, <2>2, <3>2
      <4> QED BY <1>8, <2>8, <4>1, <4>2 DEF UpFits
    <3> QED BY <3>1, <3>2
  <2>9. ASSUME NEW q \in Hops, hop'[q].pc = "sendUp"
        PROVE  hop'[q].frame = w[q] + Len(up'[q]) + 1
    <3>1. w[q] + Len(up'[q]) = o[q] + Len(up[q])
      BY <1>3, <2>1
    <3>2. CASE q = p
      <4>1. o[m] = o[p] + Len(up[p]) + 0
        BY <1>1, <1>2, <1>8 DEF UpFits, Holds
      <4>2. 1 \in 1..Len(up[m])
        BY <1>4
      <4>3. f = o[m] + 1
        BY <1>4, <1>8, <4>2 DEF UpFits
      <4>4. hop'[p].frame = f
        BY <1>6, <2>9, <3>2
      <4>5. o[p] \in Nat /\ Len(up[p]) \in Nat
        BY <1>3
      <4>6. f = o[p] + Len(up[p]) + 1
        BY <4>1, <4>3, <4>5
      <4> QED BY <3>1, <3>2, <4>4, <4>6
    <3>3. CASE q # p
      <4>1. hop'[q] = hop[q]
        BY <1>6, <3>3
      <4> QED BY <1>8, <2>9, <3>1, <4>1 DEF UpFits
    <3> QED BY <3>2, <3>3
  <2>10. kind' = "xterm" /\ hop'[3].pc # "ended" => output' <= OutputLimit
    <3>1. CASE p = 3
      BY <1>6, <3>1
    <3>2. CASE p # 3
      BY <1>2, <1>6, <1>8, <2>2, <3>2 DEF UpFits
    <3> QED BY <3>1, <3>2
  <2> QED BY <2>3, <2>4, <2>5, <2>6, <2>7, <2>8, <2>9, <2>10 DEF UpFits
<1>11. PICK u \in [Links -> Nat] : DownFits(u)
  BY DEF RelayInv
<1>12. DownFits(u)'
  BY <1>2, <1>6, <1>11, DownStands
<1> QED BY <1>2, <1>6, <1>7, <1>10, <1>12, FrameKeeps

\* A hop sends its frame on towards the browser.
LEMMA SendUpKeeps ==
  ASSUME RelayInv, NEW p \in Hops, SendUp(p)
  PROVE  RelayInv'
<1>0. RelayTypes
  BY DEF RelayInv
<1>1. /\ hop[p].pc = "sendUp" /\ Len(up[p]) < LinkCapacity
      /\ up' = [up EXCEPT ![p] = Append(up[p], hop[p].frame)]
      /\ hop' = [hop EXCEPT ![p] = [pc |-> "relay", frame |-> 0]]
      /\ UNCHANGED <<down, typed, printed, stdin, screen, output, kind, machine, authority, console>>
  BY DEF SendUp, World
<1>2. /\ Len(screen) \in Nat /\ output \in Nat /\ OutputLimit \in Nat /\ p \in Links /\ p + 1 \in Links
      /\ \A l \in Links : up[l] \in Seq(Nat) /\ Len(up[l]) \in Nat
      /\ \A q \in Hops : q \in Links /\ q + 1 \in Links
  BY <1>0, RelayLengths, RelayAssumption DEF RelayTypes
<1>3. PICK o \in [Links -> Nat] : UpFits(o)
  BY DEF RelayInv
<1>4. PICK n \in Nat, f \in Nat : /\ n = Len(up[p]) /\ f = o[p] + (n + 1) /\ o[p + 1] = f
                                  /\ f = hop[p].frame
  <2>1. Holds(p, "sendUp") = 1
    BY <1>1 DEF Holds
  <2>2. o[p + 1] = o[p] + Len(up[p]) + 1 /\ hop[p].frame = o[p] + Len(up[p]) + 1
    BY <1>1, <1>3, <2>1 DEF UpFits
  <2>3. o[p] + Len(up[p]) + 1 = o[p] + (Len(up[p]) + 1) /\ o[p] + (Len(up[p]) + 1) \in Nat
    BY <1>2
  <2> QED BY <1>2, <2>2, <2>3
<1>5. PICK t \in Seq(Nat) : /\ t = Append(up[p], f) /\ Len(t) = n + 1 /\ t[n + 1] = f
                            /\ \A i \in 1..n : t[i] = up[p][i]
  <2>1. PICK s \in Seq(Nat) : s = up[p]
    BY <1>2
  <2>2. PICK t : t = Append(s, f)
    OBVIOUS
  <2>3. /\ t \in Seq(Nat) /\ Len(t) = Len(s) + 1 /\ t[Len(s) + 1] = f
        /\ \A i \in 1..Len(s) : t[i] = s[i]
    BY <2>2, Appended
  <2> QED BY <1>4, <2>1, <2>2, <2>3
<1>6. /\ up' \in [Links -> Seq(Nat)] /\ up'[p] = t
      /\ \A l \in Links \ {p} : up'[l] = up[l]
  <2>1. up \in [Links -> Seq(Nat)] /\ up' = [up EXCEPT ![p] = t]
    BY <1>0, <1>1, <1>4, <1>5 DEF RelayTypes
  <2> QED BY <1>2, <2>1
<1>7. /\ hop' \in [Hops -> HopRecord] /\ hop'[p].pc = "relay"
      /\ \A q \in Hops \ {p} : hop'[q] = hop[q]
  <2>1. "relay" \in HopStages /\ 0 \in Nat \cup Frame
    BY DEF HopStages
  <2> QED BY <1>0, <1>1, <2>1, HopSet
<1>8. RelayTypes'
  <2>1. \A l \in Links : Len(up'[l]) <= LinkCapacity
    <3> SUFFICES ASSUME NEW l \in Links PROVE Len(up'[l]) <= LinkCapacity
      OBVIOUS
    <3>1. CASE l = p
      BY <1>1, <1>4, <1>5, <1>6, <3>1, RelayAssumption
    <3> QED BY <1>0, <1>6, <3>1 DEF RelayTypes
  <2> QED BY <1>0, <1>1, <1>6, <1>7, <2>1 DEF RelayTypes
<1>9. UpFits(o)'
  <2>1. 3 \in Hops /\ 4 \in Links /\ p # 4 /\ 1 \in Links /\ p + 1 # p
        /\ (p # 3 => p + 1 \in Hops) /\ (p = 3 => p + 1 = 4)
    BY DEF Hops, Links
  <2>2. o[1] = Len(screen') /\ \A i \in 1..Len(screen') : screen'[i] = i
    BY <1>1, <1>3 DEF UpFits
  <2>3. ASSUME NEW l \in Links, NEW i \in 1..Len(up'[l]) PROVE up'[l][i] = o[l] + i
    <3>1. CASE l = p
      <4>1. i \in 1..n + 1
        BY <1>5, <1>6, <2>3, <3>1
      <4>2. CASE i = n + 1
        BY <1>4, <1>5, <1>6, <3>1, <4>2
      <4>3. CASE i # n + 1
        <5>1. i \in 1..n
          BY <4>1, <4>3
        <5>2. up[p][i] = o[p] + i
          BY <1>2, <1>3, <1>4, <5>1 DEF UpFits
        <5> QED BY <1>5, <1>6, <3>1, <5>1, <5>2
      <4> QED BY <4>2, <4>3
    <3>2. CASE l # p
      BY <1>3, <1>6, <2>3, <3>2 DEF UpFits
    <3> QED BY <3>1, <3>2
  <2>4. o[4] + Len(up'[4]) = printed' /\ output' = IF kind' = "xterm" THEN o[4] ELSE 0
    BY <1>1, <1>3, <1>6, <2>1 DEF UpFits
  <2>5. ASSUME NEW l \in Hops, kind' = "xterm" PROVE o[l] + Len(up'[l]) <= OutputLimit
    <3>1. CASE l = p
      <4>1. o[p] + Len(up'[p]) = f
        BY <1>4, <1>5, <1>6
      <4>2. CASE p = 3
        <5>1. output = o[4] /\ output <= OutputLimit
          BY <1>1, <1>3, <2>1, <2>5, <4>2 DEF UpFits
        <5> QED BY <1>4, <2>1, <3>1, <4>1, <4>2, <5>1
      <4>3. CASE p # 3
        <5>1. o[p + 1] + Len(up[p + 1]) <= OutputLimit /\ Len(up[p + 1]) \in Nat
          BY <1>1, <1>2, <1>3, <2>1, <2>5, <4>3 DEF UpFits
        <5>2. PICK m \in Nat : m = Len(up[p + 1])
          BY <5>1
        <5>3. f + m <= OutputLimit /\ OutputLimit \in Nat
          BY <1>4, <5>1, <5>2, RelayAssumption
        <5>4. f <= OutputLimit
          BY <5>3
        <5> QED BY <3>1, <4>1, <5>4
      <4> QED BY <4>2, <4>3
    <3>2. CASE l # p
      BY <1>1, <1>2, <1>3, <1>6, <2>5, <3>2 DEF UpFits
    <3> QED BY <3>1, <3>2
  <2>6. ASSUME NEW q \in Hops, hop'[q].pc # "ended"
        PROVE  o[q + 1] = o[q] + Len(up'[q]) + Holds(q, "sendUp")'
    <3>1. CASE q = p
      <4>1. Holds(q, "sendUp")' = 0
        BY <1>7, <3>1 DEF Holds
      <4>2. o[p] + (n + 1) = o[p] + (n + 1) + 0
        BY <1>4
      <4> QED BY <1>4, <1>5, <1>6, <3>1, <4>1, <4>2
    <3>2. CASE q # p
      <4>1. hop'[q] = hop[q] /\ Holds(q, "sendUp")' = Holds(q, "sendUp")
        BY <1>7, <3>2 DEF Holds
      <4>2. up'[q] = up[q]
        BY <1>2, <1>6, <3>2
      <4> QED BY <1>3, <2>6, <4>1, <4>2 DEF UpFits
    <3> QED BY <3>1, <3>2
  <2>7. ASSUME NEW q \in Hops, hop'[q].pc = "sendUp"
        PROVE  hop'[q].frame = o[q] + Len(up'[q]) + 1
    <3>1. q # p /\ hop'[q] = hop[q]
      BY <1>7, <2>7
    <3>2. up'[q] = up[q]
      BY <1>2, <1>6, <3>1
    <3> QED BY <1>3, <2>7, <3>1, <3>2 DEF UpFits
  <2>8. kind' = "xterm" /\ hop'[3].pc # "ended" => output' <= OutputLimit
    BY <1>1, <1>3, <1>7, <2>1 DEF UpFits
  <2> QED BY <2>2, <2>3, <2>4, <2>5, <2>6, <2>7, <2>8 DEF UpFits
<1>10. PICK u \in [Links -> Nat] : DownFits(u)
  BY DEF RelayInv
<1>11. DownFits(u)'
  BY <1>1, <1>7, <1>10, DownStands
<1> QED BY <1>1, <1>7, <1>8, <1>9, <1>11, FrameKeeps


\* The browser shows a frame.
LEMMA ShowKeeps ==
  ASSUME RelayInv, Show
  PROVE  RelayInv'
<1>0. RelayTypes /\ 1 \in Links /\ screen \in Seq(Nat)
  BY DEF RelayInv, RelayTypes, Links
<1>1. /\ up[1] # <<>> /\ up' = [up EXCEPT ![1] = Tail(up[1])]
      /\ screen' = Append(screen, Head(up[1]))
      /\ UNCHANGED <<down, typed, printed, stdin, output, kind, machine, authority, console, hop>>
  BY DEF Show, World
<1>2. /\ Len(screen) \in Nat /\ \A l \in Links : up[l] \in Seq(Nat) /\ Len(up[l]) \in Nat
      /\ \A q \in Hops : q \in Links /\ q + 1 \in Links
  BY <1>0, RelayLengths
<1>3. PICK t \in Seq(Nat), n \in Nat, f \in Nat :
        /\ t = Tail(up[1]) /\ f = Head(up[1]) /\ f = up[1][1]
        /\ Len(up[1]) = n + 1 /\ Len(t) = n /\ \A i \in 1..n : t[i] = up[1][i + 1]
  <2>1. PICK s \in Seq(Nat) : s = up[1] /\ s # <<>>
    BY <1>0, <1>1, <1>2
  <2>2. /\ Tail(s) \in Seq(Nat) /\ Head(s) = s[1] /\ Head(s) \in Nat
        /\ Len(s) \in Nat /\ Len(s) >= 1 /\ Len(Tail(s)) = Len(s) - 1
        /\ \A i \in 1..Len(s) - 1 : Tail(s)[i] = s[i + 1]
    BY <2>1, Removed
  <2>3. PICK n \in Nat : n = Len(s) - 1 /\ Len(s) = n + 1
    <3>1. Len(s) - 1 \in Nat /\ Len(s) = (Len(s) - 1) + 1
      BY <2>2
    <3> QED BY <3>1
  <2> QED BY <2>1, <2>2, <2>3
<1>4. /\ up' \in [Links -> Seq(Nat)] /\ up'[1] = t
      /\ \A l \in Links \ {1} : up'[l] = up[l]
  <2>1. up \in [Links -> Seq(Nat)]
    BY <1>0 DEF RelayTypes
  <2> QED BY <1>0, <1>1, <1>3, <2>1
<1>5. PICK m \in Nat : m = Len(screen)
  BY <1>2
<1>6. /\ screen' \in Seq(Nat) /\ Len(screen') = m + 1 /\ screen'[m + 1] = f
      /\ \A i \in 1..m : screen'[i] = screen[i]
  BY <1>0, <1>1, <1>3, <1>5, Appended
<1>7. RelayTypes'
  <2>1. \A l \in Links : Len(up'[l]) <= LinkCapacity
    <3> SUFFICES ASSUME NEW l \in Links PROVE Len(up'[l]) <= LinkCapacity
      OBVIOUS
    <3>1. Len(up[l]) <= LinkCapacity /\ LinkCapacity \in Nat
      BY <1>0, RelayAssumption DEF RelayTypes
    <3>2. CASE l = 1
      BY <1>3, <1>4, <3>1, <3>2
    <3> QED BY <1>4, <3>1, <3>2
  <2> QED BY <1>0, <1>1, <1>4, <1>6, <2>1 DEF RelayTypes
<1>8. PICK o \in [Links -> Nat] : UpFits(o)
  BY DEF RelayInv
<1>9. PICK w \in [Links -> Nat] : w[1] = m + 1 /\ \A l \in Links \ {1} : w[l] = o[l]
  <2>1. m + 1 \in Nat
    OBVIOUS
  <2>2. [o EXCEPT ![1] = m + 1] \in [Links -> Nat]
    BY <2>1
  <2> QED BY <1>0, <2>2
<1>10. o[1] = m /\ f = m + 1
  <2>1. o[1] = m
    BY <1>5, <1>8 DEF UpFits
  <2>2. 1 \in 1..Len(up[1])
    BY <1>3
  <2>3. up[1][1] = o[1] + 1
    BY <1>0, <1>8, <2>2 DEF UpFits
  <2> QED BY <1>3, <2>1, <2>3
<1>11. UpFits(w)'
  <2>1. ASSUME NEW l \in Links PROVE w[l] + Len(up'[l]) = o[l] + Len(up[l])
    <3>1. CASE l = 1
      <4>1. (m + 1) + n = m + (n + 1)
        OBVIOUS
      <4> QED BY <1>3, <1>4, <1>9, <1>10, <3>1, <4>1
    <3> QED BY <1>4, <1>9, <3>1
  <2>2. 4 \in Links /\ 4 # 1 /\ \A q \in Hops : q + 1 \in Links \ {1}
    BY DEF Hops, Links
  <2>3. w[1] = Len(screen') /\ \A i \in 1..Len(screen') : screen'[i] = i
    <3>1. ASSUME NEW i \in 1..m + 1 PROVE screen'[i] = i
      <4>1. CASE i = m + 1
        BY <1>6, <1>10, <4>1
      <4>2. CASE i # m + 1
        <5>1. i \in 1..m
          BY <4>2
        <5> QED BY <1>5, <1>6, <1>8, <5>1 DEF UpFits
      <4> QED BY <4>1, <4>2
    <3> QED BY <1>6, <1>9, <3>1
  <2>4. ASSUME NEW l \in Links, NEW i \in 1..Len(up'[l]) PROVE up'[l][i] = w[l] + i
    <3>1. CASE l = 1
      <4>1. i \in 1..n
        BY <1>3, <1>4, <2>4, <3>1
      <4>2. i + 1 \in 1..n + 1 /\ m + (i + 1) = (m + 1) + i
        BY <4>1
      <4>3. up[1][i + 1] = o[1] + (i + 1)
        BY <1>0, <1>3, <1>8, <4>2 DEF UpFits
      <4> QED BY <1>3, <1>4, <1>9, <1>10, <3>1, <4>1, <4>2, <4>3
    <3>2. CASE l # 1
      <4>1. up'[l] = up[l] /\ w[l] = o[l]
        BY <1>4, <1>9, <3>2
      <4>2. i \in 1..Len(up[l])
        BY <2>4, <4>1
      <4> QED BY <1>8, <4>1, <4>2 DEF UpFits
    <3> QED BY <3>1, <3>2
  <2>5. w[4] + Len(up'[4]) = printed' /\ output' = IF kind' = "xterm" THEN w[4] ELSE 0
    BY <1>1, <1>8, <1>9, <2>1, <2>2 DEF UpFits
  <2>6. \A l \in Hops : kind' = "xterm" => w[l] + Len(up'[l]) <= OutputLimit
    BY <1>1, <1>2, <1>8, <2>1 DEF UpFits
  <2>7. \A q \in Hops : w[q + 1] = o[q + 1] /\ w[q] + Len(up'[q]) = o[q] + Len(up[q])
    BY <1>2, <1>9, <2>1, <2>2
  <2>8. \A q \in Hops : hop'[q].pc # "ended" =>
          w[q + 1] = w[q] + Len(up'[q]) + Holds(q, "sendUp")'
    BY <1>1, <1>8, <2>7 DEF UpFits, Holds
  <2>9. \A q \in Hops : hop'[q].pc = "sendUp" => hop'[q].frame = w[q] + Len(up'[q]) + 1
    BY <1>1, <1>8, <2>7 DEF UpFits
  <2>10. kind' = "xterm" /\ hop'[3].pc # "ended" => output' <= OutputLimit
    BY <1>1, <1>8 DEF UpFits
  <2> QED BY <2>3, <2>4, <2>5, <2>6, <2>8, <2>9, <2>10 DEF UpFits
<1>12. PICK u \in [Links -> Nat] : DownFits(u)
  BY DEF RelayInv
<1>13. DownFits(u)'
  BY <1>1, <1>12, DownStands
<1> QED BY <1>1, <1>7, <1>11, <1>13, FrameKeeps

\* The target writes a frame.
LEMMA PrintKeeps ==
  ASSUME RelayInv, PrintOutput
  PROVE  RelayInv'
<1>0. RelayTypes /\ 4 \in Links
  BY DEF RelayInv, Links
<1>1. /\ printed < MaxFrames /\ printed' = printed + 1 /\ Len(up[4]) < LinkCapacity
      /\ up' = [up EXCEPT ![4] = Append(up[4], printed + 1)]
      /\ UNCHANGED <<down, typed, stdin, screen, output, kind, machine, authority, console, hop>>
  BY DEF PrintOutput, World
<1>2. /\ printed \in Nat /\ printed' \in 0..MaxFrames
      /\ \A l \in Links : up[l] \in Seq(Nat) /\ Len(up[l]) \in Nat
  <2>1. printed \in 0..MaxFrames /\ MaxFrames \in Nat
    BY <1>0, RelayAssumption DEF RelayTypes
  <2> QED BY <1>0, <1>1, <2>1, RelayLengths
<1>3. PICK f \in Nat, n \in Nat : f = printed + 1 /\ n = Len(up[4])
  <2>1. printed + 1 \in Nat
    BY <1>2
  <2> QED BY <1>0, <1>2, <2>1
<1>4. PICK t \in Seq(Nat) : /\ t = Append(up[4], f) /\ Len(t) = n + 1 /\ t[n + 1] = f
                            /\ \A i \in 1..n : t[i] = up[4][i]
  <2>1. PICK s \in Seq(Nat) : s = up[4]
    BY <1>0, <1>2
  <2>2. PICK t : t = Append(s, f)
    OBVIOUS
  <2>3. /\ t \in Seq(Nat) /\ Len(t) = Len(s) + 1 /\ t[Len(s) + 1] = f
        /\ \A i \in 1..Len(s) : t[i] = s[i]
    BY <2>2, Appended
  <2> QED BY <1>3, <2>1, <2>2, <2>3
<1>5. /\ up' \in [Links -> Seq(Nat)] /\ up'[4] = t
      /\ \A l \in Links \ {4} : up'[l] = up[l]
  <2>1. up \in [Links -> Seq(Nat)] /\ up' = [up EXCEPT ![4] = t]
    BY <1>0, <1>1, <1>3, <1>4 DEF RelayTypes
  <2> QED BY <1>0, <2>1
<1>6. RelayTypes'
  <2>1. \A l \in Links : Len(up'[l]) <= LinkCapacity
    <3> SUFFICES ASSUME NEW l \in Links PROVE Len(up'[l]) <= LinkCapacity
      OBVIOUS
    <3>1. CASE l = 4
      BY <1>1, <1>3, <1>4, <1>5, <3>1, RelayAssumption
    <3> QED BY <1>0, <1>5, <3>1 DEF RelayTypes
  <2> QED BY <1>0, <1>1, <1>2, <1>5, <2>1 DEF RelayTypes
<1>7. PICK o \in [Links -> Nat] : UpFits(o)
  BY DEF RelayInv
<1>8. o[4] \in Nat /\ f = o[4] + (n + 1)
  <2>1. o[4] + n = printed /\ o[4] \in Nat
    BY <1>0, <1>3, <1>7 DEF UpFits
  <2> QED BY <1>3, <2>1
<1>9. UpFits(o)'
  <2>1. \A q \in Hops : q \in Links \ {4} /\ up'[q] = up[q]
    <3>1. \A q \in Hops : q \in Links \ {4}
      BY DEF Hops, Links
    <3> QED BY <1>5, <3>1
  <2>2. ASSUME NEW l \in Links, NEW i \in 1..Len(up'[l]) PROVE up'[l][i] = o[l] + i
    <3>1. CASE l = 4
      <4>1. i \in 1..n + 1
        BY <1>4, <1>5, <2>2, <3>1
      <4>2. CASE i = n + 1
        BY <1>4, <1>5, <1>8, <3>1, <4>2
      <4>3. CASE i # n + 1
        <5>1. i \in 1..n
          BY <4>1, <4>3
        <5>2. up[4][i] = o[4] + i
          BY <1>0, <1>3, <1>7, <5>1 DEF UpFits
        <5> QED BY <1>4, <1>5, <3>1, <5>1, <5>2
      <4> QED BY <4>2, <4>3
    <3>2. CASE l # 4
      <4>1. up'[l] = up[l]
        BY <1>5, <3>2
      <4>2. i \in 1..Len(up[l])
        BY <2>2, <4>1
      <4> QED BY <1>7, <4>1, <4>2 DEF UpFits
    <3> QED BY <3>1, <3>2
  <2>3. o[4] + Len(up'[4]) = printed'
    BY <1>1, <1>3, <1>4, <1>5, <1>8
  <2>4. /\ o[1] = Len(screen') /\ \A i \in 1..Len(screen') : screen'[i] = i
        /\ output' = IF kind' = "xterm" THEN o[4] ELSE 0
        /\ kind' = "xterm" /\ hop'[3].pc # "ended" => output' <= OutputLimit
    BY <1>1, <1>7 DEF UpFits
  <2>5. /\ \A l \in Hops : kind' = "xterm" => o[l] + Len(up'[l]) <= OutputLimit
        /\ \A q \in Hops : hop'[q].pc # "ended" =>
             o[q + 1] = o[q] + Len(up'[q]) + Holds(q, "sendUp")'
        /\ \A q \in Hops : hop'[q].pc = "sendUp" => hop'[q].frame = o[q] + Len(up'[q]) + 1
    BY <1>1, <1>7, <2>1 DEF UpFits, Holds
  <2> QED BY <2>2, <2>3, <2>4, <2>5 DEF UpFits
<1>10. PICK u \in [Links -> Nat] : DownFits(u)
  BY DEF RelayInv
<1>11. DownFits(u)'
  BY <1>1, <1>10, DownStands
<1> QED BY <1>1, <1>6, <1>9, <1>11, FrameKeeps

LEMMA RelayNextKeeps ==
  ASSUME RelayInv, RelayNext
  PROVE  RelayInv'
<1>1. ASSUME NEW p \in Hops, HopStep(p) PROVE RelayInv'
  <2>1. CASE TakeDown(p)
    BY <2>1, TakeDownKeeps
  <2>2. CASE TakeUp(p)
    BY <2>2, TakeUpKeeps
  <2>3. CASE SendDown(p)
    BY <2>3, SendDownKeeps
  <2>4. CASE SendUp(p)
    BY <2>4, SendUpKeeps
  <2>5. CASE SendFails(p) \/ SeesEnd(p) \/ SendClose(p) \/ (p = 1 /\ SeesRevoked)
    BY <2>5, EndingSteps
  <2>6. CASE \/ CheckInstance \/ CheckRelease \/ Activate \/ ConnectExecutor \/ CallerGone
             \/ ResolveTarget \/ ValidateVmi \/ OpenTarget \/ RevalidateVmi
    BY <2>6, OpeningSteps
  <2>7. CASE ReleaseTarget
    BY <2>7, WorldSteps
  <2> QED BY <1>1, <2>1, <2>2, <2>3, <2>4, <2>5, <2>6, <2>7 DEF HopStep
<1>2. CASE Leave \/ Replace \/ ChangeEnvironment \/ Revoke
  BY <1>2, WorldSteps
<1>3. CASE Type \/ Show \/ PrintOutput \/ Consume
  BY <1>3, TypeKeeps, ShowKeeps, PrintKeeps, ConsumeKeeps
<1> QED BY <1>1, <1>2, <1>3 DEF RelayNext

LEMMA RelayImplies == RelayInv => RelaySound
<1> SUFFICES ASSUME RelayInv PROVE RelaySound
  OBVIOUS
<1>1. RelayTypes /\ ConsoleCurrent
  BY DEF RelayInv, TargetFits
<1>2. PICK o \in [Links -> Nat] : DownFits(o)
  BY DEF RelayInv
<1>3. PICK u \in [Links -> Nat] : UpFits(u)
  BY DEF RelayInv
<1>4. /\ Len(typed) \in Nat /\ Len(stdin) \in Nat /\ Len(screen) \in Nat
      /\ \A l \in Links : Len(down[l]) \in Nat /\ Len(up[l]) \in Nat
      /\ 1 \in Links /\ 4 \in Links /\ 1 \in Hops
  BY <1>1, RelayLengths DEF Links, Hops
<1>5. RelayTypeOK
  <2>1. \A p \in Hops : hop[p].pc \in HopStages
    BY <1>1 DEF RelayTypes, HopRecord
  <2>2. output \in 0..(MaxFrames + 1)
    <3>1. u[4] + Len(up[4]) = printed /\ output \in {0, u[4]} /\ u[4] \in Nat
      BY <1>3, <1>4 DEF UpFits
    <3>2. printed \in 0..MaxFrames /\ MaxFrames \in Nat
      BY <1>1, RelayAssumption DEF RelayTypes
    <3> QED BY <1>4, <3>1, <3>2
  <2> QED BY <1>1, <2>1, <2>2 DEF RelayTypes, RelayTypeOK, HopStages
<1>6. IsPrefix(stdin, typed)
  <2>1. Len(stdin) <= Len(typed)
    <3>1. o[4] + Len(down[4]) <= Len(typed) /\ o[4] = Len(stdin)
      BY <1>2, <1>4 DEF DownFits
    <3> QED BY <1>4, <3>1
  <2>2. \A i \in 1..Len(stdin) : stdin[i] = typed[i]
    BY <1>2 DEF DownFits
  <2>3. stdin \in Seq(Frame) /\ typed \in Seq(Frame)
    BY <1>1 DEF RelayTypes
  <2> QED BY <2>1, <2>2, <2>3, PrefixByElement
<1>7. screen = [i \in 1..Len(screen) |-> i]
  <2>1. screen \in Seq(Nat) /\ \A i \in 1..Len(screen) : screen[i] = i
    BY <1>1, <1>3 DEF RelayTypes, UpFits
  <2>2. DOMAIN screen = 1..Len(screen) /\ screen = [i \in 1..Len(screen) |-> screen[i]]
    BY <2>1, LenProperties
  <2> QED BY <2>1, <2>2
<1>8. \A i \in DOMAIN stdin : Accepted(stdin[i])
  <2>1. DOMAIN stdin = 1..Len(stdin)
    BY <1>1, LenProperties DEF RelayTypes
  <2> QED BY <1>2, <2>1 DEF DownFits
<1>9. kind = "xterm" => Len(screen) <= OutputLimit
  <2>1. kind = "xterm" => u[1] + Len(up[1]) <= OutputLimit /\ u[1] = Len(screen)
    BY <1>3, <1>4 DEF UpFits
  <2> QED BY <1>4, <2>1, RelayAssumption
<1> QED BY <1>1, <1>5, <1>6, <1>7, <1>8, <1>9 DEF RelaySound, InOrder

\* Through three tasks and links of any capacity, whichever of them ends and wherever a frame is
\* held, the target receives a prefix of what was typed and the browser a prefix of what was
\* printed, no control frame reaches a virtual machine, a terminal stays within its output
\* limit, and a relay that runs is attached to the machine it was opened for.
THEOREM RelayAlwaysSound == PlatformSpec => []RelaySound
<1>1. PlatformInit => RelayInv
  BY InitRelay DEF PlatformInit
<1>2. RelayInv /\ [PlatformNext]_platformVars => RelayInv'
  <2> SUFFICES ASSUME RelayInv, [PlatformNext]_platformVars PROVE RelayInv'
    OBVIOUS
  <2>1. CASE RelayNext
    BY <2>1, RelayNextKeeps
  <2>2. CASE UNCHANGED relayVars
    <3>1. UNCHANGED <<kind, Traffic, hop, machine, authority, console>>
      BY <2>2 DEF relayVars, Traffic
    <3>2. hop' \in [Hops -> HopRecord] /\ \A p \in Hops : hop'[p] = hop[p]
      BY <3>1 DEF RelayInv, RelayTypes
    <3>3. TargetFits'
      BY <3>1, TargetStands DEF RelayInv
    <3>4. ExecutorLast'
      BY <3>1 DEF RelayInv, ExecutorLast
    <3> QED BY <3>1, <3>2, <3>3, <3>4, FramesStand
  <2> QED BY <2>1, <2>2 DEF PlatformNext, OfMigration, OfRelay, OfRequests, platformVars
<1> QED BY <1>1, <1>2, RelayImplies, PTL DEF PlatformSpec


=============================================================================
