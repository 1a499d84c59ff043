---------------------------- MODULE ConsoleRelay ----------------------------
(***************************************************************************)
(* One open console: the chain browser, Access (console.rs bridge_inner),  *)
(* Environment Service (terminal_bridge.rs), executor (terminal_executor.rs *)
(* or kubevirt_console_executor.rs) and the process or virtual machine it  *)
(* is attached to.                                                         *)
(*                                                                         *)
(* Every hop is one task around a select loop: it takes a frame from one   *)
(* side and awaits the send to the other side before it looks at anything  *)
(* else.  A link holds LinkCapacity frames in each direction.  Link l      *)
(* connects party l-1 and party l; the browser is party 0, the hops are 1, *)
(* 2 and 3, the target is party 4.  Pings and the size of frames are left  *)
(* out.                                                                    *)
(***************************************************************************)
EXTENDS Naturals, Sequences, FiniteSets, SequencesExt

CONSTANTS
    LinkCapacity,    \* frames a link holds in one direction
    MaxFrames,       \* bound: frames that each end sends
    MaxReplacements, \* bound: replacements of the pod or VMI
    OutputLimit      \* MAX_SESSION_OUTPUT_BYTES, in frames

ASSUME RelayAssumption ==
    /\ LinkCapacity \in Nat \ {0} /\ MaxFrames \in Nat
    /\ MaxReplacements \in Nat /\ OutputLimit \in Nat

VARIABLES
    kind,       \* "xterm" or "novnc"
    down, up,   \* the frames on each link towards the target and towards the browser
    hop,        \* Access, Environment Service and executor
    ends,       \* whether the browser and the target are still there
    typed,      \* frames the browser has sent
    printed,    \* frames the target has sent
    stdin,      \* what the target has received
    screen,     \* what the browser has received
    machine,    \* the pod or VMI of the environment: a number for its uid
    authority,  \* the environment's row: revision, ready, recorded uid
    console,    \* what the executor resolved and is attached to
    revoked,    \* the authorization has ended: cancelled, or past its deadline
    output      \* frames of output the executor has counted

relayVars == <<kind, down, up, hop, ends, typed, printed, stdin, screen, machine,
               authority, console, revoked, output>>

Hops == 1..3

Links == 1..4

RelayInit ==
    /\ kind \in {"xterm", "novnc"}
    /\ down = [l \in Links |-> <<>>] /\ up = [l \in Links |-> <<>>]
    /\ hop = [p \in Hops |-> [pc |-> IF p = 1 THEN "connect" ELSE "none", frame |-> 0]]
    /\ ends = [browser |-> TRUE, target |-> FALSE]
    /\ typed = <<>> /\ printed = 0 /\ stdin = <<>> /\ screen = <<>>
    /\ machine = 1
    /\ authority = [rev |-> 1, ready |-> TRUE, recorded |-> 1]
    /\ console = [rev |-> 1, target |-> 0, attached |-> 0]
    /\ revoked = FALSE /\ output = 0

-----------------------------------------------------------------------------

HopTo(p, pc) == hop' = [hop EXCEPT ![p].pc = pc]

Gone(p) == IF p = 0 THEN ~ends.browser
           ELSE IF p = 4 THEN ~ends.target
           ELSE hop[p].pc = "ended"

Traffic == <<down, up, typed, printed, stdin, screen, output>>

World == <<kind, machine, authority, revoked>>

-----------------------------------------------------------------------------
(* Opening the console *)

\* terminal_bridge::upgrade reads the instance: revision, state, runtime kind, lease.
CheckInstance ==
    /\ hop[1].pc = "connect" /\ hop[2].pc = "none"
    /\ IF authority.rev = console.rev /\ authority.ready
       THEN HopTo(2, "release") ELSE HopTo(1, "ended")
    /\ UNCHANGED <<Traffic, World, ends, console>>

\* upgrade reads the release, then answers with the subprotocol, or refuses.
CheckRelease ==
    /\ hop[2].pc = "release" /\ hop[1].pc = "connect"
    /\ \/ hop' = [hop EXCEPT ![1].pc = "activate", ![2].pc = "executor"]
       \/ hop' = [hop EXCEPT ![1].pc = "ended", ![2].pc = "ended"]
    /\ UNCHANGED <<Traffic, World, ends, console>>

\* bridge_inner: the session goes from opening to active unless it has been terminated.
Activate ==
    /\ hop[1].pc = "activate"
    /\ HopTo(1, IF revoked THEN "ended" ELSE "relay")
    /\ UNCHANGED <<Traffic, World, ends, console>>

\* terminal_bridge::bridge connects to the executor and sends it the request.
ConnectExecutor ==
    /\ hop[2].pc = "executor"
    /\ \/ hop' = [hop EXCEPT ![2].pc = "relay", ![3].pc = "resolve"]
       \/ HopTo(2, "ended")
    /\ UNCHANGED <<Traffic, World, ends, console>>

\* resolve_target: the row is still that of the request and names a VMI; for a terminal
\* select_runtime_pod_name finds the ready pod.
ResolveTarget ==
    /\ hop[3].pc = "resolve"
    /\ IF kind = "xterm"
       THEN /\ console' = [console EXCEPT !.target = machine]
            /\ HopTo(3, "open")
       ELSE IF authority.rev = console.rev /\ authority.ready
       THEN /\ console' = [console EXCEPT !.target = authority.recorded]
            /\ HopTo(3, "validate")
       ELSE HopTo(3, "ended") /\ UNCHANGED console
    /\ UNCHANGED <<Traffic, World, ends>>

\* The first validate_vmi.
ValidateVmi ==
    /\ hop[3].pc = "validate"
    /\ HopTo(3, IF machine = console.target THEN "open" ELSE "ended")
    /\ UNCHANGED <<Traffic, World, ends, console>>

\* open_vnc attaches to whatever VMI has the name; exec addresses the pod by its name.
OpenTarget ==
    /\ hop[3].pc = "open"
    /\ \/ /\ kind = "xterm" => machine = console.target
          /\ console' = [console EXCEPT !.attached = machine]
          /\ ends' = [ends EXCEPT !.target = TRUE]
          /\ HopTo(3, IF kind = "xterm" THEN "relay" ELSE "revalidate")
       \/ HopTo(3, "ended") /\ UNCHANGED <<console, ends>>
    /\ UNCHANGED <<Traffic, World>>

\* Mutant: the VMI is not validated again after the connection is open.
RevalidateNothing ==
    /\ hop[3].pc = "revalidate"
    /\ HopTo(3, "relay")
    /\ UNCHANGED <<Traffic, World, ends, console>>

\* The second validate_vmi, on the open connection.
RevalidateVmi ==
    /\ hop[3].pc = "revalidate"
    /\ IF machine = console.target THEN HopTo(3, "relay") /\ UNCHANGED ends
       ELSE HopTo(3, "ended") /\ ends' = [ends EXCEPT !.target = FALSE]
    /\ UNCHANGED <<Traffic, World, console>>

-----------------------------------------------------------------------------
(* The select loops *)

\* Binary frames, and resize controls of a terminal.
Accepted(frame) == frame.resize => kind = "xterm"

\* A hop takes a frame towards the target.
TakeDown(p) ==
    /\ hop[p].pc = "relay" /\ down[p] # <<>>
    /\ down' = [down EXCEPT ![p] = Tail(@)]
    /\ IF Accepted(Head(down[p]))
       THEN hop' = [hop EXCEPT ![p] = [pc |-> "sendDown", frame |-> Head(down[p])]]
       ELSE HopTo(p, "ended")
    /\ UNCHANGED <<up, typed, printed, stdin, screen, output, World, ends, console>>

\* A hop takes a frame towards the browser; the executor of a terminal counts the output.
TakeUp(p) ==
    /\ hop[p].pc = "relay" /\ up[p + 1] # <<>>
    /\ up' = [up EXCEPT ![p + 1] = Tail(@)]
    /\ output' = IF p = 3 /\ kind = "xterm" THEN output + 1 ELSE output
    /\ IF p = 3 /\ output' > OutputLimit THEN HopTo(p, "ended")
       ELSE hop' = [hop EXCEPT ![p] = [pc |-> "sendUp", frame |-> Head(up[p + 1])]]
    /\ UNCHANGED <<down, typed, printed, stdin, screen, World, ends, console>>

\* The send completes when the link has room.
SendDown(p) ==
    /\ hop[p].pc = "sendDown" /\ ~Gone(p + 1) /\ Len(down[p + 1]) < LinkCapacity
    /\ down' = [down EXCEPT ![p + 1] = Append(@, hop[p].frame)]
    /\ hop' = [hop EXCEPT ![p] = [pc |-> "relay", frame |-> 0]]
    /\ UNCHANGED <<up, typed, printed, stdin, screen, output, World, ends, console>>

SendUp(p) ==
    /\ hop[p].pc = "sendUp" /\ ~Gone(p - 1) /\ Len(up[p]) < LinkCapacity
    /\ up' = [up EXCEPT ![p] = Append(@, hop[p].frame)]
    /\ hop' = [hop EXCEPT ![p] = [pc |-> "relay", frame |-> 0]]
    /\ UNCHANGED <<down, typed, printed, stdin, screen, output, World, ends, console>>

\* A send to a party that is gone fails.
SendFails(p) ==
    /\ \/ hop[p].pc \in {"sendDown", "closeDown"} /\ Gone(p + 1)
       \/ hop[p].pc \in {"sendUp", "closeUp"} /\ Gone(p - 1)
    /\ HopTo(p, "ended")
    /\ UNCHANGED <<Traffic, World, ends, console>>

\* The end of a stream ends the loop, with what was left on it; the VNC relay first sends a
\* close frame to the other side.
SeesEnd(p) ==
    /\ hop[p].pc = "relay"
    /\ \/ /\ Gone(p - 1)
          /\ HopTo(p, IF p = 3 /\ kind = "novnc" THEN "closeDown" ELSE "ended")
       \/ /\ Gone(p + 1)
          /\ HopTo(p, IF p = 3 /\ kind = "novnc" THEN "closeUp" ELSE "ended")
    /\ UNCHANGED <<Traffic, World, ends, console>>

\* The executor finds its caller gone while it waits for nothing else.
CallerGone ==
    /\ hop[2].pc \in {"release", "executor"} /\ hop[1].pc = "ended"
    /\ HopTo(2, "ended")
    /\ UNCHANGED <<Traffic, World, ends, console>>

\* Cancellation or the deadline, seen by the select of Access; the browser gets a close frame.
SeesRevoked ==
    /\ hop[1].pc = "relay" /\ revoked
    /\ HopTo(1, "closeUp")
    /\ UNCHANGED <<Traffic, World, ends, console>>

\* The close frame is sent when the link has room, and the hop ends.
SendClose(p) ==
    /\ \/ hop[p].pc = "closeUp" /\ ~Gone(p - 1) /\ Len(up[p]) < LinkCapacity
       \/ hop[p].pc = "closeDown" /\ ~Gone(p + 1) /\ Len(down[p + 1]) < LinkCapacity
    /\ HopTo(p, "ended")
    /\ UNCHANGED <<Traffic, World, ends, console>>

\* process.abort, or the connection to the VMI is dropped.
ReleaseTarget ==
    /\ hop[3].pc = "ended" /\ ends.target
    /\ ends' = [ends EXCEPT !.target = FALSE]
    /\ UNCHANGED <<Traffic, World, hop, console>>

HopStep(p) ==
    \/ TakeDown(p) \/ TakeUp(p) \/ SendDown(p) \/ SendUp(p) \/ SendFails(p)
    \/ SeesEnd(p) \/ SendClose(p)
    \/ p = 1 /\ (CheckInstance \/ Activate \/ SeesRevoked)
    \/ p = 2 /\ (CheckRelease \/ ConnectExecutor \/ CallerGone)
    \/ p = 3 /\ (ResolveTarget \/ ValidateVmi \/ OpenTarget \/ RevalidateVmi \/ ReleaseTarget)

-----------------------------------------------------------------------------
(* The two ends and the environment *)

\* External: the browser types; its last frame may be a resize control.
Type ==
    /\ ends.browser /\ hop[1].pc # "ended" /\ Len(typed) < MaxFrames
    /\ Len(down[1]) < LinkCapacity
    /\ \E r \in {FALSE, Len(typed) + 1 = MaxFrames} :
           LET frame == [n |-> Len(typed) + 1, resize |-> r]
           IN  /\ typed' = Append(typed, frame)
               /\ down' = [down EXCEPT ![1] = Append(@, frame)]
    /\ UNCHANGED <<up, printed, stdin, screen, output, World, ends, hop, console>>

\* External: the browser shows a frame.
Show ==
    /\ ends.browser /\ up[1] # <<>>
    /\ screen' = Append(screen, Head(up[1]))
    /\ up' = [up EXCEPT ![1] = Tail(@)]
    /\ UNCHANGED <<down, typed, printed, stdin, output, World, ends, hop, console>>

\* External: the user leaves.
Leave ==
    /\ ends.browser
    /\ ends' = [ends EXCEPT !.browser = FALSE]
    /\ UNCHANGED <<Traffic, World, hop, console>>

\* External: the process or the VNC server writes.
PrintOutput ==
    /\ ends.target /\ printed < MaxFrames /\ Len(up[4]) < LinkCapacity
    /\ printed' = printed + 1
    /\ up' = [up EXCEPT ![4] = Append(@, printed + 1)]
    /\ UNCHANGED <<down, typed, stdin, screen, output, World, ends, hop, console>>

\* External: the process or the VNC server reads.
Consume ==
    /\ ends.target /\ down[4] # <<>>
    /\ stdin' = Append(stdin, Head(down[4]))
    /\ down' = [down EXCEPT ![4] = Tail(@)]
    /\ UNCHANGED <<up, typed, printed, screen, output, World, ends, hop, console>>

\* External: the pod or the VMI is replaced under the same name; its streams end.
Replace ==
    /\ machine <= MaxReplacements
    /\ machine' = machine + 1
    /\ ends' = [ends EXCEPT !.target = FALSE]
    /\ UNCHANGED <<Traffic, kind, authority, revoked, hop, console>>

\* Environment Service starts an operation, or records a new observation.
ChangeEnvironment ==
    /\ authority.rev <= MaxReplacements
    /\ authority' = [rev |-> authority.rev + 1, ready |-> ~authority.ready,
                     recorded |-> IF authority.ready THEN authority.recorded ELSE machine]
    /\ UNCHANGED <<Traffic, kind, machine, revoked, hop, ends, console>>

\* The grant or the session is revoked, or the deadline passes.
Revoke ==
    /\ ~revoked /\ revoked' = TRUE
    /\ UNCHANGED <<Traffic, kind, machine, authority, hop, ends, console>>

RelayNext ==
    \/ \E p \in Hops : HopStep(p)
    \/ Type \/ Show \/ Leave \/ PrintOutput \/ Consume
    \/ Replace \/ ChangeEnvironment \/ Revoke

-----------------------------------------------------------------------------
(* Properties *)

RelayTypeOK ==
    /\ kind \in {"xterm", "novnc"}
    /\ \A l \in Links : Len(down[l]) <= LinkCapacity /\ Len(up[l]) <= LinkCapacity
    /\ \A p \in Hops :
           hop[p].pc \in {"none", "connect", "release", "activate", "executor", "resolve",
                          "validate", "open", "revalidate", "relay", "sendDown", "sendUp",
                          "closeDown", "closeUp", "ended"}
    /\ output \in 0..(MaxFrames + 1)

\* What reaches the process is a prefix of what was typed and what reaches the screen a prefix
\* of what was printed, across three tasks, full links and every order of endings; no control
\* frame reaches a virtual machine, and a terminal shows no more than the output limit.
InOrder ==
    /\ IsPrefix(stdin, typed)
    /\ screen = [i \in 1..Len(screen) |-> i]
    /\ \A i \in DOMAIN stdin : Accepted(stdin[i])
    /\ kind = "xterm" => Len(screen) <= OutputLimit

\* A relay that has started is attached to the machine that was resolved for the console, which
\* for a VMI is the one recorded for the revision of the console, though the VMI may be replaced
\* between the two validations.
ConsoleCurrent ==
    hop[3].pc \in {"relay", "sendDown", "sendUp"} => console.attached = console.target

=============================================================================
