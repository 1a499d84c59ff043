------------------------------ MODULE ClaudeCode ------------------------------
(***************************************************************************)
(* What a track of an agent run does between its claim and its completion  *)
(* (services/agent-service/src/claude_code.rs): the egress gate turns the  *)
(* package into the input of both tracks, each track takes a permit and    *)
(* runs the Claude Code program until its answer is accepted, refused, or  *)
(* has been repaired max_schema_repairs times.                             *)
(*                                                                         *)
(* A line of the program's output is one of the kinds below; an            *)
(* "ambient" line is a system event or a synthetic user event of the       *)
(* session, and a "foreign" one does not parse or is of another session.   *)
(***************************************************************************)
EXTENDS Integers, Sequences, FiniteSets, SequencesExt

CONSTANTS MaxRepairs,       \* budget.max_schema_repairs
          MaxInFlight,      \* binding.max_in_flight_per_worker
          MaxCost,          \* budget.max_cost_microusd
          MaxTokens,        \* budget.max_input_tokens, and max_output_tokens alike
          MaxRequests,      \* budget.max_requests
          MaxInput,         \* MAX_EGRESS_INPUT_BYTES
          MaxLines          \* bound on the lines of one answer

ASSUME GenerationConstants ==
  MaxRepairs \in Nat /\ MaxInFlight \in Nat \ {0} /\ MaxCost \in Nat /\ MaxInput \in Nat
  /\ MaxTokens \in Nat /\ MaxRequests \in Nat /\ MaxLines \in Nat

VARIABLES
  files,       \* the files of the package, until the gate has read them
  gate,        \* the egress gate: "open", "prepared" or why it refused
  identity,    \* version_check, kept for the life of the runtime
  stopped,     \* RunCancellation, shared by both tracks
  generation,  \* generate_for_class of each track
  accepted     \* the output that the accepted candidate was read from

generationVars == <<files, gate, identity, stopped, generation, accepted>>

TrackKinds == {"environment", "evaluation"}
LineKinds  == {"init", "ambient", "text", "tool", "foreign", "result"}
Documents  == {"valid", "other_class", "protected", "malformed"}

\* A cost as the envelope writes it: digits * 10^exponent / 10^places dollars.
Costs == [digits : {0, 12}, places : {0, 1}, exponent : {-7, -6}] \cup
         {[digits |-> 1, places |-> 0, exponent |-> -5]}

\* The result event of an answer: its error, of those that runtime_error tells apart, whether its
\* kind, subtype and session are those of a success, what it says it used, and whether that can
\* be counted ("overflow": too many turns or tokens; "no_cost": the cost is not a number).
Free  == [digits |-> 0, places |-> 0, exponent |-> -6]
Plain == [is_error |-> "no", success |-> TRUE, denials |-> FALSE, usage |-> "counted", cost |-> Free,
          input |-> 0, output |-> 0, turns |-> 0]

ErrorEnvelope(k, d) == [Plain EXCEPT !.is_error = k, !.denials = d]
UsageEnvelope(u, k) == [Plain EXCEPT !.usage = u, !.is_error = k]

CostEnvelopes  == {[Plain EXCEPT !.cost = c] : c \in Costs}
ErrorEnvelopes == {ErrorEnvelope(k, d) : k \in {"no", "budget", "upstream", "unknown"}, d \in BOOLEAN}
UsageEnvelopes == {UsageEnvelope(u, k) : u \in {"overflow", "no_cost"}, k \in {"no", "upstream"}}
LimitEnvelopes == {[Plain EXCEPT !.success = FALSE],
                   [Plain EXCEPT !.input = MaxTokens, !.output = MaxTokens, !.turns = MaxRequests],
                   [Plain EXCEPT !.input = MaxTokens + 1], [Plain EXCEPT !.output = MaxTokens + 1],
                   [Plain EXCEPT !.turns = MaxRequests + 1]}

Envelopes == CostEnvelopes \cup ErrorEnvelopes \cup UsageEnvelopes \cup LimitEnvelopes

NoOutput == [lines |-> <<>>, exit |-> "success", stderr |-> "none", document |-> "valid",
             envelope |-> Plain]

\* A file of the package: its declared size, what the reader returns (0:
\* nothing) and what the classifier finds in it.
PackageFiles == [declared : {1, 2}, read : 0..2,
                 content : {"text", "denied", "binary", "unclassified", "context", "context_denied"}]

Packages == {<<f>> : f \in PackageFiles} \cup
            {<<[declared |-> 1, read |-> 1, content |-> "text"], f>> : f \in PackageFiles}

GenerationTypeOK ==
  /\ files \in Seq(PackageFiles)
  /\ gate \in {"open", "prepared", "limit", "unavailable", "mismatch", "failed", "denied", "unsupported"}
  /\ identity \in {"unknown", "verified", "timed_out", "other_version"}
  /\ stopped \in BOOLEAN
  /\ generation \in [TrackKinds -> [step : {"idle", "queued", "identity", "invoking", "ended"},
                                    repairs : 0..MaxRepairs,
                                    outcome : {"none", "succeeded", "failed", "cancelled"}]]

GenerationInit ==
  /\ files = <<>>
  /\ gate = "open"
  /\ identity = "unknown"
  /\ stopped = FALSE
  /\ generation = [t \in TrackKinds |-> [step |-> "idle", repairs |-> 0, outcome |-> "none"]]
  /\ accepted = [t \in TrackKinds |-> NoOutput]

-----------------------------------------------------------------------------
(* The egress gate *)

\* is_build_context_media_type: an archive is sent as metadata only.
IsBuildContext(f) == f.content \in {"context", "context_denied"}

\* What prepare finds wrong with one file, in its order.
FileVerdict(f) ==
  IF f.read = 0 THEN "unavailable"
  ELSE IF f.read # f.declared THEN "mismatch"
  ELSE IF IsBuildContext(f) THEN "ok"
  ELSE IF f.content = "unclassified" THEN "failed"
  ELSE IF f.content = "denied" THEN "denied"
  ELSE IF f.content = "binary" THEN "unsupported"
  ELSE "ok"

\* prepare: the declared sizes first, then file after file until one is refused.
Prepare(fs) ==
  LET declared == FoldSeq(LAMBDA f, total : total + f.declared, 0, fs)
      bad      == SelectInSeq(fs, LAMBDA f : FileVerdict(f) # "ok")
  IN  IF declared > MaxInput THEN "limit"
      ELSE IF bad = 0 THEN "prepared"
      ELSE FileVerdict(fs[bad])

\* The package of the dispatch that the worker has claimed.
PackageClaimed(fs) ==
  /\ gate = "open" /\ files = <<>>
  /\ files' = fs
  /\ UNCHANGED <<gate, identity, stopped, generation, accepted>>

\* The worker prepares the input of both tracks and starts them.
GatePrepare ==
  /\ gate = "open" /\ files # <<>>
  /\ gate' = Prepare(files)
  /\ generation' = [t \in TrackKinds |->
       [generation[t] EXCEPT !.step = IF Prepare(files) = "prepared" THEN "queued" ELSE "ended",
                             !.outcome = IF Prepare(files) = "prepared" THEN "none" ELSE "failed"]]
  /\ files' = <<>>
  /\ UNCHANGED <<identity, stopped, accepted>>

-----------------------------------------------------------------------------
(* The answer of the program *)

\* read_stream_until_result: what follows the first result event is not read.
ReadStreamUntilResult(lines) ==
  LET first == SelectInSeq(lines, LAMBDA l : l = "result")
  IN  IF first = 0 THEN lines ELSE SubSeq(lines, 1, first)

\* parse_stream_output: the init event, then the events of its session; a tool
\* is refused where it is met, everything else that is not known is a protocol
\* error, and so is an answer without a result.
ParseStreamOutput(lines) ==
  IF lines = <<>> \/ lines[1] # "init" THEN "protocol"
  ELSE LET rest == Tail(lines)
           bad  == SelectInSeq(rest, LAMBDA l : l \in {"init", "tool", "foreign"})
       IN  IF bad # 0 THEN (IF rest[bad] = "tool" THEN "tool_denied" ELSE "protocol")
           ELSE IF ~Contains(rest, "result") THEN "protocol"
           ELSE "parsed"

\* decimal_to_microusd: shifted to millionths of a dollar; a remainder rounds up.
DecimalToMicrousd(c) ==
  LET power   == c.exponent + 6 - c.places
      divisor == 10^(0 - power)
  IN  IF power >= 0 THEN c.digits * 10^power
      ELSE c.digits \div divisor + (IF c.digits % divisor # 0 THEN 1 ELSE 0)

\* usage: an answer has made one request at least.
UsedRequests(envelope) == IF envelope.turns = 0 THEN 1 ELSE envelope.turns

\* enforce_budget, of the usage of this one invocation.
EnforceBudget(envelope) ==
  /\ envelope.input <= MaxTokens
  /\ envelope.output <= MaxTokens
  /\ UsedRequests(envelope) <= MaxRequests
  /\ DecimalToMicrousd(envelope.cost) <= MaxCost

\* classify_runtime_stderr and the exit code when the envelope names no error.
ClassifiedError(o) == IF o.stderr = "none" THEN "execution" ELSE o.stderr

\* parse_result, in its order of checks; "schema" is the only error that is
\* repaired.
ParseResult(o) ==
  LET parsed == ParseStreamOutput(o.lines)
      env    == o.envelope
  IN  IF parsed # "parsed"
        THEN IF o.stderr # "none" THEN o.stderr
             ELSE IF o.exit = "success" THEN parsed ELSE "execution"
      ELSE IF env.usage # "counted" THEN IF env.usage = "overflow" THEN "budget" ELSE "protocol"
      ELSE IF o.exit # "success" \/ env.is_error # "no"
        THEN IF env.is_error \in {"budget", "upstream"} THEN env.is_error ELSE ClassifiedError(o)
      ELSE IF ~env.success THEN "protocol"
      ELSE IF env.denials THEN "tool_denied"
      ELSE IF ~EnforceBudget(env) THEN "budget"
      ELSE IF ~Contains(o.lines, "text") \/ o.document = "malformed" THEN "schema"
      ELSE IF o.document = "protected" THEN "protected"
      ELSE IF o.document = "other_class" THEN "other_class"
      ELSE "succeeded"

\* What the program can answer (the envelope and the document matter only in an
\* orderly stream, and are fine in the others): its lines, its exit code and its error output;
\* killed after its result, it has exited with success.
Exits   == {<<"success", "none">>, <<"failure", "none">>, <<"failure", "rate_limited">>}
Streams == {ReadStreamUntilResult(ls) : ls \in UNION {[1..n -> LineKinds] : n \in 0..MaxLines}}
Orderly == {ls \in Streams : /\ Len(ls) > 1 /\ ls[1] = "init" /\ ls[Len(ls)] = "result"
                             /\ \A i \in 2..Len(ls) - 1 : ls[i] \in {"ambient", "text"}}
Answer(ls, x, d, env) ==
  [lines |-> ls, exit |-> x[1], stderr |-> x[2], document |-> d, envelope |-> env]
Outputs ==
  {Answer(ls, x, d, env) : ls \in Orderly, x \in Exits, d \in Documents, env \in Envelopes}
  \cup {Answer(ls, x, NoOutput.document, NoOutput.envelope) : ls \in Streams, x \in Exits}

-----------------------------------------------------------------------------
(* generate_for_class *)

\* Mutant: a track that fails keeps its permit.
HoldingLeaked ==
  {t \in TrackKinds : generation[t].step \in {"identity", "invoking"} \/ generation[t].outcome = "failed"}

\* The tracks that hold a permit of in_flight.
Holding == {t \in TrackKinds : generation[t].step \in {"identity", "invoking"}}

End(t, outcome) ==
  generation' = [generation EXCEPT ![t].step = "ended", ![t].outcome = outcome]

\* A permit of in_flight is awaited; a cancellation is looked at first.
AcquirePermit(t) ==
  /\ generation[t].step = "queued"
  /\ \/ stopped /\ End(t, "cancelled")
     \/ /\ ~stopped /\ Cardinality(Holding) < MaxInFlight
        /\ generation' = [generation EXCEPT ![t].step = "identity"]
  /\ UNCHANGED <<files, gate, identity, stopped, accepted>>

\* verify_runtime_identity: the first answer, an error included, is the answer of
\* the runtime from then on.  The cancellation is not looked at.
VerifyRuntimeIdentity(t) ==
  /\ generation[t].step = "identity"
  /\ \E found \in {"verified", "timed_out", "other_version"} :
       /\ identity # "unknown" => found = identity
       /\ identity' = found
       /\ IF found = "verified"
            THEN generation' = [generation EXCEPT ![t].step = "invoking"]
            ELSE End(t, "failed")
  /\ UNCHANGED <<files, gate, stopped, accepted>>

\* execute, in which the cancellation wins over an answer; the process is killed
\* when its time is up.
InvocationFails(t) ==
  /\ generation[t].step = "invoking"
  /\ End(t, IF stopped THEN "cancelled" ELSE "failed")
  /\ UNCHANGED <<files, gate, identity, stopped, accepted>>

\* One turn of the loop: the program answers and the answer is parsed.
Invoke(t, o) ==
  LET verdict == ParseResult(o)
  IN  /\ generation[t].step = "invoking" /\ ~stopped
      /\ \/ /\ verdict = "succeeded"
            /\ accepted' = [accepted EXCEPT ![t] = o]
            /\ End(t, "succeeded")
         \/ /\ verdict = "schema" /\ generation[t].repairs < MaxRepairs
            /\ generation' = [generation EXCEPT ![t].repairs = @ + 1]
            /\ UNCHANGED accepted
         \/ /\ verdict # "succeeded"
            /\ verdict # "schema" \/ generation[t].repairs = MaxRepairs
            /\ End(t, "failed")
            /\ UNCHANGED accepted
      /\ UNCHANGED <<files, gate, identity, stopped>>

\* The heartbeat of either track learns that the run is to be cancelled.
Stop ==
  /\ gate = "prepared" /\ ~stopped
  /\ stopped' = TRUE
  /\ UNCHANGED <<files, gate, identity, generation, accepted>>

TrackStep(t) ==
  \/ AcquirePermit(t) \/ VerifyRuntimeIdentity(t) \/ InvocationFails(t)
  \/ \E o \in Outputs : Invoke(t, o)

GenerationStep ==
  \/ \E fs \in Packages : PackageClaimed(fs)
  \/ GatePrepare
  \/ Stop
  \/ \E t \in TrackKinds : TrackStep(t)
=============================================================================
