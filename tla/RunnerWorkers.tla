----------------------------- MODULE RunnerWorkers -----------------------------
(***************************************************************************)
(* What runs inside the Job of an attempt: the online judge (oj_worker.rs, *)
(* oj.rs) compiles a submission and runs it on its cases; the probe        *)
(* (ansible_probe_worker.rs, ansible_probe.rs) collects facts from a       *)
(* machine and compares them with what is asserted.  Both end with a       *)
(* receipt of validated evidence, or with an error.                        *)
(*                                                                         *)
(* A process is described by how it ended; memory is counted in tenths of  *)
(* the limit.  A fact has a kind and a value, and an assertion asks for    *)
(* one.                                                                    *)
(***************************************************************************)
EXTENDS Integers, Sequences, FiniteSets, FiniteSetsExt, Functions

CONSTANTS OjRequests,     \* [phase, cases, score, checker]; a case is its greatest points
          Assertions,     \* the assertions of the probe: for a fact, what is expected
          FactKind,       \* the kind of each fact that is known
          Documents,      \* what Ansible may print
          FactsMax        \* facts_max_bytes

\* The types of the requests, and validate_limits.
ASSUME WorkerAssumption ==
  /\ \A r \in OjRequests : r \in [phase : {"compile", "test"}, cases : Seq(Nat), score : Nat, checker : {"exact", "token"}]
  /\ \A d \in Documents : IsFiniteSet(DOMAIN d.facts)
  /\ FactsMax \in Nat \ {0}

VARIABLES ojStep, ojRequest, ojCommand, ojCases, ojReceipt,
          probeStep, probeProcess, probeReceipt

ojVars    == <<ojStep, ojRequest, ojCommand, ojCases, ojReceipt>>
probeVars == <<probeStep, probeProcess, probeReceipt>>

MemoryLimit == 10
NoPeak      == -1

OjProcesses ==
  {p \in [exit : {"zero", "other", "sigxcpu", "sigabrt", "sigxfsz", "killed"}, timedOut : BOOLEAN,
          exceeded : BOOLEAN, peak : {NoPeak, 7, 8}, output : {"equal", "spaced", "different"}] :
     p.timedOut => p.exit = "killed" /\ p.output = "different"}

CaseStatuses == {"accepted", "wrong_answer", "output_limit", "time_limit", "memory_limit", "runtime_error"}

ProbeProcesses == [identity : {"valid", "expired", "unreadable"}, host : {"pinned", "other", "unreachable"},
                   timedOut : BOOLEAN, exceeded : BOOLEAN, success : BOOLEAN, document : Documents]

NoRequest == [phase |-> "none", cases |-> <<>>, score |-> 0, checker |-> "exact"]
NoProbe   == [identity |-> "none"]
NoReceipt == [status |-> "none", points |-> 0, max |-> 0]

WorkerTypeOK ==
  /\ ojStep \in {"start", "source", "cases", "ended", "error"}
  /\ ojRequest \in OjRequests \cup {NoRequest}
  /\ ojCommand \in {"none", "file", "link"}
  /\ ojCases \in Seq(CaseStatuses)
  /\ ojReceipt \in [status : CaseStatuses \cup {"none", "compile_error", "evidence_invalid", "command_invalid"},
                    points : Nat, max : Nat]
  /\ probeStep \in {"start", "ended", "error"}
  /\ probeReceipt.status \in {"none", "succeeded", "assertions_failed", "identity_expired", "host_unreachable",
                              "host_key_mismatch", "timeout", "output_exceeded", "facts_malformed",
                              "infrastructure_error", "evidence_invalid"}

WorkerInit ==
  /\ ojStep = "start"
  /\ ojRequest = NoRequest
  /\ ojCommand = "none"
  /\ ojCases = <<>>
  /\ ojReceipt = NoReceipt
  /\ probeStep = "start"
  /\ probeProcess = NoProbe
  /\ probeReceipt = NoReceipt

-----------------------------------------------------------------------------
(* The online judge *)

CaseMaxPoints(r) == SumFunction(r.cases)

\* OjExecutionRequest::validate
ValidRequest(r) ==
  /\ r.phase = "compile" => r.cases = <<>> /\ r.score = 0
  /\ r.phase = "test" => r.cases # <<>> /\ r.score # 0
  /\ \A i \in DOMAIN r.cases : r.cases[i] # 0

OjFails(status) ==
  /\ ojStep' = "error"
  /\ ojReceipt' = [NoReceipt EXCEPT !.status = status]

\* read_request: the command is a file of a ConfigMap, which Kubernetes projects
\* as a link, or one that is named by COMMAND_PATH_ENV.
ReadRequest ==
  /\ ojStep = "start"
  /\ ojRequest' \in OjRequests
  /\ ojCommand' \in {"file", "link"}
  /\ IF ojCommand' = "link" \/ ~ValidRequest(ojRequest')
     THEN OjFails("command_invalid")
     ELSE ojStep' = "source" /\ UNCHANGED ojReceipt
  /\ UNCHANGED ojCases

\* aggregate_case_evidence: the first case that is not accepted gives the status.
Aggregate(r, cases) ==
  [status |-> IF \A i \in DOMAIN cases : cases[i] = "accepted" THEN "accepted"
              ELSE cases[Min({i \in DOMAIN cases : cases[i] # "accepted"})],
   points |-> (SumFunctionOnSet(r.cases, {i \in DOMAIN cases : cases[i] = "accepted"}) * r.score)
                \div CaseMaxPoints(r),
   max    |-> r.score]

\* OjExecutionEvidence::validate_for and OjEvidenceReceipt::validate_for
ValidEvidence(r, compiled, cases, evidence) ==
  /\ evidence.points <= evidence.max /\ evidence.max = r.score
  /\ IF evidence.status = "compile_error" THEN ~compiled /\ cases = <<>> /\ evidence.points = 0
     ELSE compiled /\ (IF r.phase = "compile" THEN evidence.status = "accepted" /\ evidence.points = 0
                       ELSE Len(cases) = Len(r.cases) /\ evidence = Aggregate(r, cases))

\* persist_evidence
PersistEvidence(compiled, cases, evidence) ==
  IF ValidEvidence(ojRequest, compiled, cases, evidence)
  THEN ojStep' = "ended" /\ ojReceipt' = evidence
  ELSE OjFails("evidence_invalid")

\* compile_failure_evidence, compile_success_evidence
CompileEvidence(compiled) ==
  IF compiled THEN [status |-> "accepted", points |-> 0, max |-> 0]
  ELSE [status |-> "compile_error", points |-> 0, max |-> ojRequest.score]

\* compile_cpp17; the helper leaves a mark once its sandbox is in place.
CompileCpp17 ==
  /\ ojStep = "source"
  /\ \E p \in OjProcesses :
       LET compiled == p.exit = "zero" /\ ~p.timedOut /\ ~p.exceeded
       IN  IF ~compiled \/ ojRequest.phase = "compile"
           THEN PersistEvidence(compiled, <<>>, CompileEvidence(compiled))
           ELSE ojStep' = "cases" /\ UNCHANGED ojReceipt
  /\ UNCHANGED <<ojRequest, ojCommand, ojCases>>

\* check_output
CheckOutput(checker, output) == output = "equal" \/ (checker = "token" /\ output = "spaced")

\* classify_case
ClassifyCase(p, checker) ==
  IF p.exceeded THEN "output_limit"
  ELSE IF p.timedOut \/ p.exit = "sigxcpu" THEN "time_limit"
  ELSE IF p.peak # NoPeak /\ p.peak * 10 >= MemoryLimit * 8 /\ p.exit = "sigabrt" THEN "memory_limit"
  ELSE IF p.exit = "sigxfsz" THEN "output_limit"
  ELSE IF p.exit # "zero" THEN "runtime_error"
  ELSE IF CheckOutput(checker, p.output) THEN "accepted" ELSE "wrong_answer"

\* run_case, under the limits of run_oj_case_exec.
RunCase ==
  /\ ojStep = "cases" /\ Len(ojCases) < Len(ojRequest.cases)
  /\ \E p \in OjProcesses : ojCases' = Append(ojCases, ClassifyCase(p, ojRequest.checker))
  /\ UNCHANGED <<ojStep, ojRequest, ojCommand, ojReceipt>>

CasesEnd ==
  /\ ojStep = "cases" /\ Len(ojCases) = Len(ojRequest.cases)
  /\ PersistEvidence(TRUE, ojCases, Aggregate(ojRequest, ojCases))
  /\ UNCHANGED <<ojRequest, ojCommand, ojCases>>

\* A source is not what was bound, the helper has left no mark, the input of the
\* program could not be written, or the file is there already.
OjWorkerFails ==
  /\ ojStep \in {"source", "cases"}
  /\ OjFails("none")
  /\ UNCHANGED <<ojRequest, ojCommand, ojCases>>

-----------------------------------------------------------------------------
(* The probe *)

\* validate_fact: its name is known, and its value is of the kind of the name.
ValidFact(f, value) == f \in DOMAIN FactKind /\ value.kind = FactKind[f]

\* extract_facts: the facts, or why there are none.
ExtractFacts(d) ==
  CASE d.shape = "unparsable" -> "facts_malformed"
    [] d.shape # "unparsable" /\ d.unreachable > 0 -> "host_unreachable"
    [] d.shape # "unparsable" /\ d.unreachable = 0 /\ d.failures > 0 -> "infrastructure_error"
    [] OTHER -> IF d.shape = "once" /\ \A f \in DOMAIN d.facts : ValidFact(f, d.facts[f])
                THEN "facts" ELSE "facts_malformed"

\* The length of the document that holds the facts: "{}" has two bytes.
FactsBytes(facts) == 2 + Cardinality(DOMAIN facts)

NoFacts == [f \in {} |-> 0]

\* execute_probe: the first thing that goes wrong.
ExecuteProbe(p) ==
  LET extracted == ExtractFacts(p.document)
  IN  CASE p.identity = "unreadable" -> "infrastructure_error"
        [] p.identity = "expired" -> "identity_expired"
        [] p.identity = "valid" /\ p.host = "unreachable" -> "host_unreachable"
        [] p.identity = "valid" /\ p.host = "other" -> "host_key_mismatch"
        [] p.identity = "valid" /\ p.host = "pinned" ->
             IF p.timedOut THEN "timeout"
             ELSE IF p.exceeded THEN "output_exceeded"
             ELSE IF extracted # "facts" THEN extracted
             ELSE IF ~p.success THEN "infrastructure_error"
             ELSE IF FactsBytes(p.document.facts) > FactsMax THEN "facts_malformed"
             ELSE "evaluated"

\* evaluate_assertions
EvaluateAssertions(facts) ==
  [f \in DOMAIN Assertions |->
     IF f \notin DOMAIN facts THEN "unknown"
     ELSE IF facts[f].kind # Assertions[f].kind THEN "mismatch"
     ELSE IF facts[f] = Assertions[f] THEN "passed" ELSE "failed"]

Passed(results) == {f \in DOMAIN results : results[f] = "passed"}

\* for_assertions
ForAssertions(results) == IF Passed(results) = DOMAIN results THEN "succeeded" ELSE "assertions_failed"

\* AnsibleProbeEvidence::validate_for
ValidProbeEvidence(status, facts, results) ==
  /\ FactsBytes(facts) <= FactsMax
  /\ results = EvaluateAssertions(facts)
  /\ IF status \in {"succeeded", "assertions_failed"} THEN status = ForAssertions(results)
     ELSE facts = NoFacts /\ Passed(results) = {}

\* build_evidence: what failed is evaluated without facts.
BuildEvidence(p, status) ==
  LET facts   == IF status = "evaluated" THEN p.document.facts ELSE NoFacts
      results == EvaluateAssertions(facts)
  IN  [status  |-> IF status = "evaluated" THEN ForAssertions(results) ELSE status,
       facts   |-> facts, results |-> results]

\* receipt_for
ReceiptFor(evidence) ==
  [status |-> evidence.status, points |-> Cardinality(Passed(evidence.results)),
   max |-> Cardinality(DOMAIN Assertions)]

RunProbe ==
  /\ probeStep = "start"
  /\ probeProcess' \in ProbeProcesses
  /\ LET evidence == BuildEvidence(probeProcess', ExecuteProbe(probeProcess'))
     IN  IF ValidProbeEvidence(evidence.status, evidence.facts, evidence.results)
         THEN probeStep' = "ended" /\ probeReceipt' = ReceiptFor(evidence)
         ELSE probeStep' = "error" /\ probeReceipt' = [NoReceipt EXCEPT !.status = "evidence_invalid"]

\* The image, the profile, the workspace or a process fails.
ProbeFails ==
  /\ probeStep = "start"
  /\ probeStep' = "error"
  /\ UNCHANGED <<probeProcess, probeReceipt>>

OjStep    == ReadRequest \/ CompileCpp17 \/ RunCase \/ CasesEnd \/ OjWorkerFails
ProbeStep == RunProbe \/ ProbeFails
=============================================================================
