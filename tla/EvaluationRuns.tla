---------------------------- MODULE EvaluationRuns ----------------------------
(***************************************************************************)
(* The control plane of the Evaluation Service (control_plane.rs): one     *)
(* release, one run of it, the run's steps and the attempts of each step.  *)
(* Every operation is one transaction that locks the row of the run.       *)
(*                                                                         *)
(* A mutation that an operator asks for names the revision of the run that *)
(* the operator saw; every operation that saves the run moves the revision *)
(* on, so that only the last one is remembered: fresh.                     *)
(***************************************************************************)
EXTENDS Integers, FiniteSets, Sequences, Functions

CONSTANTS Plans,            \* the evaluation specifications that are published
          MaxStepAttempts,  \* bound on the attempts of a step
          MaxRequests       \* bound on the mutations that are on their way

\* A step has one of the kinds, depends on steps by their position, and has a score.
ASSUME EvaluationAssumption ==
  /\ \A spec \in Plans :
       spec.plan \in Seq([kind : {"gate", "score_stop", "score_continue", "advisory"}, deps : SUBSET Nat, max : Nat])
  /\ MaxStepAttempts \in Nat /\ MaxRequests \in Nat

VARIABLES release,    \* [state, plan]
          run,        \* the row of the run
          steps,      \* the rows of its steps, by position
          attempts,   \* for each step, the rows of its attempts
          requests    \* what operators have asked for

evaluationVars == <<release, run, steps, attempts, requests>>

Unfinished  == {"pending", "running", "retryable"}
TerminalRun == {"succeeded", "failed", "cancelled"}
NoScore     == -1

NoRun     == [state |-> "none", cancelling |-> FALSE, diagnostic |-> FALSE,
              cleanup |-> FALSE, completed |-> FALSE, score |-> 0]

EvaluationTypeOK ==
  /\ release.state \in {"none", "active", "withdrawn"}
  /\ run \in [state : {"none", "queued", "running", "cancelling"} \cup TerminalRun,
              cancelling : BOOLEAN, diagnostic : BOOLEAN,
              cleanup : BOOLEAN, completed : BOOLEAN, score : Nat]
  /\ \A i \in DOMAIN steps :
       steps[i] \in [state : Unfinished \cup {"succeeded", "failed", "cancelled", "skipped"},
                     attempt : 0..MaxStepAttempts, score : Nat \cup {NoScore},
                     diagnostic : {"none", "dependency", "other"}, cleanup : BOOLEAN]
  /\ \A i \in DOMAIN attempts : \A n \in DOMAIN attempts[i] :
       attempts[i][n] \in [state : {"running", "succeeded", "failed", "cancelled"},
                           live : BOOLEAN, cleanup : BOOLEAN]
  /\ requests \subseteq [kind : {"cancel", "retry", "verify"}, step : Nat, attempt : Nat,
                         fresh : BOOLEAN]

EvaluationInit ==
  /\ release = [state |-> "none", plan |-> <<>>]
  /\ run = NoRun
  /\ steps = <<>>
  /\ attempts = <<>>
  /\ requests = {}

-----------------------------------------------------------------------------
(* The specification of a release: a plan is a sequence of steps, each with *)
(* its kind, its dependencies and the greatest score it awards.             *)

\* EvaluationStep::failure_policy.
FailurePolicy(step) ==
  CASE step.kind \in {"gate", "score_stop"} -> "stop"
    [] step.kind = "score_continue" -> "continue"
    [] step.kind = "advisory" -> "continue_advisory"

Scored(step) == step.kind \in {"score_stop", "score_continue"}

\* Kahn's algorithm: what has been visited after n rounds.
Visited(plan) ==
  LET visited[n \in 0..Len(plan)] ==
        IF n = 0 THEN {}
        ELSE visited[n - 1] \cup {i \in 1..Len(plan) : plan[i].deps \subseteq visited[n - 1]}
  IN  visited[Len(plan)]

ValidateDependencies(plan) ==
  /\ \A i \in 1..Len(plan) : plan[i].deps \subseteq 1..Len(plan)
  /\ Visited(plan) = 1..Len(plan)

ValidateAggregation(spec) ==
  /\ spec.max = SumFunctionOnSet([i \in 1..Len(spec.plan) |-> spec.plan[i].max],
                                 {i \in 1..Len(spec.plan) : Scored(spec.plan[i])})
  /\ \A g \in spec.gates : g \in 1..Len(spec.plan) /\ spec.plan[g].kind = "gate"

ValidateSpec(spec) ==
  /\ spec.plan # <<>>
  /\ \A i \in 1..Len(spec.plan) : Scored(spec.plan[i]) => spec.plan[i].max # 0
  /\ ValidateDependencies(spec.plan)
  /\ ValidateAggregation(spec)

PublishRelease ==
  /\ release.state = "none"
  /\ \E spec \in Plans : ValidateSpec(spec) /\ release' = [state |-> "active", plan |-> spec.plan]
  /\ UNCHANGED <<run, steps, attempts, requests>>

WithdrawRelease ==
  /\ release.state = "active"
  /\ release' = [release EXCEPT !.state = "withdrawn"]
  /\ UNCHANGED <<run, steps, attempts, requests>>

PendingStep(attempt) ==
  [state |-> "pending", attempt |-> attempt, score |-> NoScore, diagnostic |-> "none",
   cleanup |-> FALSE]

\* step_runs_for: the frozen submission is there already.
CreateRun ==
  /\ release.state = "active" /\ run.state = "none"
  /\ run' = [NoRun EXCEPT !.state = "queued"]
  /\ steps' = [i \in 1..Len(release.plan) |-> PendingStep(0)]
  /\ attempts' = [i \in 1..Len(release.plan) |-> <<>>]
  /\ UNCHANGED <<release, requests>>

-----------------------------------------------------------------------------
(* What every operation ends with *)

Steps    == DOMAIN steps
Deps(i)  == release.plan[i].deps
Stops(i) == FailurePolicy(release.plan[i]) = "stop"

\* failure_breaks_run
BreaksRun(s, i, cancelling) ==
  Stops(i) /\ (s[i].state = "failed" \/ (s[i].state = "cancelled" /\ ~cancelling))

TotalScore(s) ==
  SumFunctionOnSet([i \in Steps |-> s[i].score], {i \in Steps : Scored(release.plan[i]) /\ s[i].score # NoScore})

\* refresh_and_save_run: the state of the run r with the steps s.
Refresh(r, s) ==
  LET unfinished == \E i \in Steps : s[i].state \in Unfinished
      broken     == \E i \in Steps : BreaksRun(s, i, r.cancelling)
      clean      == \A i \in Steps : s[i].state # "skipped" => s[i].cleanup
      score      == TotalScore(s)
      Saved(state, diagnostic, completed) ==
        [state |-> state, cancelling |-> r.cancelling, diagnostic |-> diagnostic,
         cleanup |-> completed, completed |-> completed, score |-> score]
  IN  CASE broken /\ unfinished -> Saved(IF r.cancelling THEN "cancelling" ELSE "running", TRUE, FALSE)
        [] broken /\ ~unfinished -> Saved("failed", TRUE, clean)
        [] ~broken /\ r.cancelling /\ ~unfinished -> Saved("cancelled", TRUE, clean)
        [] ~broken /\ ~r.cancelling /\ ~unfinished -> Saved(IF clean THEN "succeeded" ELSE "running", FALSE, clean)
        [] ~broken /\ r.cancelling /\ unfinished -> Saved("cancelling", r.diagnostic, FALSE)
        [] ~broken /\ ~r.cancelling /\ unfinished /\ (\E i \in Steps : s[i].state = "running") ->
             Saved("running", FALSE, FALSE)
        [] OTHER -> [r EXCEPT !.score = score]

\* EvaluationRun::validate: a run that is not consistent is not saved.
ValidateRun(r) ==
  /\ r.state \in {"queued", "running", "cancelling"} => ~r.completed
  /\ r.state = "succeeded" => r.completed /\ ~r.diagnostic /\ r.cleanup
  /\ r.state \in {"failed", "cancelled"} => r.diagnostic /\ (r.cleanup <=> r.completed)

\* EvaluationStepRun::validate
ValidateStep(i, s) ==
  /\ s.score # NoScore => Scored(release.plan[i]) /\ s.score <= release.plan[i].max
  /\ s.state = "succeeded" => s.diagnostic = "none" /\ s.cleanup /\ (Scored(release.plan[i]) <=> s.score # NoScore)
  /\ s.state \in {"failed", "cancelled", "skipped"} => s.diagnostic # "none" /\ s.score = NoScore

Save(r, s) ==
  /\ steps' = s
  /\ run' = Refresh(r, s)
  /\ \A i \in Steps : ValidateStep(i, s[i])
  /\ ValidateRun(run')

\* The revision moves on.
Outdated(others) == requests' = {[q EXCEPT !.fresh = FALSE] : q \in others}

-----------------------------------------------------------------------------
(* Workers *)

\* Mutant: a dependency that has ended counts as satisfied.
SatisfiedWhenEnded(i) == steps[i].state \in {"succeeded", "failed", "cancelled"}

\* A dependency that does not stand in the way.
Satisfied(i) ==
  \/ steps[i].state = "succeeded"
  \/ ~Stops(i) /\ steps[i].state \in {"failed", "cancelled"}

Claimable(i) ==
  /\ run.state \in {"queued", "running"} /\ ~run.cancelling
  /\ steps[i].state = "pending" \/ (steps[i].state = "retryable" /\ steps[i].cleanup)
  /\ \A d \in Deps(i) : Satisfied(d)

\* The run's transaction takes the first step that can be claimed; one that
\* another transaction holds is passed over, so that it may be any of them.
ClaimNextStep(i) ==
  /\ Claimable(i) /\ steps[i].attempt < MaxStepAttempts
  /\ attempts' = [attempts EXCEPT ![i] = Append(@, [state |-> "running", live |-> TRUE, cleanup |-> FALSE])]
  /\ Save([run EXCEPT !.state = IF @ = "queued" THEN "running" ELSE @],
          [steps EXCEPT ![i] = [PendingStep(@.attempt + 1) EXCEPT !.state = "running"]])
  /\ Outdated(requests)
  /\ UNCHANGED release

\* Of the attempts of a step, the one that is running loses its lease.
StepLeaseLapses(i) ==
  /\ \E n \in DOMAIN attempts[i] :
       /\ attempts[i][n].state = "running" /\ attempts[i][n].live
       /\ attempts' = [attempts EXCEPT ![i][n].live = FALSE]
  /\ UNCHANGED <<release, run, steps, requests>>

\* Those that cannot run any more once step f has failed, through the ones that
\* were skipped before.
Blocked(s, f) ==
  LET Skippable(i) == s[i].state \in {"pending", "retryable"}
                      \/ (s[i].state = "skipped" /\ s[i].diagnostic = "dependency")
      blocked[n \in 0..Len(s)] ==
        IF n = 0 THEN {f}
        ELSE blocked[n - 1] \cup {i \in DOMAIN s : Skippable(i) /\ Deps(i) \cap blocked[n - 1] # {}}
  IN  blocked[Len(s)]

SkipDependencySuccessors(s, f) ==
  [i \in DOMAIN s |->
     IF i \in Blocked(s, f) \ {f} /\ s[i].state # "skipped"
     THEN [s[i] EXCEPT !.state = "skipped", !.score = NoScore, !.diagnostic = "dependency", !.cleanup = TRUE]
     ELSE s[i]]

\* failure_stops_dependency_successors
SkipAfter(s, f) ==
  IF s[f].state \in {"failed", "cancelled"} /\ Stops(f) THEN SkipDependencySuccessors(s, f) ELSE s

\* EvaluationStepCompletion::validate
Completions(i) ==
  [state : {"succeeded"}, cleanup : {TRUE}, diagnostic : {"none"},
   score : IF Scored(release.plan[i]) THEN 0..release.plan[i].max ELSE {NoScore}]
  \cup [state : {"failed", "cancelled"}, cleanup : BOOLEAN, diagnostic : {"other"}, score : {NoScore}]

\* The worker of attempt n answers; the lease token is that of the attempt.
CompleteStep(i, n) ==
  /\ steps[i].attempt = n
  /\ attempts[i][n].state = "running" /\ attempts[i][n].live
  /\ \E c \in Completions(i) :
       /\ attempts' = [attempts EXCEPT ![i][n] = [state |-> c.state, live |-> FALSE, cleanup |-> c.cleanup]]
       /\ Save(run, SkipAfter([steps EXCEPT ![i] = [state |-> c.state, attempt |-> n, score |-> c.score,
                                                   diagnostic |-> c.diagnostic, cleanup |-> c.cleanup]], i))
  /\ Outdated(requests)
  /\ UNCHANGED release

RecoverExpiredStepAttempts ==
  /\ \E i \in Steps : \E n \in DOMAIN attempts[i] :
       /\ attempts[i][n].state = "running" /\ ~attempts[i][n].live
       /\ attempts' = [attempts EXCEPT ![i][n] = [state |-> "failed", live |-> FALSE, cleanup |-> FALSE]]
       /\ Save(run, SkipAfter([steps EXCEPT ![i] = [@ EXCEPT !.state = "failed", !.diagnostic = "other",
                                                             !.cleanup = FALSE]], i))
  /\ Outdated(requests)
  /\ UNCHANGED release

-----------------------------------------------------------------------------
(* Operators *)

\* An operator looks at the run and asks for a mutation.
Ask ==
  /\ run.state # "none" /\ Cardinality(requests) < MaxRequests
  /\ \/ requests' = requests \cup {[kind |-> "cancel", step |-> 0, attempt |-> 0, fresh |-> TRUE]}
     \/ \E i \in Steps, kind \in {"retry", "verify"} :
          /\ steps[i].state \in {"failed", "cancelled"}
          /\ requests' = requests \cup {[kind |-> kind, step |-> i, attempt |-> steps[i].attempt, fresh |-> TRUE]}
  /\ UNCHANGED <<release, run, steps, attempts>>

\* revisioned_mutation: the revision that the request expects is that of the run.
Current(q) == q.fresh

\* A request is refused, or given up.
Refused(q) ==
  /\ requests' = requests \ {q}
  /\ UNCHANGED <<release, run, steps, attempts>>

CancelUnstartedSteps(s) ==
  [i \in DOMAIN s |->
     IF s[i].state \in {"pending", "retryable"}
     THEN [s[i] EXCEPT !.state = "cancelled", !.diagnostic = "other", !.cleanup = TRUE]
     ELSE s[i]]

RequestCancellation(q) ==
  /\ q.kind = "cancel" /\ Current(q)
  /\ run.state \notin TerminalRun
  /\ Save([run EXCEPT !.cancelling = TRUE,
                      !.state = IF \E i \in Steps : steps[i].state = "running"
                                THEN "cancelling" ELSE "cancelled"],
          CancelUnstartedSteps(steps))
  /\ Outdated(requests \ {q})
  /\ UNCHANGED <<release, attempts>>

\* Those that the failure of step r had skipped.
Restored(s, r) ==
  LET restored[n \in 0..Len(s)] ==
        IF n = 0 THEN {r}
        ELSE restored[n - 1] \cup {i \in DOMAIN s : /\ s[i].state = "skipped" /\ s[i].diagnostic = "dependency"
                                                   /\ Deps(i) \cap restored[n - 1] # {}}
  IN  restored[Len(s)] \ {r}

RestoreDependencySkippedSuccessors(s, r) ==
  [i \in DOMAIN s |-> IF i \in Restored(s, r) THEN PendingStep(s[i].attempt) ELSE s[i]]

RetryStep(q) ==
  /\ q.kind = "retry" /\ Current(q)
  /\ LET i == q.step
     IN  /\ ~run.cancelling /\ steps[i].state = "failed" /\ steps[i].cleanup
         /\ Save([run EXCEPT !.state = "running", !.diagnostic = FALSE, !.completed = FALSE, !.cleanup = FALSE],
                 RestoreDependencySkippedSuccessors(
                   [steps EXCEPT ![i] = [@ EXCEPT !.state = "retryable", !.score = NoScore, !.diagnostic = "none"]], i))
  /\ Outdated(requests \ {q})
  /\ UNCHANGED <<release, attempts>>

\* mark_attempt_cleanup_verified looks for the row of the step's attempt.
VerifyStepCleanup(q) ==
  /\ q.kind = "verify" /\ Current(q)
  /\ LET i == q.step
         n == steps[i].attempt
     IN  /\ steps[i].state \in {"failed", "cancelled"} /\ ~steps[i].cleanup
         /\ n \in DOMAIN attempts[i]
         /\ attempts[i][n].state \in {"failed", "cancelled"} /\ ~attempts[i][n].cleanup
         /\ attempts' = [attempts EXCEPT ![i][n].cleanup = TRUE]
         /\ Save(run, [steps EXCEPT ![i].cleanup = TRUE])
  /\ Outdated(requests \ {q})
  /\ UNCHANGED release

EvaluationStep ==
  \/ PublishRelease \/ WithdrawRelease \/ CreateRun
  \/ \E i \in Steps : ClaimNextStep(i)
  \/ \E i \in Steps : StepLeaseLapses(i)
  \/ \E i \in Steps : \E n \in DOMAIN attempts[i] : CompleteStep(i, n)
  \/ RecoverExpiredStepAttempts
  \/ Ask
  \/ \E q \in requests : Refused(q)
  \/ \E q \in requests : RequestCancellation(q) \/ RetryStep(q) \/ VerifyStepCleanup(q)
=============================================================================
