-------------------------- MODULE MCEvaluationService --------------------------
EXTENDS EvaluationService

Step(kind, deps, max)   == [kind |-> kind, deps |-> deps, max |-> max]
SpecOf(plan, max, gates) == [plan |-> plan, max |-> max, gates |-> gates]

\* A chain, a diamond, a chain that goes on after a failure; steps that wait for
\* each other, a dependency that is missing, a score that does not add up.
MCPlans ==
  {SpecOf(<<Step("gate", {}, 0), Step("score_stop", {1}, 1), Step("advisory", {2}, 0)>>, 1, {1}),
   SpecOf(<<Step("score_stop", {}, 1), Step("gate", {}, 0), Step("score_continue", {1, 2}, 1)>>, 2, {2}),
   SpecOf(<<Step("score_continue", {}, 1), Step("score_stop", {1}, 1)>>, 2, {}),
   SpecOf(<<Step("gate", {3}, 0), Step("score_stop", {}, 1), Step("advisory", {1, 2}, 0)>>, 1, {1}),
   SpecOf(<<Step("gate", {}, 0), Step("score_stop", {4}, 1)>>, 1, {}),
   SpecOf(<<Step("gate", {}, 0), Step("score_stop", {1}, 1)>>, 2, {})}

\* Two files in a directory and one beside it.
MCPaths    == {"a", "d", "x", "y"}
MCParent   == [p \in MCPaths |-> IF p \in {"x", "y"} THEN "d" ELSE p]
MCContents == 1..2
MCSizeOf   == [c \in -1..2 |-> IF c = 2 THEN 2 ELSE 1]

File(p) == [kind |-> "file", path |-> p]
Tree(p) == [kind |-> "tree", path |-> p]

MCManifests ==
  {[include |-> {File("a"), Tree("d")}, exclude |-> {File("y")}, required |-> {File("a")}, files |-> 2, bytes |-> 3],
   [include |-> {Tree("d")}, exclude |-> {}, required |-> {Tree("d"), File("x")}, files |-> 2, bytes |-> 3],
   [include |-> {File("x"), File("a")}, exclude |-> {Tree("d")}, required |-> {}, files |-> 1, bytes |-> 1]}

Test(cases, score, checker) == [phase |-> "test", cases |-> cases, score |-> score, checker |-> checker]

MCOjRequests ==
  {Test(<<1, 2>>, 4, "exact"), Test(<<3, 1, 1>>, 2, "token"), Test(<<1>>, 0, "exact"), Test(<<1, 0>>, 1, "token"),
   [phase |-> "compile", cases |-> <<>>, score |-> 0, checker |-> "exact"],
   [phase |-> "compile", cases |-> <<1>>, score |-> 1, checker |-> "exact"]}

Bool(v) == [kind |-> "boolean", value |-> v]
Text(v) == [kind |-> "text", value |-> v]

MCFactKind   == [f \in {"f", "g"} |-> IF f = "f" THEN "boolean" ELSE "text"]
MCAssertions == [f \in {"f", "g"} |-> IF f = "f" THEN Bool(1) ELSE Text(1)]

\* Facts that are all there, one of them wrong, missing, of another kind or unknown.
MCFacts ==
  {[f \in {"f", "g"} |-> IF f = "f" THEN Bool(1) ELSE Text(1)], [f \in {"f", "g"} |-> IF f = "f" THEN Bool(2) ELSE Text(1)],
   [f \in {"f"} |-> Bool(1)], [f \in {"f"} |-> Text(1)], [f \in {"f", "g", "h"} |-> IF f = "f" THEN Bool(1) ELSE Text(1)]}

MCDocuments == [shape : {"unparsable", "missing", "twice", "once"}, unreachable : 0..1, failures : 0..1, facts : MCFacts]
=============================================================================
