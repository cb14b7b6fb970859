-------------------------- MODULE MCWorkflowEngine --------------------------
(* Instance of WorkflowEngine for TLC: a fan-out and collect pipeline with   *)
(* a conditional step, a retried step before a loop, and a single step, two  *)
(* of them executed at one time; one agent may be killed.                    *)
EXTENDS WorkflowEngine, TLC

CONSTANTS r1, r2, r3, a1, a2, gather, refine, single

MCRuns == {r1, r2, r3}
MCAgents == {a1, a2}
MCWorkflows == {gather, refine, single}

MCStep(mode, agent, onError, retries, match, rounds) ==
    [mode |-> mode, agent |-> agent, onError |-> onError, retries |-> retries,
     match |-> match, rounds |-> rounds]

MCStepsOf ==
    (gather :> <<MCStep("sequential", a2, "skip", 0, {}, 0),
                 MCStep("fan_out", a1, "fail", 0, {}, 0),
                 MCStep("fan_out", a2, "skip", 0, {}, 0),
                 MCStep("collect", a1, "fail", 0, {}, 0),
                 MCStep("conditional", a1, "skip", 0, {"yes"}, 0)>>)
    @@ (refine :> <<MCStep("sequential", a2, "retry", 1, {}, 0),
                    MCStep("loop", a1, "skip", 0, {"yes"}, 2)>>)
    @@ (single :> <<MCStep("sequential", a1, "fail", 0, {}, 0)>>)

\* The answer of a1 decides conditions and loops.
MCAnswers == [a \in MCAgents |-> IF a = a1 THEN {"yes", "no"} ELSE {"no"}]

MCWorkflowOf == [r \in MCRuns |-> CASE r = r1 -> gather
                                  [] r = r2 -> refine
                                  [] r = r3 -> single]

MCMortal == {a2}
MCDroppable == {r3}
=============================================================================
