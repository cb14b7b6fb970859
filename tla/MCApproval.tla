----------------------------- MODULE MCApproval -----------------------------
(* Instances of Approval for TLC: three requests for one agent, two of them *)
(* tool calls and the last one injected over REST.                          *)
EXTENDS Approval

CONSTANTS r1, r2, r3, a1, t1

MCAgents == {a1}
MCRequests == {r1, r2, r3}
MCAgentOf == [r \in MCRequests |-> a1]
MCTools == {t1}
MCToolOf == [r \in MCRequests |-> t1]
MCRest == {r3}
MCDroppable == {r1, r2}
=============================================================================
