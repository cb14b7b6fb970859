----------------------------- MODULE MCAgentLoop -----------------------------
(* Instances of AgentLoop for TLC: two ordinary calls and one that polls, and *)
(* messages of both roles that make and answer up to two calls.               *)
EXTENDS AgentLoop
CONSTANTS c1, c2, c3
OneCall == {c1}
ThreeCalls == {c1, c2, c3}
Polling == {c3}
Said(kind) == <<TextBlock(kind, 0)>>
MCMessages ==
    {Assistant(b) : b \in {<<>>, Said("text"), Said("blank"), <<UseBlock(1)>>, <<UseBlock(2)>>,
                           <<UseBlock(1), UseBlock(2)>>}}
    \cup {User(b) : b \in {<<>>, Said("text"), <<ResultBlock(1)>>, <<ResultBlock(2)>>,
                           <<ResultBlock(2), ResultBlock(1)>>,
                           Said("text") \o <<ResultBlock(1)>>}}
=============================================================================
