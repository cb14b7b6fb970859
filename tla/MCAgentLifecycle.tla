-------------------------- MODULE MCAgentLifecycle --------------------------
(* Instances of AgentLifecycle for TLC. *)
EXTENDS AgentLifecycle, TLC

CONSTANTS a1, a2, Upper, Lower, Other

\* Two names that differ in case only.
MCFold == (Upper :> Lower) @@ (Lower :> Lower) @@ (Other :> Other)

\* Both agents are spawned with the same name.
SameName == (a1 :> Upper) @@ (a2 :> Upper)
=============================================================================
