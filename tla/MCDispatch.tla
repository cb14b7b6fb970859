----------------------------- MODULE MCDispatch -----------------------------
(* An instance of Dispatch for TLC: two agents with loops that share one      *)
(* permit, and a third that is spawned later.  The first has quotas and is    *)
(* sent a message; the model of the others costs nothing.                    *)
EXTENDS Dispatch, TLC
CONSTANTS a1, a2, a3
OnlyFirst == [a \in Agents |-> IF a = a1 THEN 1 ELSE 0]
=============================================================================
