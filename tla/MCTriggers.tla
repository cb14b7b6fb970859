----------------------------- MODULE MCTriggers -----------------------------
(* An instance of Triggers for TLC: an agent that was restored and one that   *)
(* is spawned and Proactive, a trigger of limit 1 and one without a limit.   *)
EXTENDS Triggers, TLC
CONSTANTS a1, a2, k1, k2
MCLimit == k1 :> 1 @@ k2 :> 0
MCProactive == a1 :> {} @@ a2 :> {k2}
=============================================================================
