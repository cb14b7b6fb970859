---------------------------- MODULE MCDelegation ----------------------------
(* An instance of Delegation for TLC: two instances of one hand, a resident  *)
(* agent, two posted tasks, a store of one task for three, and three nodes,  *)
(* one of them with another secret.                                          *)
EXTENDS Delegation, TLC
CONSTANTS i1, i2, hand, x1, x2, x3, main, nobody, n1, n2, n3, c1, c2
MCHandOf == [i \in Instances |-> hand]
MCSecretOf == [n \in Nodes |-> IF n = n3 THEN "other" ELSE "shared"]

\* Nothing tells the instances, the tasks of other systems or the connections
\* apart.
Symmetry == Permutations(Instances) \cup Permutations(A2AIds) \cup Permutations(Conns)

\* Hands, the queue, the A2A tasks and the peers neither read nor write each
\* other's state, but for the registry, which is never empty here: each is
\* explored beside the idle others.  One agent is renamed at a time.
Apart ==
    LET hands == \E i \in Instances : activation[i] # "none"
        queue == \E t \in TaskIds : tasks[t].status # "none"
        a2a == \E t \in A2AIds : request[t] # "none"
        net == (\E c \in Conns : conn[c] # NoConn) \/ \E n \in Nodes \ {Self} : epoch[n] > 0
        renamed == {i \in Instances : renaming[i].at # "idle"}
    IN  /\ Cardinality(renamed) <= 1
        /\ Cardinality({x \in {<<hands, 1>>, <<queue, 2>>, <<a2a, 3>>, <<net, 4>>} : x[1]}) <= 1
=============================================================================
