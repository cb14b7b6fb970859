----------------------------- MODULE Delegation -----------------------------
(***************************************************************************)
(* Work that is handed to agents, on one daemon: tasks of other agents      *)
(* (TaskQueue), tasks of other systems (A2ATasks), messages of other        *)
(* daemons (Peers), and the agents of hands (Hands), which come and go under *)
(* all of them.  They share the registry of agents, and a restart takes     *)
(* from each what it had not stored.                                        *)
(***************************************************************************)
EXTENDS Integers, FiniteSetsExt

CONSTANTS
    Nobody, MaxPosts, A2AIds, MaxStored, Instances, HandOf, Residents,
    Nodes, SecretOf, Conns,
    Self,           \* the node of this daemon
    MaxRestarts     \* bound on the restarts of any node

Agents == Instances \cup Residents

VARIABLES
    alive, tasks, claims, store, request, told, cancelled, peakWorking,
    named, names, rows, renaming, instances, activation, dying,
    overlapped, cutOff, survived, epoch, conn, peers, orphaned, restarts

INSTANCE TaskQueue
INSTANCE A2ATasks
INSTANCE Hands
INSTANCE Peers

ASSUME DelegationAssumption ==
    /\ MaxPosts \in Nat /\ MaxStored \in Nat /\ MaxRestarts \in Nat
    /\ Nobody \notin Agents /\ NoAgent \notin Instances /\ Instances \cap Residents = {}
    /\ Self \in Nodes /\ HandNames \cap {Other, NoName} = {}
    /\ IsFiniteSet(A2AIds) /\ IsFiniteSet(Instances)

\* The state of each part, spelled out for TLC.
taskState == <<tasks, claims>>
a2aState == <<store, request, told, cancelled, peakWorking>>
handState == <<named, names, rows, renaming, instances, activation, dying,
               overlapped, cutOff, survived>>
peerState == <<epoch, conn, peers, orphaned>>
vars == <<alive, taskState, a2aState, handState, peerState, restarts>>

TypeOK == TaskTypeOK /\ A2ATypeOK /\ HandTypeOK /\ PeerTypeOK /\ restarts \in 0 .. MaxRestarts

Init == TaskInit /\ A2AInit /\ HandInit /\ PeerInit /\ restarts = 0

\* This daemon is restarted, or another one.
Restart ==
    /\ restarts < MaxRestarts /\ restarts' = restarts + 1
    /\ TaskRestart /\ A2ARestart /\ HandRestart /\ NodeRestart(Self)

OtherRestart ==
    /\ restarts < MaxRestarts /\ restarts' = restarts + 1
    /\ \E n \in Nodes \ {Self} : NodeRestart(n)
    /\ UNCHANGED <<alive, taskState, a2aState, handState>>

Next ==
    \/ TaskNext /\ UNCHANGED <<alive, a2aState, handState, peerState, restarts>>
    \/ A2ANext /\ UNCHANGED <<alive, taskState, handState, peerState, restarts>>
    \/ HandNext /\ UNCHANGED <<taskState, a2aState, peerState, restarts>>
    \/ PeerNext /\ UNCHANGED <<alive, taskState, a2aState, handState, restarts>>
    \/ Restart \/ OtherRestart

Spec == Init /\ [][Next]_vars
=============================================================================
