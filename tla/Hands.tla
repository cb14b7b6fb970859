-------------------------------- MODULE Hands --------------------------------
(***************************************************************************)
(* Hands: the HandRegistry of clawreform-hands/src/registry.rs and          *)
(* activate_hand, deactivate_hand, pause_hand and resume_hand of            *)
(* clawreform-kernel/src/kernel.rs.  An activation makes an instance and    *)
(* spawns its agent, whose name is that of the hand's definition; the agent *)
(* of instance i is called i here.  A client may rename it.  AgentLifecycle *)
(* has spawn and kill in more detail.                                       *)
(*                                                                          *)
(* Bounds: an agent is renamed by one client at a time, and the residents   *)
(* keep their names.                                                        *)
(***************************************************************************)
EXTENDS Integers, FiniteSetsExt

CONSTANTS
    Instances,      \* identifiers of instances
    HandOf,         \* the hand each of them is an instance of
    Residents       \* agents that belong to no hand

VARIABLES
    alive,      \* agents in the registry
    named,      \* the name in the entry of each agent of a hand, or none
    names,      \* name_index: the agent with the name of each hand
    rows,       \* the name in the row of each of these agents, or none
    renaming,   \* update_name for each of them
    instances,  \* the registry of instances
    activation, \* activate_hand for each instance
    dying,      \* agents deactivate_hand has still to kill
    overlapped, \* history: names that two calls found free together
    cutOff,     \* history: instances that were never linked to their agent
    survived    \* history: agents that outlived their instance in a restart

agentVars == <<alive, named, names, rows, renaming>>
instanceVars == <<instances, activation, dying>>
history == <<overlapped, cutOff, survived>>

HandNames == {HandOf[i] : i \in Instances}
NoAgent == "no agent"
Other == "other name"      \* a name of no hand
NoName == "no name"
Linked == {i \in DOMAIN instances : instances[i].agent = i}
NoRename == [at |-> "idle", from |-> NoName, to |-> NoName]

HandTypeOK ==
    /\ alive \subseteq Instances \cup Residents
    /\ named \in [Instances -> HandNames \cup {Other, NoName}]
    /\ names \in [HandNames -> Instances \cup {NoAgent}]
    /\ rows \in [Instances -> HandNames \cup {Other, NoName}]
    /\ renaming \in [Instances -> [at : {"idle", "checked", "renamed", "unindexed"},
                                   from : HandNames \cup {Other, NoName},
                                   to : HandNames \cup {Other, NoName}]]
    /\ DOMAIN instances \subseteq Instances
    /\ \A i \in DOMAIN instances : instances[i] \in [status : {"active", "paused"}, agent : {i, NoAgent}]
    /\ activation \in [Instances -> {"none", "insert", "spawn", "register", "link", "done"}]
    /\ dying \subseteq Instances \ DOMAIN instances

HandInit ==
    /\ alive = Residents /\ named = [i \in Instances |-> NoName]
    /\ names = [h \in HandNames |-> NoAgent] /\ rows = [i \in Instances |-> NoName]
    /\ renaming = [i \in Instances |-> NoRename]
    /\ instances = [i \in {} |-> 0] /\ activation = [i \in Instances |-> "none"]
    /\ dying = {} /\ overlapped = {} /\ cutOff = {} /\ survived = {}

-----------------------------------------------------------------------------
(* activate_hand *)

To(i, pc) == activation' = [activation EXCEPT ![i] = pc]

\* activate of the registry: no instance of the hand is active, ...
ActivateCheck(i) ==
    /\ activation[i] = "none" /\ To(i, "insert")
    /\ \A j \in DOMAIN instances : HandOf[j] = HandOf[i] => instances[j].status # "active"
    /\ UNCHANGED <<agentVars, instances, dying, history>>

\* ... and one more is inserted.
ActivateInsert(i) ==
    /\ activation[i] = "insert" /\ To(i, "spawn")
    /\ instances' = [j \in DOMAIN instances \cup {i} |->
                        IF j = i THEN [status |-> "active", agent |-> NoAgent] ELSE instances[j]]
    /\ UNCHANGED <<agentVars, dying, history>>

\* The activations and renamings that have found a name free and not taken it yet.
Claims(n) ==
    {<<i, "spawn">> : i \in {j \in Instances : HandOf[j] = n /\ activation[j] = "register"}}
    \cup {<<i, "rename">> : i \in {j \in Instances : renaming[j].at # "idle" /\ renaming[j].to = n}}

\* A name of a hand is found free.  For other names it is not told.
Free(n) ==
    /\ n # Other => names[n] = NoAgent
    /\ overlapped' = IF n = Other \/ Claims(n) = {} THEN overlapped ELSE overlapped \cup {n}

\* Variant for mutation: the name is not looked up.
SpawnUnchecked(i) ==
    /\ activation[i] = "spawn" /\ To(i, "register")
    /\ overlapped' = IF Claims(HandOf[i]) = {} THEN overlapped ELSE overlapped \cup {HandOf[i]}
    /\ UNCHANGED <<agentVars, instances, dying, cutOff, survived>>

\* spawn_agent: without a session or a workspace, or for a name that is taken,
\* it is refused, and the instance stays; ...
SpawnCheck(i) ==
    /\ activation[i] = "spawn"
    /\ \/ To(i, "done") /\ UNCHANGED overlapped
       \/ To(i, "register") /\ Free(HandOf[i])
    /\ UNCHANGED <<agentVars, instances, dying, cutOff, survived>>

\* ... else the agent is registered and saved.  If it cannot be saved, the
\* activation ends in an error, and the agent runs.
SpawnRegister(i) ==
    /\ activation[i] = "register"
    /\ alive' = alive \cup {i} /\ named' = [named EXCEPT ![i] = HandOf[i]]
    /\ names' = [names EXCEPT ![HandOf[i]] = i]
    /\ \/ To(i, "link") /\ rows' = [rows EXCEPT ![i] = HandOf[i]] /\ UNCHANGED cutOff
       \/ To(i, "done") /\ cutOff' = cutOff \cup {i} /\ UNCHANGED rows
    /\ UNCHANGED <<renaming, instances, dying, overlapped, survived>>

\* set_agent, which fails if the instance is gone.
LinkAgent(i) ==
    /\ activation[i] = "link" /\ To(i, "done")
    /\ instances' = [j \in DOMAIN instances |-> IF j = i THEN [instances[j] EXCEPT !.agent = i] ELSE instances[j]]
    /\ UNCHANGED <<agentVars, dying, history>>

-----------------------------------------------------------------------------
(* update_name: the name is looked up, changed in the entry, taken out of the *)
(* index and put into it                                                      *)

RenameStep(i, from, to) == renaming[i].at = from /\ renaming' = [renaming EXCEPT ![i] = to]
RenameUnchanged == UNCHANGED <<alive, rows, instanceVars, cutOff, survived>>
IndexTo(n, i) == names' = IF n = Other THEN names ELSE [names EXCEPT ![n] = i]

\* Variant for mutation: the new name is not looked up.
RenameUnchecked(i, n) ==
    /\ i \in alive /\ RenameStep(i, "idle", [at |-> "checked", from |-> NoName, to |-> n])
    /\ overlapped' = IF n = Other \/ Claims(n) = {} THEN overlapped ELSE overlapped \cup {n}
    /\ UNCHANGED <<named, names>> /\ RenameUnchanged

RenameCheck(i, n) ==
    /\ i \in alive /\ RenameStep(i, "idle", [at |-> "checked", from |-> NoName, to |-> n])
    /\ Free(n)
    /\ UNCHANGED <<named, names>> /\ RenameUnchanged

\* An agent that was killed meanwhile is not found.
RenameEntry(i) ==
    /\ \/ /\ i \in alive /\ named' = [named EXCEPT ![i] = renaming[i].to]
          /\ RenameStep(i, "checked", [renaming[i] EXCEPT !.at = "renamed", !.from = named[i]])
       \/ i \notin alive /\ UNCHANGED named /\ RenameStep(i, "checked", NoRename)
    /\ UNCHANGED <<names, overlapped>> /\ RenameUnchanged

RenameUnindex(i) ==
    /\ RenameStep(i, "renamed", [renaming[i] EXCEPT !.at = "unindexed"])
    /\ IndexTo(renaming[i].from, NoAgent)
    /\ UNCHANGED <<named, overlapped>> /\ RenameUnchanged

RenameIndex(i) ==
    /\ RenameStep(i, "unindexed", NoRename) /\ IndexTo(renaming[i].to, i)
    /\ UNCHANGED <<named, overlapped>> /\ RenameUnchanged

\* What else is changed of an agent is saved with the name it has.
SaveAgent(i) ==
    /\ i \in alive /\ rows' = [rows EXCEPT ![i] = named[i]]
    /\ UNCHANGED <<alive, named, names, renaming, instanceVars, history>>

-----------------------------------------------------------------------------
(* deactivate_hand, pause_hand, resume_hand; kill_agent *)

DeactivateHand(i) ==
    /\ i \in DOMAIN instances
    /\ instances' = [j \in DOMAIN instances \ {i} |-> instances[j]]
    /\ dying' = dying \cup ({i} \cap Linked)
    /\ cutOff' = cutOff \cup ({i} \ Linked)
    /\ UNCHANGED <<agentVars, activation, overlapped, survived>>

\* remove of the registry forgets the name, whoever has it now; the row is
\* removed, or that fails unnoticed.
Kill(i) ==
    /\ alive' = alive \ {i} /\ named' = [named EXCEPT ![i] = NoName] /\ UNCHANGED renaming
    /\ \/ i \in alive /\ IndexTo(named[i], NoAgent) /\ rows' \in {rows, [rows EXCEPT ![i] = NoName]}
       \/ i \notin alive /\ UNCHANGED <<names, rows>>

\* Variant for mutation: the instance is removed, and its agent goes on.
KillNothing(i) ==
    /\ i \in dying /\ dying' = dying \ {i}
    /\ UNCHANGED <<agentVars, instances, activation, history>>

KillHandAgent(i) ==
    /\ i \in dying /\ dying' = dying \ {i}
    /\ Kill(i)
    /\ UNCHANGED <<instances, activation, history>>

\* A user kills the agent; the instance keeps it.
KillByUser(i) ==
    /\ i \in alive \cap Instances /\ Kill(i)
    /\ UNCHANGED <<instanceVars, history>>

SetStatus(i, status) ==
    /\ i \in DOMAIN instances /\ instances' = [instances EXCEPT ![i].status = status]
    /\ UNCHANGED <<agentVars, activation, dying, history>>

HandNext ==
    \E i \in Instances :
        \/ ActivateCheck(i) \/ ActivateInsert(i) \/ SpawnCheck(i) \/ SpawnRegister(i) \/ LinkAgent(i)
        \/ DeactivateHand(i) \/ KillHandAgent(i) \/ KillByUser(i) \/ SaveAgent(i)
        \/ (\E n \in HandNames \cup {Other} : RenameCheck(i, n))
        \/ RenameEntry(i) \/ RenameUnindex(i) \/ RenameIndex(i)
        \/ SetStatus(i, "paused") \/ SetStatus(i, "active")

\* Agents are restored, of a name the first that is found, if their rows can be
\* read; instances are not.
HandRestart ==
    \E S \in SUBSET {i \in Instances : rows[i] # NoName} :
        /\ \A i, j \in S : rows[i] = rows[j] /\ rows[i] # Other => i = j
        /\ alive' = S \cup Residents /\ survived' = survived \cup S
        /\ named' = [i \in Instances |-> IF i \in S THEN rows[i] ELSE NoName]
        /\ names' = [h \in HandNames |-> IF \E i \in S : rows[i] = h
                                         THEN CHOOSE i \in S : rows[i] = h ELSE NoAgent]
        /\ renaming' = [i \in Instances |-> NoRename]
        /\ instances' = [i \in {} |-> 0] /\ dying' = {}
        /\ activation' = [i \in Instances |-> IF activation[i] = "none" THEN "none" ELSE "done"]
        /\ overlapped' = {} /\ UNCHANGED <<rows, cutOff>>
-----------------------------------------------------------------------------
(* Properties *)

\* However often a hand is activated, paused and activated again, one agent has
\* its name, unless two of the calls that give it to an agent found it free
\* together since the daemon was started: the check for an active instance does
\* not keep activations apart (registry.rs:98).  From then on there may be any
\* number, one after the other: whichever of the two is killed frees the name of
\* both.  So a hand has one agent, and those besides that were given another
\* name (kernel registry.rs:228).
OneAgentPerHand ==
    \A i, j \in alive \cap Instances :
        named[i] = named[j] /\ named[i] \notin overlapped \cup {Other} => i = j

\* No agent of a hand runs without its instance, through which it is stopped,
\* unless it could not be saved when it was spawned (kernel.rs:1807), the
\* instance was deactivated before it had the agent, or a restart forgot it
\* (kernel.rs:3476).
AgentsAreReachable ==
    \A i \in alive \cap Instances :
        i \in Linked \cup dying \cup cutOff \cup survived \/ activation[i] = "link"

\* An active hand has one agent of its name, and through its instance.
HandAgentsSound == OneAgentPerHand /\ AgentsAreReachable
=============================================================================
