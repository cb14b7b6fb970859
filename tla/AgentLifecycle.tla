--------------------------- MODULE AgentLifecycle ---------------------------
(***************************************************************************)
(* The life of agents across the registry (clawreform-kernel/registry.rs),   *)
(* the capability and quota tables, the triggers and the agents table of the *)
(* store: spawn_agent_with_parent, kill_agent, update_name, the handlers that *)
(* save an agent again, shutdown and the restoration at boot (kernel.rs).    *)
(*                                                                           *)
(* None of these take a common lock: each is a sequence of operations on     *)
(* shared maps, and requests, tools and shutdown run them concurrently.      *)
(* Sessions, workspaces, tags, lineage and the agents' channels of the event *)
(* bus are left out, and so is AgentState, which boot overwrites and no step *)
(* here reads.                                                               *)
(***************************************************************************)
EXTENDS Naturals, FiniteSets

CONSTANTS
    Ids,            \* agent identifiers; every spawn draws a new one
    Names,          \* names of agents
    Fold,           \* Fold[n]: n in lower case
    NameOf,         \* NameOf[a]: the name a is spawned with
    NoId, NoName,   \* absent from a map
    Proactive,      \* agents whose manifest has conditions
    Looping,        \* agents whose schedule is continuous or periodic
    Renamed,        \* agents that clients rename
    Updated,        \* agents whose model, skills or servers clients change
    Triggered,      \* agents that clients register triggers for
    Damaged,        \* agents whose rows a boot may be unable to use
    MaxRequests     \* bound on the requests that are served at one time

ASSUME NoIdFresh == NoId \notin Ids
ASSUME NoNameFresh == NoName \notin Names
ASSUME FoldType == DOMAIN Fold = Names
ASSUME NameOfType == NameOf \in [Ids -> Names]
ASSUME BoundType == MaxRequests \in Nat
ASSUME RolesType ==
    Proactive \cup Looping \cup Renamed \cup Updated \cup Triggered \cup Damaged
        \subseteq Ids

VARIABLES
    saved,          \* saved[a]: the name in a's row of the agents table
    agents,         \* the registry: agents
    name,           \*   name[a]: name in the entry of a, in the registry or
                    \*   in the hands of kill_agent
    index,          \*   name_index
    caps,           \* agents with granted capabilities
    quotas,         \* agents with a quota and a usage tracker
    triggers,       \* agents with triggers
    loops,          \* agents with a background loop
    spawn,          \* spawn[a]: progress of the spawn that drew a
    kill,           \* kill[a]: progress of the kill of a
    rename,         \* rename[a]: progress of the renaming of a
    trigger,        \* trigger[a]: progress of register_trigger for a
    copy,           \* copy[s]: the entry that saver s has read and not yet saved
    listed,         \* agents that shutdown has listed and not yet come to
    overlapped,     \* history: two changes of the registry overlapped
    raced,          \* history: being killed with somebody else at work on it
    gone,           \* history: killed with nobody else at work on it, answered,
                    \*   and the row deleted
    undeleted,      \* history: the same since the last boot, but the store
                    \*   failed to delete the row
    unread,         \* history: agents whose rows the last boot could not read
    broken          \* history: agents whose rows the last boot read and could
                    \*   not use

Savers == {"update", "shutdown"}
registry == <<agents, name, index>>
tables == <<caps, quotas, triggers, loops>>
saving == <<copy, listed>>
unloaded == <<undeleted, unread, broken>>
history == <<overlapped, raced, gone, unloaded>>
vars == <<saved, registry, tables, spawn, kill, rename, trigger, saving, history>>

NoRename == [at |-> "idle", from |-> NoName, to |-> NoName]
NoCopy == [id |-> NoId, name |-> NoName]

InSpawn == {"capable", "granted", "checked", "indexed", "inserted", "saved"}
InKill == {"removed", "unindexed", "stopped", "unregistered", "revoked", "stripped"}
InRename == {"checked", "renamed", "unindexed"}

TypeOK ==
    /\ saved \in [Ids -> Names \cup {NoName}]
    /\ agents \subseteq Ids
    /\ name \in [Ids -> Names \cup {NoName}]
    /\ index \in [Names -> Ids \cup {NoId}]
    /\ caps \subseteq Ids /\ quotas \subseteq Ids
    /\ triggers \subseteq Ids /\ loops \subseteq Ids
    /\ spawn \in [Ids -> {"none", "ok", "failed", "lost"} \cup InSpawn]
    /\ kill \in [Ids -> {"idle"} \cup InKill]
    /\ rename \in [Ids -> [at : {"idle"} \cup InRename,
                           from : Names \cup {NoName}, to : Names \cup {NoName}]]
    /\ trigger \in [Ids -> {"idle", "checked"}]
    /\ copy \in [Savers -> [id : Ids \cup {NoId}, name : Names \cup {NoName}]]
    /\ listed \subseteq Ids
    /\ overlapped \in BOOLEAN /\ raced \subseteq Ids /\ gone \subseteq Ids
    /\ undeleted \subseteq Ids /\ unread \subseteq Ids /\ broken \subseteq Ids
    \* An entry has a name, and so has everything that is in the middle of
    \* using one.
    /\ \A a \in Ids :
          /\ a \in agents \/ kill[a] = "removed" <=> name[a] # NoName
          /\ rename[a].at # "idle" => rename[a].to # NoName
          /\ rename[a].at \in {"renamed", "unindexed"} => rename[a].from # NoName
    /\ \A s \in Savers : copy[s].id # NoId => copy[s].name # NoName

Init ==
    /\ saved = [a \in Ids |-> NoName]
    /\ agents = {} /\ caps = {} /\ quotas = {} /\ triggers = {} /\ loops = {}
    /\ name = [a \in Ids |-> NoName]
    /\ index = [n \in Names |-> NoId]
    /\ spawn = [a \in Ids |-> "none"]
    /\ kill = [a \in Ids |-> "idle"]
    /\ rename = [a \in Ids |-> NoRename]
    /\ trigger = [a \in Ids |-> "idle"]
    /\ copy = [s \in Savers |-> NoCopy]
    /\ listed = {} /\ raced = {} /\ gone = {}
    /\ undeleted = {} /\ unread = {} /\ broken = {}
    /\ overlapped = FALSE

\* The requests being served; another one can come.
Requests ==
    {a \in Ids : spawn[a] \in InSpawn} \X {"spawn"}
    \cup {a \in Ids : kill[a] # "idle"} \X {"kill"}
    \cup {a \in Ids : rename[a].at # "idle"} \X {"rename"}
    \cup {a \in Ids : trigger[a] # "idle"} \X {"trigger"}
    \cup (IF copy["update"] = NoCopy THEN {} ELSE {<<copy["update"].id, "update">>})

Room == Cardinality(Requests) < MaxRequests

\* Between the first and the last operation on the two maps of the registry.
Changing ==
    {a \in Ids : \/ spawn[a] \in {"checked", "indexed"}
                 \/ kill[a] = "removed"
                 \/ rename[a].at # "idle"}

\* A change of the registry begins.
ChangeBegins == overlapped' = (overlapped \/ Changing # {})

-----------------------------------------------------------------------------
(* spawn_agent_with_parent *)

SpawnStep(a, from, to) ==
    /\ spawn[a] = from
    /\ spawn' = [spawn EXCEPT ![a] = to]

SpawnUnchanged == UNCHANGED <<kill, rename, trigger, saving>>

\* capabilities.grant, before the name is looked at.
SpawnGrant(a) ==
    /\ Room
    /\ SpawnStep(a, "none", "capable")
    /\ caps' = caps \cup {a}
    /\ UNCHANGED <<saved, registry, quotas, triggers, loops, history>>
    /\ SpawnUnchanged

\* scheduler.register.
SpawnQuota(a) ==
    /\ SpawnStep(a, "capable", "granted")
    /\ quotas' = quotas \cup {a}
    /\ UNCHANGED <<saved, registry, caps, triggers, loops, history>>
    /\ SpawnUnchanged

\* register: the name is taken, and the spawn gives up; what it has granted
\* stays.
SpawnRefused(a) ==
    /\ SpawnStep(a, "granted", "failed")
    /\ index[NameOf[a]] # NoId
    /\ UNCHANGED <<saved, registry, tables, history>>
    /\ SpawnUnchanged

SpawnCheck(a) ==
    /\ SpawnStep(a, "granted", "checked")
    /\ index[NameOf[a]] = NoId
    /\ ChangeBegins
    /\ UNCHANGED <<saved, registry, tables, raced, gone, unloaded>>
    /\ SpawnUnchanged

SpawnIndex(a) ==
    /\ SpawnStep(a, "checked", "indexed")
    /\ index' = [index EXCEPT ![NameOf[a]] = a]
    /\ UNCHANGED <<saved, agents, name, tables, history>>
    /\ SpawnUnchanged

SpawnInsert(a) ==
    /\ SpawnStep(a, "indexed", "inserted")
    /\ agents' = agents \cup {a}
    /\ name' = [name EXCEPT ![a] = NameOf[a]]
    /\ UNCHANGED <<saved, index, tables, history>>
    /\ SpawnUnchanged

\* The entry that was registered is saved, whatever has become of it meanwhile.
SpawnSave(a) ==
    /\ SpawnStep(a, "inserted", "saved")
    /\ saved' = [saved EXCEPT ![a] = NameOf[a]]
    /\ UNCHANGED <<registry, tables, history>>
    /\ SpawnUnchanged

\* A variant that ignores the error, as the other callers of save_agent do.
SpawnSaveIgnored(a) ==
    /\ SpawnStep(a, "inserted", "saved")
    /\ UNCHANGED <<saved, registry, tables, history>>
    /\ SpawnUnchanged

\* The store fails: the caller gets the error, and the agent stays.
SpawnSaveFails(a) ==
    /\ SpawnStep(a, "inserted", "failed")
    /\ UNCHANGED <<saved, registry, tables, history>>
    /\ SpawnUnchanged

SpawnDone(a) ==
    /\ SpawnStep(a, "saved", "ok")
    /\ triggers' = triggers \cup ({a} \cap Proactive)
    /\ UNCHANGED <<saved, registry, caps, quotas, loops, history>>
    /\ SpawnUnchanged

-----------------------------------------------------------------------------
(* kill_agent *)

KillStep(a, from, to) ==
    /\ kill[a] = from
    /\ kill' = [kill EXCEPT ![a] = to]

KillUnchanged == UNCHANGED <<spawn, rename, trigger, saving>>

\* Somebody is between looking at the entry of a and acting on it.
InUse(a) ==
    \/ spawn[a] \in InSpawn
    \/ trigger[a] = "checked"
    \/ \E s \in Savers : copy[s].id = a

\* registry.remove, up to its first operation.
KillRemove(a) ==
    /\ a \in agents /\ Room
    /\ KillStep(a, "idle", "removed")
    /\ agents' = agents \ {a}
    /\ ChangeBegins
    /\ raced' = IF InUse(a) THEN raced \cup {a} ELSE raced
    /\ UNCHANGED <<saved, name, index, tables, gone, unloaded>>
    /\ KillUnchanged

\* The name is freed, whoever it belongs to by now.
KillUnindex(a) ==
    /\ KillStep(a, "removed", "unindexed")
    /\ index' = [index EXCEPT ![name[a]] = NoId]
    /\ name' = [name EXCEPT ![a] = NoName]
    /\ UNCHANGED <<saved, agents, tables, history>>
    /\ KillUnchanged

\* background.stop_agent.
KillStopLoop(a) ==
    /\ KillStep(a, "unindexed", "stopped")
    /\ loops' = loops \ {a}
    /\ UNCHANGED <<saved, registry, caps, quotas, triggers, history>>
    /\ KillUnchanged

\* A variant that leaves the quota behind.
KillUnregisterNothing(a) ==
    /\ KillStep(a, "stopped", "unregistered")
    /\ UNCHANGED <<saved, registry, tables, history>>
    /\ KillUnchanged

\* scheduler.unregister.
KillUnregister(a) ==
    /\ KillStep(a, "stopped", "unregistered")
    /\ quotas' = quotas \ {a}
    /\ UNCHANGED <<saved, registry, caps, triggers, loops, history>>
    /\ KillUnchanged

\* capabilities.revoke_all.
KillRevoke(a) ==
    /\ KillStep(a, "unregistered", "revoked")
    /\ caps' = caps \ {a}
    /\ UNCHANGED <<saved, registry, quotas, triggers, loops, history>>
    /\ KillUnchanged

\* triggers.remove_agent_triggers.
KillTriggers(a) ==
    /\ KillStep(a, "revoked", "stripped")
    /\ triggers' = triggers \ {a}
    /\ UNCHANGED <<saved, registry, caps, quotas, loops, history>>
    /\ KillUnchanged

\* The row is deleted, and the kill answered.
KillRow(a) ==
    /\ KillStep(a, "stripped", "idle")
    /\ saved' = [saved EXCEPT ![a] = NoName]
    /\ gone' = gone \cup ({a} \ raced)
    /\ raced' = raced \ {a}
    /\ UNCHANGED <<registry, tables, overlapped, unloaded>>
    /\ KillUnchanged

\* The store fails, which kill_agent ignores: its caller is answered the same.
KillRowFails(a) ==
    /\ KillStep(a, "stripped", "idle")
    /\ undeleted' = undeleted \cup ({a} \ raced)
    /\ raced' = raced \ {a}
    /\ UNCHANGED <<saved, registry, tables, overlapped, gone, unread, broken>>
    /\ KillUnchanged

-----------------------------------------------------------------------------
(* update_name, which saves nothing *)

RenameStep(a, from, to) ==
    /\ rename[a].at = from
    /\ rename' = [rename EXCEPT ![a] = to]

RenameUnchanged ==
    UNCHANGED <<saved, tables, spawn, kill, trigger, saving, raced, gone, unloaded>>

\* The new name is free.  Whether there is an agent a is looked at later; no
\* client knows an id before it has been in the registry.
RenameCheck(a, n) ==
    /\ a \in Renamed
    /\ spawn[a] \notin {"none", "capable", "granted", "checked", "indexed"}
    /\ index[n] = NoId /\ Room
    /\ RenameStep(a, "idle", [at |-> "checked", from |-> NoName, to |-> n])
    /\ ChangeBegins
    /\ UNCHANGED registry
    /\ RenameUnchanged

RenameNotFound(a) ==
    /\ a \notin agents
    /\ RenameStep(a, "checked", NoRename)
    /\ UNCHANGED <<registry, overlapped>>
    /\ RenameUnchanged

RenameEntry(a) ==
    /\ a \in agents
    /\ RenameStep(a, "checked",
                  [at |-> "renamed", from |-> name[a], to |-> rename[a].to])
    /\ name' = [name EXCEPT ![a] = rename[a].to]
    /\ UNCHANGED <<agents, index, overlapped>>
    /\ RenameUnchanged

\* A variant that leaves the old name in the index.
RenameUnindexNothing(a) ==
    /\ RenameStep(a, "renamed", [rename[a] EXCEPT !.at = "unindexed"])
    /\ UNCHANGED <<registry, overlapped>>
    /\ RenameUnchanged

RenameUnindex(a) ==
    /\ RenameStep(a, "renamed", [rename[a] EXCEPT !.at = "unindexed"])
    /\ index' = [index EXCEPT ![rename[a].from] = NoId]
    /\ UNCHANGED <<agents, name, overlapped>>
    /\ RenameUnchanged

RenameIndex(a) ==
    /\ RenameStep(a, "unindexed", NoRename)
    /\ index' = [index EXCEPT ![rename[a].to] = a]
    /\ UNCHANGED <<agents, name, overlapped>>
    /\ RenameUnchanged

-----------------------------------------------------------------------------
(* register_trigger: the agent is looked up, then the trigger registered *)

TriggerStep(a, from, to) ==
    /\ trigger[a] = from
    /\ trigger' = [trigger EXCEPT ![a] = to]
    /\ UNCHANGED <<saved, registry, caps, quotas, loops, spawn, kill, rename,
                   saving, history>>

TriggerCheck(a) ==
    /\ a \in agents \cap Triggered /\ Room
    /\ TriggerStep(a, "idle", "checked")
    /\ UNCHANGED triggers

TriggerRegister(a) ==
    /\ TriggerStep(a, "checked", "idle")
    /\ triggers' = triggers \cup {a}

-----------------------------------------------------------------------------
(* Handlers that read an entry and save it: a client's change, and shutdown *)

SaverUnchanged == UNCHANGED <<registry, tables, spawn, kill, rename, trigger, history>>

Read(s, a) ==
    /\ copy[s] = NoCopy
    /\ a \in agents
    /\ copy' = [copy EXCEPT ![s] = [id |-> a, name |-> name[a]]]
    /\ UNCHANGED saved
    /\ SaverUnchanged

\* set_agent_model, set_agent_skills, set_agent_mcp_servers: the change is made
\* in the registry, and the entry read again for saving.
UpdateRead(a) ==
    /\ a \in Updated /\ Room
    /\ Read("update", a)
    /\ UNCHANGED listed

\* shutdown can be called again while, or after, it runs.
ShutdownList ==
    /\ listed = {} /\ copy["shutdown"] = NoCopy
    /\ agents # {}
    /\ listed' = agents
    /\ UNCHANGED <<saved, copy>>
    /\ SaverUnchanged

\* A variant that saves the entries as they were listed.
ShutdownReadListed(a) ==
    /\ a \in listed
    /\ copy["shutdown"] = NoCopy
    /\ listed' = listed \ {a}
    /\ copy' = [copy EXCEPT !["shutdown"] = [id |-> a, name |-> NameOf[a]]]
    /\ UNCHANGED saved
    /\ SaverUnchanged

ShutdownRead(a) ==
    /\ a \in listed
    /\ listed' = listed \ {a}
    /\ Read("shutdown", a)

\* Killed since it was listed.
ShutdownSkip(a) ==
    /\ a \in listed \ agents
    /\ copy["shutdown"] = NoCopy
    /\ listed' = listed \ {a}
    /\ UNCHANGED <<saved, copy>>
    /\ SaverUnchanged

\* save_agent inserts the row or updates it; nobody hears of a failure.
Save(s) ==
    /\ copy[s] # NoCopy
    /\ copy' = [copy EXCEPT ![s] = NoCopy]
    /\ \/ saved' = [saved EXCEPT ![copy[s].id] = copy[s].name]
       \/ UNCHANGED saved
    /\ UNCHANGED listed
    /\ SaverUnchanged

-----------------------------------------------------------------------------
(* The process ends, by shutdown or by a crash, and another one boots *)

Saved == {a \in Ids : saved[a] # NoName}
Alike(a, b) == Fold[saved[a]] = Fold[saved[b]]

\* The first row of every name among rows, compared in lower case; the order of
\* the rows is the store's.
Firsts(rows) ==
    {first \in SUBSET rows :
        /\ \A a \in rows : \E b \in first : Alike(a, b)
        /\ \A a, b \in first : Alike(a, b) => a = b}

\* load_all_agents: a row that cannot be read is skipped, and so is one whose
\* id, manifest or state makes no sense, but not before its name is taken.
Loaded(skipped, senseless) == {first \ senseless : first \in Firsts(Saved \ skipped)}

\* start_background_agents starts loops and registers triggers before requests
\* are served.
Boot(kept, skipped, senseless) ==
    /\ agents' = kept
    /\ name' = [a \in Ids |-> IF a \in kept THEN saved[a] ELSE NoName]
    /\ index' = [n \in Names |-> IF \E a \in kept : saved[a] = n
                                 THEN CHOOSE a \in kept : saved[a] = n ELSE NoId]
    /\ caps' = kept
    /\ quotas' = kept
    /\ triggers' = kept \cap Proactive
    /\ loops' = kept \cap Looping
    /\ spawn' = [a \in Ids |-> IF spawn[a] \in {"none", "ok"} THEN spawn[a] ELSE "lost"]
    /\ kill' = [a \in Ids |-> "idle"]
    /\ rename' = [a \in Ids |-> NoRename]
    /\ trigger' = [a \in Ids |-> "idle"]
    /\ copy' = [s \in Savers |-> NoCopy]
    /\ listed' = {}
    /\ overlapped' = FALSE /\ raced' = {}
    /\ undeleted' = {}
    /\ unread' = skipped
    /\ broken' = senseless
    /\ UNCHANGED <<saved, gone>>

Restart ==
    \E skipped, senseless \in SUBSET (Saved \cap Damaged) :
        \E kept \in Loaded(skipped, senseless) : Boot(kept, skipped, senseless \ skipped)

\* load_all_agents fails as a whole, which the boot survives, without agents.
RestartUnloaded == Boot({}, Saved, {})

Spawn(a) ==
    \/ SpawnGrant(a)
    \/ SpawnQuota(a)
    \/ SpawnRefused(a)
    \/ SpawnCheck(a)
    \/ SpawnIndex(a)
    \/ SpawnInsert(a)
    \/ SpawnSave(a)
    \/ SpawnSaveFails(a)
    \/ SpawnDone(a)

Kill(a) ==
    \/ KillRemove(a)
    \/ KillUnindex(a)
    \/ KillStopLoop(a)
    \/ KillUnregister(a)
    \/ KillRevoke(a)
    \/ KillTriggers(a)
    \/ KillRow(a)
    \/ KillRowFails(a)

Rename(a) ==
    \/ \E n \in Names : RenameCheck(a, n)
    \/ RenameNotFound(a)
    \/ RenameEntry(a)
    \/ RenameUnindex(a)
    \/ RenameIndex(a)

Next ==
    \/ \E a \in Ids : Spawn(a) \/ Kill(a) \/ Rename(a)
    \/ \E a \in Ids : TriggerCheck(a) \/ TriggerRegister(a)
    \/ \E a \in Ids : UpdateRead(a) \/ ShutdownRead(a) \/ ShutdownSkip(a)
    \/ ShutdownList
    \/ \E s \in Savers : Save(s)
    \/ Restart
    \/ RestartUnloaded

Spec == Init /\ [][Next]_vars

-----------------------------------------------------------------------------
(* Properties *)

\* Whatever is spawned, killed and restored besides, an agent has capabilities
\* and a quota from before it is in the registry until after it has left it, so
\* that nobody who finds it there meets an agent without a quota, which
\* check_quota would take for no limit.  Its spawn grants the capabilities
\* before the quota and its kill takes the quota before the capabilities; but
\* for these two moments, only failed spawns leave either behind
\* (spawn_agent_with_parent, kill_agent, boot_with_config).
GrantsMatchRegistry ==
    \A a \in Ids :
        LET listedOrClose == \/ a \in agents
                             \/ kill[a] \in {"removed", "unindexed", "stopped"}
                             \/ spawn[a] \in {"granted", "checked", "indexed"}
        IN  /\ listedOrClose => a \in caps \cap quotas
            /\ a \in quotas => listedOrClose \/ spawn[a] = "failed"
            /\ a \in caps => \/ a \in quotas
                             \/ spawn[a] = "capable"
                             \/ kill[a] = "unregistered"

\* As long as no two changes of the registry overlap, names are unique and the
\* name index is the inverse of the names, renamed, killed, refused and restored
\* agents included (AgentRegistry).
IndexExact ==
    ~overlapped /\ Changing = {} =>
        \A n \in Names, a \in Ids : index[n] = a <=> a \in agents /\ name[a] = n

\* An agent that was killed while nobody else was in the middle of something
\* with it is gone once the kill is answered: for good, from the store, from
\* every table and over every restart, if the store deleted its row; until the
\* next boot, from everything but the store, if the store failed, which
\* kill_agent does not tell (kill_agent, boot_with_config).  An agent that
\* somebody was saving, spawning or giving a trigger when it was killed (raced)
\* may come back, and nothing is said of it.
GoneForGood ==
    \A a \in gone \cup undeleted :
        /\ a \notin agents \cup caps \cup quotas \cup triggers \cup loops
        /\ a \in gone => saved[a] = NoName

\* An agent whose spawn was answered leaves the registry only by being killed,
\* or in a restart that could not use its row, or that took another row whose
\* name is the same in lower case, one that could not be used included
\* (spawn_agent_with_parent, load_all_agents).  No restart fails to restore an
\* agent because of what else went on when the last process ended.
RestartKeepsAgents ==
    [][\A a \in agents \ agents' :
          spawn[a] = "ok" =>
              \/ kill'[a] # "idle"
              \/ a \in unread' \cup broken'
              \/ \E b \in (agents' \cup broken') \ {a} : {a, b} \subseteq Saved /\ Alike(a, b)]_vars

=============================================================================
