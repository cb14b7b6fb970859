----------------------- MODULE AgentLifecycle_proofs -----------------------
(* Theorems about AgentLifecycle for every set of agents and names and every *)
(* number of concurrent requests.                                            *)
EXTENDS AgentLifecycle, TLAPS

\* Before it is in the registry nobody but its spawn knows an agent.
Early == {"none", "capable", "granted", "checked", "indexed"}

KnownInv ==
    \A a \in Ids :
        /\ spawn[a] \in Early =>
              /\ a \notin agents /\ kill[a] = "idle" /\ saved[a] = NoName
              /\ \A s \in Savers : copy[s].id # a
        /\ kill[a] # "idle" => a \notin agents

LifeInv == TypeOK /\ KnownInv

\* Nobody but a kill is in the middle of something with a.
Quiet(a) ==
    /\ spawn[a] \notin InSpawn
    /\ trigger[a] = "idle"
    /\ \A s \in Savers : copy[s].id # a

Stripped(a) == a \notin caps \cup quotas \cup triggers \cup loops

\* An agent that is killed while nobody else is at work on it stays alone, and
\* what the kill has removed stays removed.
GoneInv ==
    \A a \in Ids :
        /\ kill[a] # "idle" /\ a \notin raced => Quiet(a)
        /\ kill[a] \in {"stopped", "unregistered", "revoked", "stripped"} => a \notin loops
        /\ kill[a] \in {"unregistered", "revoked", "stripped"} => a \notin quotas
        /\ kill[a] \in {"revoked", "stripped"} => a \notin caps
        /\ kill[a] = "stripped" /\ a \notin raced => a \notin triggers
        /\ a \in gone \cup undeleted =>
              /\ Quiet(a) /\ Stripped(a) /\ spawn[a] \notin Early
              /\ kill[a] = "idle" /\ a \notin agents
        /\ a \in gone => saved[a] = NoName

(* A boot restores agents that have rows, no two of them with one name, and  *)
(* does not invent rows that it could not use (load_all_agents).             *)
LEMMA Restarts ==
    ASSUME Restart \/ RestartUnloaded
    PROVE  \E kept, skipped, senseless \in SUBSET Saved :
              /\ Boot(kept, skipped, senseless)
              /\ \A a, b \in kept : Alike(a, b) => a = b
              /\ \A a \in Saved : \/ a \in skipped \cup senseless
                                  \/ \E b \in kept \cup senseless : Alike(a, b)
<1>1. CASE Restart
  <2>0. PICK skipped \in SUBSET (Saved \cap Damaged), unusable \in SUBSET (Saved \cap Damaged) :
                \E kept \in Loaded(skipped, unusable) : Boot(kept, skipped, unusable \ skipped)
    BY <1>1 DEF Restart
  <2>1. PICK kept \in Loaded(skipped, unusable) : Boot(kept, skipped, unusable \ skipped)
    BY <2>0
  <2>2. PICK first \in Firsts(Saved \ skipped) : kept = first \ unusable
    BY DEF Loaded
  <2>3. /\ first \subseteq Saved \ skipped
        /\ \A a \in Saved \ skipped : \E b \in first : Alike(a, b)
        /\ \A a, b \in first : Alike(a, b) => a = b
    BY DEF Firsts
  <2> DEFINE senseless == unusable \ skipped
  <2>4. kept \in SUBSET Saved /\ skipped \in SUBSET Saved /\ senseless \in SUBSET Saved
    BY <2>2, <2>3
  <2>5. first \subseteq kept \cup senseless
    BY <2>2, <2>3
  <2>6. Boot(kept, skipped, senseless)
    BY <2>1
  <2>7. \A a, b \in kept : Alike(a, b) => a = b
    BY <2>2, <2>3
  <2>8. \A a \in Saved : \/ a \in skipped \cup senseless
                         \/ \E b \in kept \cup senseless : Alike(a, b)
    BY <2>3, <2>5
  <2> HIDE DEF senseless
  <2>9. QED
    BY <2>4, <2>6, <2>7, <2>8
<1>2. CASE RestartUnloaded
  BY <1>2 DEF RestartUnloaded
<1>3. QED
  BY <1>1, <1>2

-----------------------------------------------------------------------------
(* Types, and agents before, in and after the registry *)

LEMMA TypeInit == Init => TypeOK
<1> SUFFICES ASSUME Init PROVE TypeOK
  OBVIOUS
<1>1. /\ NoRename \in [at : {"idle"} \cup InRename,
                       from : Names \cup {NoName}, to : Names \cup {NoName}]
      /\ NoRename.at = "idle"
  BY DEF NoRename
<1>2. rename \in [Ids -> [at : {"idle"} \cup InRename,
                         from : Names \cup {NoName}, to : Names \cup {NoName}]]
      /\ \A a \in Ids : rename[a].at = "idle"
  BY <1>1 DEF Init
<1>3. NoCopy \in [id : Ids \cup {NoId}, name : Names \cup {NoName}] /\ NoCopy.id = NoId
  BY DEF NoCopy
<1>4. copy \in [Savers -> [id : Ids \cup {NoId}, name : Names \cup {NoName}]]
      /\ \A s \in Savers : copy[s].id = NoId
  BY <1>3 DEF Init
<1>5. QED
  BY <1>2, <1>4 DEF Init, TypeOK

\* An entry that is read has a name.
LEMMA ReadType ==
    ASSUME TypeOK, NEW s \in Savers, NEW a \in Ids, Read(s, a), listed' \subseteq Ids
    PROVE  TypeOK'
<1> DEFINE Copy == [id : Ids \cup {NoId}, name : Names \cup {NoName}]
           entry == [id |-> a, name |-> name[a]]
<1>1. entry \in Copy /\ entry.name # NoName
  BY DEF Read, TypeOK
<1>2. copy' = [copy EXCEPT ![s] = entry]
  BY DEF Read
<1>3. copy' \in [Savers -> Copy]
      /\ \A x \in Savers : copy'[x].id # NoId => copy'[x].name # NoName
  BY <1>1, <1>2 DEF TypeOK
<1>4. QED
  BY <1>3 DEF TypeOK, Read, SaverUnchanged, registry, tables, history, unloaded

LEMMA TypeStep == LifeInv /\ [Next]_vars => TypeOK'
<1> SUFFICES ASSUME LifeInv, [Next]_vars PROVE TypeOK'
  OBVIOUS
<1> USE DEF LifeInv, KnownInv, TypeOK, InSpawn, InKill, InRename, registry, tables, saving, history, unloaded,
          SpawnStep, SpawnUnchanged, KillStep, KillUnchanged, RenameStep,
          RenameUnchanged, TriggerStep, SaverUnchanged, Read, ChangeBegins
<1>1. ASSUME NEW a \in Ids, SpawnGrant(a) PROVE TypeOK'
  BY <1>1 DEF SpawnGrant
<1>2. ASSUME NEW a \in Ids, SpawnQuota(a) PROVE TypeOK'
  BY <1>2 DEF SpawnQuota
<1>3. ASSUME NEW a \in Ids, SpawnRefused(a) PROVE TypeOK'
  BY <1>3 DEF SpawnRefused
<1>4. ASSUME NEW a \in Ids, SpawnCheck(a) PROVE TypeOK'
  BY <1>4 DEF SpawnCheck
<1>5. ASSUME NEW a \in Ids, SpawnIndex(a) PROVE TypeOK'
  BY <1>5, NameOfType DEF SpawnIndex
<1>6. ASSUME NEW a \in Ids, SpawnInsert(a) PROVE TypeOK'
  <2>1. NameOf[a] \in Names /\ NameOf[a] # NoName
    BY NameOfType, NoNameFresh
  <2>2. \A b \in Ids : name'[b] = IF b = a THEN NameOf[a] ELSE name[b]
    BY <1>6 DEF SpawnInsert
  <2>3. \A b \in Ids : b \in agents' \/ kill'[b] = "removed" <=> name'[b] # NoName
    BY <1>6, <2>1, <2>2 DEF SpawnInsert
  <2>4. name' \in [Ids -> Names \cup {NoName}] /\ agents' \subseteq Ids
    BY <1>6, <2>1 DEF SpawnInsert
  <2>5. spawn' \in [Ids -> {"none", "ok", "failed", "lost"} \cup InSpawn]
    BY <1>6 DEF SpawnInsert
  <2>6. QED
    BY <1>6, <2>3, <2>4, <2>5 DEF SpawnInsert
<1>7. ASSUME NEW a \in Ids, SpawnSave(a) PROVE TypeOK'
  BY <1>7, NameOfType DEF SpawnSave
<1>8. ASSUME NEW a \in Ids, SpawnSaveFails(a) PROVE TypeOK'
  BY <1>8 DEF SpawnSaveFails
<1>9. ASSUME NEW a \in Ids, SpawnDone(a) PROVE TypeOK'
  BY <1>9 DEF SpawnDone
<1>10. ASSUME NEW a \in Ids, KillRemove(a) PROVE TypeOK'
  BY <1>10 DEF KillRemove
<1>11. ASSUME NEW a \in Ids, KillUnindex(a) PROVE TypeOK'
  BY <1>11 DEF KillUnindex
<1>12. ASSUME NEW a \in Ids, KillStopLoop(a) PROVE TypeOK'
  BY <1>12 DEF KillStopLoop
<1>13. ASSUME NEW a \in Ids, KillUnregister(a) PROVE TypeOK'
  BY <1>13 DEF KillUnregister
<1>14. ASSUME NEW a \in Ids, KillRevoke(a) PROVE TypeOK'
  BY <1>14 DEF KillRevoke
<1>15. ASSUME NEW a \in Ids, KillTriggers(a) PROVE TypeOK'
  BY <1>15 DEF KillTriggers
<1>16. ASSUME NEW a \in Ids, KillRow(a) PROVE TypeOK'
  BY <1>16 DEF KillRow
<1>17. ASSUME NEW a \in Ids, KillRowFails(a) PROVE TypeOK'
  BY <1>17 DEF KillRowFails
<1>18. ASSUME NEW a \in Ids, NEW n \in Names, RenameCheck(a, n) PROVE TypeOK'
  BY <1>18, NoNameFresh DEF RenameCheck, NoRename
<1>19. ASSUME NEW a \in Ids, RenameNotFound(a) PROVE TypeOK'
  BY <1>19 DEF RenameNotFound, NoRename
<1>20. ASSUME NEW a \in Ids, RenameEntry(a) PROVE TypeOK'
  BY <1>20 DEF RenameEntry
<1>21. ASSUME NEW a \in Ids, RenameUnindex(a) PROVE TypeOK'
  BY <1>21 DEF RenameUnindex
<1>22. ASSUME NEW a \in Ids, RenameIndex(a) PROVE TypeOK'
  BY <1>22 DEF RenameIndex, NoRename
<1>23. ASSUME NEW a \in Ids, TriggerCheck(a) PROVE TypeOK'
  BY <1>23 DEF TriggerCheck
<1>24. ASSUME NEW a \in Ids, TriggerRegister(a) PROVE TypeOK'
  BY <1>24 DEF TriggerRegister
<1>25. ASSUME NEW a \in Ids, UpdateRead(a) PROVE TypeOK'
  BY <1>25, ReadType DEF UpdateRead, Savers
<1>26. ASSUME NEW a \in Ids, ShutdownRead(a) PROVE TypeOK'
  BY <1>26, ReadType DEF ShutdownRead, Savers
<1>27. ASSUME NEW a \in Ids, ShutdownSkip(a) PROVE TypeOK'
  BY <1>27 DEF ShutdownSkip
<1>28. ASSUME ShutdownList PROVE TypeOK'
  BY <1>28 DEF ShutdownList
<1>29. ASSUME NEW s \in Savers, Save(s) PROVE TypeOK'
  BY <1>29, NoIdFresh DEF Save, NoCopy
<1>30. ASSUME NEW kept \in SUBSET Saved, NEW skipped \in SUBSET Saved,
             NEW senseless \in SUBSET Saved, Boot(kept, skipped, senseless)
       PROVE  TypeOK'
  BY <1>30 DEF Boot, Saved, NoRename, NoCopy
<1>31. CASE UNCHANGED vars
  BY <1>31 DEF vars
<1>32. QED
  BY <1>1, <1>2, <1>3, <1>4, <1>5, <1>6, <1>7, <1>8, <1>9, <1>10, <1>11, <1>12,
     <1>13, <1>14, <1>15, <1>16, <1>17, <1>18, <1>19, <1>20, <1>21, <1>22, <1>23, <1>24,
     <1>25, <1>26, <1>27, <1>28, <1>29, <1>30, <1>31, Restarts
  DEF Next, Spawn, Kill, Rename

LEMMA KnownInit == Init => KnownInv
BY NoIdFresh DEF Init, KnownInv, NoCopy, Early

LEMMA KnownStep == LifeInv /\ [Next]_vars => KnownInv'
<1> SUFFICES ASSUME LifeInv, [Next]_vars PROVE KnownInv'
  OBVIOUS
<1> USE DEF LifeInv, KnownInv, TypeOK, InSpawn, InKill, Early, registry, tables, saving, history, unloaded,
          SpawnStep, SpawnUnchanged, KillStep, KillUnchanged, RenameStep,
          RenameUnchanged, TriggerStep, SaverUnchanged, Read
<1>1. ASSUME NEW a \in Ids, SpawnGrant(a) PROVE KnownInv'
  BY <1>1 DEF SpawnGrant
<1>2. ASSUME NEW a \in Ids, SpawnQuota(a) PROVE KnownInv'
  BY <1>2 DEF SpawnQuota
<1>3. ASSUME NEW a \in Ids, SpawnRefused(a) PROVE KnownInv'
  BY <1>3 DEF SpawnRefused
<1>4. ASSUME NEW a \in Ids, SpawnCheck(a) PROVE KnownInv'
  BY <1>4 DEF SpawnCheck
<1>5. ASSUME NEW a \in Ids, SpawnIndex(a) PROVE KnownInv'
  BY <1>5 DEF SpawnIndex
<1>6. ASSUME NEW a \in Ids, SpawnInsert(a) PROVE KnownInv'
  BY <1>6 DEF SpawnInsert
<1>7. ASSUME NEW a \in Ids, SpawnSave(a) PROVE KnownInv'
  BY <1>7 DEF SpawnSave
<1>8. ASSUME NEW a \in Ids, SpawnSaveFails(a) PROVE KnownInv'
  BY <1>8 DEF SpawnSaveFails
<1>9. ASSUME NEW a \in Ids, SpawnDone(a) PROVE KnownInv'
  BY <1>9 DEF SpawnDone
<1>10. ASSUME NEW a \in Ids, KillRemove(a) PROVE KnownInv'
  BY <1>10 DEF KillRemove
<1>11. ASSUME NEW a \in Ids, KillUnindex(a) PROVE KnownInv'
  BY <1>11 DEF KillUnindex
<1>12. ASSUME NEW a \in Ids, KillStopLoop(a) PROVE KnownInv'
  BY <1>12 DEF KillStopLoop
<1>13. ASSUME NEW a \in Ids, KillUnregister(a) PROVE KnownInv'
  BY <1>13 DEF KillUnregister
<1>14. ASSUME NEW a \in Ids, KillRevoke(a) PROVE KnownInv'
  BY <1>14 DEF KillRevoke
<1>15. ASSUME NEW a \in Ids, KillTriggers(a) PROVE KnownInv'
  BY <1>15 DEF KillTriggers
<1>16. ASSUME NEW a \in Ids, KillRow(a) PROVE KnownInv'
  BY <1>16 DEF KillRow
<1>17. ASSUME NEW a \in Ids, KillRowFails(a) PROVE KnownInv'
  BY <1>17 DEF KillRowFails
<1>18. ASSUME NEW a \in Ids, NEW n \in Names, RenameCheck(a, n) PROVE KnownInv'
  BY <1>18 DEF RenameCheck
<1>19. ASSUME NEW a \in Ids, RenameNotFound(a) PROVE KnownInv'
  BY <1>19 DEF RenameNotFound
<1>20. ASSUME NEW a \in Ids, RenameEntry(a) PROVE KnownInv'
  BY <1>20 DEF RenameEntry
<1>21. ASSUME NEW a \in Ids, RenameUnindex(a) PROVE KnownInv'
  BY <1>21 DEF RenameUnindex
<1>22. ASSUME NEW a \in Ids, RenameIndex(a) PROVE KnownInv'
  BY <1>22 DEF RenameIndex
<1>23. ASSUME NEW a \in Ids, TriggerCheck(a) PROVE KnownInv'
  BY <1>23 DEF TriggerCheck
<1>24. ASSUME NEW a \in Ids, TriggerRegister(a) PROVE KnownInv'
  BY <1>24 DEF TriggerRegister
<1>25. ASSUME NEW a \in Ids, UpdateRead(a) PROVE KnownInv'
  BY <1>25 DEF UpdateRead
<1>26. ASSUME NEW a \in Ids, ShutdownRead(a) PROVE KnownInv'
  BY <1>26 DEF ShutdownRead
<1>27. ASSUME NEW a \in Ids, ShutdownSkip(a) PROVE KnownInv'
  BY <1>27 DEF ShutdownSkip
<1>28. ASSUME ShutdownList PROVE KnownInv'
  BY <1>28 DEF ShutdownList
<1>29. ASSUME NEW s \in Savers, Save(s) PROVE KnownInv'
  BY <1>29, NoIdFresh DEF Save, NoCopy
<1>30. ASSUME NEW kept \in SUBSET Saved, NEW skipped \in SUBSET Saved,
             NEW senseless \in SUBSET Saved, Boot(kept, skipped, senseless)
       PROVE  KnownInv'
  BY <1>30, NoIdFresh DEF Boot, Saved, NoCopy
<1>31. CASE UNCHANGED vars
  BY <1>31 DEF vars
<1>32. QED
  BY <1>1, <1>2, <1>3, <1>4, <1>5, <1>6, <1>7, <1>8, <1>9, <1>10, <1>11, <1>12,
     <1>13, <1>14, <1>15, <1>16, <1>17, <1>18, <1>19, <1>20, <1>21, <1>22, <1>23, <1>24,
     <1>25, <1>26, <1>27, <1>28, <1>29, <1>30, <1>31, Restarts
  DEF Next, Spawn, Kill, Rename

THEOREM LifeInvariant == Spec => []LifeInv
<1>1. Init => LifeInv
  BY TypeInit, KnownInit DEF LifeInv
<1>2. LifeInv /\ [Next]_vars => LifeInv'
  BY TypeStep, KnownStep DEF LifeInv
<1>3. QED
  BY <1>1, <1>2, PTL DEF Spec

(* Every variable of the life cycle has its type, and every name that        *)
(* something is in the middle of using exists (registry.rs, kernel.rs).      *)
THEOREM LifecycleTypeCorrect == Spec => []TypeOK
<1>1. LifeInv => TypeOK
  BY DEF LifeInv
<1>2. QED
  BY <1>1, LifeInvariant, PTL

-----------------------------------------------------------------------------
(* Grants *)

\* A spawn that has granted capabilities has them.
GrantInv ==
    /\ GrantsMatchRegistry
    /\ \A a \in Ids : spawn[a] = "capable" => a \in caps

LEMMA GrantStep == LifeInv /\ GrantInv /\ [Next]_vars => GrantInv'
<1> SUFFICES ASSUME LifeInv /\ GrantInv, [Next]_vars PROVE GrantInv'
  OBVIOUS
<1> USE DEF LifeInv, KnownInv, TypeOK, GrantInv, GrantsMatchRegistry, InSpawn, InKill, Early,
          registry, tables, saving, history, unloaded, SpawnStep, SpawnUnchanged, KillStep, KillUnchanged,
          RenameStep, RenameUnchanged, TriggerStep, SaverUnchanged, Read
<1>1. ASSUME NEW a \in Ids, SpawnGrant(a) PROVE GrantInv'
  BY <1>1 DEF SpawnGrant
<1>2. ASSUME NEW a \in Ids, SpawnQuota(a) PROVE GrantInv'
  BY <1>2 DEF SpawnQuota
<1>3. ASSUME NEW a \in Ids, SpawnRefused(a) PROVE GrantInv'
  BY <1>3 DEF SpawnRefused
<1>4. ASSUME NEW a \in Ids, SpawnCheck(a) PROVE GrantInv'
  BY <1>4 DEF SpawnCheck
<1>5. ASSUME NEW a \in Ids, SpawnIndex(a) PROVE GrantInv'
  BY <1>5 DEF SpawnIndex
<1>6. ASSUME NEW a \in Ids, SpawnInsert(a) PROVE GrantInv'
  BY <1>6 DEF SpawnInsert
<1>7. ASSUME NEW a \in Ids, SpawnSave(a) PROVE GrantInv'
  BY <1>7 DEF SpawnSave
<1>8. ASSUME NEW a \in Ids, SpawnSaveFails(a) PROVE GrantInv'
  BY <1>8 DEF SpawnSaveFails
<1>9. ASSUME NEW a \in Ids, SpawnDone(a) PROVE GrantInv'
  BY <1>9 DEF SpawnDone
<1>10. ASSUME NEW a \in Ids, KillRemove(a) PROVE GrantInv'
  BY <1>10 DEF KillRemove
<1>11. ASSUME NEW a \in Ids, KillUnindex(a) PROVE GrantInv'
  BY <1>11 DEF KillUnindex
<1>12. ASSUME NEW a \in Ids, KillStopLoop(a) PROVE GrantInv'
  BY <1>12 DEF KillStopLoop
<1>13. ASSUME NEW a \in Ids, KillUnregister(a) PROVE GrantInv'
  BY <1>13 DEF KillUnregister
<1>14. ASSUME NEW a \in Ids, KillRevoke(a) PROVE GrantInv'
  BY <1>14 DEF KillRevoke
<1>15. ASSUME NEW a \in Ids, KillTriggers(a) PROVE GrantInv'
  BY <1>15 DEF KillTriggers
<1>16. ASSUME NEW a \in Ids, KillRow(a) PROVE GrantInv'
  BY <1>16 DEF KillRow
<1>17. ASSUME NEW a \in Ids, KillRowFails(a) PROVE GrantInv'
  BY <1>17 DEF KillRowFails
<1>18. ASSUME NEW a \in Ids, NEW n \in Names, RenameCheck(a, n) PROVE GrantInv'
  BY <1>18 DEF RenameCheck
<1>19. ASSUME NEW a \in Ids, RenameNotFound(a) PROVE GrantInv'
  BY <1>19 DEF RenameNotFound
<1>20. ASSUME NEW a \in Ids, RenameEntry(a) PROVE GrantInv'
  BY <1>20 DEF RenameEntry
<1>21. ASSUME NEW a \in Ids, RenameUnindex(a) PROVE GrantInv'
  BY <1>21 DEF RenameUnindex
<1>22. ASSUME NEW a \in Ids, RenameIndex(a) PROVE GrantInv'
  BY <1>22 DEF RenameIndex
<1>23. ASSUME NEW a \in Ids, TriggerCheck(a) PROVE GrantInv'
  BY <1>23 DEF TriggerCheck
<1>24. ASSUME NEW a \in Ids, TriggerRegister(a) PROVE GrantInv'
  BY <1>24 DEF TriggerRegister
<1>25. ASSUME NEW a \in Ids, UpdateRead(a) PROVE GrantInv'
  BY <1>25 DEF UpdateRead
<1>26. ASSUME NEW a \in Ids, ShutdownRead(a) PROVE GrantInv'
  BY <1>26 DEF ShutdownRead
<1>27. ASSUME NEW a \in Ids, ShutdownSkip(a) PROVE GrantInv'
  BY <1>27 DEF ShutdownSkip
<1>28. ASSUME ShutdownList PROVE GrantInv'
  BY <1>28 DEF ShutdownList
<1>29. ASSUME NEW s \in Savers, Save(s) PROVE GrantInv'
  BY <1>29 DEF Save
<1>30. ASSUME NEW kept \in SUBSET Saved, NEW skipped \in SUBSET Saved,
             NEW senseless \in SUBSET Saved, Boot(kept, skipped, senseless)
       PROVE  GrantInv'
  BY <1>30 DEF Boot, Saved
<1>31. CASE UNCHANGED vars
  BY <1>31 DEF vars
<1>32. QED
  BY <1>1, <1>2, <1>3, <1>4, <1>5, <1>6, <1>7, <1>8, <1>9, <1>10, <1>11, <1>12,
     <1>13, <1>14, <1>15, <1>16, <1>17, <1>18, <1>19, <1>20, <1>21, <1>22, <1>23, <1>24,
     <1>25, <1>26, <1>27, <1>28, <1>29, <1>30, <1>31, Restarts
  DEF Next, Spawn, Kill, Rename

(* Whatever is spawned, killed and restored besides, an agent has             *)
(* capabilities and a quota from before it is in the registry until after it *)
(* has left it, and neither of them otherwise but next to these moments or   *)
(* after a failed spawn (spawn_agent_with_parent, kill_agent,                *)
(* boot_with_config).                                                        *)
THEOREM GrantTheorem == Spec => []GrantsMatchRegistry
<1>1. Init => GrantInv
  BY DEF Init, GrantInv, GrantsMatchRegistry
<1>2. GrantInv => GrantsMatchRegistry
  BY DEF GrantInv
<1>3. QED
  BY <1>1, <1>2, GrantStep, LifeInvariant, PTL DEF Spec

-----------------------------------------------------------------------------
(* Killed agents *)

LEMMA GoneStep == LifeInv /\ GoneInv /\ [Next]_vars => GoneInv'
<1> SUFFICES ASSUME LifeInv /\ GoneInv, [Next]_vars PROVE GoneInv'
  OBVIOUS
<1> USE DEF LifeInv, KnownInv, TypeOK, GoneInv, Quiet, Stripped, InSpawn, InKill, Early,
          registry, tables, saving, history, unloaded, SpawnStep, SpawnUnchanged, KillStep, KillUnchanged,
          RenameStep, RenameUnchanged, TriggerStep, SaverUnchanged, Read
<1>1. ASSUME NEW a \in Ids, SpawnGrant(a) PROVE GoneInv'
  BY <1>1 DEF SpawnGrant
<1>2. ASSUME NEW a \in Ids, SpawnQuota(a) PROVE GoneInv'
  BY <1>2 DEF SpawnQuota
<1>3. ASSUME NEW a \in Ids, SpawnRefused(a) PROVE GoneInv'
  BY <1>3 DEF SpawnRefused
<1>4. ASSUME NEW a \in Ids, SpawnCheck(a) PROVE GoneInv'
  BY <1>4 DEF SpawnCheck
<1>5. ASSUME NEW a \in Ids, SpawnIndex(a) PROVE GoneInv'
  BY <1>5 DEF SpawnIndex
<1>6. ASSUME NEW a \in Ids, SpawnInsert(a) PROVE GoneInv'
  BY <1>6 DEF SpawnInsert
<1>7. ASSUME NEW a \in Ids, SpawnSave(a) PROVE GoneInv'
  BY <1>7 DEF SpawnSave
<1>8. ASSUME NEW a \in Ids, SpawnSaveFails(a) PROVE GoneInv'
  BY <1>8 DEF SpawnSaveFails
<1>9. ASSUME NEW a \in Ids, SpawnDone(a) PROVE GoneInv'
  BY <1>9 DEF SpawnDone
<1>10. ASSUME NEW a \in Ids, KillRemove(a) PROVE GoneInv'
  BY <1>10 DEF KillRemove, InUse
<1>11. ASSUME NEW a \in Ids, KillUnindex(a) PROVE GoneInv'
  BY <1>11 DEF KillUnindex
<1>12. ASSUME NEW a \in Ids, KillStopLoop(a) PROVE GoneInv'
  BY <1>12 DEF KillStopLoop
<1>13. ASSUME NEW a \in Ids, KillUnregister(a) PROVE GoneInv'
  BY <1>13 DEF KillUnregister
<1>14. ASSUME NEW a \in Ids, KillRevoke(a) PROVE GoneInv'
  BY <1>14 DEF KillRevoke
<1>15. ASSUME NEW a \in Ids, KillTriggers(a) PROVE GoneInv'
  BY <1>15 DEF KillTriggers
<1>16. ASSUME NEW a \in Ids, KillRow(a) PROVE GoneInv'
  BY <1>16 DEF KillRow
<1>17. ASSUME NEW a \in Ids, KillRowFails(a) PROVE GoneInv'
  BY <1>17 DEF KillRowFails
<1>18. ASSUME NEW a \in Ids, NEW n \in Names, RenameCheck(a, n) PROVE GoneInv'
  BY <1>18 DEF RenameCheck
<1>19. ASSUME NEW a \in Ids, RenameNotFound(a) PROVE GoneInv'
  BY <1>19 DEF RenameNotFound
<1>20. ASSUME NEW a \in Ids, RenameEntry(a) PROVE GoneInv'
  BY <1>20 DEF RenameEntry
<1>21. ASSUME NEW a \in Ids, RenameUnindex(a) PROVE GoneInv'
  BY <1>21 DEF RenameUnindex
<1>22. ASSUME NEW a \in Ids, RenameIndex(a) PROVE GoneInv'
  BY <1>22 DEF RenameIndex
<1>23. ASSUME NEW a \in Ids, TriggerCheck(a) PROVE GoneInv'
  BY <1>23 DEF TriggerCheck
<1>24. ASSUME NEW a \in Ids, TriggerRegister(a) PROVE GoneInv'
  BY <1>24 DEF TriggerRegister
<1>25. ASSUME NEW a \in Ids, UpdateRead(a) PROVE GoneInv'
  BY <1>25 DEF UpdateRead
<1>26. ASSUME NEW a \in Ids, ShutdownRead(a) PROVE GoneInv'
  BY <1>26 DEF ShutdownRead
<1>27. ASSUME NEW a \in Ids, ShutdownSkip(a) PROVE GoneInv'
  BY <1>27 DEF ShutdownSkip
<1>28. ASSUME ShutdownList PROVE GoneInv'
  BY <1>28 DEF ShutdownList
<1>29. ASSUME NEW s \in Savers, Save(s) PROVE GoneInv'
  BY <1>29, NoIdFresh DEF Save, NoCopy
<1>30. ASSUME NEW kept \in SUBSET Saved, NEW skipped \in SUBSET Saved,
             NEW senseless \in SUBSET Saved, Boot(kept, skipped, senseless)
       PROVE  GoneInv'
  BY <1>30, NoIdFresh DEF Boot, Saved, NoCopy
<1>31. CASE UNCHANGED vars
  BY <1>31 DEF vars
<1>32. QED
  BY <1>1, <1>2, <1>3, <1>4, <1>5, <1>6, <1>7, <1>8, <1>9, <1>10, <1>11, <1>12,
     <1>13, <1>14, <1>15, <1>16, <1>17, <1>18, <1>19, <1>20, <1>21, <1>22, <1>23, <1>24,
     <1>25, <1>26, <1>27, <1>28, <1>29, <1>30, <1>31, Restarts
  DEF Next, Spawn, Kill, Rename

(* An agent killed while nobody else was in the middle of something with it  *)
(* never comes back, not even after a restart, if the store deleted its row; *)
(* if the store failed, which its caller does not learn, it stays away until *)
(* the next boot (kill_agent, save_agent, load_all_agents).                  *)
THEOREM GoneTheorem == Spec => []GoneForGood
<1>1. Init => GoneInv
  BY DEF Init, GoneInv
<1>2. TypeOK /\ GoneInv => GoneForGood
  BY DEF TypeOK, GoneInv, GoneForGood, Stripped
<1>3. QED
  BY <1>1, <1>2, GoneStep, LifeInvariant, LifecycleTypeCorrect, PTL DEF Spec

-----------------------------------------------------------------------------
(* The name index.  Exactness at rest is not inductive: what is preserved is  *)
(* what the index holds for every agent at every step of the one change that  *)
(* is under way.                                                              *)

\* The names under which the index has a.
IndexedAs(a) ==
    IF spawn[a] = "indexed" THEN {NameOf[a]}
    ELSE IF rename[a].at = "renamed" THEN {rename[a].from}
    ELSE IF (a \in agents /\ rename[a].at # "unindexed") \/ kill[a] = "removed" THEN {name[a]}
    ELSE {}

\* A name that was found free stays free until it is taken.
NamesReserved(a) ==
    /\ spawn[a] = "checked" => index[NameOf[a]] = NoId
    /\ rename[a].at # "idle" => kill[a] # "removed" /\ index[rename[a].to] = NoId
    /\ rename[a].at \in {"renamed", "unindexed"} => a \in agents /\ name[a] = rename[a].to

IndexInv ==
    /\ \A a \in Ids : spawn[a] \in Early => rename[a].at = "idle"
    /\ ~overlapped =>
          /\ \A a, b \in Changing : a = b
          /\ \A a \in Ids : NamesReserved(a)
          /\ \A n \in Names, a \in Ids : index[n] = a <=> n \in IndexedAs(a)

\* Steps that do not touch the registry.
LEMMA RegistryKept ==
    ASSUME LifeInv, IndexInv, UNCHANGED <<registry, rename, overlapped>>,
           \A a \in Ids : /\ spawn'[a] = "checked" <=> spawn[a] = "checked"
                          /\ spawn'[a] = "indexed" <=> spawn[a] = "indexed"
                          /\ spawn'[a] \in Early => spawn[a] \in Early
                          /\ kill'[a] = "removed" <=> kill[a] = "removed"
    PROVE  IndexInv'
<1>1. /\ index' = index /\ name' = name /\ agents' = agents
      /\ rename' = rename /\ overlapped' = overlapped
  BY DEF registry
<1>2. Changing' = Changing
  BY <1>1 DEF Changing
<1>3. \A a \in Ids : IndexedAs(a)' = IndexedAs(a)
  BY <1>1 DEF IndexedAs
<1>4. \A a \in Ids : NamesReserved(a) => NamesReserved(a)'
  BY <1>1 DEF NamesReserved
<1>5. QED
  BY <1>1, <1>2, <1>3, <1>4 DEF IndexInv

\* A change begins with the index exact, or two changes overlap.
LEMMA ChangeStarts ==
    ASSUME LifeInv, IndexInv, ChangeBegins, ~overlapped'
    PROVE  /\ ~overlapped /\ Changing = {}
           /\ \A n \in Names, a \in Ids : index[n] = a <=> a \in agents /\ name[a] = n
<1>1. ~overlapped /\ Changing = {}
  BY DEF ChangeBegins, LifeInv, TypeOK
<1>2. \A a \in Ids : IndexedAs(a) = IF a \in agents THEN {name[a]} ELSE {}
  BY <1>1 DEF Changing, IndexedAs
<1>3. QED
  BY <1>1, <1>2 DEF IndexInv

\* Whoever is in the middle of a change is alone.
LEMMA ChangeAlone ==
    ASSUME LifeInv, IndexInv, ~overlapped, NEW a \in Changing, NEW b \in Ids, b # a
    PROVE  /\ spawn[b] \notin {"checked", "indexed"} /\ kill[b] # "removed"
           /\ rename[b].at = "idle"
           /\ IndexedAs(b) = IF b \in agents THEN {name[b]} ELSE {}
<1>1. b \notin Changing
  BY DEF IndexInv
<1>2. spawn[b] \notin {"checked", "indexed"} /\ kill[b] # "removed" /\ rename[b].at = "idle"
  BY <1>1 DEF Changing
<1>3. QED
  BY <1>2 DEF IndexedAs

LEMMA SpawnIndexStep ==
    ASSUME LifeInv, IndexInv, NEW a \in Ids,
           SpawnCheck(a) \/ SpawnIndex(a) \/ SpawnInsert(a)
    PROVE  IndexInv'
<1>0. NameOf[a] \in Names /\ NoId \notin Ids
  BY NameOfType, NoIdFresh
<1>1. /\ spawn[a] \in Early /\ a \notin agents /\ kill[a] = "idle" /\ rename[a].at = "idle"
      /\ \A b \in Ids : spawn'[b] \in Early => spawn[b] \in Early
      /\ \A b \in Ids : b # a => spawn'[b] = spawn[b]
      /\ kill' = kill /\ rename' = rename
  BY DEF SpawnCheck, SpawnIndex, SpawnInsert, SpawnStep, SpawnUnchanged, LifeInv, KnownInv,
         TypeOK, IndexInv, Early
<1>2. \A b \in Ids : spawn'[b] \in Early => rename'[b].at = "idle"
  BY <1>1 DEF IndexInv
<1> SUFFICES ASSUME ~overlapped'
             PROVE  /\ \A x, y \in Changing' : x = y
                    /\ \A b \in Ids : NamesReserved(b)'
                    /\ \A n \in Names, b \in Ids : index'[n] = b <=> n \in IndexedAs(b)'
  BY <1>2 DEF IndexInv
<1>3. CASE SpawnCheck(a)
  <2>1. /\ spawn'[a] = "checked" /\ index[NameOf[a]] = NoId
        /\ index' = index /\ name' = name /\ agents' = agents /\ ChangeBegins
    BY <1>3 DEF SpawnCheck, SpawnStep, registry, LifeInv, TypeOK
  <2>2. /\ ~overlapped /\ Changing = {}
        /\ \A n \in Names, b \in Ids : index[n] = b <=> b \in agents /\ name[b] = n
    BY <2>1, ChangeStarts
  <2>3. \A b \in Ids : /\ b # a => spawn'[b] \notin {"checked", "indexed"}
                       /\ kill'[b] # "removed" /\ rename'[b].at = "idle"
    BY <1>1, <2>2 DEF Changing
  <2>4. \A b \in Ids : IndexedAs(b)' = IF b \in agents THEN {name[b]} ELSE {}
    BY <2>1, <2>3 DEF IndexedAs
  <2>5. \A x \in Changing' : x = a
    BY <2>3 DEF Changing
  <2>6. \A b \in Ids : NamesReserved(b)'
    BY <2>1, <2>3 DEF NamesReserved
  <2>7. QED
    BY <2>1, <2>2, <2>4, <2>5, <2>6
<1>4. CASE SpawnIndex(a)
  <2>1. /\ spawn[a] = "checked" /\ spawn'[a] = "indexed"
        /\ index' = [index EXCEPT ![NameOf[a]] = a]
        /\ name' = name /\ agents' = agents /\ ~overlapped
    BY <1>4 DEF SpawnIndex, SpawnStep, history, unloaded, LifeInv, TypeOK
  <2>2. a \in Changing
    BY <2>1 DEF Changing
  <2>3. \A b \in Ids : b # a =>
          /\ spawn'[b] \notin {"checked", "indexed"} /\ kill'[b] # "removed" /\ rename'[b].at = "idle"
          /\ IndexedAs(b) = IF b \in agents THEN {name[b]} ELSE {}
    BY <1>1, <2>1, <2>2, ChangeAlone
  <2>4. IndexedAs(a) = {} /\ IndexedAs(a)' = {NameOf[a]}
    BY <1>1, <2>1 DEF IndexedAs
  <2>5. \A b \in Ids : b # a => IndexedAs(b)' = IndexedAs(b)
    BY <2>1, <2>3 DEF IndexedAs
  <2>6. /\ index[NameOf[a]] = NoId
        /\ \A n \in Names, b \in Ids : index[n] = b <=> n \in IndexedAs(b)
    BY <2>1 DEF IndexInv, NamesReserved
  <2>7. \A n \in Names : index'[n] = IF n = NameOf[a] THEN a ELSE index[n]
    BY <2>1 DEF LifeInv, TypeOK
  <2>8. \A n \in Names, b \in Ids : index'[n] = b <=> n \in IndexedAs(b)'
    BY <1>0, <2>4, <2>5, <2>6, <2>7
  <2>9. \A x \in Changing' : x = a
    BY <2>3 DEF Changing
  <2>10. \A b \in Ids : NamesReserved(b)'
    BY <1>1, <2>1, <2>3 DEF NamesReserved
  <2>11. QED
    BY <2>8, <2>9, <2>10
<1>5. CASE SpawnInsert(a)
  <2>1. /\ spawn[a] = "indexed" /\ spawn'[a] = "inserted" /\ index' = index
        /\ name' = [name EXCEPT ![a] = NameOf[a]]
        /\ agents' = agents \cup {a} /\ ~overlapped
    BY <1>5 DEF SpawnInsert, SpawnStep, history, unloaded, LifeInv, TypeOK
  <2>2. a \in Changing
    BY <2>1 DEF Changing
  <2>3. \A b \in Ids : b # a =>
          /\ spawn'[b] \notin {"checked", "indexed"} /\ kill'[b] # "removed" /\ rename'[b].at = "idle"
          /\ IndexedAs(b) = IF b \in agents THEN {name[b]} ELSE {}
    BY <1>1, <2>1, <2>2, ChangeAlone
  <2>4. \A b \in Ids : name'[b] = IF b = a THEN NameOf[a] ELSE name[b]
    BY <2>1 DEF LifeInv, TypeOK
  <2>5. IndexedAs(a) = {NameOf[a]} /\ IndexedAs(a)' = {NameOf[a]}
    BY <1>1, <2>1, <2>4 DEF IndexedAs
  <2>6. \A b \in Ids : b # a => IndexedAs(b)' = IndexedAs(b)
    BY <2>1, <2>3, <2>4 DEF IndexedAs
  <2>7. \A n \in Names, b \in Ids : index'[n] = b <=> n \in IndexedAs(b)'
    BY <2>1, <2>5, <2>6 DEF IndexInv
  <2>8. Changing' = {}
    BY <1>1, <2>1, <2>3 DEF Changing
  <2>9. \A b \in Ids : NamesReserved(b)'
    BY <2>8 DEF NamesReserved, Changing
  <2>10. QED
    BY <2>7, <2>8, <2>9
<1>6. QED
  BY <1>3, <1>4, <1>5

LEMMA KillIndexStep ==
    ASSUME LifeInv, IndexInv, NEW a \in Ids, KillRemove(a) \/ KillUnindex(a)
    PROVE  IndexInv'
<1>1. /\ spawn' = spawn /\ rename' = rename
      /\ \A b \in Ids : b # a => kill'[b] = kill[b]
  BY DEF KillRemove, KillUnindex, KillStep, KillUnchanged, LifeInv, TypeOK
<1> SUFFICES ASSUME ~overlapped'
             PROVE  /\ \A x, y \in Changing' : x = y
                    /\ \A b \in Ids : NamesReserved(b)'
                    /\ \A n \in Names, b \in Ids : index'[n] = b <=> n \in IndexedAs(b)'
  BY <1>1 DEF IndexInv
<1>2. CASE KillRemove(a)
  <2>1. /\ a \in agents /\ kill'[a] = "removed" /\ agents' = agents \ {a}
        /\ index' = index /\ name' = name /\ ChangeBegins
    BY <1>2 DEF KillRemove, KillStep, LifeInv, TypeOK
  <2>2. /\ ~overlapped /\ Changing = {}
        /\ \A n \in Names, b \in Ids : index[n] = b <=> b \in agents /\ name[b] = n
    BY <2>1, ChangeStarts
  <2>3. \A b \in Ids : /\ spawn'[b] \notin {"checked", "indexed"} /\ rename'[b].at = "idle"
                       /\ b # a => kill'[b] # "removed"
    BY <1>1, <2>2 DEF Changing
  <2>4. \A b \in Ids : IndexedAs(b)' = IF b \in agents THEN {name[b]} ELSE {}
    BY <2>1, <2>3 DEF IndexedAs
  <2>5. \A x \in Changing' : x = a
    BY <2>3 DEF Changing
  <2>6. \A b \in Ids : NamesReserved(b)'
    BY <2>3 DEF NamesReserved
  <2>7. QED
    BY <2>1, <2>2, <2>4, <2>5, <2>6
<1>3. CASE KillUnindex(a)
  <2>1. /\ kill[a] = "removed" /\ kill'[a] = "unindexed" /\ agents' = agents
        /\ index' = [index EXCEPT ![name[a]] = NoId]
        /\ name' = [name EXCEPT ![a] = NoName] /\ ~overlapped
    BY <1>3 DEF KillUnindex, KillStep, history, unloaded, LifeInv, TypeOK
  <2>2. a \in Changing
    BY <2>1 DEF Changing
  <2>3. \A b \in Ids : b # a =>
          /\ spawn'[b] \notin {"checked", "indexed"} /\ kill'[b] # "removed" /\ rename'[b].at = "idle"
          /\ IndexedAs(b) = IF b \in agents THEN {name[b]} ELSE {}
    BY <1>1, <2>1, <2>2, ChangeAlone
  <2>4. /\ a \notin agents /\ name[a] \in Names /\ spawn[a] \notin Early
    BY <2>1 DEF LifeInv, KnownInv, TypeOK
  <2>5. rename[a].at = "idle"
    BY <2>1 DEF IndexInv, NamesReserved
  <2>6. IndexedAs(a) = {name[a]} /\ IndexedAs(a)' = {}
    BY <1>1, <2>1, <2>4, <2>5 DEF IndexedAs, Early
  <2>7. \A b \in Ids : b # a => IndexedAs(b)' = IndexedAs(b)
    BY <1>1, <2>1, <2>3 DEF IndexedAs, LifeInv, TypeOK
  <2>8. \A n \in Names, b \in Ids : index[n] = b <=> n \in IndexedAs(b)
    BY <2>1 DEF IndexInv
  <2>9. \A n \in Names : index'[n] = IF n = name[a] THEN NoId ELSE index[n]
    BY <2>1 DEF LifeInv, TypeOK
  <2>10. index[name[a]] = a
    BY <2>4, <2>6, <2>8
  <2>11. \A n \in Names, b \in Ids : index'[n] = b <=> n \in IndexedAs(b)'
    BY <2>4, <2>6, <2>7, <2>8, <2>9, <2>10, NoIdFresh
  <2>12. Changing' = {}
    BY <1>1, <2>1, <2>3, <2>4, <2>5 DEF Changing, Early
  <2>13. \A b \in Ids : NamesReserved(b)'
    BY <2>12 DEF NamesReserved, Changing
  <2>14. QED
    BY <2>11, <2>12, <2>13
<1>4. QED
  BY <1>2, <1>3

LEMMA RenameIndexStep ==
    ASSUME LifeInv, IndexInv, NEW a \in Ids, Rename(a)
    PROVE  IndexInv'
<1>1. /\ spawn' = spawn /\ kill' = kill /\ agents' = agents
      /\ \A b \in Ids : b # a => rename'[b] = rename[b]
  BY DEF Rename, RenameCheck, RenameNotFound, RenameEntry, RenameUnindex, RenameIndex, RenameStep,
         RenameUnchanged, registry, LifeInv, TypeOK
<1>2. spawn[a] \notin Early
  BY DEF Rename, RenameCheck, RenameNotFound, RenameEntry, RenameUnindex, RenameIndex, RenameStep,
         IndexInv, Early, LifeInv, TypeOK
<1>3. \A b \in Ids : spawn'[b] \in Early => rename'[b].at = "idle"
  BY <1>1, <1>2 DEF IndexInv
<1> SUFFICES ASSUME ~overlapped'
             PROVE  /\ \A x, y \in Changing' : x = y
                    /\ \A b \in Ids : NamesReserved(b)'
                    /\ \A n \in Names, b \in Ids : index'[n] = b <=> n \in IndexedAs(b)'
  BY <1>3 DEF IndexInv
<1>4. ASSUME NEW n \in Names, RenameCheck(a, n)
      PROVE  /\ \A x, y \in Changing' : x = y
             /\ \A b \in Ids : NamesReserved(b)'
             /\ \A m \in Names, b \in Ids : index'[m] = b <=> m \in IndexedAs(b)'
  <2>1. /\ rename'[a] = [at |-> "checked", from |-> NoName, to |-> n] /\ index[n] = NoId
        /\ index' = index /\ name' = name /\ ChangeBegins
    BY <1>4 DEF RenameCheck, RenameStep, registry, LifeInv, TypeOK
  <2>2. /\ ~overlapped /\ Changing = {}
        /\ \A m \in Names, b \in Ids : index[m] = b <=> b \in agents /\ name[b] = m
    BY <2>1, ChangeStarts
  <2>3. rename'[a].at = "checked" /\ rename'[a].to = n
    BY <2>1
  <2>4. \A b \in Ids : /\ spawn'[b] \notin {"checked", "indexed"} /\ kill'[b] # "removed"
                       /\ b # a => rename'[b].at = "idle"
    BY <1>1, <2>2 DEF Changing
  <2>5. \A b \in Ids : IndexedAs(b)' = IF b \in agents THEN {name[b]} ELSE {}
    BY <1>1, <2>1, <2>3, <2>4 DEF IndexedAs
  <2>6. \A x \in Changing' : x = a
    BY <2>4 DEF Changing
  <2>7. \A b \in Ids : NamesReserved(b)'
    BY <2>1, <2>3, <2>4 DEF NamesReserved
  <2>8. QED
    BY <1>1, <2>1, <2>2, <2>5, <2>6, <2>7
<1>5. ASSUME rename[a].at # "idle", overlapped' = overlapped
      PROVE  /\ ~overlapped /\ index[rename[a].to] = NoId /\ kill[a] # "removed"
             /\ \A b \in Ids : b # a =>
                   /\ spawn'[b] \notin {"checked", "indexed"} /\ kill'[b] # "removed"
                   /\ rename'[b].at = "idle"
                   /\ IndexedAs(b) = IF b \in agents THEN {name[b]} ELSE {}
             /\ \A n \in Names, b \in Ids : index[n] = b <=> n \in IndexedAs(b)
  <2>1. ~overlapped /\ a \in Changing
    BY <1>5 DEF Changing
  <2>2. QED
    BY <1>1, <1>5, <2>1, ChangeAlone DEF IndexInv, NamesReserved
<1>6. CASE RenameNotFound(a)
  <2>1. /\ a \notin agents /\ rename[a].at = "checked" /\ rename'[a] = NoRename
        /\ index' = index /\ name' = name /\ overlapped' = overlapped
    BY <1>6 DEF RenameNotFound, RenameStep, registry, LifeInv, TypeOK
  <2>2. rename'[a].at = "idle"
    BY <2>1 DEF NoRename
  <2>3. \A b \in Ids : IndexedAs(b)' = IndexedAs(b)
    BY <1>1, <2>1, <2>2 DEF IndexedAs
  <2>4. Changing' = {}
    BY <1>1, <1>2, <1>5, <2>1, <2>2 DEF Changing, Early
  <2>5. \A b \in Ids : NamesReserved(b)'
    BY <2>4 DEF NamesReserved, Changing
  <2>6. QED
    BY <1>5, <2>1, <2>3, <2>4, <2>5
<1>7. CASE RenameEntry(a)
  <2>1. /\ a \in agents /\ rename[a].at = "checked"
        /\ rename'[a] = [at |-> "renamed", from |-> name[a], to |-> rename[a].to]
        /\ index' = index /\ name' = [name EXCEPT ![a] = rename[a].to]
        /\ overlapped' = overlapped
    BY <1>7 DEF RenameEntry, RenameStep, LifeInv, TypeOK
  <2>2. /\ rename'[a].at = "renamed" /\ rename'[a].from = name[a]
        /\ rename'[a].to = rename[a].to
    BY <2>1
  <2>3. \A b \in Ids : name'[b] = IF b = a THEN rename[a].to ELSE name[b]
    BY <2>1 DEF LifeInv, TypeOK
  <2>4. IndexedAs(a) = {name[a]} /\ IndexedAs(a)' = {name[a]}
    BY <1>1, <1>2, <2>1, <2>2 DEF IndexedAs, Early
  <2>5. \A b \in Ids : b # a => IndexedAs(b)' = IndexedAs(b)
    BY <1>1, <1>5, <2>1, <2>3 DEF IndexedAs
  <2>6. \A x \in Changing' : x = a
    BY <1>5, <2>1 DEF Changing
  <2>7. \A b \in Ids : NamesReserved(b)'
    BY <1>1, <1>2, <1>5, <2>1, <2>2, <2>3 DEF NamesReserved, Early
  <2>8. QED
    BY <1>5, <2>1, <2>4, <2>5, <2>6, <2>7
<1>8. CASE RenameUnindex(a)
  <2>1. /\ rename[a].at = "renamed" /\ rename'[a] = [rename[a] EXCEPT !.at = "unindexed"]
        /\ index' = [index EXCEPT ![rename[a].from] = NoId]
        /\ name' = name /\ overlapped' = overlapped
    BY <1>8 DEF RenameUnindex, RenameStep, LifeInv, TypeOK
  <2>2. /\ rename'[a].at = "unindexed" /\ rename'[a].to = rename[a].to
        /\ rename[a].from \in Names /\ rename[a].to \in Names
    BY <2>1 DEF LifeInv, TypeOK
  <2>3. IndexedAs(a) = {rename[a].from} /\ IndexedAs(a)' = {}
    BY <1>1, <1>2, <1>5, <2>1, <2>2 DEF IndexedAs, Early
  <2>4. \A b \in Ids : b # a => IndexedAs(b)' = IndexedAs(b)
    BY <1>1, <1>5, <2>1 DEF IndexedAs
  <2>5. \A n \in Names : index'[n] = IF n = rename[a].from THEN NoId ELSE index[n]
    BY <2>1 DEF LifeInv, TypeOK
  <2>6. index[rename[a].from] = a
    BY <1>5, <2>1, <2>2, <2>3
  <2>7. \A n \in Names, b \in Ids : index'[n] = b <=> n \in IndexedAs(b)'
    BY <1>5, <2>1, <2>3, <2>4, <2>5, <2>6, NoIdFresh
  <2>8. \A x \in Changing' : x = a
    BY <1>5, <2>1 DEF Changing
  <2>9. a \in agents /\ name[a] = rename[a].to
    BY <1>5, <2>1 DEF IndexInv, NamesReserved
  <2>10. index'[rename'[a].to] = NoId
    BY <1>5, <2>1, <2>2, <2>5
  <2>11. \A b \in Ids : NamesReserved(b)'
    <3>1. NamesReserved(a)'
      <4>1. spawn'[a] # "checked" /\ kill'[a] # "removed"
        BY <1>1, <1>2, <1>5, <2>1 DEF Early
      <4>2. a \in agents' /\ name'[a] = rename'[a].to
        BY <1>1, <2>1, <2>2, <2>9
      <4>3. QED
        BY <2>10, <4>1, <4>2 DEF NamesReserved
    <3>2. \A b \in Ids : b # a => NamesReserved(b)'
      BY <1>5, <2>1 DEF NamesReserved
    <3>3. QED
      BY <3>1, <3>2
  <2>12. QED
    BY <2>7, <2>8, <2>11
<1>9. CASE RenameIndex(a)
  <2>1. /\ rename[a].at = "unindexed" /\ rename'[a] = NoRename
        /\ index' = [index EXCEPT ![rename[a].to] = a]
        /\ name' = name /\ overlapped' = overlapped
    BY <1>9 DEF RenameIndex, RenameStep, LifeInv, TypeOK
  <2>2. rename'[a].at = "idle" /\ rename[a].to \in Names
    BY <2>1 DEF LifeInv, TypeOK, NoRename
  <2>3. a \in agents /\ name[a] = rename[a].to
    BY <1>5, <2>1 DEF IndexInv, NamesReserved
  <2>4. IndexedAs(a) = {} /\ IndexedAs(a)' = {rename[a].to}
    BY <1>1, <1>2, <1>5, <2>1, <2>2, <2>3 DEF IndexedAs, Early
  <2>5. \A b \in Ids : b # a => IndexedAs(b)' = IndexedAs(b)
    BY <1>1, <1>5, <2>1 DEF IndexedAs
  <2>6. \A n \in Names : index'[n] = IF n = rename[a].to THEN a ELSE index[n]
    BY <2>1 DEF LifeInv, TypeOK
  <2>7. \A n \in Names, b \in Ids : index'[n] = b <=> n \in IndexedAs(b)'
    BY <1>5, <2>1, <2>2, <2>4, <2>5, <2>6, NoIdFresh
  <2>8. Changing' = {}
    BY <1>1, <1>2, <1>5, <2>1, <2>2 DEF Changing, Early
  <2>9. \A b \in Ids : NamesReserved(b)'
    BY <2>8 DEF NamesReserved, Changing
  <2>10. QED
    BY <2>7, <2>8, <2>9
<1>10. QED
  BY <1>4, <1>6, <1>7, <1>8, <1>9 DEF Rename

\* Of two rows with one name a restart takes one, so that its index is exact.
LEMMA BootIndexStep ==
    ASSUME LifeInv, IndexInv, NEW kept \in SUBSET Saved, NEW skipped, NEW senseless,
           Boot(kept, skipped, senseless),
           \A a, b \in kept : Alike(a, b) => a = b
    PROVE  IndexInv'
<1>1. /\ agents' = kept /\ kept \subseteq Ids
      /\ name' = [a \in Ids |-> IF a \in kept THEN saved[a] ELSE NoName]
      /\ index' = [n \in Names |-> IF \E a \in kept : saved[a] = n
                                   THEN CHOOSE a \in kept : saved[a] = n ELSE NoId]
      /\ spawn' = [a \in Ids |-> IF spawn[a] \in {"none", "ok"} THEN spawn[a] ELSE "lost"]
      /\ kill' = [a \in Ids |-> "idle"] /\ rename' = [a \in Ids |-> NoRename]
  BY DEF Boot, Saved
<1>2. \A a \in Ids : /\ spawn'[a] \notin {"checked", "indexed"}
                     /\ kill'[a] = "idle" /\ rename'[a].at = "idle"
  BY <1>1 DEF NoRename
<1>3. Changing' = {}
  BY <1>2 DEF Changing
<1>4. \A a \in Ids : NamesReserved(a)'
  BY <1>2 DEF NamesReserved
<1>5. \A a \in Ids : IndexedAs(a)' = IF a \in kept THEN {saved[a]} ELSE {}
  BY <1>1, <1>2 DEF IndexedAs
<1>6. \A a, b \in kept : saved[a] = saved[b] => a = b
  BY DEF Alike
<1>7. ASSUME NEW n \in Names, NEW a \in Ids
      PROVE  index'[n] = a <=> a \in kept /\ saved[a] = n
  <2>1. CASE \E b \in kept : saved[b] = n
    <3>1. index'[n] \in kept /\ saved[index'[n]] = n
      BY <1>1, <2>1
    <3>2. QED
      BY <1>6, <3>1
  <2>2. CASE ~ \E b \in kept : saved[b] = n
    BY <1>1, <2>2, NoIdFresh
  <2>3. QED
    BY <2>1, <2>2
<1>8. QED
  BY <1>2, <1>3, <1>4, <1>5, <1>7 DEF IndexInv

LEMMA IndexStep == LifeInv /\ IndexInv /\ [Next]_vars => IndexInv'
<1> SUFFICES ASSUME LifeInv, IndexInv, [Next]_vars PROVE IndexInv'
  OBVIOUS
<1> DEFINE Kept == /\ UNCHANGED <<registry, rename, overlapped>>
                   /\ \A a \in Ids : /\ spawn'[a] = "checked" <=> spawn[a] = "checked"
                                     /\ spawn'[a] = "indexed" <=> spawn[a] = "indexed"
                                     /\ spawn'[a] \in Early => spawn[a] \in Early
                                     /\ kill'[a] = "removed" <=> kill[a] = "removed"
<1>1. ASSUME NEW a \in Ids,
             \/ SpawnGrant(a) \/ SpawnQuota(a) \/ SpawnRefused(a) \/ SpawnSave(a)
             \/ SpawnSaveFails(a) \/ SpawnDone(a)
      PROVE  Kept
  BY <1>1 DEF SpawnGrant, SpawnQuota, SpawnRefused, SpawnSave, SpawnSaveFails, SpawnDone, SpawnStep,
              SpawnUnchanged, history, LifeInv, TypeOK, Early
<1>2. ASSUME NEW a \in Ids,
             \/ KillStopLoop(a) \/ KillUnregister(a) \/ KillRevoke(a) \/ KillTriggers(a)
             \/ KillRow(a) \/ KillRowFails(a)
      PROVE  Kept
  BY <1>2 DEF KillStopLoop, KillUnregister, KillRevoke, KillTriggers, KillRow, KillRowFails, KillStep,
              KillUnchanged, history, LifeInv, TypeOK
<1>3. ASSUME NEW a \in Ids, TriggerCheck(a) \/ TriggerRegister(a)
      PROVE  Kept
  BY <1>3 DEF TriggerCheck, TriggerRegister, TriggerStep, history
<1>4. ASSUME \/ \E a \in Ids : UpdateRead(a) \/ ShutdownRead(a) \/ ShutdownSkip(a)
             \/ ShutdownList
             \/ \E s \in Savers : Save(s)
             \/ UNCHANGED vars
      PROVE  Kept
  BY <1>4 DEF UpdateRead, ShutdownRead, ShutdownSkip, ShutdownList, Save, Read, SaverUnchanged,
              history, vars
<1>5. Kept => IndexInv'
  BY RegistryKept
<1> HIDE DEF Kept
<1>6. QED
  BY <1>1, <1>2, <1>3, <1>4, <1>5, SpawnIndexStep, KillIndexStep, RenameIndexStep, BootIndexStep,
     Restarts
  DEF Next, Spawn, Kill

(* Unless two changes overlap, the name index is the inverse of the names    *)
(* whenever nobody is in the middle of a change: whatever is spawned, killed, *)
(* renamed and restored, and for any number of agents and names (register,   *)
(* remove, update_name, boot_with_config).                                   *)
THEOREM IndexTheorem == Spec => []IndexExact
<1>1. Init => IndexInv
  <2> SUFFICES ASSUME Init PROVE IndexInv
    OBVIOUS
  <2>1. \A a \in Ids : rename[a].at = "idle" /\ spawn[a] = "none" /\ kill[a] = "idle"
    BY DEF Init, NoRename
  <2>2. Changing = {} /\ \A a \in Ids : IndexedAs(a) = {} /\ NamesReserved(a)
    BY <2>1 DEF Changing, IndexedAs, NamesReserved, Init
  <2>3. \A n \in Names, a \in Ids : index[n] # a
    BY NoIdFresh DEF Init
  <2>4. QED
    BY <2>1, <2>2, <2>3 DEF IndexInv
<1>2. IndexInv => IndexExact
  <2> SUFFICES ASSUME IndexInv, ~overlapped, Changing = {}, NEW n \in Names, NEW a \in Ids
               PROVE  index[n] = a <=> a \in agents /\ name[a] = n
    BY DEF IndexExact
  <2>1. IndexedAs(a) = IF a \in agents THEN {name[a]} ELSE {}
    BY DEF Changing, IndexedAs
  <2>2. QED
    BY <2>1 DEF IndexInv
<1>3. QED
  BY <1>1, <1>2, IndexStep, LifeInvariant, PTL DEF Spec

-----------------------------------------------------------------------------
(* Who leaves the registry *)

\* An agent in the registry whose spawn was answered has its row.
RowInv == \A a \in agents : spawn[a] \in {"saved", "ok"} => saved[a] # NoName

LEMMA RowStep == LifeInv /\ RowInv /\ [Next]_vars => RowInv'
<1> SUFFICES ASSUME LifeInv, RowInv, [Next]_vars PROVE RowInv'
  OBVIOUS
<1> USE DEF RowInv
<1>1. ASSUME saved' = saved, agents' \subseteq agents,
             \A a \in Ids : spawn'[a] \in {"saved", "ok"} => spawn[a] \in {"saved", "ok"}
      PROVE  RowInv'
  BY <1>1 DEF LifeInv, TypeOK
<1>2. ASSUME NEW a \in Ids, SpawnSave(a) PROVE RowInv'
  <2>1. /\ saved' = [saved EXCEPT ![a] = NameOf[a]] /\ agents' = agents
        /\ spawn' = [spawn EXCEPT ![a] = "saved"] /\ NameOf[a] # NoName
    BY <1>2, NameOfType, NoNameFresh DEF SpawnSave, SpawnStep, registry
  <2>2. QED
    BY <2>1 DEF LifeInv, TypeOK
<1>3. ASSUME NEW a \in Ids, SpawnInsert(a) PROVE RowInv'
  <2>1. /\ saved' = saved /\ agents' = agents \cup {a} /\ spawn'[a] = "inserted"
        /\ \A b \in Ids : b # a => spawn'[b] = spawn[b]
    BY <1>3 DEF SpawnInsert, SpawnStep, LifeInv, TypeOK
  <2>2. QED
    BY <2>1 DEF LifeInv, TypeOK
<1>4. ASSUME NEW a \in Ids,
             \/ SpawnGrant(a) \/ SpawnQuota(a) \/ SpawnRefused(a) \/ SpawnCheck(a)
             \/ SpawnIndex(a) \/ SpawnSaveFails(a) \/ SpawnDone(a)
      PROVE  RowInv'
  <2>1. /\ saved' = saved /\ agents' = agents
        /\ \A b \in Ids : spawn'[b] \in {"saved", "ok"} => spawn[b] \in {"saved", "ok"}
    BY <1>4 DEF SpawnGrant, SpawnQuota, SpawnRefused, SpawnCheck, SpawnIndex, SpawnSaveFails, SpawnDone,
                SpawnStep, registry, LifeInv, TypeOK
  <2>2. QED
    BY <1>1, <2>1
<1>5. ASSUME NEW a \in Ids, KillRow(a) PROVE RowInv'
  <2>1. a \notin agents /\ agents' = agents /\ spawn' = spawn /\ saved' = [saved EXCEPT ![a] = NoName]
    BY <1>5 DEF KillRow, KillStep, KillUnchanged, registry, LifeInv, KnownInv
  <2>2. QED
    BY <2>1 DEF LifeInv, TypeOK
<1>6. ASSUME NEW a \in Ids,
             \/ KillRemove(a) \/ KillUnindex(a) \/ KillStopLoop(a) \/ KillUnregister(a)
             \/ KillRevoke(a) \/ KillTriggers(a) \/ KillRowFails(a)
      PROVE  RowInv'
  <2>1. saved' = saved /\ agents' \subseteq agents /\ spawn' = spawn
    BY <1>6 DEF KillRemove, KillUnindex, KillStopLoop, KillUnregister, KillRevoke, KillTriggers,
                KillRowFails, KillUnchanged, registry
  <2>2. QED
    BY <1>1, <2>1
<1>7. ASSUME NEW a \in Ids, Rename(a) \/ TriggerCheck(a) \/ TriggerRegister(a)
      PROVE  RowInv'
  <2>1. saved' = saved /\ agents' = agents /\ spawn' = spawn
    BY <1>7 DEF Rename, RenameCheck, RenameNotFound, RenameEntry, RenameUnindex, RenameIndex,
                RenameUnchanged, TriggerCheck, TriggerRegister, TriggerStep, registry
  <2>2. QED
    BY <1>1, <2>1
<1>8. ASSUME \/ \E a \in Ids : UpdateRead(a) \/ ShutdownRead(a) \/ ShutdownSkip(a)
             \/ ShutdownList
             \/ UNCHANGED vars
      PROVE  RowInv'
  <2>1. saved' = saved /\ agents' = agents /\ spawn' = spawn
    BY <1>8 DEF UpdateRead, ShutdownRead, ShutdownSkip, ShutdownList, Read, SaverUnchanged,
                registry, vars
  <2>2. QED
    BY <1>1, <2>1
<1>9. ASSUME NEW s \in Savers, Save(s) PROVE RowInv'
  <2>1. /\ agents' = agents /\ spawn' = spawn
        /\ saved' \in {saved, [saved EXCEPT ![copy[s].id] = copy[s].name]}
        /\ copy[s] # NoCopy
    BY <1>9 DEF Save, SaverUnchanged, registry
  <2>2. copy[s].name = NoName => copy[s].id = NoId
    BY DEF LifeInv, TypeOK
  <2>3. QED
    BY <2>1, <2>2, NoIdFresh DEF LifeInv, TypeOK
<1>10. ASSUME NEW kept \in SUBSET Saved, NEW skipped, NEW senseless, Boot(kept, skipped, senseless)
       PROVE  RowInv'
  BY <1>10 DEF Boot, Saved
<1>11. QED
  BY <1>2, <1>3, <1>4, <1>5, <1>6, <1>7, <1>8, <1>9, <1>10, Restarts
  DEF Next, Spawn, Kill

\* Only remove takes an agent out of the registry of a running daemon.
LEMMA OnlyKillRemoves ==
    ASSUME LifeInv, [Next]_vars, ~Restart, ~RestartUnloaded, NEW a \in agents \ agents'
    PROVE  kill'[a] # "idle"
<1>1. ASSUME NEW b \in Ids, KillRemove(b) PROVE kill'[a] # "idle"
  <2>1. agents' = agents \ {b} /\ kill'[b] = "removed"
    BY <1>1 DEF KillRemove, KillStep, LifeInv, TypeOK
  <2>2. QED
    BY <2>1
<1>2. ASSUME NEW b \in Ids,
             \/ Spawn(b) \/ KillUnindex(b) \/ KillStopLoop(b) \/ KillUnregister(b)
             \/ KillRevoke(b) \/ KillTriggers(b) \/ KillRow(b) \/ KillRowFails(b)
      PROVE  agents \subseteq agents'
  BY <1>2 DEF Spawn, SpawnGrant, SpawnQuota, SpawnRefused, SpawnCheck, SpawnIndex, SpawnInsert, SpawnSave,
              SpawnSaveFails, SpawnDone, KillUnindex, KillStopLoop, KillUnregister, KillRevoke,
              KillTriggers, KillRow, KillRowFails, registry
<1>3. ASSUME NEW b \in Ids, Rename(b) \/ TriggerCheck(b) \/ TriggerRegister(b)
      PROVE  agents \subseteq agents'
  BY <1>3 DEF Rename, RenameCheck, RenameNotFound, RenameEntry, RenameUnindex, RenameIndex,
              TriggerCheck, TriggerRegister, TriggerStep, registry
<1>4. ASSUME \/ \E b \in Ids : UpdateRead(b) \/ ShutdownRead(b) \/ ShutdownSkip(b)
             \/ ShutdownList
             \/ \E s \in Savers : Save(s)
             \/ UNCHANGED vars
      PROVE  agents \subseteq agents'
  BY <1>4 DEF UpdateRead, ShutdownRead, ShutdownSkip, ShutdownList, Save, Read, SaverUnchanged,
              registry, vars
<1>5. QED
  BY <1>1, <1>2, <1>3, <1>4 DEF Next, Kill

(* An agent whose spawn was answered leaves the registry only by being       *)
(* killed, or in a restart that could not use its row, or that took another  *)
(* row whose name is the same in lower case, one that could not be used      *)
(* included (spawn_agent_with_parent, load_all_agents).                      *)
THEOREM RestartTheorem == Spec => RestartKeepsAgents
<1> DEFINE Accounted(a) ==
        \/ kill'[a] # "idle"
        \/ a \in unread' \cup broken'
        \/ \E b \in (agents' \cup broken') \ {a} : {a, b} \subseteq Saved /\ Alike(a, b)
<1>1. Init => RowInv
  BY DEF Init, RowInv
<1>2. ASSUME LifeInv, RowInv, [Next]_vars, NEW a \in agents \ agents', spawn[a] = "ok"
      PROVE  Accounted(a)
  <2>1. CASE Restart \/ RestartUnloaded
    <3>1. PICK kept \in SUBSET Saved, skipped \in SUBSET Saved, senseless \in SUBSET Saved :
             /\ Boot(kept, skipped, senseless)
             /\ \A x \in Saved : \/ x \in skipped \cup senseless
                                 \/ \E b \in kept \cup senseless : Alike(x, b)
      BY <2>1, Restarts
    <3>2. a \in Saved
      BY <1>2 DEF RowInv, Saved, LifeInv, TypeOK
    <3>3. agents' = kept /\ unread' = skipped /\ broken' = senseless
      BY <3>1 DEF Boot
    <3>4. CASE a \in skipped \cup senseless
      BY <3>3, <3>4
    <3>5. CASE \E b \in kept \cup senseless : Alike(a, b)
      <4>1. PICK b \in kept \cup senseless : Alike(a, b)
        BY <3>5
      <4>2. CASE b = a
        BY <1>2, <3>3, <4>1, <4>2
      <4>3. CASE b # a
        BY <3>2, <3>3, <4>1, <4>3
      <4>4. QED
        BY <4>2, <4>3
    <3>6. QED
      BY <3>1, <3>2, <3>4, <3>5
  <2>2. CASE ~Restart /\ ~RestartUnloaded
    BY <1>2, <2>2, OnlyKillRemoves
  <2>3. QED
    BY <2>1, <2>2
<1>3. LifeInv /\ RowInv /\ [Next]_vars =>
        [\A a \in agents \ agents' : spawn[a] = "ok" => Accounted(a)]_vars
  BY <1>2
<1>4. QED
  BY <1>1, <1>3, RowStep, LifeInvariant, PTL DEF Spec, RestartKeepsAgents
=============================================================================
