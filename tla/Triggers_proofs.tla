-------------------------- MODULE Triggers_proofs ---------------------------
(* Proofs about Triggers: the two maps of the engine agree, and every fire is  *)
(* counted once, whatever registrations, removals, kills and events do at once. *)
EXTENDS Triggers, FiniteSetTheorems, TLAPS

Requests == TriggerIds \X Agents \X {"insert", "index", "unlist"}

TableInv ==
    /\ DOMAIN trigs \subseteq TriggerIds /\ trigs \in [DOMAIN trigs -> Trigger]
    /\ agentTriggers \in [Agents -> SUBSET TriggerIds]
    /\ fresh \subseteq TriggerIds /\ regs \subseteq Requests
    /\ alive \subseteq Agents

\* An identifier that was not given out is nowhere.
FreshInv ==
    \A k \in fresh :
        /\ k \notin DOMAIN trigs
        /\ \A a \in Agents : k \notin agentTriggers[a]
        /\ \A a \in Agents, step \in {"insert", "index", "unlist"} : <<k, a, step>> \notin regs

\* A trigger that is to be inserted is in no map and in no other request.
InsertInv ==
    \A k \in TriggerIds, a \in Agents : <<k, a, "insert">> \in regs =>
        /\ k \notin DOMAIN trigs
        /\ \A b \in Agents : /\ k \notin agentTriggers[b]
                             /\ <<k, b, "index">> \notin regs /\ <<k, b, "unlist">> \notin regs
                             /\ <<k, b, "insert">> \in regs => b = a

\* A trigger that is to be listed is its agent's, and one that is to be taken
\* off a list has left the map.
ListInv ==
    \A k \in DOMAIN trigs, a \in Agents :
        /\ <<k, a, "index">> \in regs => trigs[k].agent = a
        /\ <<k, a, "unlist">> \notin regs

\* Who is registering a trigger has a living agent, or the agent was killed
\* meanwhile.
RaceInv ==
    \A k \in TriggerIds, a \in Agents :
        <<k, a, "insert">> \in regs \/ <<k, a, "index">> \in regs => a \in alive \/ k \in raced

KeyInv == TableInv /\ FreshInv /\ InsertInv /\ ListInv /\ RaceInv /\ IndexSound

-----------------------------------------------------------------------------
(* Steps that leave both maps, the requests and the registry alone, or only   *)
(* count and toggle: the agents of the triggers stay as they are.              *)

\* Counting a fire or toggling a trigger changes neither who owns a trigger nor
\* which triggers there are (triggers.rs:187).
LEMMA SameOwners ==
    ASSUME KeyInv,
           DOMAIN trigs' = DOMAIN trigs, trigs' \in [DOMAIN trigs -> Trigger],
           \A k \in DOMAIN trigs : trigs'[k].agent = trigs[k].agent,
           UNCHANGED <<agentTriggers, fresh, regs, alive, killing, doomed, raced>>
    PROVE  KeyInv'
BY DEF KeyInv, TableInv, FreshInv, InsertInv, ListInv, RaceInv, IndexSound, Requests

\* A registration is begun for an agent in the registry (kernel.rs:3672).
LEMMA CheckAgentStep ==
    ASSUME KeyInv, NEW k \in TriggerIds, NEW a \in Agents, CheckAgent(k, a)
    PROVE  KeyInv'
<1> USE DEF CheckAgent, KeyInv, killVars
<1>1. TableInv'
  BY DEF TableInv, Requests
<1>2. FreshInv'
  BY DEF FreshInv, TableInv
<1>3. InsertInv'
  <2>1. \A b \in Agents, step \in {"insert", "index", "unlist"} : <<k, b, step>> \notin regs
    BY DEF FreshInv
  <2>2. SUFFICES ASSUME NEW x \in TriggerIds, NEW b \in Agents, <<x, b, "insert">> \in regs'
                 PROVE  /\ x \notin DOMAIN trigs'
                        /\ \A c \in Agents : /\ x \notin agentTriggers'[c]
                                             /\ <<x, c, "index">> \notin regs' /\ <<x, c, "unlist">> \notin regs'
                                             /\ <<x, c, "insert">> \in regs' => c = b
    BY DEF InsertInv
  <2>3. CASE x = k
    BY <2>1, <2>2, <2>3 DEF FreshInv
  <2>4. CASE x # k
    BY <2>2, <2>4 DEF InsertInv
  <2>5. QED
    BY <2>3, <2>4
<1>4. ListInv'
  BY DEF ListInv, TableInv
<1>5. RaceInv'
  BY DEF RaceInv
<1>6. IndexSound'
  BY DEF IndexSound
<1>7. QED
  BY <1>1, <1>2, <1>3, <1>4, <1>5, <1>6

\* The trigger is inserted before it is listed (triggers.rs:118).
LEMMA InsertStep ==
    ASSUME KeyInv, NEW k \in TriggerIds, NEW a \in Agents, Insert(k, a)
    PROVE  KeyInv'
<1> USE DEF Insert, KeyInv, killVars
<1>1. /\ DOMAIN trigs' = DOMAIN trigs \cup {k} /\ k \notin DOMAIN trigs
      /\ trigs'[k] = New(a)
      /\ \A x \in DOMAIN trigs : trigs'[x] = trigs[x]
      /\ trigs' = [x \in DOMAIN trigs' |-> trigs'[x]]
  BY DEF With, InsertInv
<1>2. New(a) \in Trigger /\ New(a).agent = a
  BY DEF New, Trigger
<1>3. TableInv'
  <2>1. \A x \in DOMAIN trigs' : trigs'[x] \in Trigger
    BY <1>1, <1>2 DEF TableInv
  <2>2. trigs' \in [DOMAIN trigs' -> Trigger]
    BY <1>1, <2>1, Zenon
  <2>3. DOMAIN trigs' \subseteq TriggerIds
    BY <1>1 DEF TableInv
  <2>4. /\ agentTriggers' \in [Agents -> SUBSET TriggerIds] /\ fresh' \subseteq TriggerIds
        /\ regs' \subseteq Requests /\ alive' \subseteq Agents
    BY DEF TableInv, Requests
  <2>5. QED
    BY <2>2, <2>3, <2>4, Zenon DEF TableInv
<1>4. FreshInv'
  BY <1>1 DEF FreshInv
<1>5. InsertInv'
  BY <1>1 DEF InsertInv, TableInv
<1>6. ListInv'
  BY <1>1, <1>2 DEF ListInv, InsertInv, TableInv
<1>7. RaceInv'
  BY DEF RaceInv
<1>8. IndexSound'
  <2>1. ASSUME NEW x \in DOMAIN trigs'
        PROVE  /\ \/ x \in agentTriggers'[trigs'[x].agent] \cup doomed'
                  \/ <<x, trigs'[x].agent, "index">> \in regs'
               /\ trigs'[x].agent \in alive' \cup killing' \/ x \in doomed' \cup raced'
    <3>1. CASE x = k
      BY <1>1, <1>2, <3>1 DEF RaceInv
    <3>2. CASE x # k
      BY <1>1, <3>2 DEF IndexSound
    <3>3. QED
      BY <3>1, <3>2
  <2>2. ASSUME NEW b \in Agents, NEW x \in agentTriggers'[b] \cap DOMAIN trigs'
        PROVE  trigs'[x].agent = b
    <3>1. x \in agentTriggers[b] /\ x # k
      BY <2>2 DEF InsertInv
    <3>2. x \in DOMAIN trigs /\ trigs'[x] = trigs[x]
      BY <1>1, <2>2, <3>1
    <3>3. QED
      BY <3>1, <3>2 DEF IndexSound
  <2>3. QED
    BY <2>1, <2>2 DEF IndexSound
<1>9. QED
  BY <1>3, <1>4, <1>5, <1>6, <1>7, <1>8

\* The trigger is listed (triggers.rs:119).
LEMMA IndexStep ==
    ASSUME KeyInv, NEW k \in TriggerIds, NEW a \in Agents, Index(k, a)
    PROVE  KeyInv'
<1> USE DEF Index, KeyInv, killVars
<1>1. /\ agentTriggers'[a] = agentTriggers[a] \cup {k}
      /\ \A b \in Agents : b # a => agentTriggers'[b] = agentTriggers[b]
  BY DEF TableInv
<1>2. TableInv'
  BY DEF TableInv
<1>3. FreshInv'
  BY <1>1 DEF FreshInv
<1>4. InsertInv'
  BY <1>1 DEF InsertInv
<1>5. ListInv'
  BY DEF ListInv
<1>6. RaceInv'
  BY DEF RaceInv
<1>7. IndexSound'
  BY <1>1 DEF IndexSound, ListInv, TableInv, Trigger
<1>8. QED
  BY <1>2, <1>3, <1>4, <1>5, <1>6, <1>7

\* A trigger leaves the map; a request may take it off the list afterwards
\* (triggers.rs:127).
LEMMA ForgetStep ==
    ASSUME KeyInv, NEW k \in TriggerIds, trigs' = Without({k}),
           UNCHANGED <<agentTriggers, fresh, alive, killing, raced>>,
           \/ regs' = regs /\ doomed' = doomed \ {k}
           \/ k \in DOMAIN trigs /\ regs' = regs \cup {<<k, trigs[k].agent, "unlist">>} /\ doomed' = doomed
    PROVE  KeyInv'
<1> USE DEF KeyInv
<1>1. /\ DOMAIN trigs' = DOMAIN trigs \ {k}
      /\ \A x \in DOMAIN trigs' : trigs'[x] = trigs[x]
      /\ trigs' = [x \in DOMAIN trigs' |-> trigs'[x]]
  BY DEF Without
<1>2. k \in DOMAIN trigs => trigs[k].agent \in Agents
  BY DEF TableInv, Trigger
<1>3. TableInv'
  <2>1. \A x \in DOMAIN trigs' : trigs'[x] \in Trigger
    BY <1>1 DEF TableInv
  <2>2. trigs' \in [DOMAIN trigs' -> Trigger]
    BY <1>1, <2>1, Zenon
  <2>3. DOMAIN trigs' \subseteq TriggerIds
    BY <1>1 DEF TableInv
  <2>4. /\ agentTriggers' \in [Agents -> SUBSET TriggerIds] /\ fresh' \subseteq TriggerIds
        /\ regs' \subseteq Requests /\ alive' \subseteq Agents
    BY <1>2 DEF TableInv, Requests
  <2>5. QED
    BY <2>2, <2>3, <2>4, Zenon DEF TableInv
<1>4. FreshInv'
  BY <1>1 DEF FreshInv
<1>5. InsertInv'
  BY <1>1 DEF InsertInv
<1>6. ListInv'
  BY <1>1 DEF ListInv
<1>7. RaceInv'
  BY DEF RaceInv
<1>8. IndexSound'
  <2>1. ASSUME NEW x \in DOMAIN trigs'
        PROVE  /\ \/ x \in agentTriggers'[trigs'[x].agent] \cup doomed'
                  \/ <<x, trigs'[x].agent, "index">> \in regs'
               /\ trigs'[x].agent \in alive' \cup killing' \/ x \in doomed' \cup raced'
    BY <1>1 DEF IndexSound
  <2>2. ASSUME NEW b \in Agents, NEW x \in agentTriggers'[b] \cap DOMAIN trigs'
        PROVE  trigs'[x].agent = b
    BY <1>1 DEF IndexSound
  <2>3. QED
    BY <2>1, <2>2 DEF IndexSound
<1>9. QED
  BY <1>3, <1>4, <1>5, <1>6, <1>7, <1>8

\* A removed trigger is taken off the list of the agent it was removed from.
LEMMA UnlistStep ==
    ASSUME KeyInv, NEW k \in TriggerIds, NEW a \in Agents, Unlist(k, a)
    PROVE  KeyInv'
<1> USE DEF Unlist, KeyInv, killVars
<1>1. /\ agentTriggers'[a] = agentTriggers[a] \ {k} /\ k \notin DOMAIN trigs
      /\ \A b \in Agents : b # a => agentTriggers'[b] = agentTriggers[b]
  BY DEF TableInv, ListInv
<1>2. TableInv'
  BY DEF TableInv
<1>3. FreshInv'
  BY <1>1 DEF FreshInv
<1>4. InsertInv'
  BY <1>1 DEF InsertInv
<1>5. ListInv'
  BY DEF ListInv
<1>6. RaceInv'
  BY DEF RaceInv
<1>7. IndexSound'
  BY <1>1 DEF IndexSound, TableInv, Trigger
<1>8. QED
  BY <1>2, <1>3, <1>4, <1>5, <1>6, <1>7

\* A new agent registers its own triggers (kernel.rs:1842).
LEMMA SpawnStep ==
    ASSUME KeyInv, NEW a \in Agents, Spawn(a)
    PROVE  KeyInv'
<1> USE DEF Spawn, KeyInv
<1>1. \A k \in TriggerIds, b \in Agents, step \in {"insert", "index", "unlist"} :
        <<k, b, step>> \in regs' <=>
            <<k, b, step>> \in regs \/ (k \in Proactive[a] /\ b = a /\ step = "insert")
  BY SetsAssumption
<1>2. TableInv'
  BY SetsAssumption DEF TableInv, Requests
<1>3. FreshInv'
  BY <1>1 DEF FreshInv, TableInv
<1>4. InsertInv'
  BY <1>1 DEF InsertInv, FreshInv
<1>5. ListInv'
  BY <1>1 DEF ListInv, TableInv
<1>6. RaceInv'
  BY <1>1 DEF RaceInv
<1>7. IndexSound'
  BY <1>1 DEF IndexSound, TableInv, Trigger
<1>8. QED
  BY <1>2, <1>3, <1>4, <1>5, <1>6, <1>7

\* An agent leaves the registry, and the registrations that had found it are on
\* record.
LEMMA KillRemoveStep ==
    ASSUME KeyInv, NEW a \in Agents, KillRemove(a)
    PROVE  KeyInv'
<1> USE DEF KillRemove, KeyInv, tableVars
<1>1. raced \subseteq raced' /\ \A k \in TriggerIds, step \in {"insert", "index", "unlist"} :
        <<k, a, step>> \in regs => k \in raced'
  OBVIOUS
<1>2. TableInv' /\ FreshInv' /\ InsertInv' /\ ListInv'
  BY DEF TableInv, FreshInv, InsertInv, ListInv
<1>3. RaceInv'
  BY <1>1 DEF RaceInv
<1>4. IndexSound'
  BY <1>1 DEF IndexSound
<1>5. QED
  BY <1>2, <1>3, <1>4

\* remove_agent_triggers takes the agent's list, and dooms what is in it
\* (triggers.rs:139).
LEMMA KillIndexStep ==
    ASSUME KeyInv, NEW a \in Agents, KillIndex(a)
    PROVE  KeyInv'
<1> USE DEF KillIndex, KeyInv
<1>1. /\ agentTriggers'[a] = {}
      /\ \A b \in Agents : b # a => agentTriggers'[b] = agentTriggers[b]
  BY DEF TableInv
<1>2. TableInv' /\ FreshInv' /\ InsertInv' /\ ListInv' /\ RaceInv'
  BY <1>1 DEF TableInv, FreshInv, InsertInv, ListInv, RaceInv
<1>3. IndexSound'
  BY <1>1 DEF IndexSound, TableInv, Trigger, RaceInv
<1>4. QED
  BY <1>2, <1>3

-----------------------------------------------------------------------------
(* The invariant *)

LEMMA KeyStep ==
    ASSUME KeyInv, [Next]_vars
    PROVE  KeyInv'
<1>1. ASSUME NEW k \in TriggerIds, TriggerStep(k) PROVE KeyInv'
  <2>1. ASSUME NEW a \in Agents, CheckAgent(k, a) \/ Insert(k, a) \/ Index(k, a) \/ Unlist(k, a)
        PROVE  KeyInv'
    BY <2>1, CheckAgentStep, InsertStep, IndexStep, UnlistStep
  <2>2. CASE RemoveTrigger(k) \/ KillTrigger(k)
    BY <2>2, ForgetStep DEF RemoveTrigger, KillTrigger, killVars
  <2>3. ASSUME NEW on \in BOOLEAN, SetEnabled(k, on) PROVE KeyInv'
    BY <2>3, SameOwners DEF SetEnabled, killVars, KeyInv, TableInv, Trigger
  <2>4. QED
    BY <1>1, <2>1, <2>2, <2>3 DEF TriggerStep
<1>2. ASSUME NEW e \in Events, EventStep(e) PROVE KeyInv'
  <2>1. CASE Publish(e) \/ DispatchHits(e) \/ DropPublisher(e) \/ DropHits(e) \/ \E a \in Agents : SpawnEvent(e, a)
    BY <2>1, SameOwners DEF Publish, DispatchHits, DropPublisher, DropHits, SpawnEvent, tableVars, killVars, KeyInv, TableInv
  <2>2. ASSUME NEW k \in TriggerIds, Visit(e, k) PROVE KeyInv'
    <3> DEFINE kind == events[e].pc
    <3>1. k \in DOMAIN trigs => Visited(k, kind) \in Trigger /\ Visited(k, kind).agent = trigs[k].agent
      <4>1. SUFFICES ASSUME k \in DOMAIN trigs
                     PROVE  Visited(k, kind) \in Trigger /\ Visited(k, kind).agent = trigs[k].agent
        OBVIOUS
      <4>2. trigs[k] \in Trigger
        BY <4>1 DEF KeyInv, TableInv
      <4>3. CASE Fires(k, kind)
        <5>1. Visited(k, kind) = [trigs[k] EXCEPT !.fires = @ + 1]
          BY <4>3 DEF Visited
        <5>2. QED
          BY <4>2, <5>1 DEF Trigger
      <4>4. CASE ~ Fires(k, kind)
        <5>1. PICK on \in BOOLEAN : Visited(k, kind) = [trigs[k] EXCEPT !.enabled = on]
          BY <4>2, <4>4 DEF Visited, Trigger
        <5>2. QED
          BY <4>2, <5>1 DEF Trigger
      <4>5. QED
        BY <4>3, <4>4
    <3>2. trigs' = [x \in DOMAIN trigs |-> IF x = k THEN Visited(k, kind) ELSE trigs[x]]
      BY <2>2 DEF Visit
    <3> HIDE DEF kind
    <3>3. trigs' \in [DOMAIN trigs -> Trigger] /\ \A x \in DOMAIN trigs : trigs'[x].agent = trigs[x].agent
      BY <3>1, <3>2 DEF KeyInv, TableInv
    <3>4. QED
      BY <2>2, <3>2, <3>3, SameOwners DEF Visit, killVars
  <2>3. QED
    BY <1>2, <2>1, <2>2 DEF EventStep
<1>3. ASSUME NEW h \in Hits, Deliver(h) PROVE KeyInv'
  BY <1>3, SameOwners DEF Deliver, tableVars, killVars, KeyInv, TableInv
<1>4. ASSUME NEW a \in Agents, Spawn(a) \/ KillRemove(a) \/ KillIndex(a) PROVE KeyInv'
  BY <1>4, SpawnStep, KillRemoveStep, KillIndexStep
<1>5. CASE UNCHANGED vars
  BY <1>5, SameOwners DEF vars, tableVars, killVars, KeyInv, TableInv
<1>6. QED
  BY <1>1, <1>2, <1>3, <1>4, <1>5 DEF Next

LEMMA KeyInvariant == Spec => []KeyInv
<1>1. Init => KeyInv
  BY SetsAssumption DEF Init, KeyInv, TableInv, FreshInv, InsertInv, ListInv, RaceInv, IndexSound, Requests
<1>2. QED
  BY <1>1, KeyStep, PTL DEF Spec

\* The maps of triggers and of agents agree in every state: a trigger whose
\* registration is over is found through its agent, no list has a trigger of
\* another, and the triggers of a killed agent are gone but for those whose
\* registration raced with the kill (triggers.rs:118, kernel.rs:3672).
THEOREM IndexTheorem == Spec => []IndexSound
<1>1. KeyInv => IndexSound
  BY DEF KeyInv
<1>2. QED
  BY <1>1, KeyInvariant, PTL

-----------------------------------------------------------------------------
(* The fires of a trigger.  A hit is found once by an event, which has not     *)
(* visited the trigger before and has sent or dropped nothing so far.          *)

Sent == inbox \cup served \cup unsent

EventInv ==
    /\ events \in [Events -> [pc : {"none", "publish", "spawn", "done"}, left : SUBSET TriggerIds,
                              hits : SUBSET (TriggerIds \X Agents)]]
    /\ Sent \subseteq Hits
    /\ \A e \in Events :
          /\ events[e].pc \in {"none", "done"} => events[e].left = {} /\ events[e].hits = {}
          /\ events[e].pc # "done" => \A h \in Sent : h[1] # e
          /\ \A k \in events[e].left, a \in Agents : <<k, a>> \notin events[e].hits

\* The count of a trigger is the number of its fires for as long as it is in the
\* map, and its limit holds also when it has left it.
CountOK(k) ==
    /\ IsFiniteSet(FiresOf(k))
    /\ k \in fresh \/ (\E a \in Agents : <<k, a, "insert">> \in regs) => FiresOf(k) = {}
    /\ Limit[k] > 0 => Cardinality(FiresOf(k)) <= Limit[k]
    /\ k \in DOMAIN trigs => trigs[k].fires = Cardinality(FiresOf(k))

CountInv == \A k \in TriggerIds : CountOK(k)

Found == UNION {HitsOf(e) : e \in Events}

LEMMA FiresAre ==
    \A k \in TriggerIds : /\ FiresOf(k) = {h \in Found \cup Sent : h[2] = k}
                          /\ FiresOf(k)' = {h \in Found' \cup Sent' : h[2] = k}
<1>1. Found \cup Sent = Found \cup inbox \cup served \cup unsent
  <2> HIDE DEF Found
  <2>1. QED
    BY DEF Sent
<1>2. Found' \cup Sent' = Found' \cup inbox' \cup served' \cup unsent'
  <2>1. Sent' = inbox' \cup served' \cup unsent'
    BY DEF Sent
  <2>2. QED
    BY <2>1
<1>3. ASSUME NEW k \in TriggerIds
      PROVE  FiresOf(k) = {h \in Found \cup inbox \cup served \cup unsent : h[2] = k}
  BY Zenon DEF FiresOf, Found
<1>4. ASSUME NEW k \in TriggerIds
      PROVE  FiresOf(k)' = {h \in Found' \cup inbox' \cup served' \cup unsent' : h[2] = k}
  BY Zenon DEF FiresOf, Found
<1>5. QED
  BY <1>1, <1>2, <1>3, <1>4

\* A step of one event changes the hits of that event.
LEMMA OneEvent ==
    ASSUME NEW e \in Events, \A x \in Events : x # e => HitsOf(x)' = HitsOf(x)
    PROVE  \E S : Found = HitsOf(e) \cup S /\ Found' = HitsOf(e)' \cup S
<1> DEFINE S == UNION {HitsOf(x) : x \in Events \ {e}}
<1>1. Found = HitsOf(e) \cup S
  BY DEF Found
<1>2. Found' = HitsOf(e)' \cup S
  <2>1. Found' = UNION {HitsOf(x)' : x \in Events}
    BY DEF Found
  <2>2. \A h : h \in S <=> \E x \in Events \ {e} : h \in HitsOf(x)'
    OBVIOUS
  <2>3. QED
    BY <2>1, <2>2
<1>3. QED
  BY <1>1, <1>2

LEMMA OtherEvents ==
    ASSUME NEW e \in Events, \A x \in Events : x # e => events'[x] = events[x]
    PROVE  \A x \in Events : x # e => HitsOf(x)' = HitsOf(x)
BY DEF HitsOf

\* Steps that find no hit and lose none keep every count.
LEMMA SameFires ==
    ASSUME CountInv, Found' \cup Sent' = Found \cup Sent,
           \A k \in TriggerIds :
              /\ k \in fresh' \/ (\E a \in Agents : <<k, a, "insert">> \in regs') =>
                    k \in fresh \/ \E a \in Agents : <<k, a, "insert">> \in regs
              /\ k \in DOMAIN trigs' => k \in DOMAIN trigs /\ trigs'[k].fires = trigs[k].fires
    PROVE  CountInv'
<1>1. \A k \in TriggerIds : FiresOf(k)' = FiresOf(k)
  BY FiresAre
<1>2. QED
  BY <1>1 DEF CountInv, CountOK

\* An event begins: it has found and sent nothing.
LEMMA EvaluateStep ==
    ASSUME EventInv, NEW e \in Events, NEW kind \in {"publish", "spawn"}, Evaluate(e, kind),
           Sent' = Sent
    PROVE  EventInv' /\ Found' = Found
<1>1. /\ events[e].pc = "none" /\ events[e].hits = {}
      /\ events' = [events EXCEPT ![e] = [pc |-> kind, left |-> TriggerIds, hits |-> {}]]
  BY DEF Evaluate, EventInv
<1>2. /\ events'[e] = [pc |-> kind, left |-> TriggerIds, hits |-> {}]
      /\ \A x \in Events : x # e => events'[x] = events[x]
  BY <1>1 DEF EventInv
<1>3. EventInv'
  <2>1. events' \in [Events -> [pc : {"none", "publish", "spawn", "done"}, left : SUBSET TriggerIds,
                                hits : SUBSET (TriggerIds \X Agents)]]
    BY <1>1 DEF EventInv
  <2>2. QED
    BY <1>1, <1>2, <2>1 DEF EventInv
<1>4. HitsOf(e) = {} /\ HitsOf(e)' = {}
  BY <1>1, <1>2 DEF HitsOf
<1>5. Found' = Found
  BY <1>2, <1>4, OneEvent, OtherEvents
<1>6. QED
  BY <1>3, <1>5

\* An event is over: its hits are sent or dropped, each once.
LEMMA EvaluatedStep ==
    ASSUME EventInv, NEW e \in Events, NEW kind \in {"publish", "spawn"}, Evaluated(e, kind),
           Sent' = Sent \cup HitsOf(e)
    PROVE  EventInv' /\ Found' \cup Sent' = Found \cup Sent
<1>1. /\ events[e].pc = kind /\ events[e].left = {}
      /\ events' = [events EXCEPT ![e] = [pc |-> "done", left |-> {}, hits |-> {}]]
  <2>1. [NoEvent EXCEPT !.pc = "done"] = [pc |-> "done", left |-> {}, hits |-> {}]
    BY DEF NoEvent
  <2>2. QED
    BY <2>1 DEF Evaluated
<1>2. /\ events'[e] = [pc |-> "done", left |-> {}, hits |-> {}]
      /\ \A x \in Events : x # e => events'[x] = events[x]
  BY <1>1 DEF EventInv
<1>3. events[e].hits \subseteq TriggerIds \X Agents
  BY DEF EventInv
<1>4. \A h \in HitsOf(e) : h \in Hits /\ h[1] = e
  BY <1>3 DEF HitsOf, Hits
<1>5. EventInv'
  <2>1. events' \in [Events -> [pc : {"none", "publish", "spawn", "done"}, left : SUBSET TriggerIds,
                                hits : SUBSET (TriggerIds \X Agents)]]
    BY <1>1 DEF EventInv
  <2>2. Sent' \subseteq Hits
    BY <1>4 DEF EventInv
  <2>3. \A x \in Events : events'[x].pc # "done" => \A h \in Sent' : h[1] # x
    BY <1>2, <1>4 DEF EventInv
  <2>4. QED
    BY <1>2, <2>1, <2>2, <2>3 DEF EventInv
<1>6. HitsOf(e)' = {}
  BY <1>2 DEF HitsOf
<1>7. Found' \cup Sent' = Found \cup Sent
  <2>1. PICK S : Found = HitsOf(e) \cup S /\ Found' = HitsOf(e)' \cup S
    BY <1>2, OneEvent, OtherEvents
  <2>2. QED
    BY <1>6, <2>1
<1>8. QED
  BY <1>5, <1>7

\* A trigger is visited once by an event; if it fires, its count and its hits
\* grow by one, and only below its limit (triggers.rs:187).
LEMMA VisitStep ==
    ASSUME KeyInv, EventInv, CountInv, NEW e \in Events, NEW k \in TriggerIds, Visit(e, k)
    PROVE  EventInv' /\ CountInv'
<1> DEFINE kind == events[e].pc
           hit == <<k, trigs[k].agent>>
           fire == <<e, k, trigs[k].agent>>
<1>1. /\ k \in events[e].left
      /\ trigs' = [x \in DOMAIN trigs |-> IF x = k THEN Visited(k, kind) ELSE trigs[x]]
      /\ events' = [events EXCEPT
                      ![e].left = @ \ {k},
                      ![e].hits = IF Fires(k, kind) THEN @ \cup {hit} ELSE @]
      /\ UNCHANGED <<fresh, regs>> /\ Sent' = Sent
  BY DEF Visit, messageVars, Sent
<1>2. kind \in {"publish", "spawn"}
  BY <1>1 DEF EventInv
<1>3. Fires(k, kind) => trigs[k] \in Trigger /\ hit \in TriggerIds \X Agents
  BY DEF Fires, KeyInv, TableInv, Trigger
<1>4. /\ events'[e].pc = kind /\ events'[e].left = events[e].left \ {k}
      /\ events'[e].hits = IF Fires(k, kind) THEN events[e].hits \cup {hit} ELSE events[e].hits
      /\ \A x \in Events : x # e => events'[x] = events[x]
  BY <1>1 DEF EventInv
<1>5. EventInv'
  <2>1. events'[e].left \subseteq TriggerIds /\ events'[e].hits \subseteq TriggerIds \X Agents
    BY <1>3, <1>4 DEF EventInv
  <2>2. events' \in [Events -> [pc : {"none", "publish", "spawn", "done"}, left : SUBSET TriggerIds,
                                hits : SUBSET (TriggerIds \X Agents)]]
    <3>1. DOMAIN events' = Events /\ events' = [x \in Events |-> events'[x]]
      BY <1>1 DEF EventInv
    <3> DEFINE Row == [pc : {"none", "publish", "spawn", "done"}, left : SUBSET TriggerIds,
                       hits : SUBSET (TriggerIds \X Agents)]
    <3>2. events'[e] \in Row
      <4>1. events[e] \in Row
        BY DEF EventInv
      <4>2. PICK L, H : events'[e] = [events[e] EXCEPT !.left = L, !.hits = H]
        BY <1>1 DEF EventInv
      <4>3. events'[e] = [pc |-> events[e].pc, left |-> L, hits |-> H]
        BY <4>1, <4>2
      <4>4. L \subseteq TriggerIds /\ H \subseteq TriggerIds \X Agents
        BY <2>1, <4>3
      <4>5. QED
        BY <4>1, <4>3, <4>4
    <3>3. \A x \in Events : events[x] \in Row
      BY DEF EventInv
    <3> HIDE DEF Row
    <3>4. \A x \in Events : events'[x] \in Row
      BY <1>4, <3>2, <3>3
    <3>5. events' \in [Events -> Row]
      BY <3>1, <3>4
    <3>6. QED
      BY <3>5 DEF Row
  <2>3. \A x \in events'[e].left, a \in Agents : <<x, a>> \notin events'[e].hits
    <3>1. ASSUME NEW x \in events'[e].left, NEW a \in Agents
          PROVE  <<x, a>> \notin events[e].hits /\ <<x, a>> # hit
      BY <1>4 DEF EventInv
    <3> HIDE DEF hit, kind
    <3>2. QED
      BY <1>4, <3>1
  <2>4. QED
    BY <1>1, <1>2, <1>4, <2>2, <2>3 DEF EventInv
<1>6. CASE ~Fires(k, kind)
  <2>1. HitsOf(e)' = HitsOf(e)
    BY <1>4, <1>6 DEF HitsOf
  <2>2. Found' = Found
    BY <1>4, <2>1, OneEvent, OtherEvents
  <2>3. k \in DOMAIN trigs => Visited(k, kind).fires = trigs[k].fires
    BY <1>6 DEF Visited, KeyInv, TableInv, Trigger
  <2>4. \A x \in DOMAIN trigs : trigs'[x].fires = trigs[x].fires
    BY <1>1, <2>3
  <2> HIDE DEF kind
  <2>5. QED
    BY <1>1, <1>5, <2>2, <2>4, SameFires
<1>7. CASE Fires(k, kind)
  <2>1. HitsOf(e)' = HitsOf(e) \cup {fire}
    <3>1. HitsOf(e)' = {<<e, h[1], h[2]>> : h \in events[e].hits \cup {hit}}
      BY <1>4, <1>7 DEF HitsOf
    <3>2. fire = <<e, hit[1], hit[2]>>
      OBVIOUS
    <3> HIDE DEF fire, hit
    <3>3. QED
      BY <3>1, <3>2 DEF HitsOf
  <2>2. fire \notin Found \cup Sent
    <3>1. fire \notin Sent
      BY <1>2 DEF EventInv
    <3>2. ASSUME NEW x \in Events PROVE fire \notin HitsOf(x)
      <4>1. \A h \in events[x].hits : h = <<h[1], h[2]>> /\ h[2] \in Agents
        BY DEF EventInv
      <4>2. hit \notin events[e].hits
        BY <1>1, <1>3, <1>7 DEF EventInv
      <4>3. QED
        BY <4>1, <4>2 DEF HitsOf
    <3>3. QED
      BY <3>1, <3>2 DEF Found
  <2>3. Found' \cup Sent' = (Found \cup Sent) \cup {fire}
    <3>1. PICK S : Found = HitsOf(e) \cup S /\ Found' = HitsOf(e)' \cup S
      BY <1>4, OneEvent, OtherEvents
    <3> HIDE DEF fire
    <3>2. QED
      BY <1>1, <2>1, <3>1
  <2>6. fire[2] = k
    OBVIOUS
  <2> HIDE DEF fire
  <2>7. FiresOf(k)' = FiresOf(k) \cup {fire} /\ fire \notin FiresOf(k)
    BY <2>2, <2>3, <2>6, FiresAre
  <2>8. ASSUME NEW x \in TriggerIds, x # k PROVE FiresOf(x)' = FiresOf(x)
    BY <2>3, <2>6, <2>8, FiresAre
  <2>9. /\ IsFiniteSet(FiresOf(k)) /\ Cardinality(FiresOf(k)) \in Nat
        /\ k \in DOMAIN trigs /\ trigs[k].fires = Cardinality(FiresOf(k))
        /\ Limit[k] \in Nat /\ (Limit[k] > 0 => trigs[k].fires < Limit[k])
    <3>1. IsFiniteSet(FiresOf(k)) /\ k \in DOMAIN trigs /\ trigs[k].fires = Cardinality(FiresOf(k))
      BY <1>7 DEF CountInv, CountOK, Fires
    <3>2. Cardinality(FiresOf(k)) \in Nat
      BY <3>1, FS_CardinalityType
    <3>3. Limit[k] \in Nat
      BY SetsAssumption
    <3>4. QED
      BY <1>7, <3>1, <3>2, <3>3 DEF Fires, Exhausted
  <2>10. /\ IsFiniteSet(FiresOf(k)')
         /\ Cardinality(FiresOf(k)') = Cardinality(FiresOf(k)) + 1
    BY <2>7, <2>9, FS_AddElement
  <2>11. trigs'[k].fires = trigs[k].fires + 1
    <3>1. trigs'[k] = [trigs[k] EXCEPT !.fires = @ + 1]
      BY <1>1, <1>7, <2>9 DEF Visited
    <3>2. QED
      BY <1>3, <1>7, <3>1 DEF Trigger
  <2>12. k \notin fresh /\ \A a \in Agents : <<k, a, "insert">> \notin regs
    BY <2>9 DEF KeyInv, FreshInv, InsertInv
  <2>13. CountOK(k)'
    <3>1. Limit[k] > 0 => Cardinality(FiresOf(k)') <= Limit[k]
      BY <2>9, <2>10
    <3>2. trigs'[k].fires = Cardinality(FiresOf(k)')
      BY <2>9, <2>10, <2>11
    <3>3. k \notin fresh' /\ \A a \in Agents : <<k, a, "insert">> \notin regs'
      BY <1>1, <2>12
    <3>4. QED
      BY <2>10, <3>1, <3>2, <3>3 DEF CountOK
  <2>14. ASSUME NEW x \in TriggerIds, x # k PROVE CountOK(x)'
    <3>1. FiresOf(x)' = FiresOf(x) /\ CountOK(x)
      BY <2>8, <2>14 DEF CountInv
    <3>2. x \in DOMAIN trigs' => x \in DOMAIN trigs /\ trigs'[x] = trigs[x]
      BY <1>1, <2>14
    <3>3. fresh' = fresh /\ regs' = regs
      BY <1>1
    <3>4. QED
      BY <3>1, <3>2, <3>3 DEF CountOK
  <2>15. QED
    BY <1>5, <2>13, <2>14 DEF CountInv
<1>8. QED
  BY <1>6, <1>7

LEMMA CountStep ==
    ASSUME KeyInv, EventInv, CountInv, [Next]_vars
    PROVE  EventInv' /\ CountInv'
<1>1. ASSUME UNCHANGED <<events, messageVars>>
      PROVE  EventInv' /\ Found' \cup Sent' = Found \cup Sent
  <2>1. Found' = Found /\ Sent' = Sent
    BY <1>1 DEF Found, HitsOf, Sent, messageVars
  <2>2. QED
    BY <1>1, <2>1 DEF EventInv, Sent, messageVars
<1>2. ASSUME NEW k \in TriggerIds, NEW a \in Agents,
             CheckAgent(k, a) \/ Insert(k, a) \/ Index(k, a) \/ Unlist(k, a)
      PROVE  EventInv' /\ CountInv'
  <2>1. EventInv' /\ Found' \cup Sent' = Found \cup Sent
    BY <1>1, <1>2 DEF CheckAgent, Insert, Index, Unlist
  <2>2. CASE CheckAgent(k, a)
    <3>1. \A x \in TriggerIds, b \in Agents : <<x, b, "insert">> \in regs' =>
             x \in fresh \/ <<x, b, "insert">> \in regs
      BY <2>2 DEF CheckAgent
    <3>2. QED
      BY <2>1, <2>2, <3>1, SameFires DEF CheckAgent
  <2>3. CASE Insert(k, a)
    <3>1. /\ <<k, a, "insert">> \in regs /\ k \notin DOMAIN trigs /\ fresh' = fresh
          /\ regs' = (regs \ {<<k, a, "insert">>}) \cup {<<k, a, "index">>}
          /\ trigs' = With({k}, a)
      BY <2>3 DEF Insert, KeyInv, InsertInv
    <3>2. /\ trigs'[k].fires = 0 /\ DOMAIN trigs' = DOMAIN trigs \cup {k}
          /\ \A x \in DOMAIN trigs : x # k => trigs'[x] = trigs[x]
      BY <3>1 DEF With, New
    <3>3. \A x \in TriggerIds : FiresOf(x)' = FiresOf(x)
      BY <2>1, FiresAre
    <3>4. FiresOf(k) = {} /\ Cardinality(FiresOf(k)) = 0
      BY <3>1, FS_EmptySet DEF CountInv, CountOK
    <3>5. CountOK(k)'
      BY <3>1, <3>2, <3>3, <3>4 DEF CountInv, CountOK
    <3>6. ASSUME NEW x \in TriggerIds, x # k PROVE CountOK(x)'
      BY <3>1, <3>2, <3>3, <3>6 DEF CountInv, CountOK
    <3>7. QED
      BY <2>1, <3>5, <3>6 DEF CountInv
  <2>4. CASE Index(k, a) \/ Unlist(k, a)
    BY <2>1, <2>4, SameFires DEF Index, Unlist
  <2>5. QED
    BY <1>2, <2>2, <2>3, <2>4
<1>3. ASSUME NEW k \in TriggerIds, RemoveTrigger(k) \/ KillTrigger(k)
      PROVE  EventInv' /\ CountInv'
  <2>1. EventInv' /\ Found' \cup Sent' = Found \cup Sent
    BY <1>1, <1>3 DEF RemoveTrigger, KillTrigger
  <2>2. \A x \in DOMAIN trigs' : x \in DOMAIN trigs /\ trigs'[x] = trigs[x]
    BY <1>3 DEF RemoveTrigger, KillTrigger, Without
  <2>3. \A x \in TriggerIds, b \in Agents : <<x, b, "insert">> \in regs' => <<x, b, "insert">> \in regs
    BY <1>3 DEF RemoveTrigger, KillTrigger
  <2>4. fresh' = fresh
    BY <1>3 DEF RemoveTrigger, KillTrigger
  <2>5. QED
    BY <2>1, <2>2, <2>3, <2>4, SameFires
<1>4. ASSUME NEW k \in TriggerIds, NEW on \in BOOLEAN, SetEnabled(k, on)
      PROVE  EventInv' /\ CountInv'
  <2>1. EventInv' /\ Found' \cup Sent' = Found \cup Sent
    BY <1>1, <1>4 DEF SetEnabled
  <2>2. /\ k \in DOMAIN trigs /\ trigs' = [trigs EXCEPT ![k].enabled = on]
        /\ fresh' = fresh /\ regs' = regs
    BY <1>4 DEF SetEnabled
  <2>3. DOMAIN trigs' = DOMAIN trigs /\ \A x \in DOMAIN trigs : trigs'[x].fires = trigs[x].fires
    BY <2>2 DEF KeyInv, TableInv, Trigger
  <2>4. QED
    BY <2>1, <2>2, <2>3, SameFires
<1>5. ASSUME NEW e \in Events, Publish(e) \/ \E a \in Agents : SpawnEvent(e, a)
      PROVE  EventInv' /\ CountInv'
  <2>1. PICK kind \in {"publish", "spawn"} : Evaluate(e, kind)
    BY <1>5 DEF Publish, SpawnEvent
  <2>2. Sent' = Sent /\ UNCHANGED <<trigs, fresh, regs>>
    BY <1>5 DEF Publish, SpawnEvent, Sent, messageVars, tableVars
  <2>3. EventInv' /\ Found' = Found
    BY <2>1, <2>2, EvaluateStep
  <2>4. QED
    BY <2>2, <2>3, SameFires
<1>6. ASSUME NEW e \in Events, DispatchHits(e) \/ DropPublisher(e) \/ DropHits(e)
      PROVE  EventInv' /\ CountInv'
  <2>1. PICK kind \in {"publish", "spawn"} : Evaluated(e, kind)
    BY <1>6 DEF DispatchHits, DropPublisher, DropHits
  <2>2. Sent' = Sent \cup HitsOf(e) /\ UNCHANGED <<trigs, fresh, regs>>
    BY <1>6 DEF DispatchHits, DropPublisher, DropHits, Sent, tableVars
  <2>3. EventInv' /\ Found' \cup Sent' = Found \cup Sent
    BY <2>1, <2>2, EvaluatedStep
  <2>4. QED
    BY <2>2, <2>3, SameFires
<1>7. ASSUME NEW h \in Hits, Deliver(h)
      PROVE  EventInv' /\ CountInv'
  <2>1. Sent' = Sent /\ UNCHANGED <<trigs, fresh, regs, events>>
    BY <1>7 DEF Deliver, Sent, tableVars
  <2>2. Found' = Found /\ EventInv'
    BY <2>1 DEF Found, HitsOf, EventInv
  <2>3. QED
    BY <2>1, <2>2, SameFires
<1>8. ASSUME NEW a \in Agents, Spawn(a)
      PROVE  EventInv' /\ CountInv'
  <2>1. EventInv' /\ Found' \cup Sent' = Found \cup Sent
    BY <1>1, <1>8 DEF Spawn
  <2>2. \A x \in TriggerIds, b \in Agents : <<x, b, "insert">> \in regs' =>
           x \in fresh \/ <<x, b, "insert">> \in regs
    BY <1>8 DEF Spawn
  <2>3. fresh' \subseteq fresh /\ trigs' = trigs
    BY <1>8 DEF Spawn
  <2>4. QED
    BY <2>1, <2>2, <2>3, SameFires
<1>9. ASSUME NEW a \in Agents, KillRemove(a) \/ KillIndex(a)
      PROVE  EventInv' /\ CountInv'
  <2>1. EventInv' /\ Found' \cup Sent' = Found \cup Sent
    BY <1>1, <1>9 DEF KillRemove, KillIndex
  <2>2. UNCHANGED <<trigs, fresh, regs>>
    BY <1>9 DEF KillRemove, KillIndex, tableVars
  <2>3. QED
    BY <2>1, <2>2, SameFires
<1>10. CASE UNCHANGED vars
  <2>1. EventInv' /\ Found' \cup Sent' = Found \cup Sent
    BY <1>1, <1>10 DEF vars
  <2>2. UNCHANGED <<trigs, fresh, regs>>
    BY <1>10 DEF vars, tableVars
  <2>3. QED
    BY <2>1, <2>2, SameFires
<1>11. QED
  BY <1>2, <1>3, <1>4, <1>5, <1>6, <1>7, <1>8, <1>9, <1>10, VisitStep
  DEF Next, TriggerStep, EventStep

LEMMA CountInvariant == Spec => [](EventInv /\ CountInv)
<1>1. Init => EventInv /\ CountInv
  <2> SUFFICES ASSUME Init PROVE EventInv /\ CountInv
    OBVIOUS
  <2>1. \A e \in Events : /\ events[e] = [pc |-> "none", left |-> {}, hits |-> {}]
                          /\ HitsOf(e) = {}
    BY DEF Init, NoEvent, HitsOf
  <2>2. Sent = {} /\ Found = {}
    BY <2>1 DEF Init, Sent, Found
  <2>3. EventInv
    BY <2>1, <2>2 DEF EventInv, Init, NoEvent
  <2>4. ASSUME NEW k \in TriggerIds PROVE CountOK(k)
    <3>1. FiresOf(k) = {}
      BY <2>2 DEF FiresOf, Found, Sent
    <3>2. IsFiniteSet(FiresOf(k)) /\ Cardinality(FiresOf(k)) = 0
      BY <3>1, FS_EmptySet
    <3>3. DOMAIN trigs = {}
      BY DEF Init
    <3>4. Limit[k] \in Nat
      BY SetsAssumption
    <3>5. QED
      BY <3>1, <3>2, <3>3, <3>4 DEF CountOK
  <2>5. QED
    BY <2>3, <2>4 DEF CountInv
<1>2. KeyInv /\ EventInv /\ CountInv /\ [Next]_vars => EventInv' /\ CountInv'
  BY CountStep
<1>3. QED
  BY <1>1, <1>2, KeyInvariant, PTL DEF Spec

\* A trigger fires no more often than its limit, however many events are evaluated
\* at once, who enables it again, and whether it is still registered; and its count
\* is the number of messages made for it, for any number of triggers, agents and
\* events (triggers.rs:187, kernel.rs:1842).
THEOREM FiresTheorem == Spec => []FiresAccounted
<1>1. CountInv => FiresAccounted
  BY DEF CountInv, CountOK, FiresAccounted
<1>2. QED
  BY <1>1, CountInvariant, PTL

-----------------------------------------------------------------------------
(* Types.  A trigger is on one list because its identifier belongs to one     *)
(* agent from its registration on; a message is under way or served, because *)
(* an event that still has hits has sent none.                               *)

BelongsTo(k, a) ==
    k \in agentTriggers[a] \/ <<k, a, "insert">> \in regs \/ <<k, a, "index">> \in regs

OwnerInv == \A k \in TriggerIds, a, b \in Agents : BelongsTo(k, a) /\ BelongsTo(k, b) => a = b

LifeInv ==
    /\ spawning \subseteq Agents /\ killing \subseteq Agents \ alive
    /\ alive \cup killing \subseteq used /\ used \subseteq Agents
    /\ doomed \subseteq TriggerIds /\ raced \subseteq TriggerIds

MessageInv == inbox \cap served = {}

\* An identifier comes to belong to somebody while it is fresh, that is, while it
\* belongs to nobody.
LEMMA OwnerStep ==
    ASSUME KeyInv, OwnerInv, [Next]_vars
    PROVE  OwnerInv'
<1>1. ASSUME NEW a \in Agents, NEW K \in SUBSET TriggerIds, K \subseteq fresh,
             \A k \in TriggerIds, b \in Agents :
                BelongsTo(k, b)' => BelongsTo(k, b) \/ (k \in K /\ b = a)
      PROVE  OwnerInv'
  <2>1. \A k \in K, b \in Agents : ~ BelongsTo(k, b)
    BY <1>1 DEF KeyInv, FreshInv, BelongsTo
  <2>2. QED
    BY <1>1, <2>1 DEF OwnerInv
<1>2. ASSUME \A k \in TriggerIds, b \in Agents : BelongsTo(k, b)' => BelongsTo(k, b)
      PROVE  OwnerInv'
  BY <1>2 DEF OwnerInv
<1>3. ASSUME UNCHANGED <<agentTriggers, regs>> PROVE OwnerInv'
  BY <1>2, <1>3 DEF BelongsTo
<1>4. ASSUME NEW k \in TriggerIds, TriggerStep(k) PROVE OwnerInv'
  <2>1. ASSUME NEW a \in Agents, CheckAgent(k, a) PROVE OwnerInv'
    <3>1. k \in fresh /\ agentTriggers' = agentTriggers /\ regs' = regs \cup {<<k, a, "insert">>}
      BY <2>1 DEF CheckAgent
    <3>2. \A x \in TriggerIds, b \in Agents : BelongsTo(x, b)' => BelongsTo(x, b) \/ (x \in {k} /\ b = a)
      BY <3>1 DEF BelongsTo
    <3>3. {k} \in SUBSET TriggerIds /\ {k} \subseteq fresh
      BY <3>1
    <3>4. QED
      BY <1>1, <3>2, <3>3
  <2>2. ASSUME NEW a \in Agents, Insert(k, a) PROVE OwnerInv'
    <3>1. /\ <<k, a, "insert">> \in regs /\ agentTriggers' = agentTriggers
          /\ regs' \subseteq regs \cup {<<k, a, "index">>}
      BY <2>2 DEF Insert
    <3>2. QED
      BY <1>2, <3>1 DEF BelongsTo
  <2>3. ASSUME NEW a \in Agents, Index(k, a) PROVE OwnerInv'
    <3>1. /\ <<k, a, "index">> \in regs /\ regs' \subseteq regs
          /\ \A b \in Agents : agentTriggers'[b] = IF b = a THEN agentTriggers[b] \cup {k} ELSE agentTriggers[b]
      BY <2>3 DEF Index, KeyInv, TableInv
    <3>2. QED
      BY <1>2, <3>1 DEF BelongsTo
  <2>4. ASSUME NEW a \in Agents, Unlist(k, a) PROVE OwnerInv'
    <3>1. /\ regs' \subseteq regs
          /\ \A b \in Agents : agentTriggers'[b] \subseteq agentTriggers[b]
      BY <2>4 DEF Unlist, KeyInv, TableInv
    <3>2. QED
      BY <1>2, <3>1 DEF BelongsTo
  <2>5. CASE RemoveTrigger(k)
    <3>1. agentTriggers' = agentTriggers /\ regs' = regs \cup {<<k, trigs[k].agent, "unlist">>}
      BY <2>5 DEF RemoveTrigger
    <3>2. QED
      BY <1>2, <3>1 DEF BelongsTo
  <2>6. CASE KillTrigger(k) \/ \E on \in BOOLEAN : SetEnabled(k, on)
    BY <1>3, <2>6 DEF KillTrigger, SetEnabled
  <2>7. QED
    BY <1>4, <2>1, <2>2, <2>3, <2>4, <2>5, <2>6 DEF TriggerStep
<1>5. ASSUME NEW e \in Events, EventStep(e) PROVE OwnerInv'
  BY <1>3, <1>5 DEF EventStep, Publish, DispatchHits, DropPublisher, DropHits, SpawnEvent, Visit, tableVars
<1>6. ASSUME NEW h \in Hits, Deliver(h) PROVE OwnerInv'
  BY <1>3, <1>6 DEF Deliver, tableVars
<1>7. ASSUME NEW a \in Agents, Spawn(a) PROVE OwnerInv'
  <2>1. /\ Proactive[a] \subseteq fresh /\ Proactive[a] \in SUBSET TriggerIds
        /\ agentTriggers' = agentTriggers /\ regs' = regs \cup {<<k, a, "insert">> : k \in Proactive[a]}
    BY <1>7, SetsAssumption DEF Spawn
  <2>2. \A x \in TriggerIds, b \in Agents :
           BelongsTo(x, b)' => BelongsTo(x, b) \/ (x \in Proactive[a] /\ b = a)
    BY <2>1 DEF BelongsTo
  <2>3. QED
    BY <1>1, <2>1, <2>2
<1>8. ASSUME NEW a \in Agents, KillRemove(a) \/ KillIndex(a) PROVE OwnerInv'
  <2>1. regs' = regs /\ \A b \in Agents : agentTriggers'[b] \subseteq agentTriggers[b]
    BY <1>8 DEF KillRemove, KillIndex, tableVars, KeyInv, TableInv
  <2>2. QED
    BY <1>2, <2>1 DEF BelongsTo
<1>9. CASE UNCHANGED vars
  BY <1>3, <1>9 DEF vars, tableVars
<1>10. QED
  BY <1>4, <1>5, <1>6, <1>7, <1>8, <1>9 DEF Next

LEMMA LifeStep ==
    ASSUME KeyInv, LifeInv, [Next]_vars
    PROVE  LifeInv'
<1>1. ASSUME UNCHANGED <<alive, spawning, killing, doomed, used, raced>> PROVE LifeInv'
  BY <1>1 DEF LifeInv
<1>2. ASSUME NEW k \in TriggerIds, TriggerStep(k) PROVE LifeInv'
  <2>1. CASE KillTrigger(k)
    BY <2>1 DEF KillTrigger, LifeInv
  <2>2. CASE ~ KillTrigger(k)
    BY <1>1, <1>2, <2>2 DEF TriggerStep, CheckAgent, Insert, Index, Unlist, RemoveTrigger, SetEnabled, killVars
  <2>3. QED
    BY <2>1, <2>2
<1>3. ASSUME NEW e \in Events, EventStep(e) PROVE LifeInv'
  <2>1. ASSUME NEW a \in Agents, SpawnEvent(e, a) PROVE LifeInv'
    BY <2>1 DEF SpawnEvent, LifeInv
  <2>2. CASE ~ \E a \in Agents : SpawnEvent(e, a)
    BY <1>1, <1>3, <2>2 DEF EventStep, Publish, DispatchHits, DropPublisher, DropHits, Visit, killVars
  <2>3. QED
    BY <2>1, <2>2
<1>4. ASSUME NEW h \in Hits, Deliver(h) PROVE LifeInv'
  BY <1>1, <1>4 DEF Deliver, killVars
<1>5. ASSUME NEW a \in Agents, Spawn(a) PROVE LifeInv'
  BY <1>5 DEF Spawn, LifeInv
<1>6. ASSUME NEW a \in Agents, KillRemove(a) PROVE LifeInv'
  <2>1. {r[1] : r \in {x \in regs : x[2] = a}} \subseteq TriggerIds
    BY DEF KeyInv, TableInv, Requests
  <2>2. QED
    BY <1>6, <2>1 DEF KillRemove, LifeInv, KeyInv, TableInv
<1>7. ASSUME NEW a \in Agents, KillIndex(a) PROVE LifeInv'
  <2>1. agentTriggers[a] \subseteq TriggerIds
    BY DEF KeyInv, TableInv
  <2>2. QED
    BY <1>7, <2>1 DEF KillIndex, LifeInv
<1>8. CASE UNCHANGED vars
  BY <1>1, <1>8 DEF vars, killVars
<1>9. QED
  BY <1>2, <1>3, <1>4, <1>5, <1>6, <1>7, <1>8 DEF Next

\* A message is sent once (kernel.rs:3647): of the two sets only the first grows
\* by what an event has found, and what it has found is in neither.
LEMMA MessageStep ==
    ASSUME EventInv, MessageInv, [Next]_vars
    PROVE  MessageInv'
<1>1. ASSUME UNCHANGED <<inbox, served>> PROVE MessageInv'
  BY <1>1 DEF MessageInv
<1>2. ASSUME NEW k \in TriggerIds, TriggerStep(k) PROVE MessageInv'
  BY <1>1, <1>2 DEF TriggerStep, CheckAgent, Insert, Index, Unlist, RemoveTrigger, SetEnabled,
                    KillTrigger, messageVars
<1>3. ASSUME NEW e \in Events, EventStep(e) PROVE MessageInv'
  <2>1. CASE DispatchHits(e)
    <3>1. events[e].pc = "publish" /\ inbox' = inbox \cup HitsOf(e) /\ served' = served
      BY <2>1 DEF DispatchHits, Evaluated
    <3>2. \A h \in HitsOf(e) : h \notin served
      BY <3>1 DEF EventInv, HitsOf, Sent
    <3>3. QED
      BY <3>1, <3>2 DEF MessageInv
  <2>2. CASE ~ DispatchHits(e)
    BY <1>1, <1>3, <2>2 DEF EventStep, Publish, DropPublisher, DropHits, SpawnEvent, Visit, messageVars
  <2>3. QED
    BY <2>1, <2>2
<1>4. ASSUME NEW h \in Hits, Deliver(h) PROVE MessageInv'
  BY <1>4 DEF Deliver, MessageInv
<1>5. ASSUME NEW a \in Agents, Spawn(a) \/ KillRemove(a) \/ KillIndex(a) PROVE MessageInv'
  BY <1>1, <1>5 DEF Spawn, KillRemove, KillIndex, messageVars
<1>6. CASE UNCHANGED vars
  BY <1>1, <1>6 DEF vars, messageVars
<1>7. QED
  BY <1>2, <1>3, <1>4, <1>5, <1>6 DEF Next

\* The state of the engine has its type; no identifier is on the lists of two
\* agents or in use before it is given out, no agent is alive and being removed,
\* and no message is served that is still on its way, for any number of agents,
\* triggers and events (triggers.rs:100, kernel.rs:3672).
THEOREM TriggersTypeCorrect == Spec => []TypeOK
<1>1. Init => OwnerInv /\ LifeInv /\ MessageInv
  BY SetsAssumption DEF Init, OwnerInv, BelongsTo, LifeInv, MessageInv
<1>2. KeyInv /\ EventInv /\ OwnerInv /\ LifeInv /\ MessageInv => TypeOK
  <2> SUFFICES ASSUME KeyInv, EventInv, OwnerInv, LifeInv, MessageInv PROVE TypeOK
    OBVIOUS
  <2>1. DOMAIN trigs \subseteq TriggerIds \ fresh /\ \A k \in DOMAIN trigs : trigs[k] \in Trigger
    BY DEF KeyInv, TableInv, FreshInv
  <2>2. \A a, b \in Agents : a # b => agentTriggers[a] \cap agentTriggers[b] = {}
    BY DEF KeyInv, TableInv, OwnerInv, BelongsTo
  <2>3. inbox \subseteq Hits /\ served \subseteq Hits \ inbox /\ unsent \subseteq Hits
    BY DEF EventInv, Sent, MessageInv
  <2>4. QED
    BY <2>1, <2>2, <2>3 DEF TypeOK, KeyInv, TableInv, LifeInv, EventInv, Requests
<1>3. QED
  BY <1>1, <1>2, KeyInvariant, CountInvariant, KeyStep, OwnerStep, LifeStep, MessageStep, PTL DEF Spec
=============================================================================
