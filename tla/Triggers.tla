------------------------------ MODULE Triggers ------------------------------
(***************************************************************************)
(* The triggers of clawreform-kernel/src/triggers.rs and what kernel.rs     *)
(* does with them: register_trigger, publish_event, the event that          *)
(* spawn_agent evaluates, and kill_agent.                                   *)
(*                                                                          *)
(* The engine has two maps, from identifiers to triggers and from agents to *)
(* lists of identifiers, and each access to one of them is a step.  An      *)
(* event visits the triggers one after the other, while other events do the *)
(* same, and calls of the API register, change and remove triggers.         *)
(***************************************************************************)
EXTENDS Integers, FiniteSetsExt

CONSTANTS
    Agents,
    Booted,         \* agents the daemon has restored
    Proactive,      \* the triggers that each agent registers when it is spawned
    TriggerIds,
    Limit,          \* max_fires of each trigger, 0 for no limit
    OnSpawn,        \* triggers whose pattern matches a Spawned event
    OnCustom,       \* triggers whose pattern matches a published event
    MaxEvents       \* bound on events

ASSUME SetsAssumption ==
    /\ MaxEvents \in Nat
    /\ Booted \subseteq Agents /\ OnSpawn \subseteq TriggerIds /\ OnCustom \subseteq TriggerIds
    /\ Proactive \in [Agents -> SUBSET TriggerIds] /\ Limit \in [TriggerIds -> Nat]

VARIABLES
    alive,          \* agents in the registry
    spawning,       \* agents whose Spawned event is still to come
    trigs,          \* triggers
    agentTriggers,  \* agent_triggers
    fresh,          \* identifiers not used so far
    regs,           \* registrations and removals under way: identifier, agent, next step
    killing,        \* agents out of the registry, their triggers not yet removed
    doomed,         \* triggers remove_agent_triggers has still to remove
    events,         \* evaluation of each event
    inbox,          \* messages on their way, by trigger and agent
    served,         \* history: messages that reached a turn or were refused
    unsent,         \* history: fires of each trigger that sent no message
    used,           \* history: identifiers of agents given out
    raced           \* history: registrations under way when their agent was killed

tableVars == <<trigs, agentTriggers, fresh, regs>>
killVars == <<alive, spawning, killing, doomed, used, raced>>
messageVars == <<inbox, served, unsent>>
vars == <<tableVars, killVars, events, messageVars>>

Trigger == [agent : Agents, enabled : BOOLEAN, fires : Nat]
NoEvent == [pc |-> "none", left |-> {}, hits |-> {}]
Events == 1 .. MaxEvents   \* numbered as they begin
Hits == Events \X TriggerIds \X Agents

TypeOK ==
    /\ alive \subseteq Agents /\ spawning \subseteq Agents /\ killing \subseteq Agents \ alive
    /\ DOMAIN trigs \subseteq TriggerIds \ fresh /\ \A k \in DOMAIN trigs : trigs[k] \in Trigger
    /\ agentTriggers \in [Agents -> SUBSET TriggerIds]
    /\ \A a, b \in Agents : a # b => agentTriggers[a] \cap agentTriggers[b] = {}
    /\ fresh \subseteq TriggerIds /\ regs \subseteq TriggerIds \X Agents \X {"insert", "index", "unlist"}
    /\ events \in [Events -> [pc : {"none", "publish", "spawn", "done"}, left : SUBSET TriggerIds,
                              hits : SUBSET (TriggerIds \X Agents)]]
    /\ doomed \subseteq TriggerIds /\ raced \subseteq TriggerIds
    /\ alive \cup killing \subseteq used /\ used \subseteq Agents
    /\ inbox \subseteq Hits /\ served \subseteq Hits \ inbox /\ unsent \subseteq Hits

Init ==
    /\ alive = Booted /\ spawning = {} /\ killing = {} /\ doomed = {}
    /\ used = Booted /\ raced = {}
    /\ trigs = [k \in {} |-> 0] /\ agentTriggers = [a \in Agents |-> {}]
    /\ fresh = TriggerIds /\ regs = {}
    /\ events = [e \in Events |-> NoEvent]
    /\ inbox = {} /\ served = {} /\ unsent = {}

-----------------------------------------------------------------------------
(* Calls of the API *)

New(a) == [agent |-> a, enabled |-> TRUE, fires |-> 0]
With(K, a) == [x \in DOMAIN trigs \cup K |-> IF x \in K THEN New(a) ELSE trigs[x]]
Without(K) == [x \in DOMAIN trigs \ K |-> trigs[x]]

\* register_trigger finds the agent in the registry, ...
CheckAgent(k, a) ==
    /\ a \in alive /\ k \in fresh /\ \A b \in Agents : k \notin Proactive[b]
    /\ fresh' = fresh \ {k} /\ regs' = regs \cup {<<k, a, "insert">>}
    /\ UNCHANGED <<trigs, agentTriggers, killVars, events, messageVars>>

\* ... register inserts the trigger, ...
Insert(k, a) ==
    /\ <<k, a, "insert">> \in regs
    /\ regs' = (regs \ {<<k, a, "insert">>}) \cup {<<k, a, "index">>}
    /\ trigs' = With({k}, a)
    /\ UNCHANGED <<agentTriggers, fresh, killVars, events, messageVars>>

\* Variant for mutation: the new trigger takes the place of the list.
IndexReplaces(k, a) ==
    /\ <<k, a, "index">> \in regs
    /\ regs' = regs \ {<<k, a, "index">>}
    /\ agentTriggers' = [agentTriggers EXCEPT ![a] = {k}]
    /\ UNCHANGED <<trigs, fresh, killVars, events, messageVars>>

\* ... and adds it to the list of its agent.
Index(k, a) ==
    /\ <<k, a, "index">> \in regs
    /\ regs' = regs \ {<<k, a, "index">>}
    /\ agentTriggers' = [agentTriggers EXCEPT ![a] = @ \cup {k}]
    /\ UNCHANGED <<trigs, fresh, killVars, events, messageVars>>

\* remove: the trigger, and then its entry in the list.
RemoveTrigger(k) ==
    /\ k \in DOMAIN trigs /\ trigs' = Without({k})
    /\ regs' = regs \cup {<<k, trigs[k].agent, "unlist">>}
    /\ UNCHANGED <<agentTriggers, fresh, killVars, events, messageVars>>

Unlist(k, a) ==
    /\ <<k, a, "unlist">> \in regs
    /\ regs' = regs \ {<<k, a, "unlist">>}
    /\ agentTriggers' = [agentTriggers EXCEPT ![a] = @ \ {k}]
    /\ UNCHANGED <<trigs, fresh, killVars, events, messageVars>>

SetEnabled(k, on) ==
    /\ k \in DOMAIN trigs /\ trigs[k].enabled # on
    /\ trigs' = [trigs EXCEPT ![k].enabled = on]
    /\ UNCHANGED <<agentTriggers, fresh, regs, killVars, events, messageVars>>

-----------------------------------------------------------------------------
(* evaluate *)

\* matches_pattern, for the events that this daemon makes
Matching(kind) == IF kind = "spawn" THEN OnSpawn ELSE OnCustom

Exhausted(k) == Limit[k] > 0 /\ trigs[k].fires >= Limit[k]

\* Variant for mutation: a trigger fires once more than its limit.
FiresLate(k, kind) ==
    /\ k \in DOMAIN trigs /\ trigs[k].enabled
    /\ ~ (Limit[k] > 0 /\ trigs[k].fires > Limit[k])
    /\ k \in Matching(kind)

\* A trigger is skipped, disabled for its limit, or asked for its pattern.
Fires(k, kind) ==
    /\ k \in DOMAIN trigs /\ trigs[k].enabled
    /\ ~ Exhausted(k)
    /\ k \in Matching(kind)
Visited(k, kind) ==
    IF Fires(k, kind) THEN [trigs[k] EXCEPT !.fires = @ + 1]
    ELSE [trigs[k] EXCEPT !.enabled = @ /\ ~ Exhausted(k)]

\* A trigger that is registered after the start may be visited or not.
Evaluate(e, kind) ==
    /\ events[e].pc = "none" /\ \A f \in 1 .. (e - 1) : events[f].pc # "none"
    /\ events' = [events EXCEPT ![e] = [pc |-> kind, left |-> TriggerIds, hits |-> {}]]

Visit(e, k) ==
    /\ k \in events[e].left
    /\ trigs' = [x \in DOMAIN trigs |-> IF x = k THEN Visited(k, events[e].pc) ELSE trigs[x]]
    /\ events' = [events EXCEPT
                    ![e].left = @ \ {k},
                    ![e].hits = IF Fires(k, events[e].pc) THEN @ \cup {<<k, trigs[k].agent>>} ELSE @]
    /\ UNCHANGED <<agentTriggers, fresh, regs, killVars, messageVars>>

Evaluated(e, kind) ==
    /\ events[e].pc = kind /\ events[e].left = {}
    /\ events' = [events EXCEPT ![e] = [NoEvent EXCEPT !.pc = "done"]]

HitsOf(e) == {<<e, h[1], h[2]>> : h \in events[e].hits}

-----------------------------------------------------------------------------
(* Events *)

\* publish_event evaluates the triggers, and then sends each message.
Publish(e) == Evaluate(e, "publish") /\ UNCHANGED <<tableVars, killVars, messageVars>>

\* Variant for mutation: nothing is sent for a trigger removed meanwhile.
DispatchRegistered(e) ==
    /\ Evaluated(e, "publish")
    /\ inbox' = inbox \cup {h \in HitsOf(e) : h[2] \in DOMAIN trigs}
    /\ UNCHANGED <<tableVars, killVars, served, unsent>>

DispatchHits(e) ==
    /\ Evaluated(e, "publish")
    /\ inbox' = inbox \cup HitsOf(e)
    /\ UNCHANGED <<tableVars, killVars, served, unsent>>

\* Before it sends, publish_event waits for the history of the event bus.  A
\* tool's timeout, an abort or a client that hangs up drops it there.
DropPublisher(e) ==
    /\ Evaluated(e, "publish")
    /\ unsent' = unsent \cup HitsOf(e)
    /\ UNCHANGED <<tableVars, killVars, inbox, served>>

\* send_message: a turn of the agent, or an error that is logged.
Deliver(h) ==
    /\ h \in inbox /\ inbox' = inbox \ {h} /\ served' = served \cup {h}
    /\ UNCHANGED <<tableVars, killVars, events, unsent>>

\* spawn_agent: the agent, the triggers of its own if it is Proactive, ...
Spawn(a) ==
    /\ a \notin used /\ used' = used \cup {a} /\ Proactive[a] \subseteq fresh
    /\ alive' = alive \cup {a} /\ spawning' = spawning \cup {a}
    /\ fresh' = fresh \ Proactive[a]
    /\ regs' = regs \cup {<<k, a, "insert">> : k \in Proactive[a]}
    /\ UNCHANGED <<trigs, agentTriggers, killing, doomed, raced, events, messageVars>>

\* ... and the event, ...
SpawnEvent(e, a) ==
    /\ a \in spawning /\ spawning' = spawning \ {a}
    /\ \A r \in regs : ~ (r[1] \in Proactive[a] /\ r[3] \in {"insert", "index"})
    /\ Evaluate(e, "spawn")
    /\ UNCHANGED <<tableVars, alive, killing, doomed, used, raced, messageVars>>

\* ... whose messages are dropped.
DropHits(e) ==
    /\ Evaluated(e, "spawn")
    /\ unsent' = unsent \cup HitsOf(e)
    /\ UNCHANGED <<tableVars, killVars, inbox, served>>

-----------------------------------------------------------------------------
(* kill_agent: the registry, remove_agent_triggers *)

KillRemove(a) ==
    /\ a \in alive /\ alive' = alive \ {a} /\ killing' = killing \cup {a}
    /\ raced' = raced \cup {r[1] : r \in {x \in regs : x[2] = a}}
    /\ UNCHANGED <<tableVars, spawning, doomed, used, events, messageVars>>

\* Variant for mutation: only the list of the agent is removed.
KillIndexOnly(a) ==
    /\ a \in killing /\ killing' = killing \ {a}
    /\ agentTriggers' = [agentTriggers EXCEPT ![a] = {}]
    /\ UNCHANGED <<trigs, fresh, regs, alive, spawning, doomed, used, raced, events, messageVars>>

KillIndex(a) ==
    /\ a \in killing /\ killing' = killing \ {a}
    /\ doomed' = doomed \cup agentTriggers[a]
    /\ agentTriggers' = [agentTriggers EXCEPT ![a] = {}]
    /\ UNCHANGED <<trigs, fresh, regs, alive, spawning, used, raced, events, messageVars>>

KillTrigger(k) ==
    /\ k \in doomed /\ doomed' = doomed \ {k}
    /\ trigs' = Without({k})
    /\ UNCHANGED <<agentTriggers, fresh, regs, alive, spawning, killing, used, raced, events, messageVars>>

-----------------------------------------------------------------------------
TriggerStep(k) ==
    \/ (\E a \in Agents : CheckAgent(k, a) \/ Insert(k, a) \/ Index(k, a) \/ Unlist(k, a))
    \/ RemoveTrigger(k) \/ (\E on \in BOOLEAN : SetEnabled(k, on)) \/ KillTrigger(k)

EventStep(e) ==
    \/ Publish(e) \/ DispatchHits(e) \/ DropPublisher(e) \/ DropHits(e)
    \/ (\E a \in Agents : SpawnEvent(e, a)) \/ (\E k \in TriggerIds : Visit(e, k))

Next ==
    \/ \E k \in TriggerIds : TriggerStep(k)
    \/ \E e \in Events : EventStep(e)
    \/ \E h \in Hits : Deliver(h)
    \/ \E a \in Agents : Spawn(a) \/ KillRemove(a) \/ KillIndex(a)

Spec == Init /\ [][Next]_vars

\* evaluate is a loop without a wait; the lock of the event bus is fair and held
\* for no wait, so that who waits for it gets it, if it is not dropped before;
\* and the tasks of messages are scheduled.
FairSpec ==
    /\ Spec
    /\ \A e \in Events : WF_vars(DispatchHits(e) \/ DropPublisher(e) \/ \E k \in TriggerIds : Visit(e, k))
    /\ WF_vars(\E h \in Hits : Deliver(h))
-----------------------------------------------------------------------------
(* Properties *)

\* The fires that events have found, sent or dropped so far.
FiresOf(k) ==
    {h \in (UNION {HitsOf(e) : e \in Events}) \cup inbox \cup served \cup unsent : h[2] = k}

\* However many events are evaluated at once and whoever enables it again, a
\* trigger fires no more often than its limit (triggers.rs:187), and its count
\* is that of the messages made, those that a spawn (kernel.rs:1842) or a
\* publisher that is dropped itself (kernel.rs:3643) never sends included.
FiresAccounted ==
    \A k \in TriggerIds :
        /\ Limit[k] > 0 => Cardinality(FiresOf(k)) <= Limit[k]
        /\ k \in DOMAIN trigs => trigs[k].fires = Cardinality(FiresOf(k))

\* A trigger is found through its agent: its list has every trigger whose
\* registration is over, and no trigger of another agent (triggers.rs:119).  The
\* triggers of an agent that was killed are gone, but for those whose
\* registration had found the agent before (kernel.rs:3672): they stay, and
\* fire for nobody, until a user removes them.
IndexSound ==
    /\ \A k \in DOMAIN trigs :
          /\ \/ k \in agentTriggers[trigs[k].agent] \cup doomed
             \/ <<k, trigs[k].agent, "index">> \in regs
          /\ trigs[k].agent \in alive \cup killing \/ k \in doomed \cup raced
    /\ \A a \in Agents : \A k \in agentTriggers[a] \cap DOMAIN trigs : trigs[k].agent = a

\* A published event that fires a trigger sends its message: it reaches the
\* agent, or is refused for it, whatever else becomes of trigger and agent
\* (kernel.rs:3645).  Only if its publisher is dropped while it waits for the
\* event bus (kernel.rs:3643) is the message not sent, and then no message of the
\* event is.
FiredIsServed ==
    \A e \in Events, k \in OnCustom :
        (events[e].pc = "publish" /\ \E a \in Agents : <<k, a>> \in events[e].hits)
            ~> (\/ \E a \in Agents : <<e, k, a>> \in served
                \/ /\ \E a \in Agents : <<e, k, a>> \in unsent
                   /\ \A h \in inbox \cup served : h[1] # e)
=============================================================================
