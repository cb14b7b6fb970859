------------------------------ MODULE Dispatch ------------------------------
(***************************************************************************)
(* How many turns of an agent are let in, and when: the background loops of *)
(* clawreform-kernel/src/background.rs with their permits, and the quotas   *)
(* of scheduler.rs and metering.rs that send_message and                    *)
(* send_message_streaming of kernel.rs ask before a turn and charge after   *)
(* it.  The turns themselves are those of Sessions and AgentLoop; here they *)
(* only begin, cost something and end.                                      *)
(***************************************************************************)
EXTENDS Integers, Sequences, FiniteSetsExt

CONSTANTS
    Agents,
    Looping,        \* agents of the last boot with a Continuous or Periodic schedule
    Permits,        \* MAX_CONCURRENT_BG_LLM
    MaxSent,        \* bound on the messages others send to each agent
    TokenQuota,     \* max_llm_tokens_per_hour of each agent, 0 for no limit
    CostQuota,      \* max_cost_per_hour_usd of each agent, 0 for no limit
    MaxCost         \* bound on what one turn of each agent costs

Counts == [Agents -> Nat]

ASSUME SetsAssumption == Looping \subseteq Agents /\ IsFiniteSet(Agents)
ASSUME NumbersAssumption ==
    /\ Permits \in Nat \ {0}
    /\ MaxSent \in Counts /\ TokenQuota \in Counts /\ CostQuota \in Counts /\ MaxCost \in Counts

VARIABLES
    alive,      \* agents in the registry
    killing,    \* agents removed from the registry whose kill is not finished
    spawned,    \* identifiers that have been used
    down,       \* the shutdown signal
    loop,       \* the background loop of an agent
    tick,       \* its self-prompt: busy unless "idle"
    queue,      \* loops that wait for a permit
    permits,    \* free permits of llm_semaphore
    users,      \* messages that others have sent to an agent
    turns,      \* turns of an agent under way, its tick not included
    streams,    \* streaming turns of an agent under way
    quota,      \* the agents the scheduler knows
    usage,      \* total_tokens of their UsageTrackers
    expired,    \* whose windows are over
    spent,      \* what usage_events holds for the hour
    peak        \* history: most turns of an agent ever under way at once

agentVars == <<alive, killing, spawned, down>>
loopVars == <<loop, tick, queue, permits>>
turnVars == <<users, turns, streams>>
quotaVars == <<quota, usage, expired, spent, peak>>
vars == <<agentVars, loopVars, turnVars, quotaVars>>

TypeOK ==
    /\ alive \subseteq spawned /\ killing \subseteq spawned \ alive /\ spawned \subseteq Agents
    /\ down \in BOOLEAN
    /\ loop \in [Agents -> {"none", "sleep", "wait", "stopped"}]
    /\ tick \in [Agents -> {"idle", "queued", "sent", "running", "released"}]
    /\ queue \in Seq(Agents) /\ permits \in 0 .. Permits
    /\ users \in Counts /\ turns \in Counts /\ streams \in Counts
    /\ quota \subseteq spawned /\ expired \subseteq Agents
    /\ usage \in Counts /\ spent \in Counts /\ peak \in Counts

\* The daemon has booted, and start_background_agents started the loops.
Init ==
    /\ alive = Looping /\ killing = {} /\ spawned = Looping /\ down = FALSE
    /\ loop = [a \in Agents |-> IF a \in Looping THEN "sleep" ELSE "none"]
    /\ tick = [a \in Agents |-> "idle"] /\ queue = <<>> /\ permits = Permits
    /\ users = [a \in Agents |-> 0] /\ turns = [a \in Agents |-> 0] /\ streams = [a \in Agents |-> 0]
    /\ quota = Looping /\ expired = {}
    /\ usage = [a \in Agents |-> 0] /\ spent = [a \in Agents |-> 0] /\ peak = [a \in Agents |-> 0]

-----------------------------------------------------------------------------
(* Quotas *)

InFlight(a) == turns[a] + streams[a] + (IF tick[a] = "running" THEN 1 ELSE 0)

\* reset_if_expired
Usage(a) == IF a \in expired THEN 0 ELSE usage[a]

\* Variant for mutation: no limit is checked.
WithinTokensAlways(a) == a \in Agents
\* check_quota of the scheduler: what was used may be equal to the quota, and
\* an agent it does not know has no limit.
WithinTokens(a) == a \in quota /\ TokenQuota[a] > 0 => Usage(a) <= TokenQuota[a]
\* check_quota of the metering engine: what was spent may not be equal to it.
WithinCost(a) == CostQuota[a] > 0 => spent[a] < CostQuota[a]

\* The checks before a turn are passed; send_message_streaming does not ask
\* the metering engine.
Admit(a, streaming) ==
    /\ a \in alive /\ WithinTokens(a) /\ (streaming \/ WithinCost(a))
    /\ usage' = [usage EXCEPT ![a] = Usage(a)] /\ expired' = expired \ {a}
    /\ peak' = [peak EXCEPT ![a] = IF @ > InFlight(a) THEN @ ELSE InFlight(a) + 1]
    /\ UNCHANGED <<quota, spent>>

Refused(a) ==
    /\ ~ (a \in alive /\ WithinTokens(a) /\ WithinCost(a))
    /\ UNCHANGED quotaVars

\* record_usage, and the usage event of a turn that does not stream.  A turn
\* that failed records nothing.
Record(a, streaming) ==
    \E cost \in 0 .. MaxCost[a], failed \in BOOLEAN :
        /\ usage' = [usage EXCEPT ![a] = IF failed \/ a \notin quota THEN @ ELSE Usage(a) + cost]
        /\ expired' = IF failed \/ a \notin quota THEN expired ELSE expired \ {a}
        /\ spent' = [spent EXCEPT ![a] = IF failed \/ streaming THEN @ ELSE @ + cost]
        /\ UNCHANGED <<quota, peak>>

\* The tracker's window ends; or events leave the window of the query, which
\* moves on with the clock.
TimePasses(a) ==
    /\ \/ usage[a] > 0 /\ expired' = expired \cup {a} /\ UNCHANGED spent
       \/ \E n \in 0 .. spent[a] - 1 : spent' = [spent EXCEPT ![a] = n] /\ UNCHANGED expired
    /\ UNCHANGED <<agentVars, loopVars, turnVars, quota, usage, peak>>

-----------------------------------------------------------------------------
(* Messages of users, channels, triggers and other agents *)

Send(a) ==
    /\ users[a] < MaxSent[a] /\ users' = [users EXCEPT ![a] = @ + 1]
    /\ \/ Admit(a, FALSE) /\ turns' = [turns EXCEPT ![a] = @ + 1] /\ UNCHANGED streams
       \/ Admit(a, TRUE) /\ streams' = [streams EXCEPT ![a] = @ + 1] /\ UNCHANGED turns
    /\ UNCHANGED <<agentVars, loopVars>>

TurnEnds(a) ==
    /\ turns[a] > 0 /\ turns' = [turns EXCEPT ![a] = @ - 1]
    /\ Record(a, FALSE)
    /\ UNCHANGED <<agentVars, loopVars, users, streams>>

StreamEnds(a) ==
    /\ streams[a] > 0 /\ streams' = [streams EXCEPT ![a] = @ - 1]
    /\ Record(a, TRUE)
    /\ UNCHANGED <<agentVars, loopVars, users, turns>>

-----------------------------------------------------------------------------
(* Background loops *)

\* The interval is over; a tick that finds its predecessor busy is skipped.
Wake(a) ==
    /\ loop[a] = "sleep" /\ tick[a] = "idle"
    /\ loop' = [loop EXCEPT ![a] = "wait"] /\ tick' = [tick EXCEPT ![a] = "queued"]
    /\ queue' = Append(queue, a)
    /\ UNCHANGED <<agentVars, permits, turnVars, quotaVars>>

\* The semaphore serves the loops in the order in which they came.
Acquire ==
    /\ queue # <<>> /\ permits > 0
    /\ loop' = [loop EXCEPT ![Head(queue)] = "sleep"]
    /\ tick' = [tick EXCEPT ![Head(queue)] = "sent"]
    /\ queue' = Tail(queue) /\ permits' = permits - 1
    /\ UNCHANGED <<agentVars, turnVars, quotaVars>>

TickBegins(a) ==
    /\ tick[a] = "sent" /\ Admit(a, FALSE)
    /\ tick' = [tick EXCEPT ![a] = "running"]
    /\ UNCHANGED <<agentVars, loop, queue, permits, turnVars>>

\* Variant for mutation: the permit of a tick that is refused is not returned.
TickRefusedKeepsPermit(a) ==
    /\ tick[a] = "sent" /\ Refused(a)
    /\ tick' = [tick EXCEPT ![a] = "released"]
    /\ UNCHANGED <<agentVars, loop, queue, permits, turnVars>>

\* The watcher awaits the turn, however it ends, and drops the permit ...
TickRefused(a) ==
    /\ tick[a] = "sent" /\ Refused(a)
    /\ tick' = [tick EXCEPT ![a] = "released"] /\ permits' = permits + 1
    /\ UNCHANGED <<agentVars, loop, queue, turnVars>>

TickEnds(a) ==
    /\ tick[a] = "running" /\ Record(a, FALSE)
    /\ tick' = [tick EXCEPT ![a] = "released"] /\ permits' = permits + 1
    /\ UNCHANGED <<agentVars, loop, queue, turnVars>>

\* Variant for mutation: the busy flag stays.
ClearNothing(a) == tick[a] = "released" /\ UNCHANGED vars

\* ... and then clears the busy flag.
ClearBusy(a) ==
    /\ tick[a] = "released"
    /\ tick' = [tick EXCEPT ![a] = "idle"]
    /\ UNCHANGED <<agentVars, loop, queue, permits, turnVars, quotaVars>>

\* A loop that sleeps sees the shutdown.
LoopEnds(a) ==
    /\ down /\ loop[a] = "sleep"
    /\ loop' = [loop EXCEPT ![a] = "stopped"]
    /\ UNCHANGED <<agentVars, tick, queue, permits, turnVars, quotaVars>>

Shutdown ==
    /\ ~ down /\ down' = TRUE
    /\ UNCHANGED <<alive, killing, spawned, loopVars, turnVars, quotaVars>>

-----------------------------------------------------------------------------
(* Agents *)

\* spawn_agent: no loop is started, whatever the schedule.
Spawn(a) ==
    /\ a \notin spawned /\ spawned' = spawned \cup {a}
    /\ alive' = alive \cup {a} /\ quota' = quota \cup {a}
    /\ UNCHANGED <<killing, down, loopVars, turnVars, usage, expired, spent, peak>>

\* kill_agent: the agent leaves the registry, ...
KillRemove(a) ==
    /\ a \in alive /\ alive' = alive \ {a} /\ killing' = killing \cup {a}
    /\ UNCHANGED <<spawned, down, loopVars, turnVars, quotaVars>>

\* The waiters behind one that is gone move up; a loop waits in one place.
Without(q, a) ==
    LET places == {i \in 1 .. Len(q) : q[i] = a}
        p == CHOOSE i \in places : TRUE
    IN  IF places = {} THEN q ELSE SubSeq(q, 1, p - 1) \o SubSeq(q, p + 1, Len(q))

\* ... its loop is aborted where it waits, and the scheduler forgets it.  What
\* is under way goes on.
KillClean(a) ==
    /\ a \in killing /\ killing' = killing \ {a}
    /\ loop' = [loop EXCEPT ![a] = "stopped"]
    /\ tick' = [tick EXCEPT ![a] = IF @ = "queued" THEN "idle" ELSE @]
    /\ queue' = Without(queue, a)
    /\ quota' = quota \ {a} /\ usage' = [usage EXCEPT ![a] = 0] /\ expired' = expired \ {a}
    /\ UNCHANGED <<alive, spawned, down, permits, turnVars, spent, peak>>

AgentStep(a) ==
    \/ Send(a) \/ TurnEnds(a) \/ StreamEnds(a) \/ TimePasses(a)
    \/ Wake(a) \/ TickBegins(a) \/ TickRefused(a) \/ TickEnds(a) \/ ClearBusy(a) \/ LoopEnds(a)
    \/ Spawn(a) \/ KillRemove(a) \/ KillClean(a)

Next == (\E a \in Agents : AgentStep(a)) \/ Acquire \/ Shutdown

Spec == Init /\ [][Next]_vars

\* Timers fire, turns end (AgentLoop), the semaphore and the watchers go on.
FairSpec ==
    /\ Spec /\ WF_vars(Acquire)
    /\ \A a \in Agents : /\ WF_vars(Wake(a)) /\ WF_vars(TickBegins(a) \/ TickRefused(a))
                         /\ WF_vars(TickEnds(a)) /\ WF_vars(ClearBusy(a))
-----------------------------------------------------------------------------
(* Properties *)

\* A permit is free or with the tick of one agent, whatever becomes of that
\* agent, its loop and its turn: none is lost or made up (background.rs:117).
PermitsConserved ==
    permits + Cardinality({a \in Agents : tick[a] \in {"sent", "running"}}) = Permits

\* The quotas are exceeded by no more than the turns of the agent that were
\* under way at one time can cost, whoever sent them (kernel.rs:1894).
QuotaOvershootBounded ==
    \A a \in Agents : /\ TokenQuota[a] > 0 => usage[a] <= TokenQuota[a] + MaxCost[a] * peak[a]
                      /\ CostQuota[a] > 0 => spent[a] <= CostQuota[a] + MaxCost[a] * peak[a]

\* A background loop goes on ticking until it is stopped: no tick that was
\* skipped or refused, no other agent's loop and no killed agent keeps it from
\* the next one (background.rs:92).
LoopsGoOn ==
    \A a \in Agents : (loop[a] = "sleep") ~> (tick[a] \in {"sent", "running"} \/ loop[a] = "stopped")
=============================================================================
