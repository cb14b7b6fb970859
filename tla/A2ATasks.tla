------------------------------ MODULE A2ATasks ------------------------------
(***************************************************************************)
(* Tasks of other systems: the A2aTaskStore of clawreform-runtime/src/a2a.rs *)
(* and the handlers a2a_send_task and a2a_cancel_task of                    *)
(* clawreform-api/src/routes.rs.  The turn that answers a task runs inside  *)
(* the request, without a lock.                                             *)
(***************************************************************************)
EXTENDS Integers, FiniteSetsExt

CONSTANTS
    A2AIds,         \* identifiers of tasks
    MaxStored       \* max_tasks

VARIABLES
    alive,      \* agents in the registry
    store,      \* the tasks in the store, with the answers each has
    request,    \* the request that sent each task
    told,       \* what that request was answered
    cancelled,  \* history: tasks that were cancelled
    peakWorking \* history: most tasks ever working at once

a2aVars == <<store, request, told, cancelled, peakWorking>>

Ended == {"completed", "failed", "cancelled"}
Working == {t \in DOMAIN store : store[t].status = "working"}

A2ATypeOK ==
    /\ DOMAIN store \subseteq A2AIds
    /\ \A t \in DOMAIN store : store[t] \in [status : Ended \cup {"working"}, answers : 0 .. 1]
    /\ request \in [A2AIds -> {"none", "turn", "reply", "done"}]
    /\ told \in [A2AIds -> Ended \cup {"nothing", "gone", "working"}]
    /\ cancelled \subseteq A2AIds /\ peakWorking \in Nat

A2AInit ==
    /\ store = [t \in {} |-> 0]
    /\ request = [t \in A2AIds |-> "none"] /\ told = [t \in A2AIds |-> "nothing"]
    /\ cancelled = {} /\ peakWorking = 0

\* What insert may evict: one task that has ended, the first of a HashMap.
Evictable == {t \in DOMAIN store : store[t].status \in Ended}

\* Variant for mutation: any task is evicted.
InsertedOverAny(t) ==
    LET added(S) == [x \in S \cup {t} |-> IF x = t THEN [status |-> "working", answers |-> 0] ELSE store[x]]
    IN  IF Cardinality(DOMAIN store) >= MaxStored /\ DOMAIN store # {}
        THEN {added(DOMAIN store \ {v}) : v \in DOMAIN store}
        ELSE {added(DOMAIN store)}

\* Variant for mutation: nothing is evicted.
InsertedAlways(t) ==
    {[x \in DOMAIN store \cup {t} |-> IF x = t THEN [status |-> "working", answers |-> 0] ELSE store[x]]}

\* The stores that insert may leave.
Inserted(t) ==
    LET added(S) == [x \in S \cup {t} |-> IF x = t THEN [status |-> "working", answers |-> 0] ELSE store[x]]
    IN  IF Cardinality(DOMAIN store) >= MaxStored /\ Evictable # {}
        THEN {added(DOMAIN store \ {v}) : v \in Evictable}
        ELSE {added(DOMAIN store)}

\* a2a_send_task up to send_message.
SendTask(t) ==
    /\ request[t] = "none" /\ alive # {}
    /\ store' \in Inserted(t)
    /\ request' = [request EXCEPT ![t] = "turn"]
    /\ peakWorking' = Max({peakWorking, Cardinality(Working) + 1})
    /\ UNCHANGED <<told, cancelled>>

\* complete and fail, for a task that is still there.
Finished(t, status) ==
    [x \in DOMAIN store |-> IF x = t THEN [status |-> status, answers |-> store[x].answers + 1] ELSE store[x]]

FinishTask(t) ==
    /\ request[t] = "turn" /\ request' = [request EXCEPT ![t] = "reply"]
    /\ \E status \in {"completed", "failed"} : store' = Finished(t, status)
    /\ UNCHANGED <<told, cancelled, peakWorking>>

\* Variant for mutation: the task is looked up before the turn.
ReplyEarly(t) ==
    /\ request[t] \in {"turn", "reply"} /\ request' = [request EXCEPT ![t] = "done"]
    /\ told' = [told EXCEPT ![t] = IF t \in DOMAIN store THEN store[t].status ELSE "gone"]
    /\ UNCHANGED <<store, cancelled, peakWorking>>

\* The task is looked up again for the answer.
Reply(t) ==
    /\ request[t] = "reply" /\ request' = [request EXCEPT ![t] = "done"]
    /\ told' = [told EXCEPT ![t] = IF t \in DOMAIN store THEN store[t].status ELSE "gone"]
    /\ UNCHANGED <<store, cancelled, peakWorking>>

\* The client hangs up, and the request is dropped with its turn.
HangUp(t) ==
    /\ request[t] = "turn" /\ request' = [request EXCEPT ![t] = "done"]
    /\ UNCHANGED <<store, told, cancelled, peakWorking>>

\* a2a_cancel_task: whatever the task's status; the turn goes on.
CancelTask(t) ==
    /\ t \in DOMAIN store
    /\ store' = [store EXCEPT ![t].status = "cancelled"]
    /\ cancelled' = cancelled \cup {t}
    /\ UNCHANGED <<request, told, peakWorking>>

A2ANext ==
    \E t \in A2AIds : SendTask(t) \/ FinishTask(t) \/ Reply(t) \/ HangUp(t) \/ CancelTask(t)

\* The store is only in memory.
A2ARestart ==
    /\ store' = [t \in {} |-> 0]
    /\ request' = [t \in A2AIds |-> IF request[t] = "none" THEN "none" ELSE "done"]
    /\ UNCHANGED <<told, cancelled, peakWorking>>
-----------------------------------------------------------------------------
(* Properties *)

\* The store outgrows its limit only by tasks that were working at one time
\* (a2a.rs:184).
StoreBounded == Cardinality(DOMAIN store) <= Max({MaxStored, peakWorking})

\* A task whose turn is under way stays in the store, so that it can be polled
\* and takes its answer, unless somebody cancelled it (a2a.rs:184).
RunningIsKept == \A t \in A2AIds : request[t] = "turn" => t \in DOMAIN store \cup cancelled

\* The sender is told of a task that has ended, or that it is gone, never that
\* it is working; and of another end than its turn's only if somebody cancelled
\* it (a2a.rs:222).
ToldIsEnded ==
    \A t \in A2AIds : /\ told[t] # "working"
                      /\ told[t] = "cancelled" => t \in cancelled

\* Eviction costs no task that is under way, and nobody is told of one.
A2AStoreSound == StoreBounded /\ RunningIsKept /\ ToldIsEnded
=============================================================================
