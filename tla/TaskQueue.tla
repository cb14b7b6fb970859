----------------------------- MODULE TaskQueue -----------------------------
(***************************************************************************)
(* The task queue that agents share: task_post, task_claim and             *)
(* task_complete of clawreform-memory/src/substrate.rs, called by the tools *)
(* of tool_runner.rs in turns of agents, living or killed meanwhile, and by *)
(* nobody's name for clients of the MCP endpoint (routes.rs:5278).  Each    *)
(* call holds the lock of the connection once.                              *)
(* Tasks are numbered by created_at, which a post reads before it waits for *)
(* the lock.                                                                *)
(***************************************************************************)
EXTENDS Integers, FiniteSetsExt

CONSTANTS
    Agents,
    Nobody,         \* assigned_to = '', and the agent_id of a client
    MaxPosts        \* bound on the tasks posted

VARIABLES
    tasks,      \* table task_queue
    claims      \* history: how often each task was handed out

taskVars == <<tasks, claims>>
TaskIds == 1 .. MaxPosts
Owners == Agents \cup {Nobody}

TaskTypeOK ==
    /\ tasks \in [TaskIds -> [status : {"none", "posting", "pending", "in_progress", "completed"},
                              assigned : Owners]]
    /\ claims \in [TaskIds -> Nat]

TaskInit ==
    /\ tasks = [t \in TaskIds |-> [status |-> "none", assigned |-> Nobody]]
    /\ claims = [t \in TaskIds |-> 0]

Rows == {t \in TaskIds : tasks[t].status \notin {"none", "posting"}}
Claimable(a) == {t \in TaskIds : tasks[t].status = "pending" /\ tasks[t].assigned \in {a, Nobody}}

\* task_post reads the clock, ...
TaskStamp(t) ==
    /\ tasks[t].status = "none" /\ \A u \in TaskIds : u < t => tasks[u].status # "none"
    /\ tasks' = [tasks EXCEPT ![t].status = "posting"]
    /\ UNCHANGED claims

\* ... and inserts the row.
TaskPost(t, to) ==
    /\ tasks[t].status = "posting"
    /\ tasks' = [tasks EXCEPT ![t] = [status |-> "pending", assigned |-> to]]
    /\ UNCHANGED claims

\* Variant for mutation: the task stays pending until it is completed.
TaskClaimLazily(a) ==
    /\ Claimable(a) # {}
    /\ LET t == Min(Claimable(a)) IN
       /\ tasks' = [tasks EXCEPT ![t].assigned = a]
       /\ claims' = [claims EXCEPT ![t] = @ + 1]

\* task_claim: the first pending task for the caller or for anybody.
TaskClaim(a) ==
    /\ Claimable(a) # {}
    /\ LET t == Min(Claimable(a)) IN
       /\ tasks' = [tasks EXCEPT ![t] = [status |-> "in_progress", assigned |-> a]]
       /\ claims' = [claims EXCEPT ![t] = @ + 1]

\* task_complete: any agent, any task that has a row.
TaskComplete(t) ==
    /\ t \in Rows
    /\ tasks' = [tasks EXCEPT ![t].status = "completed"]
    /\ UNCHANGED claims

TaskNext ==
    \/ \E t \in TaskIds : TaskStamp(t) \/ TaskComplete(t) \/ \E to \in Owners : TaskPost(t, to)
    \/ \E a \in Owners : TaskClaim(a)

\* The table outlives the daemon; a post that had no row does not.
TaskRestart ==
    /\ tasks' = [t \in TaskIds |-> IF tasks[t].status = "posting" THEN [tasks[t] EXCEPT !.status = "none"]
                                   ELSE tasks[t]]
    /\ UNCHANGED claims
-----------------------------------------------------------------------------
(* Properties *)

\* No task is handed to two agents, or twice to one, however many ask at once
\* and whoever is killed or restarted with a task in hand (substrate.rs:466).
HandedOutOnce ==
    \A t \in TaskIds : /\ claims[t] <= 1
                       /\ tasks[t].status = "in_progress" => claims[t] = 1
                       /\ tasks[t].status = "pending" => claims[t] = 0

=============================================================================
