--------------------------- MODULE CronScheduler ---------------------------
(***************************************************************************)
(* The cron scheduler (clawreform-kernel/src/cron.rs), the kernel's tick   *)
(* loop that fires due jobs (kernel.rs), and the REST, tool and chat       *)
(* operations that add, remove and toggle jobs while the loop runs.        *)
(*                                                                         *)
(* The loop takes a copy of the due jobs and then works through it one job *)
(* after the other, awaiting each: everything else happens in between.     *)
(* Jobs live in memory here; CronStore models the file they are saved to.  *)
(***************************************************************************)
EXTENDS Integers, FiniteSets

CONSTANTS
    Jobs,           \* job identifiers; each is created at most once (UUIDs)
    Agents,         \* agents that own jobs
    OwnerOf,        \* OwnerOf[j]: the agent of job j
    Kind,           \* Kind[j]: "At", "Every" or "Cron" (CronSchedule)
    Param,          \* Param[j]: the time of an At job, the interval of an
                    \* Every job
    Upcoming,       \* Upcoming[j][t]: the first match of a Cron job's
                    \* expression after t, or t and an hour if there is none
    OneShot,        \* jobs created with one_shot
    Turns,          \* jobs whose action is an AgentTurn; the rest are events
    Clients,        \* threads that serve job operations
    MaxTotal,       \* max_cron_jobs
    MaxPerAgent,    \* MAX_JOBS_PER_AGENT
    MaxErrors,      \* MAX_CONSECUTIVE_ERRORS
    MaxTime,        \* bound on the clock
    SplitErrors     \* whether an error message may have a multi-byte
                    \* character across its 256th byte

ASSUME JobsFinite == IsFiniteSet(Jobs)
ASSUME NoneIsNoJob == "none" \notin Jobs
ASSUME ScheduleType ==
    /\ OwnerOf \in [Jobs -> Agents]
    /\ Kind \in [Jobs -> {"At", "Every", "Cron"}]
    /\ Param \in [Jobs -> Nat \ {0}]
    /\ OneShot \subseteq Jobs /\ Turns \subseteq Jobs
ASSUME UpcomingType ==
    /\ Upcoming \in [Jobs -> [0..MaxTime -> Nat]]
    /\ \A j \in Jobs, t \in 0..MaxTime :
          /\ Upcoming[j][t] > t
          /\ \A u \in 0..t : Upcoming[j][u] <= Upcoming[j][t]
ASSUME CronLimitsType ==
    /\ MaxTotal \in Nat /\ MaxPerAgent \in Nat
    /\ MaxErrors \in Nat \ {0} /\ MaxTime \in Nat
ASSUME SplitErrorsType == SplitErrors \in BOOLEAN

VARIABLES
    now,            \* the wall clock
    jobs,           \* jobs[j]: the dynamic part of JobMeta, or NoJob
    created,        \* ids that add_job has been called with
    phase,          \* what the tick loop is doing
    due,            \* the rest of the batch due_jobs returned
    cur,            \* the job being fired, or "none"
    inserting,      \* inserting[c]: the job client c is adding, or "none"
    alive,          \* agents in the registry
    shutting,       \* supervisor.is_shutting_down()
    started,        \* history: when j was last started, or -1
    succeeded       \* history: one-shot jobs with a recorded success

vars == <<now, jobs, created, phase, due, cur, inserting, alive, shutting,
          started, succeeded>>
history == <<started, succeeded>>

NoJob == [enabled |-> FALSE, next |-> -1, errors |-> -1]
JobMeta == [enabled : BOOLEAN, next : Nat, errors : 0..MaxErrors]

Present == {j \in Jobs : jobs[j] # NoJob}

\* idle: awaiting the interval; batch: between two jobs of the batch; firing:
\* awaiting the action; removing: in record_success, between the update of a
\* one-shot job and its removal; stopped: after the shutdown check; dead:
\* the loop's task panicked.
Phases == {"idle", "batch", "firing", "removing", "stopped", "dead"}

TypeOK ==
    /\ now \in 0..MaxTime
    /\ jobs \in [Jobs -> JobMeta \cup {NoJob}]
    /\ created \subseteq Jobs
    /\ phase \in Phases
    /\ due \subseteq Jobs
    /\ cur \in Jobs \cup {"none"}
    /\ inserting \in [Clients -> Jobs \cup {"none"}]
    /\ alive \subseteq Agents
    /\ shutting \in BOOLEAN
    /\ started \in [Jobs -> -1..MaxTime]
    /\ succeeded \subseteq OneShot

Init ==
    /\ now = 0
    /\ jobs = [j \in Jobs |-> NoJob]
    /\ created = {}
    /\ phase = "idle"
    /\ due = {}
    /\ cur = "none"
    /\ inserting = [c \in Clients |-> "none"]
    /\ alive = Agents
    /\ shutting = FALSE
    /\ started = [j \in Jobs |-> -1]
    /\ succeeded = {}

-----------------------------------------------------------------------------
(* Schedules *)

\* compute_next_run: an At job keeps its time, an Every job counts from now, a
\* Cron job takes its next match.
NextRun(j) ==
    CASE Kind[j] = "At"    -> Param[j]
      [] Kind[j] = "Every" -> now + Param[j]
      [] Kind[j] = "Cron"  -> Upcoming[j][now]

-----------------------------------------------------------------------------
(* Operations of the clients *)

\* add_job: the global and the per-agent count and validate, which refuses an
\* At time that is not in the future.  A refused job leaves no trace.
AddJobCheck(c, j) ==
    /\ inserting[c] = "none"
    /\ j \notin created
    /\ created' = created \cup {j}
    /\ \/ /\ Cardinality(Present) < MaxTotal
          /\ Cardinality({k \in Present : OwnerOf[k] = OwnerOf[j]}) < MaxPerAgent
          /\ Kind[j] = "At" => Param[j] > now
          /\ inserting' = [inserting EXCEPT ![c] = j]
       \/ /\ \/ Cardinality(Present) >= MaxTotal
             \/ Cardinality({k \in Present : OwnerOf[k] = OwnerOf[j]}) >= MaxPerAgent
             \/ Kind[j] = "At" /\ Param[j] <= now
          /\ UNCHANGED inserting
    /\ UNCHANGED <<now, jobs, phase, due, cur, alive, shutting, history>>

\* add_job: the insertion, with no lock held since the counts.
AddJobInsert(c) ==
    LET j == inserting[c]
    IN  /\ j # "none"
        /\ jobs' = [jobs EXCEPT ![j] =
                        [enabled |-> TRUE, next |-> NextRun(j), errors |-> 0]]
        /\ inserting' = [inserting EXCEPT ![c] = "none"]
        /\ UNCHANGED <<now, created, phase, due, cur, alive, shutting, history>>

\* remove_job (cron_cancel, DELETE, /schedule del).  The batch the loop is
\* working through is a copy and keeps the job.
RemoveJob(j) ==
    /\ j \in Present
    /\ jobs' = [jobs EXCEPT ![j] = NoJob]
    /\ UNCHANGED <<now, created, phase, due, cur, inserting, alive, shutting,
                   history>>

\* A variant that re-enables without resetting the error counter.
SetEnabledKeepsErrors(j, b) ==
    /\ j \in Present
    /\ jobs' = [jobs EXCEPT ![j] =
            [@ EXCEPT !.enabled = b, !.next = IF b THEN NextRun(j) ELSE @]]
    /\ UNCHANGED <<now, created, phase, due, cur, inserting, alive, shutting,
                   history>>

\* set_enabled: re-enabling resets the errors and recomputes next_run.
SetEnabled(j, b) ==
    /\ j \in Present
    /\ jobs' = [jobs EXCEPT ![j] =
            IF b THEN [enabled |-> TRUE, next |-> NextRun(j), errors |-> 0]
                 ELSE [@ EXCEPT !.enabled = FALSE]]
    /\ UNCHANGED <<now, created, phase, due, cur, inserting, alive, shutting,
                   history>>

-----------------------------------------------------------------------------
(* The tick loop *)

IsDue(j) == j \in Present /\ jobs[j].enabled /\ jobs[j].next <= now

\* A tick with due jobs: due_jobs copies them and pre-advances their next_run.
\* A tick without any changes nothing the model keeps.
LoopTick ==
    LET ready == {j \in Jobs : IsDue(j)}
    IN  /\ phase = "idle" /\ ~shutting /\ ready # {}
        /\ due' = ready
        /\ jobs' = [j \in Jobs |-> IF j \in ready
                                   THEN [jobs[j] EXCEPT !.next = NextRun(j)]
                                   ELSE jobs[j]]
        /\ phase' = "batch"
        /\ UNCHANGED <<now, created, cur, inserting, alive, shutting, history>>

\* The tick that sees the shutdown flag leaves the loop.
LoopShutdown ==
    /\ phase = "idle" /\ shutting
    /\ phase' = "stopped"
    /\ UNCHANGED <<now, jobs, created, due, cur, inserting, alive, shutting,
                   history>>

\* The next job of the batch, in the map's iteration order: its action is
\* started without another look at the map.
StartJob(j) ==
    /\ phase = "batch"
    /\ j \in due
    /\ due' = due \ {j}
    /\ cur' = j
    /\ phase' = "firing"
    /\ started' = [started EXCEPT ![j] = now]
    /\ UNCHANGED <<now, jobs, created, inserting, alive, shutting, succeeded>>

BatchDone ==
    /\ phase = "batch"
    /\ due = {}
    /\ phase' = "idle"
    /\ UNCHANGED <<now, jobs, created, due, cur, inserting, alive, shutting,
                   history>>

\* The job that was fired is done with: on to the next of the batch.
NextOfBatch ==
    /\ phase' = "batch"
    /\ cur' = "none"

\* The action succeeded.  A turn of an agent that was killed cannot succeed.
Succeeds ==
    /\ phase = "firing"
    /\ cur \in Turns => OwnerOf[cur] \in alive

\* A variant of record_success that writes back the loop's copy of the job.
RecordSuccessWritesBack ==
    /\ Succeeds
    /\ jobs' = [jobs EXCEPT ![cur] =
                   [enabled |-> TRUE, next |-> NextRun(cur), errors |-> 0]]
    /\ \/ /\ cur \in OneShot
          /\ phase' = "removing"
          /\ succeeded' = succeeded \cup {cur}
          /\ UNCHANGED cur
       \/ /\ cur \notin OneShot
          /\ NextOfBatch
          /\ UNCHANGED succeeded
    /\ UNCHANGED <<now, created, due, inserting, alive, shutting, started>>

\* A variant of record_success that leaves the pre-advanced next_run alone.
RecordSuccessKeepsNext ==
    /\ Succeeds
    /\ jobs' = IF cur \in Present
               THEN [jobs EXCEPT ![cur] = [@ EXCEPT !.errors = 0]] ELSE jobs
    /\ NextOfBatch
    /\ UNCHANGED <<now, created, due, inserting, alive, shutting, history>>

\* A variant of record_success that keeps a one-shot job that failed before.
RecordSuccessKeepsFailed ==
    /\ Succeeds
    /\ \/ /\ cur \in Present \cap OneShot
          /\ jobs[cur].errors = 0
          /\ jobs' = jobs
          /\ phase' = "removing"
          /\ succeeded' = succeeded \cup {cur}
          /\ UNCHANGED cur
       \/ /\ cur \in Present \cap OneShot
          /\ jobs[cur].errors # 0
          /\ jobs' = [jobs EXCEPT ![cur] = [@ EXCEPT !.errors = 0]]
          /\ NextOfBatch
          /\ succeeded' = succeeded \cup {cur}
       \/ /\ cur \notin Present \cap OneShot
          /\ NextOfBatch
          /\ UNCHANGED <<jobs, succeeded>>
    /\ UNCHANGED <<now, created, due, inserting, alive, shutting, started>>

\* record_success updates the job, if it is still there; a one-shot job is
\* about to be removed and keeps its next_run.
RecordSuccess ==
    /\ Succeeds
    /\ \/ /\ cur \in Present \ OneShot
          /\ jobs' = [jobs EXCEPT ![cur].errors = 0, ![cur].next = NextRun(cur)]
          /\ NextOfBatch
          /\ UNCHANGED succeeded
       \/ /\ cur \in Present \cap OneShot
          /\ jobs' = [jobs EXCEPT ![cur].errors = 0]
          /\ phase' = "removing"
          /\ succeeded' = succeeded \cup {cur}
          /\ UNCHANGED cur
       \/ /\ cur \notin Present
          /\ NextOfBatch
          /\ UNCHANGED <<jobs, succeeded>>
    /\ UNCHANGED <<now, created, due, inserting, alive, shutting, started>>

\* record_success removes a one-shot job after it has let go of the entry.
RemoveOneShot ==
    /\ phase = "removing"
    /\ jobs' = [jobs EXCEPT ![cur] = NoJob]
    /\ NextOfBatch
    /\ UNCHANGED <<now, created, due, inserting, alive, shutting, history>>

\* A variant of the loop that gives the batch up at the first failure.
RecordFailureDropsBatch ==
    /\ phase = "firing"
    /\ cur \in Turns \cap Present
    /\ jobs' = [jobs EXCEPT ![cur].errors = @ + 1,
                            ![cur].enabled = @ /\ jobs[cur].errors + 1 < MaxErrors]
    /\ cur' = "none"
    /\ due' = {}
    /\ phase' = "idle"
    /\ UNCHANGED <<now, created, inserting, alive, shutting, history>>

\* A turn failed or timed out: record_failure counts it, and disables the job
\* at the limit.
RecordFailure ==
    /\ phase = "firing"
    /\ cur \in Turns
    /\ \/ /\ cur \in Present
          /\ jobs[cur].errors + 1 >= MaxErrors
          /\ jobs' = [jobs EXCEPT ![cur].errors = @ + 1, ![cur].enabled = FALSE]
       \/ /\ cur \in Present
          /\ jobs[cur].errors + 1 < MaxErrors
          /\ jobs' = [jobs EXCEPT ![cur].errors = @ + 1,
                                  ![cur].next = NextRun(cur)]
       \/ /\ cur \notin Present
          /\ UNCHANGED jobs
    /\ NextOfBatch
    /\ UNCHANGED <<now, created, due, inserting, alive, shutting, history>>

\* record_failure cuts the message at its 256th byte; when that is inside a
\* character the slice panics and with it the task of the loop.
RecordFailurePanics ==
    /\ SplitErrors
    /\ phase = "firing"
    /\ cur \in Turns \cap Present
    /\ phase' = "dead"
    /\ cur' = "none"
    /\ UNCHANGED <<now, jobs, created, due, inserting, alive, shutting, history>>

-----------------------------------------------------------------------------
(* The environment *)

ClockTick ==
    /\ now < MaxTime
    /\ now' = now + 1
    /\ UNCHANGED <<jobs, created, phase, due, cur, inserting, alive, shutting,
                   history>>

\* kill_agent does not touch the agent's cron jobs.
KillAgent(a) ==
    /\ a \in alive
    /\ alive' = alive \ {a}
    /\ UNCHANGED <<now, jobs, created, phase, due, cur, inserting, shutting,
                   history>>

Shutdown ==
    /\ ~shutting
    /\ shutting' = TRUE
    /\ UNCHANGED <<now, jobs, created, phase, due, cur, inserting, alive,
                   history>>

Loop ==
    \/ LoopTick
    \/ LoopShutdown
    \/ \E j \in Jobs : StartJob(j)
    \/ BatchDone
    \/ RecordSuccess
    \/ RemoveOneShot
    \/ RecordFailure
    \/ RecordFailurePanics

Next ==
    \/ Loop
    \/ \E c \in Clients :
          \/ \E j \in Jobs : AddJobCheck(c, j)
          \/ AddJobInsert(c)
    \/ \E j \in Jobs :
          \/ RemoveJob(j)
          \/ \E b \in BOOLEAN : SetEnabled(j, b)
    \/ ClockTick
    \/ \E a \in Agents : KillAgent(a)
    \/ Shutdown

Spec == Init /\ [][Next]_vars

\* The runtime polls the loop, every action it awaits ends (agent turns have a
\* timeout), a client that has checked goes on to insert, and time passes.
Fairness ==
    /\ WF_vars(Loop)
    /\ \A c \in Clients : WF_vars(AddJobInsert(c))
    /\ WF_vars(ClockTick)

FairSpec == Spec /\ Fairness

-----------------------------------------------------------------------------
(* Properties *)

Starts(j) == cur # j /\ cur' = j

\* A job that is enabled has fewer than MaxErrors consecutive failures behind
\* it, whoever toggles it while the loop records outcomes (record_failure,
\* set_enabled).
EnabledBelowLimit ==
    \A j \in Present : jobs[j].enabled => jobs[j].errors < MaxErrors

\* However long the batch blocks and whoever toggles a job meanwhile, two
\* starts of an interval job are at least its interval apart, and between two
\* starts of a cron job its expression matches (due_jobs, record_success).
Spacing ==
    [][\A j \in Jobs :
          (Starts(j) /\ started[j] # -1) =>
             /\ Kind[j] = "Every" => now >= started[j] + Param[j]
             /\ Kind[j] = "Cron" => now >= Upcoming[j][started[j]]]_vars

\* "Whether this job should be removed after a single successful execution":
\* a one-shot job that succeeded is never fired again (record_success).
OneShotOnce ==
    [][\A j \in succeeded : ~Starts(j)]_vars

\* A removed job is not put back by the loop when it records the outcome of a
\* run that was under way, nor by a toggle that comes late.
RemovedStaysRemoved ==
    [][\A j \in created \ Present :
          (\A c \in Clients : inserting[c] # j) => j \notin Present']_vars

\* "Cron scheduler tick loop - fires due jobs every 15 seconds": a due job
\* gets into a batch, unless it is removed or toggled or shutdown begins, and
\* whatever is in a batch is started, whether or not the jobs before it fail.
DueJobsFire ==
    \A j \in Jobs :
        /\ IsDue(j) ~> (j \in due \/ ~IsDue(j) \/ shutting)
        /\ j \in due ~> cur = j

=============================================================================
