----------------------------- MODULE Cron_proofs -----------------------------
(* Theorems about CronScheduler for every set of jobs, clients and agents,  *)
(* every schedule and every value of the limits; and about CronStore: that  *)
(* what callers were told is in the file as long as no two writers have     *)
(* been in persist at once.                                                 *)
EXTENDS CronScheduler, CronStore, TLAPS

\* What must have passed between a start at time s and a start at time t.
Elapsed(j, s, t) ==
    /\ Kind[j] = "Every" => t >= s + Param[j]
    /\ Kind[j] = "Cron" => t >= Upcoming[j][s]

LEMMA NextRunType ==
    ASSUME NEW j \in Jobs, now \in 0..MaxTime
    PROVE  NextRun(j) \in Nat
BY ScheduleType, UpcomingType, CronLimitsType DEF NextRun

(* Whatever is recomputed now lies far enough behind every earlier start     *)
(* (compute_next_run).                                                       *)
LEMMA NextRunElapsed ==
    ASSUME NEW j \in Jobs, now \in 0..MaxTime, NEW s \in 0..now
    PROVE  Elapsed(j, s, NextRun(j))
<1>1. s \in 0..MaxTime /\ s <= now /\ s \in Nat /\ now \in Nat
  BY CronLimitsType
<1>2. CASE Kind[j] = "Every"
  BY <1>1, <1>2, ScheduleType DEF NextRun, Elapsed
<1>3. CASE Kind[j] = "Cron"
  BY <1>1, <1>3, UpcomingType DEF NextRun, Elapsed
<1>4. CASE Kind[j] \notin {"Every", "Cron"}
  BY <1>4 DEF Elapsed
<1>5. QED
  BY <1>2, <1>3, <1>4

(* Elapsed is not undone by the passing of time. *)
LEMMA ElapsedMonotone ==
    ASSUME NEW j \in Jobs, NEW s \in 0..MaxTime, NEW t \in Nat, NEW u \in Nat,
           t <= u, Elapsed(j, s, t)
    PROVE  Elapsed(j, s, u)
<1>1. Upcoming[j][s] \in Nat /\ Param[j] \in Nat /\ s \in Nat
  BY UpcomingType, ScheduleType, CronLimitsType
<1>2. QED
  BY <1>1 DEF Elapsed

-----------------------------------------------------------------------------
(* The loop's batch and the job it is firing.                                *)

LoopInv ==
    /\ phase \in {"firing", "removing"} <=> cur # "none"
    /\ cur \notin due
    /\ phase \in {"idle", "stopped"} => due = {}
    /\ phase = "removing" => cur \in OneShot

\* Ids are used once: a job that is not in the map yet has no history.
FreshInv ==
    /\ \A c \in Clients : inserting[c] # "none" => inserting[c] \in created
    /\ \A c, d \in Clients :
          (inserting[c] # "none" /\ inserting[c] = inserting[d]) => c = d
    /\ \A j \in Jobs :
          (j \notin created \/ \E c \in Clients : inserting[c] = j) =>
              /\ j \notin Present /\ j \notin due /\ cur # j
              /\ started[j] = -1 /\ j \notin succeeded

\* The counter of an enabled job is below the limit, and so is that of every
\* job whose outcome is still to be recorded.
ErrorInv ==
    \A j \in Present :
        (jobs[j].enabled \/ j \in due \/ (cur = j /\ phase = "firing"))
            => jobs[j].errors < MaxErrors

\* A succeeded one-shot job is out of the map or about to leave it.
SucceededInv ==
    \A j \in succeeded :
        /\ j \notin due
        /\ j \in Present \/ cur = j => cur = j /\ phase = "removing"

\* A job that has been started before may be taken into a batch, and started,
\* only when enough time has passed.  A loop that has panicked starts nothing,
\* and leaves behind the next_run of the job it was firing.
SpacingInv ==
    \A j \in Jobs :
        /\ started[j] <= now
        /\ (started[j] # -1 /\ j \in due) => Elapsed(j, started[j], now)
        /\ ( /\ started[j] # -1 /\ phase # "dead"
             /\ j \in Present /\ jobs[j].enabled /\ cur # j)
              => Elapsed(j, started[j], jobs[j].next)

CronInv == TypeOK /\ LoopInv /\ FreshInv /\ ErrorInv /\ SucceededInv

LEMMA CronInit == Init => CronInv /\ SpacingInv
<1> SUFFICES ASSUME Init PROVE CronInv /\ SpacingInv
  OBVIOUS
<1>1. Present = {}
  BY DEF Init, Present
<1>2. TypeOK
  <2>1. -1 \in -1..MaxTime /\ 0 \in 0..MaxTime
    BY CronLimitsType
  <2>2. QED
    BY <2>1 DEF Init, TypeOK, Phases
<1>3. LoopInv
  BY DEF Init, LoopInv
<1>4. FreshInv /\ ErrorInv /\ SucceededInv
  BY <1>1, NoneIsNoJob DEF Init, FreshInv, ErrorInv, SucceededInv
<1>5. SpacingInv
  BY <1>1 DEF Init, SpacingInv
<1>6. QED
  BY <1>2, <1>3, <1>4, <1>5 DEF CronInv

(* Types; the bound of the error counter needs ErrorInv. *)
LEMMA TypeStep == TypeOK /\ LoopInv /\ ErrorInv /\ [Next]_vars => TypeOK'
<1> SUFFICES ASSUME TypeOK, LoopInv, ErrorInv, [Next]_vars PROVE TypeOK'
  OBVIOUS
<1> USE NoneIsNoJob, CronLimitsType
    DEF TypeOK, LoopInv, ErrorInv, Present, NoJob, JobMeta, Phases, history
<1>1. ASSUME NEW c \in Clients, NEW j \in Jobs, AddJobCheck(c, j)
      PROVE  TypeOK'
  BY <1>1 DEF AddJobCheck
<1>2. ASSUME NEW c \in Clients, AddJobInsert(c)
      PROVE  TypeOK'
  BY <1>2, NextRunType DEF AddJobInsert
<1>3. ASSUME NEW j \in Jobs, RemoveJob(j)
      PROVE  TypeOK'
  BY <1>3 DEF RemoveJob
<1>4. ASSUME NEW j \in Jobs, NEW b \in BOOLEAN, SetEnabled(j, b)
      PROVE  TypeOK'
  <2>1. jobs[j] \in JobMeta /\ NextRun(j) \in Nat
    BY <1>4, NextRunType DEF SetEnabled
  <2>2. jobs'[j] \in JobMeta
    <3>1. CASE b
      BY <1>4, <2>1, <3>1 DEF SetEnabled
    <3>2. CASE ~b
      <4>1. jobs'[j] = [jobs[j] EXCEPT !.enabled = FALSE]
        BY <1>4, <3>2 DEF SetEnabled
      <4>2. QED
        BY <2>1, <4>1
    <3>3. QED
      BY <3>1, <3>2
  <2>3. \A k \in Jobs : k # j => jobs'[k] = jobs[k]
    BY <1>4 DEF SetEnabled
  <2>4. jobs' \in [Jobs -> JobMeta \cup {NoJob}]
    BY <1>4, <2>2, <2>3 DEF SetEnabled
  <2>5. QED
    BY <1>4, <2>4 DEF SetEnabled
<1>5. CASE LoopTick
  BY <1>5, NextRunType DEF LoopTick, IsDue
<1>6. CASE LoopShutdown
  BY <1>6 DEF LoopShutdown
<1>7. ASSUME NEW j \in Jobs, StartJob(j)
      PROVE  TypeOK'
  BY <1>7 DEF StartJob
<1>8. CASE BatchDone
  BY <1>8 DEF BatchDone
<1>9. CASE RecordSuccess
  <2>1. cur \in Jobs
    BY <1>9 DEF RecordSuccess, Succeeds
  <2>2. CASE cur \in Present
    <3>1. jobs[cur] \in JobMeta /\ NextRun(cur) \in Nat
      BY <2>1, <2>2, NextRunType
    <3>2. jobs' \in [Jobs -> JobMeta \cup {NoJob}]
      BY <1>9, <2>1, <2>2, <3>1 DEF RecordSuccess
    <3>3. succeeded' \subseteq OneShot
      BY <1>9, <2>2 DEF RecordSuccess
    <3>4. QED
      BY <1>9, <2>2, <3>2, <3>3 DEF RecordSuccess, NextOfBatch
  <2>3. CASE cur \notin Present
    BY <1>9, <2>3 DEF RecordSuccess, NextOfBatch
  <2>4. QED
    BY <2>2, <2>3
<1>10. CASE RemoveOneShot
  BY <1>10 DEF RemoveOneShot, NextOfBatch
<1>11. CASE RecordFailure
  BY <1>11, NextRunType DEF RecordFailure, NextOfBatch
<1>12. CASE RecordFailurePanics
  BY <1>12 DEF RecordFailurePanics
<1>13. CASE ClockTick
  BY <1>13 DEF ClockTick
<1>14. ASSUME NEW a \in Agents, KillAgent(a)
      PROVE  TypeOK'
  BY <1>14 DEF KillAgent
<1>15. CASE Shutdown
  BY <1>15 DEF Shutdown
<1>16. CASE UNCHANGED vars
  BY <1>16 DEF vars
<1>17. QED
  BY <1>1, <1>2, <1>3, <1>4, <1>5, <1>6, <1>7, <1>8, <1>9, <1>10, <1>11,
     <1>12, <1>13, <1>14, <1>15, <1>16 DEF Next, Loop

(* The batch and the job being fired. *)
LEMMA LoopStep == TypeOK /\ LoopInv /\ [Next]_vars => LoopInv'
<1> SUFFICES ASSUME TypeOK, LoopInv, [Next]_vars PROVE LoopInv'
  OBVIOUS
<1> USE NoneIsNoJob DEF TypeOK, LoopInv, Phases, history
<1>1. ASSUME NEW c \in Clients, NEW j \in Jobs, AddJobCheck(c, j)
      PROVE  LoopInv'
  BY <1>1 DEF AddJobCheck
<1>2. ASSUME NEW c \in Clients, AddJobInsert(c)
      PROVE  LoopInv'
  BY <1>2 DEF AddJobInsert
<1>3. ASSUME NEW j \in Jobs, RemoveJob(j)
      PROVE  LoopInv'
  BY <1>3 DEF RemoveJob
<1>4. ASSUME NEW j \in Jobs, NEW b \in BOOLEAN, SetEnabled(j, b)
      PROVE  LoopInv'
  BY <1>4 DEF SetEnabled
<1>5. CASE LoopTick
  BY <1>5 DEF LoopTick, IsDue
<1>6. CASE LoopShutdown
  BY <1>6 DEF LoopShutdown
<1>7. ASSUME NEW j \in Jobs, StartJob(j)
      PROVE  LoopInv'
  BY <1>7 DEF StartJob
<1>8. CASE BatchDone
  BY <1>8 DEF BatchDone
<1>9. CASE RecordSuccess
  BY <1>9 DEF RecordSuccess, Succeeds, NextOfBatch
<1>10. CASE RemoveOneShot
  BY <1>10 DEF RemoveOneShot, NextOfBatch
<1>11. CASE RecordFailure
  BY <1>11 DEF RecordFailure, NextOfBatch
<1>12. CASE RecordFailurePanics
  BY <1>12 DEF RecordFailurePanics
<1>13. CASE ClockTick
  BY <1>13 DEF ClockTick
<1>14. ASSUME NEW a \in Agents, KillAgent(a)
      PROVE  LoopInv'
  BY <1>14 DEF KillAgent
<1>15. CASE Shutdown
  BY <1>15 DEF Shutdown
<1>16. CASE UNCHANGED vars
  BY <1>16 DEF vars
<1>17. QED
  BY <1>1, <1>2, <1>3, <1>4, <1>5, <1>6, <1>7, <1>8, <1>9, <1>10, <1>11,
     <1>12, <1>13, <1>14, <1>15, <1>16 DEF Next, Loop

(* The error counters. *)
LEMMA ErrorStep == TypeOK /\ LoopInv /\ ErrorInv /\ [Next]_vars => ErrorInv'
<1> SUFFICES ASSUME TypeOK, LoopInv, ErrorInv, [Next]_vars PROVE ErrorInv'
  OBVIOUS
<1> USE NoneIsNoJob, CronLimitsType
    DEF TypeOK, LoopInv, ErrorInv, Present, NoJob, JobMeta, Phases, history
<1>1. ASSUME NEW c \in Clients, NEW j \in Jobs, AddJobCheck(c, j)
      PROVE  ErrorInv'
  BY <1>1 DEF AddJobCheck
<1>2. ASSUME NEW c \in Clients, AddJobInsert(c)
      PROVE  ErrorInv'
  BY <1>2, NextRunType DEF AddJobInsert
<1>3. ASSUME NEW j \in Jobs, RemoveJob(j)
      PROVE  ErrorInv'
  BY <1>3 DEF RemoveJob
<1>4. ASSUME NEW j \in Jobs, NEW b \in BOOLEAN, SetEnabled(j, b)
      PROVE  ErrorInv'
  BY <1>4, NextRunType DEF SetEnabled
<1>5. CASE LoopTick
  BY <1>5, NextRunType DEF LoopTick, IsDue
<1>6. CASE LoopShutdown
  BY <1>6 DEF LoopShutdown
<1>7. ASSUME NEW j \in Jobs, StartJob(j)
      PROVE  ErrorInv'
  BY <1>7 DEF StartJob
<1>8. CASE BatchDone
  BY <1>8 DEF BatchDone
<1>9. CASE RecordSuccess
  BY <1>9, NextRunType DEF RecordSuccess, Succeeds, NextOfBatch
<1>10. CASE RemoveOneShot
  BY <1>10 DEF RemoveOneShot, NextOfBatch
<1>11. CASE RecordFailure
  BY <1>11, NextRunType DEF RecordFailure, NextOfBatch
<1>12. CASE RecordFailurePanics
  BY <1>12 DEF RecordFailurePanics
<1>13. CASE ClockTick
  BY <1>13 DEF ClockTick
<1>14. ASSUME NEW a \in Agents, KillAgent(a)
      PROVE  ErrorInv'
  BY <1>14 DEF KillAgent
<1>15. CASE Shutdown
  BY <1>15 DEF Shutdown
<1>16. CASE UNCHANGED vars
  BY <1>16 DEF vars
<1>17. QED
  BY <1>1, <1>2, <1>3, <1>4, <1>5, <1>6, <1>7, <1>8, <1>9, <1>10, <1>11,
     <1>12, <1>13, <1>14, <1>15, <1>16 DEF Next, Loop

(* Ids are fresh. *)
LEMMA FreshStep == TypeOK /\ LoopInv /\ FreshInv /\ [Next]_vars => FreshInv'
<1> SUFFICES ASSUME TypeOK, LoopInv, FreshInv, [Next]_vars PROVE FreshInv'
  OBVIOUS
<1> USE NoneIsNoJob
    DEF TypeOK, LoopInv, FreshInv, Present, NoJob, JobMeta, Phases, history
<1>1. ASSUME NEW c \in Clients, NEW j \in Jobs, AddJobCheck(c, j)
      PROVE  FreshInv'
  BY <1>1 DEF AddJobCheck
<1>2. ASSUME NEW c \in Clients, AddJobInsert(c)
      PROVE  FreshInv'
  BY <1>2, NextRunType DEF AddJobInsert
<1>3. ASSUME NEW j \in Jobs, RemoveJob(j)
      PROVE  FreshInv'
  BY <1>3 DEF RemoveJob
<1>4. ASSUME NEW j \in Jobs, NEW b \in BOOLEAN, SetEnabled(j, b)
      PROVE  FreshInv'
  BY <1>4, NextRunType DEF SetEnabled
<1>5. CASE LoopTick
  BY <1>5, NextRunType DEF LoopTick, IsDue
<1>6. CASE LoopShutdown
  BY <1>6 DEF LoopShutdown
<1>7. ASSUME NEW j \in Jobs, StartJob(j)
      PROVE  FreshInv'
  BY <1>7 DEF StartJob
<1>8. CASE BatchDone
  BY <1>8 DEF BatchDone
<1>9. CASE RecordSuccess
  BY <1>9, NextRunType DEF RecordSuccess, Succeeds, NextOfBatch
<1>10. CASE RemoveOneShot
  BY <1>10 DEF RemoveOneShot, NextOfBatch
<1>11. CASE RecordFailure
  BY <1>11, NextRunType DEF RecordFailure, NextOfBatch
<1>12. CASE RecordFailurePanics
  BY <1>12 DEF RecordFailurePanics
<1>13. CASE ClockTick
  BY <1>13 DEF ClockTick
<1>14. ASSUME NEW a \in Agents, KillAgent(a)
      PROVE  FreshInv'
  BY <1>14 DEF KillAgent
<1>15. CASE Shutdown
  BY <1>15 DEF Shutdown
<1>16. CASE UNCHANGED vars
  BY <1>16 DEF vars
<1>17. QED
  BY <1>1, <1>2, <1>3, <1>4, <1>5, <1>6, <1>7, <1>8, <1>9, <1>10, <1>11,
     <1>12, <1>13, <1>14, <1>15, <1>16 DEF Next, Loop

(* One-shot jobs. *)
LEMMA SucceededStep == TypeOK /\ LoopInv /\ FreshInv /\ SucceededInv /\ [Next]_vars => SucceededInv'
<1> SUFFICES ASSUME TypeOK, LoopInv, FreshInv, SucceededInv, [Next]_vars PROVE SucceededInv'
  OBVIOUS
<1> USE NoneIsNoJob
    DEF TypeOK, LoopInv, FreshInv, SucceededInv, Present, NoJob, JobMeta, Phases,
        history
<1>0. OneShot \subseteq Jobs
  BY ScheduleType
<1>1. ASSUME NEW c \in Clients, NEW j \in Jobs, AddJobCheck(c, j)
      PROVE  SucceededInv'
  BY <1>0, <1>1 DEF AddJobCheck
<1>2. ASSUME NEW c \in Clients, AddJobInsert(c)
      PROVE  SucceededInv'
  BY <1>0, <1>2, NextRunType DEF AddJobInsert
<1>3. ASSUME NEW j \in Jobs, RemoveJob(j)
      PROVE  SucceededInv'
  BY <1>0, <1>3 DEF RemoveJob
<1>4. ASSUME NEW j \in Jobs, NEW b \in BOOLEAN, SetEnabled(j, b)
      PROVE  SucceededInv'
  BY <1>0, <1>4, NextRunType DEF SetEnabled
<1>5. CASE LoopTick
  BY <1>0, <1>5, NextRunType DEF LoopTick, IsDue
<1>6. CASE LoopShutdown
  BY <1>0, <1>6 DEF LoopShutdown
<1>7. ASSUME NEW j \in Jobs, StartJob(j)
      PROVE  SucceededInv'
  BY <1>0, <1>7 DEF StartJob
<1>8. CASE BatchDone
  BY <1>0, <1>8 DEF BatchDone
<1>9. CASE RecordSuccess
  BY <1>0, <1>9, NextRunType DEF RecordSuccess, Succeeds, NextOfBatch
<1>10. CASE RemoveOneShot
  BY <1>0, <1>10 DEF RemoveOneShot, NextOfBatch
<1>11. CASE RecordFailure
  BY <1>0, <1>11, NextRunType DEF RecordFailure, NextOfBatch
<1>12. CASE RecordFailurePanics
  BY <1>0, <1>12 DEF RecordFailurePanics
<1>13. CASE ClockTick
  BY <1>0, <1>13 DEF ClockTick
<1>14. ASSUME NEW a \in Agents, KillAgent(a)
      PROVE  SucceededInv'
  BY <1>0, <1>14 DEF KillAgent
<1>15. CASE Shutdown
  BY <1>0, <1>15 DEF Shutdown
<1>16. CASE UNCHANGED vars
  BY <1>0, <1>16 DEF vars
<1>17. QED
  BY <1>1, <1>2, <1>3, <1>4, <1>5, <1>6, <1>7, <1>8, <1>9, <1>10, <1>11,
     <1>12, <1>13, <1>14, <1>15, <1>16 DEF Next, Loop

LEMMA CronStep == CronInv /\ [Next]_vars => CronInv'
BY TypeStep, LoopStep, ErrorStep, FreshStep, SucceededStep DEF CronInv

THEOREM CronInvariant == Spec => []CronInv
<1>1. Init => CronInv
  BY CronInit
<1>2. CronInv /\ [Next]_vars => CronInv'
  BY CronStep
<1>3. QED
  BY <1>1, <1>2, PTL DEF Spec

(* The state always has its type, the number of consecutive errors included  *)
(* (record_failure).                                                         *)
THEOREM CronTypeCorrect == Spec => []TypeOK
BY CronInvariant, PTL DEF CronInv

(* An enabled job is below the error limit, however toggling, removing and   *)
(* recording interleave (record_failure, set_enabled).                       *)
THEOREM EnabledTheorem == Spec => []EnabledBelowLimit
<1>1. CronInv => EnabledBelowLimit
  BY DEF CronInv, ErrorInv, EnabledBelowLimit
<1>2. QED
  BY <1>1, CronInvariant, PTL

(* The only step that starts a job takes it from the batch. *)
LEMMA StartsFromBatch ==
    ASSUME NEW j \in Jobs, Next, Starts(j)
    PROVE  StartJob(j)
<1>1. j # "none"
  BY NoneIsNoJob
<1>2. QED
  BY <1>1
  DEF Next, Loop, Starts, AddJobCheck, AddJobInsert, RemoveJob, SetEnabled,
      LoopTick, LoopShutdown, BatchDone, RecordSuccess, RemoveOneShot,
      RecordFailure, RecordFailurePanics, ClockTick, KillAgent, Shutdown,
      NextOfBatch, StartJob

(* A one-shot job whose success was recorded is never fired again            *)
(* (record_success, due_jobs).                                               *)
THEOREM OneShotTheorem == Spec => OneShotOnce
<1>1. CronInv /\ [Next]_vars => [\A j \in succeeded : ~Starts(j)]_vars
  <2> SUFFICES ASSUME CronInv, Next, NEW j \in succeeded, Starts(j)
               PROVE  FALSE
    BY DEF Starts
  <2>1. j \in OneShot /\ j \notin due /\ j # "none"
    BY NoneIsNoJob, ScheduleType DEF CronInv, SucceededInv, TypeOK
  <2>2. StartJob(j)
    BY <2>1, StartsFromBatch, ScheduleType
  <2>3. QED
    BY <2>1, <2>2 DEF StartJob
<1>2. QED
  BY <1>1, CronInvariant, PTL DEF Spec, OneShotOnce

-----------------------------------------------------------------------------
(* The spacing of starts. *)

(* A recomputed next_run is late enough for every earlier start. *)
LEMMA Recomputed ==
    ASSUME TypeOK, SpacingInv, NEW j \in Jobs, started[j] # -1
    PROVE  Elapsed(j, started[j], NextRun(j))
<1>1. started[j] \in 0..now /\ now \in 0..MaxTime
  BY CronLimitsType DEF TypeOK, SpacingInv
<1>2. QED
  BY <1>1, NextRunElapsed

(* next_run of a job that may be started again stays late enough under every *)
(* toggling, recording and pre-advancing.                                    *)
LEMMA SpacingStep == CronInv /\ SpacingInv /\ [Next]_vars => SpacingInv'
<1> SUFFICES ASSUME CronInv, SpacingInv, [Next]_vars PROVE SpacingInv'
  OBVIOUS
<1> USE NoneIsNoJob DEF CronInv, SpacingInv
<1>0. now \in 0..MaxTime /\ now \in Nat /\ \A j \in Jobs : started[j] \in -1..MaxTime
  BY CronLimitsType DEF TypeOK
<1>p. phase = "dead" => phase' = "dead"
  BY DEF Next, Loop, vars, AddJobCheck, AddJobInsert, RemoveJob, SetEnabled,
         LoopTick, LoopShutdown, BatchDone, StartJob, RecordSuccess, Succeeds,
         RemoveOneShot, RecordFailure, RecordFailurePanics, ClockTick,
         KillAgent, Shutdown
<1>1. ASSUME NEW c \in Clients, NEW k \in Jobs, AddJobCheck(c, k)
      PROVE  SpacingInv'
  BY <1>p, <1>1 DEF AddJobCheck, Present, history
<1>2. ASSUME NEW c \in Clients, AddJobInsert(c) PROVE SpacingInv'
  <2>1. started[inserting[c]] = -1 /\ inserting[c] \in Jobs
    BY <1>2 DEF AddJobInsert, FreshInv, TypeOK
  <2>2. \A k \in Jobs : k # inserting[c] => jobs'[k] = jobs[k]
    BY <1>2 DEF AddJobInsert, TypeOK
  <2>3. QED
    BY <1>p, <1>2, <2>1, <2>2 DEF AddJobInsert, Present, history
<1>3. ASSUME NEW k \in Jobs, RemoveJob(k) PROVE SpacingInv'
  <2>1. \A j \in Jobs : j # k => jobs'[j] = jobs[j]
    BY <1>3 DEF RemoveJob, TypeOK
  <2>2. k \notin Present'
    BY <1>3 DEF RemoveJob, TypeOK, Present
  <2>3. QED
    BY <1>p, <1>3, <2>1, <2>2 DEF RemoveJob, Present, history
<1>4. ASSUME NEW k \in Jobs, NEW b \in BOOLEAN, SetEnabled(k, b)
      PROVE  SpacingInv'
  <2>1. \A j \in Jobs : j # k => jobs'[j] = jobs[j]
    BY <1>4 DEF SetEnabled, TypeOK
  <2>2. jobs'[k].enabled => jobs'[k].next = NextRun(k)
    BY <1>4 DEF SetEnabled, TypeOK, Present, JobMeta
  <2>3. UNCHANGED <<now, due, cur, started>>
    BY <1>4 DEF SetEnabled, history
  <2>4. QED
    BY <1>p, <2>1, <2>2, <2>3, Recomputed DEF Present
<1>5. CASE LoopTick
  <2>1. UNCHANGED <<now, cur, started>> /\ cur = "none"
    BY <1>5 DEF LoopTick, history, LoopInv
  <2>2. \A j \in due' : IsDue(j) /\ jobs'[j].next = NextRun(j)
    BY <1>5 DEF LoopTick, IsDue, Present, TypeOK, JobMeta, NoJob
  <2>3. \A j \in Jobs \ due' : jobs'[j] = jobs[j]
    BY <1>5 DEF LoopTick
  <2>4. \A j \in due' : started[j] # -1 => Elapsed(j, started[j], now)
    <3> SUFFICES ASSUME NEW j \in due', started[j] # -1
                 PROVE  Elapsed(j, started[j], now)
      OBVIOUS
    <3>1. /\ j \in Jobs /\ j \in Present /\ jobs[j].enabled
          /\ jobs[j].next <= now /\ jobs[j].next \in Nat
      BY <2>2 DEF IsDue, Present, TypeOK, JobMeta
    <3>2. Elapsed(j, started[j], jobs[j].next)
      BY <1>5, <2>1, <3>1, started[j] # -1 DEF LoopTick
    <3>3. started[j] \in 0..MaxTime
      BY <1>0, <3>1, CronLimitsType
    <3>4. QED
      BY <1>0, <3>1, <3>2, <3>3, ElapsedMonotone
  <2>5. QED
    BY <1>p, <2>1, <2>2, <2>3, <2>4, Recomputed DEF Present
<1>6. CASE LoopShutdown
  BY <1>6 DEF LoopShutdown, Present, history
<1>7. ASSUME NEW k \in Jobs, StartJob(k) PROVE SpacingInv'
  <2>1. /\ due' = due \ {k} /\ cur' = k /\ cur = "none"
        /\ UNCHANGED <<now, jobs>>
        /\ started'[k] = now
        /\ \A j \in Jobs : j # k => started'[j] = started[j]
    BY <1>7 DEF StartJob, TypeOK, LoopInv
  <2>2. QED
    BY <1>p, <1>0, <2>1 DEF Present
<1>8. CASE BatchDone
  BY <1>8 DEF BatchDone, Present, history
<1>9. CASE RecordSuccess
  <2>1. UNCHANGED <<now, due, started>> /\ cur \in Jobs
    BY <1>9 DEF RecordSuccess, Succeeds, LoopInv, TypeOK
  <2>2. \A j \in Jobs : j # cur => jobs'[j] = jobs[j]
    BY <1>9 DEF RecordSuccess, TypeOK
  <2>3. cur' # cur /\ cur \in Present' => jobs'[cur].next = NextRun(cur)
    BY <1>9, <2>1 DEF RecordSuccess, TypeOK, Present, JobMeta
  <2>4. cur' = cur \/ cur' = "none"
    BY <1>9 DEF RecordSuccess, NextOfBatch
  <2>5. QED
    BY <1>p, <2>1, <2>2, <2>3, <2>4, Recomputed DEF Present
<1>10. CASE RemoveOneShot
  <2>1. UNCHANGED <<now, due, started>> /\ cur \in Jobs /\ cur' = "none"
    BY <1>10 DEF RemoveOneShot, NextOfBatch, LoopInv, TypeOK, history
  <2>2. \A j \in Jobs : j # cur => jobs'[j] = jobs[j]
    BY <1>10 DEF RemoveOneShot, TypeOK
  <2>3. cur \notin Present'
    BY <1>10, <2>1 DEF RemoveOneShot, TypeOK, Present
  <2>4. QED
    BY <1>p, <2>1, <2>2, <2>3 DEF Present
<1>11. CASE RecordFailure
  <2>1. UNCHANGED <<now, due, started>> /\ cur \in Jobs /\ cur' = "none"
    BY <1>11 DEF RecordFailure, NextOfBatch, LoopInv, TypeOK, history
  <2>2. \A j \in Jobs : j # cur => jobs'[j] = jobs[j]
    BY <1>11 DEF RecordFailure, TypeOK
  <2>3. cur \in Present' /\ jobs'[cur].enabled => jobs'[cur].next = NextRun(cur)
    BY <1>11, <2>1 DEF RecordFailure, TypeOK, Present, JobMeta
  <2>4. QED
    BY <1>p, <2>1, <2>2, <2>3, Recomputed DEF Present
<1>12. CASE RecordFailurePanics
  <2>1. UNCHANGED <<now, due, started, jobs>> /\ cur' = "none"
    BY <1>12 DEF RecordFailurePanics, history
  <2>2. phase' = "dead"
    BY <1>12 DEF RecordFailurePanics
  <2>3. QED
    BY <1>p, <2>1, <2>2
<1>13. CASE ClockTick
  <2>1. /\ UNCHANGED <<due, cur, phase, jobs, started>>
        /\ now' = now + 1 /\ now' \in Nat
    BY <1>0, <1>13 DEF ClockTick, history
  <2>2. \A j \in Jobs : started[j] # -1 =>
            started[j] \in 0..MaxTime /\ started[j] <= now'
    BY <1>0, <2>1, CronLimitsType
  <2>3. ASSUME NEW j \in Jobs, started[j] # -1, j \in due
        PROVE  Elapsed(j, started[j], now')
    BY <1>0, <2>1, <2>2, <2>3, ElapsedMonotone
  <2>4. QED
    BY <1>p, <1>0, <2>1, <2>2, <2>3 DEF Present
<1>14. ASSUME NEW a \in Agents, KillAgent(a) PROVE SpacingInv'
  BY <1>14 DEF KillAgent, Present, history
<1>15. CASE Shutdown
  BY <1>15 DEF Shutdown, Present, history
<1>16. CASE UNCHANGED vars
  BY <1>16 DEF vars, Present
<1>17. QED
  BY <1>1, <1>2, <1>3, <1>4, <1>5, <1>6, <1>7, <1>8, <1>9, <1>10, <1>11,
     <1>12, <1>13, <1>14, <1>15, <1>16 DEF Next, Loop

(* Two starts of an interval job are at least its interval apart, and a cron  *)
(* job's expression matches between two starts, for every schedule, batch and *)
(* toggling (due_jobs, record_success, record_failure, set_enabled).          *)
THEOREM SpacingTheorem == Spec => Spacing
<1> DEFINE A == \A j \in Jobs :
          (Starts(j) /\ started[j] # -1) =>
             /\ Kind[j] = "Every" => now >= started[j] + Param[j]
             /\ Kind[j] = "Cron" => now >= Upcoming[j][started[j]]
<1>1. Init => CronInv /\ SpacingInv
  BY CronInit
<1>2. CronInv /\ SpacingInv /\ [Next]_vars => CronInv' /\ SpacingInv'
  BY CronStep, SpacingStep
<1>3. CronInv /\ SpacingInv /\ [Next]_vars => [A]_vars
  <2> SUFFICES ASSUME SpacingInv, Next, NEW j \in Jobs, Starts(j),
                      started[j] # -1
               PROVE  Elapsed(j, started[j], now)
    BY DEF Elapsed
  <2>1. j \in due
    BY StartsFromBatch DEF StartJob
  <2>2. QED
    BY <2>1 DEF SpacingInv
<1>4. QED
  BY <1>1, <1>2, <1>3, PTL DEF Spec, Spacing

(* Nothing but the insertion of a new job puts a job into the map: neither    *)
(* the loop that records the outcome of a removed job nor a late toggle       *)
(* (record_success, record_failure, set_enabled).                             *)
THEOREM RemovedTheorem == Spec => RemovedStaysRemoved
<1> DEFINE A == \A j \in created \ Present :
          (\A c \in Clients : inserting[c] # j) => j \notin Present'
<1>1. CronInv /\ [Next]_vars => [A]_vars
  <2> SUFFICES ASSUME TypeOK, LoopInv, Next, NEW j \in created \ Present,
                      \A c \in Clients : inserting[c] # j
               PROVE  jobs'[j] = jobs[j]
    BY DEF CronInv, Present, TypeOK
  <2> USE DEF TypeOK
  <2>0. j \in Jobs /\ jobs[j] = NoJob
    BY DEF Present
  <2>1. ASSUME NEW c \in Clients, AddJobInsert(c) PROVE jobs'[j] = jobs[j]
    BY <2>0, <2>1 DEF AddJobInsert
  <2>2. ASSUME NEW k \in Jobs, RemoveJob(k) PROVE jobs'[j] = jobs[j]
    BY <2>0, <2>2 DEF RemoveJob
  <2>3. ASSUME NEW k \in Jobs, NEW b \in BOOLEAN, SetEnabled(k, b)
        PROVE  jobs'[j] = jobs[j]
    BY <2>0, <2>3 DEF SetEnabled, Present
  <2>4. CASE LoopTick
    BY <2>0, <2>4 DEF LoopTick, IsDue
  <2>5. CASE RecordSuccess
    BY <2>0, <2>5 DEF RecordSuccess, Present
  <2>6. CASE RemoveOneShot
    BY <2>0, <2>6 DEF RemoveOneShot
  <2>7. CASE RecordFailure
    BY <2>0, <2>7 DEF RecordFailure, Present
  <2>8. QED
    BY <2>1, <2>2, <2>3, <2>4, <2>5, <2>6, <2>7
    DEF Next, Loop, AddJobCheck, LoopShutdown, BatchDone, StartJob,
        RecordFailurePanics, ClockTick, KillAgent, Shutdown
<1>2. QED
  BY <1>1, CronInvariant, PTL DEF Spec, RemovedStaysRemoved

-----------------------------------------------------------------------------
(* CronStore: the type *)

LEMMA SavedIsContents ==
    /\ \A s \in SUBSET StoredJobs : Saved(s) \in Contents
    /\ Missing \in Contents /\ Empty \in Contents /\ Torn \in Contents
    /\ \A c \in Contents : c.jobs \subseteq StoredJobs
<1>1. \A s \in SUBSET StoredJobs : Saved(s) \in Contents
  BY DEF Contents
<1>2. Missing \in Contents /\ Empty \in Contents /\ Torn \in Contents
  BY DEF Contents
<1>3. ASSUME NEW c \in Contents PROVE c.jobs \subseteq StoredJobs
  <2>1. CASE c \in {Missing, Empty, Torn}
    BY <2>1 DEF Missing, Empty, Torn
  <2>2. CASE \E s \in SUBSET StoredJobs : c = Saved(s)
    BY <2>2 DEF Saved
  <2>3. QED
    BY <2>1, <2>2 DEF Contents
<1>4. QED
  BY <1>1, <1>2, <1>3

(* The state of the file, the map and the writers has its type (persist).    *)
THEOREM StoreTypeCorrect == StoreSpec => []StoreTypeOK
<1>1. StoreInit => StoreTypeOK
  <2> SUFFICES ASSUME StoreInit PROVE StoreTypeOK
    OBVIOUS
  <2>1. file \in [{"tmp", "main"} -> Contents] /\ asked \in [Writers -> Requests \cup {Idle}]
    BY SavedIsContents DEF StoreInit
  <2>2. /\ at \in [Writers -> {"idle", "snapshot", "open", "write", "rename"}]
        /\ snap \in [Writers -> SUBSET StoredJobs]
        /\ fd \in [Writers -> {"closed", "tmp", "main", "unlinked"}]
        /\ told \in [StoredJobs -> {"nothing", "created", "deleted", "changing"}]
    BY DEF StoreInit
  <2>3. crashes \in 0 .. MaxCrashes /\ failures \in 0 .. MaxFailures
    BY BoundsType DEF StoreInit
  <2>4. /\ mem \subseteq StoredJobs /\ ran \subseteq RunOnce /\ overlapped \in BOOLEAN
        /\ missed \subseteq StoredJobs /\ lost \subseteq StoredJobs
    BY DEF StoreInit
  <2>5. QED
    BY <2>1, <2>2, <2>3, <2>4 DEF StoreTypeOK
<1>2. StoreTypeOK /\ [StoreNext]_storeVars => StoreTypeOK'
  <2> SUFFICES ASSUME StoreTypeOK, [StoreNext]_storeVars PROVE StoreTypeOK'
    OBVIOUS
  <2> USE DEF StoreTypeOK
  <2>1. ASSUME NEW w \in Writers, NEW j \in StoredJobs, Create(w, j) \/ Delete(w, j) PROVE StoreTypeOK'
    <3>1. [op |-> "created", job |-> j] \in Requests /\ [op |-> "deleted", job |-> j] \in Requests
      BY DEF Requests
    <3>2. asked' \in [Writers -> Requests \cup {Idle}]
      BY <2>1, <3>1 DEF Create, Delete
    <3>3. QED
      BY <2>1, <3>2 DEF Create, Delete, Enter
  <2>2. ASSUME NEW w \in Writers, Snapshot(w) PROVE StoreTypeOK'
    BY <2>2 DEF Snapshot, storeHistory
  <2>3. ASSUME NEW w \in Writers, Open(w) PROVE StoreTypeOK'
    BY <2>3, SavedIsContents DEF Open, storeHistory
  <2>4. ASSUME NEW w \in Writers, Write(w) PROVE StoreTypeOK'
    BY <2>4, SavedIsContents DEF Write, storeHistory
  <2>5. ASSUME NEW w \in Writers, Answer(w)
        PROVE  /\ told' \in [StoredJobs -> {"nothing", "created", "deleted", "changing"}]
               /\ at' \in [Writers -> {"idle", "snapshot", "open", "write", "rename"}]
               /\ asked' \in [Writers -> Requests \cup {Idle}]
    BY <2>5 DEF Answer, Requests
  <2>11. ASSUME NEW w \in Writers, Rename(w) PROVE StoreTypeOK'
    <3>1. file' \in [{"tmp", "main"} -> Contents]
      BY <2>11, SavedIsContents DEF Rename
    <3>2. fd' \in [Writers -> {"closed", "tmp", "main", "unlinked"}]
      BY <2>11 DEF Rename
    <3>3. missed' \subseteq StoredJobs
      BY <2>11 DEF Rename, Misses
    <3>4. Answer(w) /\ failures' = failures
      BY <2>11 DEF Rename
    <3>5. UNCHANGED <<mem, snap, ran, overlapped, lost, crashes>>
      BY <3>4 DEF Answer
    <3>6. QED
      BY <2>5, <3>1, <3>2, <3>3, <3>4, <3>5
  <2>12. ASSUME NEW w \in Writers, PersistFails(w) PROVE StoreTypeOK'
    <3>1. file' \in [{"tmp", "main"} -> Contents]
      BY <2>12, SavedIsContents DEF PersistFails
    <3>2. fd' \in [Writers -> {"closed", "tmp", "main", "unlinked"}]
      BY <2>12 DEF PersistFails
    <3>3. missed' \subseteq StoredJobs
      BY <2>12 DEF PersistFails, Misses
    <3>4. Answer(w) /\ failures' \in 0 .. MaxFailures
      BY <2>12, BoundsType DEF PersistFails
    <3>5. UNCHANGED <<mem, snap, ran, overlapped, lost, crashes>>
      BY <3>4 DEF Answer
    <3>6. QED
      BY <2>5, <3>1, <3>2, <3>3, <3>4, <3>5
  <2>6. ASSUME NEW j \in StoredJobs, Complete(j) PROVE StoreTypeOK'
    BY <2>6 DEF Complete
  <2>7. CASE PeriodicPersist
    BY <2>7, TickLoopIsAWriter DEF PeriodicPersist, Enter
  <2>8. CASE CrashAndLoad
    <3>1. crashes' \in 0 .. MaxCrashes /\ failures' \in 0 .. MaxFailures
      BY <2>8, BoundsType DEF CrashAndLoad
    <3>2. mem' \subseteq StoredJobs /\ lost' \subseteq StoredJobs
      BY <2>8, SavedIsContents DEF CrashAndLoad
    <3>3. QED
      BY <2>8, <3>1, <3>2 DEF CrashAndLoad
  <2>9. CASE UNCHANGED storeVars
    BY <2>9 DEF storeVars, storeHistory
  <2>10. QED
    BY <2>1, <2>2, <2>3, <2>4, <2>6, <2>7, <2>8, <2>9, <2>11, <2>12
    DEF StoreNext, Persisting
<1>3. QED
  BY <1>1, <1>2, PTL DEF StoreSpec

-----------------------------------------------------------------------------
(* Durability.  What callers were told has to be in the map and in the       *)
(* snapshot under way as well, since both become the file, and stay in the   *)
(* map when persist fails.                                                   *)

\* A writer is alone, and its temporary file is its own.
Alone ==
    /\ \A v, w \in Writers : at[v] # "idle" /\ at[w] # "idle" => v = w
    /\ \A w \in Writers :
          /\ at[w] # "write" => fd[w] = "closed"
          /\ at[w] = "write" => fd[w] = "tmp" /\ file["tmp"] = Empty
          /\ at[w] = "rename" => file["tmp"] = Saved(snap[w])
          /\ at[w] = "idle" => asked[w] = Idle

\* The set holds what callers were told of job j, unless it was forgotten.
Tells(s, j) ==
    j \notin lost =>
        /\ told[j] = "created" => j \in s \cup ran
        /\ told[j] = "deleted" => j \notin s

\* The set holds what writer w is about to tell its caller.
Promises(s, w) ==
    asked[w] # Idle =>
        /\ told[asked[w].job] # "nothing"
        /\ asked[w].op = "created" => asked[w].job \in s \cup ran
        /\ asked[w].op = "deleted" => asked[w].job \notin s

DurableInv ==
    ~ overlapped =>
        /\ Alone
        /\ file["main"].kind \in {"missing", "jobs"}
        /\ \A j \in StoredJobs :
              /\ Tells(mem, j)
              /\ j \notin missed => Tells(file["main"].jobs, j)
        /\ \A w \in Writers :
              /\ Promises(mem, w)
              /\ at[w] \in {"open", "write", "rename"} =>
                    Promises(snap[w], w) /\ \A j \in StoredJobs : Tells(snap[w], j)

LEMMA DurableInit == StoreInit => DurableInv
BY DEF StoreInit, DurableInv, Alone, Tells, Promises, Missing

\* A writer that comes to persist alone finds everything at rest.
LEMMA DurableEnter ==
    ASSUME StoreTypeOK, DurableInv, NEW w \in Writers, Enter(w), ~ overlapped',
           UNCHANGED <<file, snap, fd, ran, missed>>,
           \A v \in Writers \ {w} : asked'[v] = asked[v],
           \A j \in StoredJobs :
              /\ Tells(mem, j)'
              /\ j \notin missed => Tells(file["main"].jobs, j)',
           Promises(mem, w)'
    PROVE  DurableInv'
<1>1. ~ overlapped /\ \A v \in Writers : at[v] = "idle"
  BY DEF Enter, StoreTypeOK
<1>2. at' = [at EXCEPT ![w] = "snapshot"]
  BY DEF Enter
<1>3. Alone'
  BY <1>1, <1>2 DEF Alone, DurableInv, StoreTypeOK
<1>4. ASSUME NEW v \in Writers PROVE Promises(mem, v)'
  BY <1>1, <1>4 DEF DurableInv, Alone, Promises
<1>5. QED
  BY <1>1, <1>2, <1>3, <1>4 DEF DurableInv, StoreTypeOK

LEMMA DurableStep ==
    ASSUME StoreTypeOK, StoreTypeOK', DurableInv, [StoreNext]_storeVars
    PROVE  DurableInv'
<1> SUFFICES ASSUME ~ overlapped' PROVE DurableInv'
  BY DEF DurableInv
<1>1. ASSUME NEW w \in Writers, NEW j \in StoredJobs, Create(w, j) PROVE DurableInv'
  <2>1. ~ overlapped /\ \A v \in Writers : at[v] = "idle"
    BY <1>1 DEF Create, Enter, StoreTypeOK
  <2>2. \A i \in StoredJobs :
           /\ Tells(mem, i)'
           /\ i \notin missed => Tells(file["main"].jobs, i)'
    BY <1>1, <2>1 DEF Create, DurableInv, Tells, StoreTypeOK
  <2>3. asked'[w] = [op |-> "created", job |-> j] /\ j \in mem' /\ told'[j] = "changing"
    BY <1>1 DEF Create, StoreTypeOK
  <2>4. Promises(mem, w)'
    BY <2>3 DEF Promises
  <2>5. QED
    BY <1>1, <2>2, <2>4, DurableEnter DEF Create, StoreTypeOK
<1>2. ASSUME NEW w \in Writers, NEW j \in StoredJobs, Delete(w, j) PROVE DurableInv'
  <2>1. ~ overlapped /\ \A v \in Writers : at[v] = "idle"
    BY <1>2 DEF Delete, Enter, StoreTypeOK
  <2>2. \A i \in StoredJobs :
           /\ Tells(mem, i)'
           /\ i \notin missed => Tells(file["main"].jobs, i)'
    BY <1>2, <2>1 DEF Delete, DurableInv, Tells, StoreTypeOK
  <2>3. asked'[w] = [op |-> "deleted", job |-> j] /\ j \notin mem' /\ told'[j] = "changing"
    BY <1>2 DEF Delete, StoreTypeOK
  <2>4. Promises(mem, w)'
    BY <2>3 DEF Promises
  <2>5. QED
    BY <1>2, <2>2, <2>4, DurableEnter DEF Delete, StoreTypeOK
<1>3. CASE PeriodicPersist
  <2>1. ~ overlapped
    BY <1>3 DEF PeriodicPersist, Enter, StoreTypeOK
  <2>2. /\ \A i \in StoredJobs :
              /\ Tells(mem, i)'
              /\ i \notin missed => Tells(file["main"].jobs, i)'
        /\ Promises(mem, TickLoop)'
    BY <1>3, <2>1, TickLoopIsAWriter DEF PeriodicPersist, DurableInv, Tells, Promises
  <2>3. QED
    BY <1>3, <2>2, DurableEnter, TickLoopIsAWriter DEF PeriodicPersist
<1>4. ASSUME NEW w \in Writers, Snapshot(w) PROVE DurableInv'
  <2>1. ~ overlapped /\ UNCHANGED <<mem, file, fd, asked, told, ran, missed, lost>>
    BY <1>4 DEF Snapshot, storeHistory
  <2>2. at' = [at EXCEPT ![w] = "open"] /\ snap' = [snap EXCEPT ![w] = mem] /\ at[w] = "snapshot"
    BY <1>4 DEF Snapshot
  <2>3. Alone'
    BY <2>1, <2>2 DEF Alone, DurableInv, StoreTypeOK
  <2>4. QED
    BY <2>1, <2>2, <2>3 DEF DurableInv, Tells, Promises, StoreTypeOK
<1>5. ASSUME NEW w \in Writers, Open(w) PROVE DurableInv'
  <2>1. ~ overlapped /\ UNCHANGED <<mem, snap, asked, told, ran, missed, lost>>
    BY <1>5 DEF Open, storeHistory
  <2>2. /\ at' = [at EXCEPT ![w] = "write"] /\ at[w] = "open"
        /\ file'["main"] = file["main"] /\ file'["tmp"] = Empty
        /\ fd' = [fd EXCEPT ![w] = "tmp"]
    BY <1>5 DEF Open, StoreTypeOK
  <2>3. Alone'
    BY <2>1, <2>2 DEF Alone, DurableInv, StoreTypeOK
  <2>4. QED
    BY <2>1, <2>2, <2>3 DEF DurableInv, Tells, Promises, StoreTypeOK
<1>6. ASSUME NEW w \in Writers, Write(w) PROVE DurableInv'
  <2>1. ~ overlapped /\ UNCHANGED <<mem, snap, asked, told, ran, missed, lost>>
    BY <1>6 DEF Write, storeHistory
  <2>2. at[w] = "write" /\ fd[w] = "tmp" /\ file["tmp"] = Empty
    BY <1>6, <2>1 DEF Write, DurableInv, Alone
  <2>3. /\ at' = [at EXCEPT ![w] = "rename"] /\ fd' = [fd EXCEPT ![w] = "closed"]
        /\ file'["main"] = file["main"] /\ file'["tmp"] = Saved(snap[w])
    BY <1>6, <2>2 DEF Write, StoreTypeOK
  <2>4. Alone'
    BY <2>1, <2>2, <2>3 DEF Alone, DurableInv, StoreTypeOK
  <2>5. QED
    BY <2>1, <2>2, <2>3, <2>4 DEF DurableInv, Tells, Promises, StoreTypeOK
<1>7. ASSUME NEW w \in Writers, Rename(w) PROVE DurableInv'
  <2>1. ~ overlapped /\ at[w] = "rename" /\ UNCHANGED <<mem, snap, ran, lost>>
    BY <1>7 DEF Rename, Answer
  <2>2. /\ file["tmp"] = Saved(snap[w]) /\ file["tmp"] # Missing
        /\ \A v \in Writers : fd[v] = "closed"
        /\ \A v \in Writers \ {w} : at[v] = "idle" /\ asked[v] = Idle
    BY <2>1 DEF DurableInv, Alone, Saved, Missing, StoreTypeOK
  <2>3. /\ at' = [at EXCEPT ![w] = "idle"] /\ asked' = [asked EXCEPT ![w] = Idle]
        /\ file'["main"] = Saved(snap[w])
        /\ \A v \in Writers : fd'[v] = "closed"
        /\ told' = IF asked[w] = Idle THEN told ELSE [told EXCEPT ![asked[w].job] = asked[w].op]
    BY <1>7, <2>2 DEF Rename, Answer, StoreTypeOK
  <2>4. Alone'
    BY <2>2, <2>3 DEF Alone, StoreTypeOK
  <2>5. file'["main"].kind = "jobs" /\ file'["main"].jobs = snap[w]
    BY <2>3 DEF Saved
  <2>6. Promises(mem, w) /\ Promises(snap[w], w) /\ \A j \in StoredJobs : Tells(snap[w], j) /\ Tells(mem, j)
    BY <2>1 DEF DurableInv
  <2>7. ASSUME NEW j \in StoredJobs PROVE Tells(mem, j)' /\ Tells(file["main"].jobs, j)'
    <3>1. CASE asked[w] # Idle /\ asked[w].job = j
      BY <2>1, <2>3, <2>5, <2>6, <3>1 DEF Tells, Promises, StoreTypeOK
    <3>2. CASE ~ (asked[w] # Idle /\ asked[w].job = j)
      <4>1. told'[j] = told[j]
        BY <2>3, <3>2 DEF StoreTypeOK
      <4>2. QED
        BY <2>1, <2>5, <2>6, <4>1 DEF Tells
    <3>3. QED
      BY <3>1, <3>2
  <2>8. \A v \in Writers : asked'[v] = Idle /\ at'[v] = "idle"
    BY <2>2, <2>3 DEF StoreTypeOK
  <2>9. QED
    BY <2>4, <2>5, <2>7, <2>8 DEF DurableInv, Promises
<1>8. ASSUME NEW j \in StoredJobs, Complete(j) PROVE DurableInv'
  <2>1. ~ overlapped /\ UNCHANGED <<file, at, snap, fd, asked, missed, lost>>
    BY <1>8 DEF Complete
  <2>2. mem' = mem \ {j} /\ ran' = ran \cup {j} /\ told' = [told EXCEPT ![j] = "changing"]
    BY <1>8 DEF Complete
  <2>3. Alone'
    BY <2>1 DEF Alone, DurableInv
  <2>4. QED
    BY <2>1, <2>2, <2>3 DEF DurableInv, Tells, Promises, StoreTypeOK
<1>9. CASE CrashAndLoad
  <2>1. ~ overlapped /\ UNCHANGED <<file, told, ran, missed>> /\ lost \subseteq lost'
    BY <1>9 DEF CrashAndLoad
  <2>2. \A w \in Writers : at'[w] = "idle" /\ fd'[w] = "closed" /\ asked'[w] = Idle
    BY <1>9 DEF CrashAndLoad
  <2>3. Alone' /\ \A w \in Writers : Promises(mem, w)'
    BY <2>2 DEF Alone, Promises
  <2>4. ASSUME NEW j \in StoredJobs
        PROVE  Tells(mem, j)' /\ (j \notin missed => Tells(file["main"].jobs, j)')
    <3>1. j \notin missed => Tells(file["main"].jobs, j)'
      BY <2>1 DEF DurableInv, Tells
    <3>2. CASE mem' = file["main"].jobs /\ lost' = lost \cup missed
      BY <2>1, <3>1, <3>2 DEF Tells
    <3>3. CASE mem' = {} /\ lost' = lost \cup missed \cup {i \in StoredJobs : told[i] = "created"}
      BY <2>1, <3>1, <3>3 DEF Tells
    <3>4. QED
      BY <1>9, <3>1, <3>2, <3>3 DEF CrashAndLoad
  <2>5. QED
    BY <2>1, <2>2, <2>3, <2>4 DEF DurableInv
<1>12. ASSUME NEW w \in Writers, PersistFails(w) PROVE DurableInv'
  <2>1. /\ ~ overlapped /\ at[w] \in {"open", "write", "rename"}
        /\ UNCHANGED <<mem, snap, ran, lost>>
    BY <1>12 DEF PersistFails, Answer
  <2>2. /\ at' = [at EXCEPT ![w] = "idle"] /\ asked' = [asked EXCEPT ![w] = Idle]
        /\ fd' = [fd EXCEPT ![w] = "closed"]
        /\ told' = IF asked[w] = Idle THEN told ELSE [told EXCEPT ![asked[w].job] = asked[w].op]
        /\ missed' = missed \cup {i \in StoredJobs : asked[w].job = i}
    BY <1>12 DEF PersistFails, Answer, Misses
  <2>3. \A v \in Writers \ {w} : at[v] = "idle" /\ asked[v] = Idle /\ fd[v] = "closed"
    BY <2>1 DEF DurableInv, Alone
  <2>4. at[w] = "write" => fd[w] = "tmp"
    BY <2>1 DEF DurableInv, Alone
  <2>5. file'["main"] = file["main"]
    BY <1>12, <2>4 DEF PersistFails, StoreTypeOK
  <2>6. \A v \in Writers : at'[v] = "idle" /\ asked'[v] = Idle /\ fd'[v] = "closed"
    BY <2>2, <2>3 DEF StoreTypeOK
  <2>7. Promises(mem, w) /\ \A j \in StoredJobs : Tells(mem, j)
    BY <2>1 DEF DurableInv
  <2>8. ASSUME NEW j \in StoredJobs
        PROVE  Tells(mem, j)' /\ (j \notin missed' => Tells(file["main"].jobs, j)')
    <3>1. CASE asked[w] # Idle /\ asked[w].job = j
      BY <2>1, <2>2, <2>7, <3>1 DEF Tells, Promises, StoreTypeOK
    <3>2. CASE ~ (asked[w] # Idle /\ asked[w].job = j)
      <4>1. told'[j] = told[j]
        BY <2>2, <3>2 DEF StoreTypeOK
      <4>2. j \notin missed => Tells(file["main"].jobs, j)
        BY <2>1 DEF DurableInv
      <4>3. QED
        BY <2>1, <2>2, <2>5, <2>7, <4>1, <4>2 DEF Tells
    <3>3. QED
      BY <3>1, <3>2
  <2>9. Alone' /\ \A v \in Writers : Promises(mem, v)'
    BY <2>6 DEF Alone, Promises
  <2>10. QED
    BY <2>1, <2>5, <2>6, <2>8, <2>9 DEF DurableInv
<1>10. CASE UNCHANGED storeVars
  BY <1>10 DEF storeVars, storeHistory, DurableInv, Alone, Tells, Promises
<1>11. QED
  BY <1>1, <1>2, <1>3, <1>4, <1>5, <1>6, <1>7, <1>8, <1>9, <1>10, <1>12 DEF StoreNext, Persisting

(* As long as no two writers have been in persist at once, the file is whole *)
(* and holds what callers were told, or will with the next persist that      *)
(* succeeds, whichever step of persist fails; only a death of the process    *)
(* before that, or a file it cannot read, makes it forget (persist, load,    *)
(* cron_create, cron_cancel).                                                *)
THEOREM DurableTheorem == StoreSpec => []AnswersAreDurable
<1>1. StoreTypeOK /\ StoreTypeOK' /\ DurableInv /\ [StoreNext]_storeVars => DurableInv'
  BY DurableStep
<1>2. DurableInv => AnswersAreDurable
  BY DEF DurableInv, AnswersAreDurable, Tells
<1>3. QED
  BY <1>1, <1>2, DurableInit, StoreTypeCorrect, PTL DEF StoreSpec
=============================================================================
