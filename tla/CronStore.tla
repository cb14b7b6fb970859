----------------------------- MODULE CronStore -----------------------------
(***************************************************************************)
(* The file behind the cron scheduler: CronScheduler::persist and load     *)
(* (clawreform-kernel/src/cron.rs) and the handlers that call them.        *)
(*                                                                         *)
(* persist takes a snapshot of the map, writes it to cron_jobs.json.tmp    *)
(* and renames that over cron_jobs.json.  Nothing serialises the callers:  *)
(* the tick loop and every handler that creates, cancels or toggles a job  *)
(* use the same temporary file.  A file is modelled with its identity, so  *)
(* that a writer that has it open goes on writing into it after another    *)
(* one has renamed it.  Every step of persist may fail, and so may the     *)
(* reading at the start; both are logged, and nobody is told.              *)
(***************************************************************************)
EXTENDS Naturals, FiniteSets

CONSTANTS
    StoredJobs,     \* job identifiers, each created at most once
    RunOnce,        \* jobs that are removed when they have run
    Writers,        \* threads that may be inside persist
    TickLoop,       \* the one that is the tick loop, which persists for ever
    MaxCrashes,     \* bound on the crashes of the process
    MaxFailures     \* bound on the errors of the file system

ASSUME TickLoopIsAWriter == TickLoop \in Writers
ASSUME OneShotAreJobs == RunOnce \subseteq StoredJobs
ASSUME BoundsType == MaxCrashes \in Nat /\ MaxFailures \in Nat

VARIABLES
    mem,            \* CronScheduler.jobs, or what is left of it: the ids
    file,           \* file["tmp"], file["main"]: what the path names
    at,             \* at[w]: how far w is in persist
    snap,           \* snap[w]: the jobs w is writing
    fd,             \* fd[w]: the path of the file w has open, if it has one
    asked,          \* asked[w]: what w does: a handler's request, or nothing
    told,           \* told[j]: the last thing a caller was told about j
    ran,            \* history: one-shot jobs whose success was recorded
    overlapped,     \* history: two writers have been in persist at once
    missed,         \* history: jobs a caller was told about although persist
                    \* had failed, and no persist has succeeded since
    lost,           \* history: jobs the process forgot: missed when it died,
                    \* or in a file that could not be read
    crashes,        \* crashes so far
    failures        \* file system errors so far

storeHistory == <<ran, overlapped, missed, lost>>
storeVars == <<mem, file, at, snap, fd, asked, told, storeHistory, crashes, failures>>

Missing == [kind |-> "missing", jobs |-> {}]
Empty == [kind |-> "empty", jobs |-> {}]
Torn == [kind |-> "torn", jobs |-> {}]
Saved(s) == [kind |-> "jobs", jobs |-> s]

Contents == {Missing, Empty, Torn} \cup {Saved(s) : s \in SUBSET StoredJobs}

Idle == [op |-> "none", job |-> "none"]
Requests == [op : {"created", "deleted"}, job : StoredJobs]

StoreTypeOK ==
    /\ mem \subseteq StoredJobs
    /\ file \in [{"tmp", "main"} -> Contents]
    /\ at \in [Writers -> {"idle", "snapshot", "open", "write", "rename"}]
    /\ snap \in [Writers -> SUBSET StoredJobs]
    /\ fd \in [Writers -> {"closed", "tmp", "main", "unlinked"}]
    /\ asked \in [Writers -> Requests \cup {Idle}]
    /\ told \in [StoredJobs -> {"nothing", "created", "deleted", "changing"}]
    /\ ran \subseteq RunOnce
    /\ overlapped \in BOOLEAN
    /\ missed \subseteq StoredJobs
    /\ lost \subseteq StoredJobs
    /\ crashes \in 0..MaxCrashes
    /\ failures \in 0..MaxFailures

StoreInit ==
    /\ mem = {}
    /\ file = [p \in {"tmp", "main"} |-> Missing]
    /\ at = [w \in Writers |-> "idle"]
    /\ snap = [w \in Writers |-> {}]
    /\ fd = [w \in Writers |-> "closed"]
    /\ asked = [w \in Writers |-> Idle]
    /\ told = [j \in StoredJobs |-> "nothing"]
    /\ ran = {}
    /\ overlapped = FALSE
    /\ missed = {}
    /\ lost = {}
    /\ crashes = 0
    /\ failures = 0

-----------------------------------------------------------------------------
(* The handlers: change the map, persist, answer *)

\* w comes to persist, alone or not.
Enter(w) ==
    /\ at[w] = "idle"
    /\ at' = [at EXCEPT ![w] = "snapshot"]
    /\ overlapped' = (overlapped \/ \E v \in Writers : at[v] # "idle")

\* cron_create: add_job, then persist.
Create(w, j) ==
    /\ Enter(w)
    /\ told[j] = "nothing"
    /\ mem' = mem \cup {j}
    /\ asked' = [asked EXCEPT ![w] = [op |-> "created", job |-> j]]
    /\ told' = [told EXCEPT ![j] = "changing"]
    /\ UNCHANGED <<file, snap, fd, ran, missed, lost, crashes, failures>>

\* cron_cancel and DELETE: remove_job, then persist.  What was forgotten about
\* the job is no matter any more.
Delete(w, j) ==
    /\ Enter(w)
    /\ j \in mem
    /\ mem' = mem \ {j}
    /\ asked' = [asked EXCEPT ![w] = [op |-> "deleted", job |-> j]]
    /\ told' = [told EXCEPT ![j] = "changing"]
    /\ lost' = lost \ {j}
    /\ UNCHANGED <<file, snap, fd, ran, missed, crashes, failures>>

\* record_success of a one-shot job: out of the map; the file follows with the
\* next periodic persist.
Complete(j) ==
    /\ j \in mem \cap RunOnce
    /\ mem' = mem \ {j}
    /\ ran' = ran \cup {j}
    /\ told' = [told EXCEPT ![j] = "changing"]
    /\ UNCHANGED <<file, at, snap, fd, asked, overlapped, missed, lost, crashes,
                   failures>>

\* Every 20th tick, and the tick that sees the shutdown flag.
PeriodicPersist ==
    /\ Enter(TickLoop)
    /\ UNCHANGED <<mem, file, snap, fd, asked, told, ran, missed, lost, crashes,
                   failures>>

-----------------------------------------------------------------------------
(* persist, step by step *)

Snapshot(w) ==
    /\ at[w] = "snapshot"
    /\ snap' = [snap EXCEPT ![w] = mem]
    /\ at' = [at EXCEPT ![w] = "open"]
    /\ UNCHANGED <<mem, file, fd, asked, told, storeHistory, crashes, failures>>

\* A variant that writes the file itself and has nothing to rename.
OpenMain(w) ==
    /\ at[w] = "open"
    /\ file' = [file EXCEPT !["main"] = Empty]
    /\ fd' = [fd EXCEPT ![w] = "main"]
    /\ at' = [at EXCEPT ![w] = "write"]
    /\ UNCHANGED <<mem, snap, asked, told, storeHistory, crashes, failures>>

\* std::fs::write opens the temporary file and truncates it, or creates it.
Open(w) ==
    /\ at[w] = "open"
    /\ file' = [file EXCEPT !["tmp"] = Empty]
    /\ fd' = [fd EXCEPT ![w] = "tmp"]
    /\ at' = [at EXCEPT ![w] = "write"]
    /\ UNCHANGED <<mem, snap, asked, told, storeHistory, crashes, failures>>

\* ... and writes the snapshot from the beginning of the file it has open.
\* What another writer has put there in the meantime and is longer sticks out
\* at the end.
Write(w) ==
    /\ at[w] = "write"
    /\ \/ /\ fd[w] \in {"tmp", "main"}
          /\ file[fd[w]] = Empty
          /\ file' = [file EXCEPT ![fd[w]] = Saved(snap[w])]
       \/ /\ fd[w] \in {"tmp", "main"}
          /\ file[fd[w]] # Empty
          /\ \E c \in {Saved(snap[w]), Torn} :
                file' = [file EXCEPT ![fd[w]] = c]
       \/ /\ fd[w] = "unlinked"
          /\ UNCHANGED file
    /\ fd' = [fd EXCEPT ![w] = "closed"]
    /\ at' = [at EXCEPT ![w] = "rename"]
    /\ UNCHANGED <<mem, snap, asked, told, storeHistory, crashes, failures>>

\* persist is over, well or not: the caller of w, if it has one, is told that
\* its job is created or deleted.
Answer(w) ==
    /\ at' = [at EXCEPT ![w] = "idle"]
    /\ asked' = [asked EXCEPT ![w] = Idle]
    /\ told' = IF asked[w] = Idle THEN told
               ELSE [told EXCEPT ![asked[w].job] = asked[w].op]
    /\ UNCHANGED <<mem, snap, ran, overlapped, lost, crashes>>

\* What the caller of w is told although it is not in the file.
Misses(w) == missed' = missed \cup {j \in StoredJobs : asked[w].job = j}

\* A variant of the rename that moves the file only when there is none yet.
RenameOnce(w) ==
    /\ at[w] = "rename"
    /\ file' = IF file["main"] = Missing
               THEN [file EXCEPT !["main"] = file["tmp"], !["tmp"] = Missing]
               ELSE file
    /\ missed' = {}
    /\ Answer(w)
    /\ UNCHANGED <<fd, failures>>

\* The rename moves the file, open or not, and fails when another writer has
\* moved it already.
Rename(w) ==
    /\ at[w] = "rename"
    /\ \/ /\ file["tmp"] # Missing
          /\ file' = [file EXCEPT !["main"] = file["tmp"], !["tmp"] = Missing]
          /\ fd' = [v \in Writers |->
                       CASE fd[v] = "tmp"  -> "main"
                         [] fd[v] = "main" -> "unlinked"
                         [] OTHER -> fd[v]]
          /\ missed' = {}
       \/ /\ file["tmp"] = Missing
          /\ Misses(w)
          /\ UNCHANGED <<file, fd>>
    /\ Answer(w)
    /\ UNCHANGED failures

\* A variant that removes the file when persist fails.
PersistFailsRemoving(w) ==
    /\ failures < MaxFailures
    /\ failures' = failures + 1
    /\ at[w] \in {"open", "write", "rename"}
    /\ file' = [file EXCEPT !["main"] = Missing]
    /\ fd' = [fd EXCEPT ![w] = "closed"]
    /\ Misses(w)
    /\ Answer(w)

\* The list is not serialised, the temporary file not opened, not written or
\* written in part, or not renamed.  persist returns its error, the handler
\* logs it and answers as if nothing had happened.
PersistFails(w) ==
    /\ failures < MaxFailures
    /\ failures' = failures + 1
    /\ at[w] \in {"open", "write", "rename"}
    /\ \/ UNCHANGED file
       \/ /\ at[w] = "write"
          /\ fd[w] \in {"tmp", "main"}
          /\ file' = [file EXCEPT ![fd[w]] = Torn]
    /\ fd' = [fd EXCEPT ![w] = "closed"]
    /\ Misses(w)
    /\ Answer(w)

\* The process dies and is started again: load takes the jobs of the file, and
\* when it cannot be read or does not parse a warning is logged and there are
\* none.
CrashAndLoad ==
    /\ crashes < MaxCrashes
    /\ crashes' = crashes + 1
    /\ \/ /\ mem' = file["main"].jobs
          /\ lost' = lost \cup missed
          /\ UNCHANGED failures
       \/ /\ failures < MaxFailures
          /\ failures' = failures + 1
          /\ mem' = {}
          /\ lost' = lost \cup missed \cup {j \in StoredJobs : told[j] = "created"}
    /\ at' = [w \in Writers |-> "idle"]
    /\ snap' = [w \in Writers |-> {}]
    /\ fd' = [w \in Writers |-> "closed"]
    /\ asked' = [w \in Writers |-> Idle]
    /\ UNCHANGED <<file, told, ran, overlapped, missed>>

Persisting(w) == Snapshot(w) \/ Open(w) \/ Write(w) \/ Rename(w)

StoreNext ==
    \/ \E w \in Writers :
          \/ \E j \in StoredJobs : Create(w, j) \/ Delete(w, j)
          \/ Persisting(w) \/ PersistFails(w)
    \/ \E j \in StoredJobs : Complete(j)
    \/ PeriodicPersist
    \/ CrashAndLoad

StoreSpec == StoreInit /\ [][StoreNext]_storeVars

\* Threads inside persist go on, and the tick loop keeps coming back to it.
\* Errors of the file system are no obligation, and MaxFailures ends them.
StoreFairness ==
    /\ \A w \in Writers : WF_storeVars(Persisting(w))
    /\ WF_storeVars(PeriodicPersist)

FairStoreSpec == StoreSpec /\ StoreFairness

-----------------------------------------------------------------------------
(* Properties *)

\* As long as no two writers have been in persist at once, the file is absent or
\* a complete list of jobs whatever the process is doing when it dies or which
\* step of persist fails, and what a caller of cron_create or cron_cancel was
\* told is in the map, but for a one-shot job that has run since.  It is in the
\* file too, and what a caller was told over a failed persist gets there with
\* the next one that succeeds.  A job is forgotten only when the process dies
\* before that, or cannot read the file (persist, load, cron_create, cron_cancel).
AnswersAreDurable ==
    ~overlapped =>
        /\ file["main"].kind \in {"missing", "jobs"}
        /\ \A j \in StoredJobs \ lost :
              /\ told[j] = "created" =>
                    /\ j \in mem \cup ran
                    /\ j \in file["main"].jobs \cup ran \cup missed
              /\ told[j] = "deleted" =>
                    /\ j \notin mem
                    /\ j \in missed \/ j \notin file["main"].jobs

\* Once callers stop changing jobs and the file system stops failing, the file
\* comes to hold the jobs of the map and keeps holding them, however the writers
\* overlapped before (the periodic persist of the tick loop).
EventuallySaved == <>[](file["main"] = Saved(mem))

=============================================================================
