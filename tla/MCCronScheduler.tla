-------------------------- MODULE MCCronScheduler --------------------------
(* Instances of CronScheduler for TLC: an interval job and a cron job, or a *)
(* one-shot At job next to an interval job, all of one agent.               *)
EXTENDS CronScheduler, TLC

CONSTANTS j1, j2, a1

MCJobs == {j1, j2}
MCAgents == {a1}
MCOwnerOf == [j \in MCJobs |-> a1]

\* j1 every two units, j2 at some moments of the clock.
RecurringKind == (j1 :> "Every") @@ (j2 :> "Cron")
\* j1 at one moment, j2 every two units.
AtKind == (j1 :> "At") @@ (j2 :> "Every")
MCParam == [j \in MCJobs |-> 2]

MCUpcoming ==
    [j \in MCJobs |-> [t \in 0..MaxTime |->
        IF t < 1 THEN 1 ELSE IF t < 2 THEN 2 ELSE IF t < 4 THEN 4 ELSE t + 3]]

MCFirst == {j1}
MCNoJobs == {}
=============================================================================
