---------------------------- MODULE MCCronStore ----------------------------
(* Instances of CronStore for TLC: two jobs, one of them one-shot, and two  *)
(* writers, one of them the tick loop.                                      *)
EXTENDS CronStore

CONSTANTS j1, j2, loop, w1

MCJobs == {j1, j2}
MCOneShot == {j1}
TwoWriters == {loop, w1}
=============================================================================
