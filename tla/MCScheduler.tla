---------------------------- MODULE MCScheduler ----------------------------
(* A job that fires once with a text, and one that repeats and runs a       *)
(* program.                                                                *)
EXTENDS Scheduler

CONSTANTS once, daily

MCJobs == {once, daily}
MCDaily == {daily}
=============================================================================
