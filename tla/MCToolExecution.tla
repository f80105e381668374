-------------------------- MODULE MCToolExecution ---------------------------
(* Bounds of the ToolExecution runs are given in the configurations: two   *)
(* callers are enough for the owner of a task and one that joins it.       *)
EXTENDS ToolExecution

CONSTANTS w1, w2
=============================================================================
