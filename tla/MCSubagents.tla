----------------------------- MODULE MCSubagents -----------------------------
(* A synchronous and a background job.                                      *)
EXTENDS Subagents

CONSTANTS inline, detached

MCJobs == {inline, detached}
MCBackground == {detached}
=============================================================================
