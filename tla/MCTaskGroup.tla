---------------------------- MODULE MCTaskGroup ----------------------------
(* Four calls on two keys: enough for two requests behind an idle one while *)
(* an activity comes and goes, and for a group that is dropped and remade.  *)
EXTENDS TaskGroup

CONSTANTS c1, c2, c3, c4, k1, k2
MCCalls == {c1, c2, c3, c4}
MCKeys == {k1, k2}
=============================================================================
