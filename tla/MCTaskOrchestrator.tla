------------------------- MODULE MCTaskOrchestrator -------------------------
(***************************************************************************)
(* A second task depends on the first; its two executions and a duplicate  *)
(* of one of them compete for the slots of a single agent.                 *)
(***************************************************************************)
EXTENDS TaskOrchestrator

CONSTANTS t1, t2

MCDeps == [t \in Task |-> IF t = t2 THEN {t1} ELSE {}]

=============================================================================
