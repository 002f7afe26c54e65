--------------------------- MODULE MCPlanExecutor ----------------------------
(***************************************************************************)
(* Three nodes: two branches that join, one chain with a dependency that   *)
(* does not exist, and a circle.                                           *)
(***************************************************************************)
EXTENDS PlanExecutor

CONSTANTS a, b, c

Join   == [n \in Node |-> IF n = c THEN {a, b} ELSE {}]
Chain  == [n \in Node |-> CASE n = a -> {} [] n = b -> {a} [] OTHER -> {Missing}]
Circle == [n \in Node |-> CASE n = a -> {} [] n = b -> {c} [] OTHER -> {b}]

MCShapes == {Join, Chain, Circle}

=============================================================================
