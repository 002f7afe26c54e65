------------------------------ MODULE PlanRuns -------------------------------
(***************************************************************************)
(* What the executions of a plan promise, whatever becomes of the plan's   *)
(* row in the database: a node starts only when all it depends on is       *)
(* settled well; a node that has settled is not touched again; an          *)
(* execution that has been told to stop starts nothing more; and none ends *)
(* while a node it started is under way, unless the process dies.          *)
(***************************************************************************)
CONSTANTS
    Execution,  \* the executions of the plan
    Node        \* its nodes

VARIABLES
    requires,   \* node -> the nodes it depends on
    node,       \* execution -> node -> status, as that execution sees it
    under,      \* execution -> the nodes it has under way
    mode        \* execution -> "idle", "on", "stopping" or "ended"

vars == <<requires, node, under, mode>>

-----------------------------------------------------------------------------
Satisfied(e, n) == \A d \in requires[n] :
                       d \in Node /\ node[e][d] \in {"done", "skipped"}

Starts(e, n) == node[e][n] # "running" /\ node'[e][n] = "running"

\* Nobody but e moves, and e ends only with nothing under way.
Only(e, to) ==
    /\ mode' = [mode EXCEPT ![e] = to]
    /\ to = "ended" => under'[e] = {}
    /\ \A f \in Execution \ {e} : node'[f] = node[f] /\ under'[f] = under[f]
    /\ UNCHANGED requires

Init ==
    /\ under = [e \in Execution |-> {}]
    /\ mode = [e \in Execution |-> "idle"]

\* An execution takes the nodes over as it finds them and starts some.
Begin(e) ==
    /\ mode[e] = "idle"
    /\ \A n \in under'[e] : node'[e][n] = "running" /\ Satisfied(e, n)'
    /\ \E to \in {"on", "ended"} : Only(e, to)

\* Nodes under way settle; nodes that have become ready start.
Work(e) ==
    /\ mode[e] \in {"on", "stopping"}
    /\ \A n \in Node :
          \/ node'[e][n] = node[e][n]
          \/ n \in under[e] /\ node'[e][n] \in {"done", "failed", "skipped"}
          \/ /\ mode[e] = "on" /\ node[e][n] = "pending"
             /\ node'[e][n] = "running" /\ Satisfied(e, n)'
    /\ \A n \in Node :
          n \in under'[e] <=> Starts(e, n) \/ (n \in under[e] /\ node'[e][n] = "running")
    /\ \E to \in {mode[e], "ended"} : Only(e, to)

Stop(e) ==
    /\ mode[e] = "on"
    /\ mode' = [mode EXCEPT ![e] = "stopping"]
    /\ UNCHANGED <<requires, node, under>>

\* The process that runs them dies.
Die ==
    /\ mode' = [e \in Execution |->
                  IF mode[e] = "idle" THEN "idle" ELSE "ended"]
    /\ under' = [e \in Execution |-> {}]
    /\ UNCHANGED <<requires, node>>

Next == Die \/ \E e \in Execution : Begin(e) \/ Work(e) \/ Stop(e)

Spec == Init /\ [][Next]_vars

=============================================================================
