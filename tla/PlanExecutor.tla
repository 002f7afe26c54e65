---------------------------- MODULE PlanExecutor -----------------------------
(***************************************************************************)
(* PlanExecutor: executions of one plan, a graph of nodes that an AI       *)
(* provider has drawn up.  An execution works on a Plan object of its own, *)
(* and each of its saves writes all of that object over the plan's rows in *)
(* SQLite; pause, delete and retry read and write the rows, never the      *)
(* object of an execution that is under way.  Nothing stops a plan from    *)
(* being retried while it is being executed.                               *)
(*                                                                         *)
(* An attempt at a node succeeds or fails; that it timed out is one way to *)
(* fail.  Handlers run to completion up to an await, so a node's last      *)
(* attempt, the settling of its batch and the next turn of runDAG are one  *)
(* step.                                                                   *)
(***************************************************************************)
EXTENDS Integers, FiniteSets

CONSTANTS
    Node,           \* the nodes of the plan
    Missing,        \* an id in deps that no node has
    Shapes,         \* the dependencies that the provider may answer with
    Execution,      \* the executions of the plan
    MaxAttempts,    \* MAX_RETRIES + 1 (3 in the code)
    MaxRestarts     \* bound: process restarts per behaviour

ASSUME ConfigType ==
    /\ IsFiniteSet(Node) /\ Missing \notin Node
    /\ Shapes \subseteq [Node -> SUBSET (Node \union {Missing})]
    /\ MaxAttempts \in Nat \ {0} /\ MaxRestarts \in Nat

VARIABLES
    deps,       \* the dependencies of each node
    stored,     \* the plan's rows: status and nodes, or Gone
    exec,       \* executions: pc, own Plan object, signal, work under way
    controller, \* runningPlans: the execution whose controller it holds
    restarts,   \* restarts so far
    seen        \* history: "pause", and "twins": a retry of a plan that was
                \* being executed

vars == <<deps, stored, exec, controller, restarts, seen>>

-----------------------------------------------------------------------------
None == "none"

PlanStatus == {"running", "done", "failed", "paused"}
NodeStatus == {"pending", "running", "done", "failed", "skipped"}

PlanRecord == [status : PlanStatus, node : [Node -> NodeStatus]]

NewPlan == [status |-> "running", node |-> [n \in Node |-> "pending"]]
Gone    == [NewPlan EXCEPT !.status = "gone"]
NoWork  == [n \in Node |-> [at |-> "none", tries |-> 0]]
NotYet  == [pc |-> "idle", plan |-> NewPlan, aborted |-> FALSE, work |-> NoWork]

\* A dependency that was skipped counts as satisfied, one that does not
\* exist never does.
\* Faulty variant: a dependency that has failed counts as satisfied.
ReadyAfterFailure(P) ==
    {n \in Node : /\ P.node[n] = "pending"
                  /\ \A d \in deps[n] :
                        d \in Node /\ P.node[d] \in {"done", "skipped", "failed"}}

Ready(P) ==
    {n \in Node : /\ P.node[n] = "pending"
                  /\ \A d \in deps[n] :
                        d \in Node /\ P.node[d] \in {"done", "skipped"}}

\* Faulty variant: a node that is running is not waited for.
CompleteOrRunning(P) ==
    \A n \in Node : P.node[n] \in {"done", "failed", "skipped", "running"}

Complete(P)  == \A n \in Node : P.node[n] \in {"done", "failed", "skipped"}
HasFailed(P) == \E n \in Node : P.node[n] = "failed"
Running(P)   == {n \in Node : P.node[n] = "running"}

Alive(e)  == exec[e].pc \in {"batch", "poll"}
WritersAlive == {e \in Execution : Alive(e)}
Under(e)  == {n \in Node : exec[e].work[n].at # "none"}

-----------------------------------------------------------------------------
(* A turn of runDAG of execution e on its object P.  Whatever it does, P   *)
(* is what the rows hold afterwards.                                       *)

Finish(e, P) ==
    LET Q == [P EXCEPT !.status = IF HasFailed(P) THEN "failed" ELSE "done"]
    IN  /\ exec' = [exec EXCEPT ![e].pc = "over", ![e].plan = Q,
                                ![e].work = NoWork]
        /\ stored' = Q
        /\ controller' = None

\* Faulty variant: the nodes are not marked as running.
LaunchUnmarked(e, P, c) ==
    /\ exec' = [exec EXCEPT ![e].pc = "batch", ![e].plan = P,
                            ![e].work = [n \in Node |->
                [at |-> IF n \in Ready(P) THEN "attempt" ELSE "none", tries |-> 0]]]
    /\ stored' = P
    /\ controller' = c

LaunchBatch(e, P, c) ==
    LET Q == [P EXCEPT !.node = [n \in Node |->
                IF n \in Ready(P) THEN "running" ELSE P.node[n]]]
    IN  /\ exec' = [exec EXCEPT ![e].pc = "batch", ![e].plan = Q,
                                ![e].work = [n \in Node |->
                 [at |-> IF n \in Ready(P) THEN "attempt" ELSE "none", tries |-> 0]]]
        /\ stored' = Q
        /\ controller' = c

WaitForOthers(e, P, c) ==
    /\ exec' = [exec EXCEPT ![e].pc = "poll", ![e].plan = P, ![e].work = NoWork]
    /\ stored' = P
    /\ controller' = c

Turn(e, P, c) ==
    \/ (Complete(P) \/ exec[e].aborted) /\ Finish(e, P)
    \/ /\ ~Complete(P) /\ ~exec[e].aborted
       /\ \/ Ready(P) # {} /\ LaunchBatch(e, P, c)
          \/ Ready(P) = {} /\ Running(P) = {} /\ Finish(e, P)
          \/ Ready(P) = {} /\ Running(P) # {} /\ WaitForOthers(e, P, c)

Execute(e, P) == Turn(e, [P EXCEPT !.status = "running"], e)

\* Node n of execution e settles; its batch may settle with it.
Settle(e, n, status) ==
    LET P == [exec[e].plan EXCEPT !.node[n] = status]
    IN  \/ /\ Under(e) = {n}
           /\ Turn(e, P, controller)
        \/ /\ Under(e) # {n}
           /\ exec' = [exec EXCEPT ![e].plan = P,
                                   ![e].work[n] = [at |-> "none", tries |-> 0]]
           /\ stored' = P
           /\ UNCHANGED controller

-----------------------------------------------------------------------------
Init ==
    /\ deps \in Shapes
    /\ stored = Gone
    /\ exec = [e \in Execution |-> NotYet]
    /\ controller = None
    /\ restarts = 0
    /\ seen = {}

\* POST /plans
Create(e) ==
    /\ \A f \in Execution : exec[f] = NotYet
    /\ Execute(e, NewPlan)
    /\ UNCHANGED <<deps, restarts, seen>>

\* Faulty variant: retry starts the plan over.
RetriedFromScratch(P) == NewPlan.node

Retried(P) == [n \in Node |-> IF P.node[n] = "failed" THEN "pending" ELSE P.node[n]]

\* POST /plans/:id/retry, whatever the plan's status
Retry(e) ==
    /\ stored # Gone /\ exec[e] = NotYet
    /\ Execute(e, [stored EXCEPT !.node = Retried(stored)])
    /\ seen' = seen \union IF WritersAlive = {} THEN {} ELSE {"twins"}
    /\ UNCHANGED <<deps, restarts>>

AttemptSucceeds(e, n) ==
    /\ exec[e].work[n].at = "attempt"
    /\ Settle(e, n, "done")
    /\ UNCHANGED <<deps, restarts, seen>>

\* Faulty variant: the attempts are not counted.
OutOfAttemptsNever(e, n) == FALSE

OutOfAttempts(e, n) == exec[e].work[n].tries + 1 >= MaxAttempts

AttemptFails(e, n) ==
    /\ exec[e].work[n].at = "attempt"
    /\ \/ /\ OutOfAttempts(e, n)
          /\ Settle(e, n, "failed")
       \/ /\ ~OutOfAttempts(e, n)
          /\ exec' = [exec EXCEPT ![e].work[n] =
                        [at |-> "backoff",
                         tries |-> IF @.tries + 1 < MaxAttempts THEN @.tries + 1 ELSE @.tries]]
          /\ UNCHANGED <<stored, controller>>
    /\ UNCHANGED <<deps, restarts, seen>>

BackoffEnds(e, n) ==
    /\ exec[e].work[n].at = "backoff"
    /\ \/ exec[e].aborted /\ Settle(e, n, "skipped")
       \/ /\ ~exec[e].aborted
          /\ exec' = [exec EXCEPT ![e].work[n].at = "attempt"]
          /\ UNCHANGED <<stored, controller>>
    /\ UNCHANGED <<deps, restarts, seen>>

\* The 500 ms of the poll are over; only a pause has changed anything.
Poll(e) ==
    /\ exec[e].pc = "poll" /\ exec[e].aborted
    /\ Turn(e, exec[e].plan, controller)
    /\ UNCHANGED <<deps, restarts, seen>>

Pause ==
    /\ controller # None
    /\ exec' = [exec EXCEPT ![controller].aborted = TRUE]
    /\ stored' = IF stored = Gone THEN Gone ELSE [stored EXCEPT !.status = "paused"]
    /\ controller' = None
    /\ seen' = seen \union {"pause"}
    /\ UNCHANGED <<deps, restarts>>

Delete ==
    /\ stored # Gone
    /\ stored' = Gone
    /\ UNCHANGED <<deps, exec, controller, restarts, seen>>

\* Nothing resumes a plan after a restart.
Restart ==
    /\ restarts < MaxRestarts
    /\ restarts' = restarts + 1
    /\ exec' = [e \in Execution |->
                  IF Alive(e) THEN [exec[e] EXCEPT !.pc = "over", !.work = NoWork]
                  ELSE exec[e]]
    /\ controller' = None
    /\ UNCHANGED <<deps, stored, seen>>

Progress(e) ==
    \/ Poll(e)
    \/ \E n \in Node : \/ AttemptSucceeds(e, n)
                       \/ AttemptFails(e, n)
                       \/ BackoffEnds(e, n)

Next ==
    \/ \E e \in Execution : Create(e) \/ Retry(e) \/ Progress(e)
    \/ Pause \/ Delete \/ Restart

Spec == Init /\ [][Next]_vars

\* The timers are the process's own: the back-off, the poll, and the minute
\* after which an attempt that has not settled is a failed one.
Fairness ==
    \A e \in Execution :
        /\ WF_vars(Poll(e))
        /\ \A n \in Node : /\ WF_vars(AttemptSucceeds(e, n) \/ AttemptFails(e, n))
                           /\ WF_vars(BackoffEnds(e, n))

FairSpec == Spec /\ Fairness

-----------------------------------------------------------------------------
WorkRecord == [at : {"none", "attempt", "backoff"}, tries : 0..(MaxAttempts - 1)]

(* Types, and: work under way belongs to an execution in a batch, on nodes *)
(* that its object says are running.                                       *)
TypeOK ==
    /\ deps \in Shapes
    /\ stored \in PlanRecord \union {Gone}
    /\ exec \in [Execution -> [pc : {"idle", "batch", "poll", "over"},
                               plan : PlanRecord, aborted : BOOLEAN,
                               work : [Node -> WorkRecord]]]
    /\ controller \in Execution \union {None}
    /\ restarts \in 0..MaxRestarts
    /\ seen \subseteq {"pause", "twins"}
    /\ \A e \in Execution : /\ Under(e) # {} <=> exec[e].pc = "batch"
                            /\ Under(e) \subseteq Running(exec[e].plan)

\* Where an execution stands, for its promise.
Mode(e) == CASE exec[e].pc = "idle" -> "idle"
             [] exec[e].pc = "over" -> "ended"
             [] OTHER -> IF exec[e].aborted THEN "stopping" ELSE "on"

(* The executions of a plan keep the promise of PlanRuns, however pauses,  *)
(* retries, deletions and restarts fall between their steps.               *)
Promise == INSTANCE PlanRuns WITH
    requires <- deps,
    node  <- [e \in Execution |-> exec[e].plan.node],
    under <- [e \in Execution |-> Under(e)],
    mode  <- [e \in Execution |-> Mode(e)]
KeepsPromise == Promise!Spec

\* The graph can be executed: nothing is missing and nothing is circular.
Executable ==
    \E rank \in [Node -> 1..Cardinality(Node)] :
        \A n \in Node : \A d \in deps[n] : d \in Node /\ rank[d] < rank[n]

(* The verdict in the rows fits the nodes in them, in whatever order the   *)
(* executions of the plan have written over each other: a plan is "failed" *)
(* only with a failed node and "done" only without; and a "done" plan that *)
(* could be executed and was never paused has all its nodes done.          *)
VerdictFits ==
    stored # Gone =>
        /\ stored.status = "failed" => HasFailed(stored)
        /\ stored.status = "done" => ~HasFailed(stored)
        /\ stored.status = "done" /\ Executable /\ "pause" \notin seen
              => \A n \in Node : stored.node[n] = "done"

(* A node that the rows say is done stays so unless the plan was retried   *)
(* while it was being executed, or is deleted; and a plan that was deleted *)
(* stays deleted unless an execution of it is alive to write its object    *)
(* back.  The rows are written by whole objects: one that was read before  *)
(* another's results must not be there to be saved after them.             *)
ResultsAreKept ==
    [][/\ \A n \in Node :
             stored.node[n] = "done" /\ stored'.node[n] # "done"
                => "twins" \in seen \/ stored' = Gone
       /\ stored = Gone /\ stored' # Gone
             => WritersAlive # {} \/ \A e \in Execution : exec[e] = NotYet]_vars

(* An execution ends, unless it took over a node as running that nobody    *)
(* works at: then it polls until it is paused, and one whose controller a  *)
(* later execution has replaced or removed cannot be paused.               *)
Inherits(e) == Running(exec[e].plan) \ Under(e) # {}

ExecutionsEnd ==
    \A e \in Execution :
        Alive(e) ~> ~Alive(e) \/ (Inherits(e) /\ ~exec[e].aborted)

=============================================================================
