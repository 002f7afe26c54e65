-------------------------- MODULE TaskOrchestrator --------------------------
(***************************************************************************)
(* The task engine: TaskManager (the task map and its SQLite store), the   *)
(* OrchestratorService that recovers stuck tasks and dispatches queued     *)
(* ones, and the per-agent ConcurrencyLimiter every execution goes         *)
(* through.  The process is single threaded, so one timer callback, one    *)
(* HTTP handler or one promise continuation is one step.                   *)
(*                                                                         *)
(* Tasks here have no parent: the roll-up of a child's status into its     *)
(* parent is part of Delegations.  Wall-clock time is reduced to two       *)
(* flags per task: idle (nothing touched it for stuckThresholdMinutes) and *)
(* cooling (a recovery happened less than retryCooldownMinutes ago).       *)
(***************************************************************************)
EXTENDS Integers, FiniteSets, Functions

CONSTANTS
    Task,             \* the tasks that may be created
    Agent,            \* active agents that are not directors
    NoAgent,          \* assignedTo is undefined
    Deps,             \* task -> the tasks it depends on
    MaxConcurrent,    \* maxConcurrentTasks of every agent's guardrails
    MaxRetryLimit,    \* upper clamp of retryLimit (10 in the code)
    MaxInterventions, \* bound: operator requests per behaviour
    MaxRestarts       \* bound: process restarts per behaviour

ASSUME TaskFinite == IsFiniteSet(Task)
ASSUME NoAgentFresh == NoAgent \notin Agent
ASSUME DepsType == Deps \in [Task -> SUBSET Task]
ASSUME LimitsAreNat ==
    /\ MaxConcurrent \in Nat
    /\ MaxRetryLimit \in Nat
    /\ MaxInterventions \in Nat
    /\ MaxRestarts \in Nat

VARIABLES
    task,       \* TaskManager.tasks: status, assignedTo, and the idle flag
    row,        \* the SQLite row of each task: status and assignedTo
    memo,       \* retryAttemptsByTask and lastRecoveryAtByTask
    policy,     \* the reliability policy in force (and in its store)
    running,    \* executions in their ReAct loop, per task and agent
    reporting,  \* executions whose loop is over, not yet their reflection
    slots,      \* ConcurrencyLimiter.active
    leaked,     \* history: slots that nobody is left to release
    launches,   \* history: dispatches of a task since the process started
    touches,    \* history: operator requests on a task since the start
    ops,        \* operator requests so far
    restarts    \* restarts so far

work    == <<running, reporting, slots, leaked>>
history == <<launches, touches>>

vars == <<task, row, memo, policy, work, history, ops, restarts>>

-----------------------------------------------------------------------------
Queued      == {"pending", "assigned"}
Terminal    == {"completed", "failed", "cancelled", "dropped", "rolled_back"}
TaskStatus  == Queued \union Terminal
                 \union {"in_progress", "blocked", "rolling_back"}
\* Faulty variant: recovery overlooks tasks whose execution died.
RecoverableUnlessStarted == Queued \union {"blocked"}

Recoverable == Queued \union {"in_progress", "blocked"}

\* Statuses set by handlers that change the task in memory only.
MemoryOnly  == {"cancelled", "dropped", "rolling_back", "rolled_back"}

Absent == "absent"
Status == TaskStatus \union {Absent}

NoTask == [status |-> Absent, agent |-> NoAgent, idle |-> FALSE]
NoRow  == [status |-> Absent, agent |-> NoAgent]
NoMemo == [attempts |-> 0, cooling |-> FALSE]
NoRuns == [t \in Task |-> [a \in Agent |-> 0]]

\* What upsert writes, and what the constructor reads back; whether the task
\* is idle by then is a matter of how long the process was down.
RowOf(tk)      == [status |-> tk.status, agent |-> tk.agent]
Loaded(r, idl) == [status |-> r.status, agent |-> r.agent,
                   idle   |-> idl /\ r.status \in Recoverable]

Exists(t)   == task[t].status # Absent
Live(t)     == \E a \in Agent : running[t][a] + reporting[t][a] > 0

\* Faulty variant: any terminal status of a dependency will do.
CanStartAfterAnyEnd(tasks, t) == \A d \in Deps[t] : tasks[d].status \in Terminal

CanStart(tasks, t) == \A d \in Deps[t] : tasks[d].status = "completed"

-----------------------------------------------------------------------------
(* recoverStuckEntries: one stuck entry.  Attempts are compared with the   *)
(* retry limit only, so they saturate one past its largest value.          *)

IsStuck(pol, tk, m) ==
    /\ pol.auto
    /\ tk.status \in Recoverable
    /\ tk.idle
    /\ ~m.cooling

Retries(pol, m) == m.attempts + 1 <= pol.limit

RecoveredStatus(pol, tk, m) ==
    IF ~Retries(pol, m) THEN "blocked"
    ELSE IF tk.status = "in_progress" THEN "assigned" ELSE "pending"

RecoveredTask(pol, tk, m) ==
    IF IsStuck(pol, tk, m)
    THEN [tk EXCEPT !.status = RecoveredStatus(pol, tk, m), !.idle = FALSE]
    ELSE tk

\* Faulty variant: a recovery starts the cooldown but is not counted.
RecoveryNotCounted(pol, tk, m) ==
    IF IsStuck(pol, tk, m) THEN [m EXCEPT !.cooling = TRUE] ELSE m

RecoveredMemo(pol, tk, m) ==
    IF IsStuck(pol, tk, m)
    THEN [attempts |-> IF m.attempts > MaxRetryLimit THEN m.attempts
                       ELSE m.attempts + 1,
          cooling  |-> TRUE]
    ELSE m

RecoveredRow(pol, tk, m, r) ==
    IF IsStuck(pol, tk, m) THEN RowOf(RecoveredTask(pol, tk, m)) ELSE r

-----------------------------------------------------------------------------
Init ==
    /\ task = [t \in Task |-> NoTask]
    /\ row = [t \in Task |-> NoRow]
    /\ memo = [t \in Task |-> NoMemo]
    /\ policy \in [auto : BOOLEAN, limit : 0..MaxRetryLimit]
    /\ running = NoRuns /\ reporting = NoRuns
    /\ slots = [a \in Agent |-> 0]
    /\ leaked = [a \in Agent |-> 0]
    /\ launches = [t \in Task |-> 0]
    /\ touches = [t \in Task |-> 0]
    /\ ops = 0
    /\ restarts = 0

\* createTask, with or without an agent chosen by the caller.
CreateTask(t, a) ==
    LET tk == [status |-> IF a = NoAgent THEN "pending" ELSE "assigned",
               agent  |-> a, idle |-> FALSE]
    IN  /\ ~Exists(t)
        /\ \A d \in Deps[t] : Exists(d)
        /\ task' = [task EXCEPT ![t] = tk]
        /\ row' = [row EXCEPT ![t] = RowOf(tk)]
        /\ UNCHANGED <<memo, policy, work, history, ops, restarts>>

\* The 60 s heartbeat: orchestratorService.tick('sweep').
Sweep ==
    /\ task' = [t \in Task |-> RecoveredTask(policy, task[t], memo[t])]
    /\ row' = [t \in Task |-> RecoveredRow(policy, task[t], memo[t], row[t])]
    /\ memo' = [t \in Task |-> RecoveredMemo(policy, task[t], memo[t])]
    /\ UNCHANGED <<policy, work, history, ops, restarts>>

\* Faulty variant: the count is compared with >, not with >=.
FreeSlotsAndOne(a) == IF slots[a] <= MaxConcurrent
                      THEN MaxConcurrent - slots[a] + 1 ELSE 0

\* The limiter admits as many of an agent's new tasks as it has free slots.
FreeSlots(a)    == IF slots[a] < MaxConcurrent THEN MaxConcurrent - slots[a]
                   ELSE 0
Admits(a, mine, admitted) ==
    /\ admitted \subseteq mine
    /\ Cardinality(admitted) =
         IF Cardinality(mine) < FreeSlots(a) THEN Cardinality(mine)
         ELSE FreeSlots(a)

\* What becomes of an execution at once.  Refused by the limiter, it resolves
\* with the text "Refused: ...", and a resolved execution completes its task.
\* The agent's memory is read after the slot is taken and before the block
\* whose finally releases it: if that throws, the task fails, the slot stays.
Fate == {"started", "refused", "thrown"}

Dispatched(tk, a, fate) ==
    [status |-> CASE fate = "started" -> "in_progress"
                  [] fate = "refused" -> "completed"
                  [] fate = "thrown"  -> "failed",
     agent  |-> IF tk.agent = NoAgent THEN a ELSE tk.agent,
     idle   |-> FALSE]

\* The 15 s loop: tick('dispatch'), then every queued task whose
\* dependencies are completed is handed to its agent, or to one chosen for
\* it when it has none.  The list is fixed before the first is started.
DispatchPendingTasks ==
    LET after == [t \in Task |-> RecoveredTask(policy, task[t], memo[t])]
        list  == {t \in Task : /\ after[t].status \in Queued
                               /\ CanStart(after, t)}
    IN \E pick \in [list -> Agent], fate \in [list -> Fate] :
        LET With(a, F) == {t \in list : pick[t] = a /\ fate[t] \in F}
        IN
        /\ \A t \in list : after[t].agent # NoAgent
                              => pick[t] = after[t].agent
        /\ \A a \in Agent : Admits(a, With(a, Fate), With(a, {"started", "thrown"}))
        /\ task' = [t \in Task |->
                      IF t \in list
                      THEN Dispatched(after[t], pick[t], fate[t])
                      ELSE after[t]]
        /\ row' = [t \in Task |->
                     IF t \in list
                     THEN RowOf(Dispatched(after[t], pick[t], fate[t]))
                     ELSE RecoveredRow(policy, task[t], memo[t], row[t])]
        /\ memo' = [t \in Task |-> RecoveredMemo(policy, task[t], memo[t])]
        /\ running' = [t \in Task |-> [a \in Agent |->
                         IF t \in With(a, {"started"})
                         THEN running[t][a] + 1 ELSE running[t][a]]]
        /\ slots' = [a \in Agent |-> slots[a]
                       + Cardinality(With(a, {"started", "thrown"}))]
        /\ leaked' = [a \in Agent |-> leaked[a] + Cardinality(With(a, {"thrown"}))]
        /\ launches' = [t \in Task |->
                          IF t \in list THEN launches[t] + 1 ELSE launches[t]]
        /\ UNCHANGED <<policy, reporting, touches, ops, restarts>>

\* Faulty variant: released by the callee and again by the caller, no floor.
ReleasedTwice(a) == slots' = [slots EXCEPT ![a] = @ - 2]

\* release(), in the finally block of the loop.
Release(a) == slots' = [slots EXCEPT ![a] = IF @ > 1 THEN @ - 1 ELSE 0]

\* A task gets the outcome whatever has become of it meanwhile.
Settles(t, outcome) ==
    LET tk == [task[t] EXCEPT !.status = outcome, !.idle = FALSE]
    IN  /\ task' = [task EXCEPT ![t] = tk]
        /\ row' = [row EXCEPT ![t] = RowOf(tk)]

\* The ReAct loop is over; the agent reflects, which is awaited.
LoopEnds(t, a) ==
    /\ running[t][a] > 0
    /\ running' = [running EXCEPT ![t][a] = @ - 1]
    /\ reporting' = [reporting EXCEPT ![t][a] = @ + 1]
    /\ Release(a)
    /\ UNCHANGED <<task, row, memo, policy, leaked, history, ops, restarts>>

\* Promise resolved -> updateTaskStatus('completed').
ExecutionCompletes(t, a) ==
    /\ reporting[t][a] > 0
    /\ reporting' = [reporting EXCEPT ![t][a] = @ - 1]
    /\ Settles(t, "completed")
    /\ UNCHANGED <<memo, policy, running, slots, leaked, history, ops, restarts>>

\* The loop throws: released, rejected -> setTaskError.
ExecutionFails(t, a) ==
    /\ running[t][a] > 0
    /\ running' = [running EXCEPT ![t][a] = @ - 1]
    /\ Release(a)
    /\ Settles(t, "failed")
    /\ UNCHANGED <<memo, policy, reporting, leaked, history, ops, restarts>>

-----------------------------------------------------------------------------
(* Requests of an operator.                                                *)

Intervene(t) ==
    /\ ops < MaxInterventions
    /\ ops' = ops + 1
    /\ touches' = [touches EXCEPT ![t] = @ + 1]
    /\ UNCHANGED <<memo, policy, work, launches, restarts>>

\* Faulty variant: the status is changed but not persisted.
UpdateTaskStatusUnsaved(t, s) ==
    /\ Exists(t)
    /\ Intervene(t)
    /\ task' = [task EXCEPT ![t].status = s, ![t].idle = FALSE]
    /\ UNCHANGED row

\* PUT /api/tasks/:id/status: any of the ten statuses, from any status.
UpdateTaskStatus(t, s) ==
    LET tk == [task[t] EXCEPT !.status = s, !.idle = FALSE]
    IN  /\ Exists(t)
        /\ Intervene(t)
        /\ task' = [task EXCEPT ![t] = tk]
        /\ row' = [row EXCEPT ![t] = RowOf(tk)]

\* cancelTask, dropTask, requestRollback, applyRollback: the task changes
\* and its listeners are told, but the store is not written.
SetInMemory(t, s) ==
    /\ Exists(t)
    /\ Intervene(t)
    /\ task' = [task EXCEPT ![t].status = s, ![t].idle = FALSE]
    /\ UNCHANGED row

CancelTask(t)      == SetInMemory(t, "cancelled")
DropTask(t)        == SetInMemory(t, "dropped")
RequestRollback(t) == SetInMemory(t, "rolling_back")
ApplyRollback(t)   == SetInMemory(t, "rolled_back")

\* setReliabilityPolicy rebuilds the snapshot, hence recovers as well.
SetReliabilityPolicy(pol) ==
    /\ ops < MaxInterventions
    /\ ops' = ops + 1
    /\ policy' = pol
    /\ task' = [t \in Task |-> RecoveredTask(pol, task[t], memo[t])]
    /\ row' = [t \in Task |-> RecoveredRow(pol, task[t], memo[t], row[t])]
    /\ memo' = [t \in Task |-> RecoveredMemo(pol, task[t], memo[t])]
    /\ UNCHANGED <<work, history, restarts>>

-----------------------------------------------------------------------------
(* Time, and the death of the process.                                     *)

\* Idleness matters, and is tracked, in the recoverable statuses only.
BecomeIdle(t) ==
    /\ task[t].status \in Recoverable
    /\ ~task[t].idle
    /\ task' = [task EXCEPT ![t].idle = TRUE]
    /\ UNCHANGED <<row, memo, policy, work, history, ops, restarts>>

CooldownElapses(t) ==
    /\ memo[t].cooling
    /\ memo' = [memo EXCEPT ![t].cooling = FALSE]
    /\ UNCHANGED <<task, row, policy, work, history, ops, restarts>>

\* The executions die with the process; the new one loads the rows and its
\* orchestrator recovers what it finds stuck before the first timer fires.
Restart ==
    /\ restarts < MaxRestarts
    /\ restarts' = restarts + 1
    /\ \E idl \in [Task -> BOOLEAN] :
         LET tk(t) == Loaded(row[t], idl[t])
         IN  /\ task' = [t \in Task |-> RecoveredTask(policy, tk(t), NoMemo)]
             /\ row' = [t \in Task |->
                          RecoveredRow(policy, tk(t), NoMemo, row[t])]
             /\ memo' = [t \in Task |-> RecoveredMemo(policy, tk(t), NoMemo)]
    /\ running' = NoRuns /\ reporting' = NoRuns
    /\ slots' = [a \in Agent |-> 0]
    /\ leaked' = [a \in Agent |-> 0]
    /\ launches' = [t \in Task |-> 0]
    /\ touches' = [t \in Task |-> 0]
    /\ UNCHANGED <<policy, ops>>

-----------------------------------------------------------------------------
Operator ==
    \/ \E t \in Task, s \in TaskStatus : UpdateTaskStatus(t, s)
    \/ \E t \in Task : CancelTask(t)
    \/ \E t \in Task : DropTask(t)
    \/ \E t \in Task : RequestRollback(t)
    \/ \E t \in Task : ApplyRollback(t)
    \/ \E pol \in [auto : BOOLEAN, limit : 0..MaxRetryLimit] :
          SetReliabilityPolicy(pol)

Next ==
    \/ \E t \in Task, a \in Agent \union {NoAgent} : CreateTask(t, a)
    \/ Sweep
    \/ DispatchPendingTasks
    \/ \E t \in Task, a \in Agent : LoopEnds(t, a)
    \/ \E t \in Task, a \in Agent : ExecutionCompletes(t, a)
    \/ \E t \in Task, a \in Agent : ExecutionFails(t, a)
    \/ \E t \in Task : BecomeIdle(t)
    \/ \E t \in Task : CooldownElapses(t)
    \/ Operator
    \/ Restart

Spec == Init /\ [][Next]_vars

\* The heartbeat keeps firing and time passes; neither the dispatch loop nor
\* the end of an execution is promised.
Fairness ==
    /\ WF_vars(Sweep)
    /\ \A t \in Task : WF_vars(BecomeIdle(t)) /\ WF_vars(CooldownElapses(t))

FairSpec == Spec /\ Fairness

-----------------------------------------------------------------------------
(* Properties.                                                             *)

\* Every variable has its type: a task, its row, its recovery record, the
\* policy, the executions and the limiter's counters.
TypeOK ==
    /\ task \in [Task -> [status : Status, agent : Agent \union {NoAgent},
                          idle : BOOLEAN]]
    /\ row \in [Task -> [status : Status, agent : Agent \union {NoAgent}]]
    /\ memo \in [Task -> [attempts : 0..(MaxRetryLimit + 1),
                          cooling : BOOLEAN]]
    /\ policy \in [auto : BOOLEAN, limit : 0..MaxRetryLimit]
    /\ {running, reporting} \subseteq [Task -> [Agent -> Nat]]
    /\ {slots, leaked} \subseteq [Agent -> Nat]
    /\ launches \in [Task -> Nat]
    /\ touches \in [Task -> Nat]
    /\ ops \in Nat
    /\ restarts \in Nat

\* The store and the memory disagree about a task only while the task is in
\* one of the four statuses whose handlers do not persist: what a restart can
\* lose is a cancellation, a drop or a rollback, never an assignment, a
\* dispatch, an outcome, a retry or a quarantine.
StoreLagsOnlyOnMemoryOnly ==
    \A t \in Task :
        row[t] # RowOf(task[t]) => task[t].status \in MemoryOnly

\* However dispatch, recovery, completion and late outcomes interleave, a
\* process starts a task at most once, plus once per automatic retry (of
\* which the policy's limit allows so many), plus once per operator request
\* on it.
LaunchBudget ==
    \A t \in Task :
        launches[t] <= 1 + touches[t]
                         + (IF memo[t].attempts < MaxRetryLimit
                            THEN memo[t].attempts ELSE MaxRetryLimit)

\* The limiter counts the executions that are in their loop, each once,
\* whatever becomes of their tasks meanwhile (recovered, cancelled, dispatched
\* again), and they are never more than maxConcurrentTasks.  What it counts
\* beyond them are the slots of executions that threw before their loop: there
\* is no other way to lose a slot, and no way to get one twice.
Loops(a) == UNION {{t} \X (1..running[t][a]) : t \in Task}

SlotsAreLoops ==
    \A a \in Agent : /\ slots[a] = Cardinality(Loops(a)) + leaked[a]
                     /\ slots[a] <= MaxConcurrent

Waiting(t)     == \E d \in Deps[t] : task[d].status # "completed"
Quarantined(t) == task[t].status = "blocked" /\ memo[t].attempts > policy.limit

\* A task that is held back stays so.  While a task it depends on is not
\* completed it is not started, also when the same pass recovers or starts
\* other tasks first; while it is quarantined (more attempts than the policy
\* allows, blocked), no timer and no late outcome starts it or puts it back in
\* the queue: only an operator's request on it, a new policy or a restart.
HeldTasksStay ==
    [][\A t \in Task :
         /\ Waiting(t) => ~(launches'[t] > launches[t])
         /\ /\ Quarantined(t)
            /\ touches'[t] = touches[t]
            /\ policy' = policy
            /\ restarts' = restarts
            => task'[t].status \notin Queued \union {"in_progress"}]_vars

\* With automatic recovery on, no task is left behind: one that is queued, or
\* in progress with no execution alive (its process died), is eventually
\* running, blocked for an operator to see, or in a status timers leave alone.
EveryTaskSettles ==
    \A t \in Task :
        []<>(Exists(t) /\ policy.auto =>
                \/ Live(t)
                \/ task[t].status \in
                      Terminal \union {"blocked", "rolling_back"})

=============================================================================
