----------------------- MODULE TaskOrchestratorProofs -----------------------
(***************************************************************************)
(* Invariance proofs for TaskOrchestrator, for every set of tasks and      *)
(* agents, every dependency relation and every limit.                      *)
(***************************************************************************)
EXTENDS TaskOrchestrator, FiniteSetTheorems, TLAPS

AnAgent == Agent \union {NoAgent}
TaskRec == [status : Status, agent : AnAgent, idle : BOOLEAN]
RowRec  == [status : Status, agent : AnAgent]
MemoRec == [attempts : 0..(MaxRetryLimit + 1), cooling : BOOLEAN]
Policy  == [auto : BOOLEAN, limit : 0..MaxRetryLimit]

-----------------------------------------------------------------------------
(* What recovery and dispatch make of one task.                            *)

\* Recovery keeps a task a task, and changes only its status and idle flag.
LEMMA RecoveredTaskType ==
    ASSUME NEW pol \in Policy, NEW tk \in TaskRec, NEW m \in MemoRec
    PROVE  RecoveredTask(pol, tk, m) \in TaskRec
BY DEF RecoveredTask, RecoveredStatus, TaskRec, Status, TaskStatus, Queued,
       Terminal

\* Recovery keeps the recovery record within its bounds.
LEMMA RecoveredMemoType ==
    ASSUME NEW pol \in Policy, NEW tk \in TaskRec, NEW m \in MemoRec
    PROVE  RecoveredMemo(pol, tk, m) \in MemoRec
BY LimitsAreNat DEF RecoveredMemo, MemoRec

\* Recovery writes well-formed rows.
LEMMA RecoveredRowType ==
    ASSUME NEW pol \in Policy, NEW tk \in TaskRec, NEW m \in MemoRec,
           NEW r \in RowRec
    PROVE  RecoveredRow(pol, tk, m, r) \in RowRec
BY RecoveredTaskType DEF RecoveredRow, RowOf, RowRec, TaskRec

\* A loaded row is a task.
LEMMA LoadedType ==
    ASSUME NEW r \in RowRec, NEW idl \in BOOLEAN
    PROVE  Loaded(r, idl) \in TaskRec
BY DEF Loaded, RowRec, TaskRec

\* The record of a task that was never recovered.
LEMMA NoMemoType == NoMemo \in MemoRec
BY LimitsAreNat DEF NoMemo, MemoRec

-----------------------------------------------------------------------------
(* Type correctness.                                                       *)

LEMMA InitTypeOK == Init => TypeOK
BY LimitsAreNat
   DEF Init, TypeOK, NoTask, NoRow, NoMemo, NoRuns, Status, AnAgent

LEMMA DispatchTypeOK == TypeOK /\ DispatchPendingTasks => TypeOK'
<1> SUFFICES ASSUME TypeOK, DispatchPendingTasks PROVE TypeOK'
  OBVIOUS
<1> USE DEF TypeOK, AnAgent, TaskRec, RowRec, MemoRec, Policy
<1> DEFINE after == [t \in Task |-> RecoveredTask(policy, task[t], memo[t])]
           list  == {t \in Task : /\ after[t].status \in Queued
                                  /\ CanStart(after, t)}
<1>1. PICK pick \in [list -> Agent], fate \in [list -> Fate] :
        /\ task' = [t \in Task |->
                      IF t \in list
                      THEN Dispatched(after[t], pick[t], fate[t])
                      ELSE after[t]]
        /\ row' = [t \in Task |->
                     IF t \in list
                     THEN RowOf(Dispatched(after[t], pick[t], fate[t]))
                     ELSE RecoveredRow(policy, task[t], memo[t], row[t])]
        /\ memo' = [t \in Task |-> RecoveredMemo(policy, task[t], memo[t])]
        /\ running' = [t \in Task |-> [a \in Agent |->
                         IF t \in {u \in list : /\ pick[u] = a
                                                /\ fate[u] \in {"started"}}
                         THEN running[t][a] + 1 ELSE running[t][a]]]
        /\ slots' = [a \in Agent |-> slots[a] + Cardinality(
                        {t \in list : /\ pick[t] = a
                                      /\ fate[t] \in {"started", "thrown"}})]
        /\ leaked' = [a \in Agent |-> leaked[a] + Cardinality(
                        {t \in list : pick[t] = a /\ fate[t] \in {"thrown"}})]
        /\ launches' = [t \in Task |->
                          IF t \in list THEN launches[t] + 1 ELSE launches[t]]
        /\ UNCHANGED <<policy, reporting, touches, ops, restarts>>
  BY DEF DispatchPendingTasks
<1>2. after \in [Task -> TaskRec]
  BY RecoveredTaskType
<1>3. \A t \in list : Dispatched(after[t], pick[t], fate[t]) \in TaskRec
  BY <1>2 DEF Dispatched, Fate, Status, TaskStatus, Queued, Terminal
<1>4. task' \in [Task -> TaskRec]
  BY <1>1, <1>2, <1>3
<1>5. row' \in [Task -> RowRec]
  <2>1. \A tk \in TaskRec : RowOf(tk) \in RowRec
    BY DEF RowOf
  <2>2. QED
    BY <1>1, <1>3, <2>1, RecoveredRowType
<1>6. memo' \in [Task -> MemoRec]
  BY <1>1, RecoveredMemoType
<1>7. slots' \in [Agent -> Nat] /\ leaked' \in [Agent -> Nat]
  <2> DEFINE With(a, F) == {t \in list : pick[t] = a /\ fate[t] \in F}
  <2>1. \A a \in Agent, F \in SUBSET Fate : Cardinality(With(a, F)) \in Nat
    <3>1. \A a \in Agent, F \in SUBSET Fate : With(a, F) \subseteq Task
      OBVIOUS
    <3>2. QED
      BY <3>1, TaskFinite, FS_Subset, FS_CardinalityType
  <2>2. /\ slots' = [a \in Agent |->
                       slots[a] + Cardinality(With(a, {"started", "thrown"}))]
        /\ leaked' = [a \in Agent |->
                        leaked[a] + Cardinality(With(a, {"thrown"}))]
    BY <1>1
  <2>3. slots \in [Agent -> Nat] /\ leaked \in [Agent -> Nat]
    OBVIOUS
  <2>4. {"started", "thrown"} \in SUBSET Fate /\ {"thrown"} \in SUBSET Fate
    BY DEF Fate
  <2>5. \A a \in Agent : /\ Cardinality(With(a, {"started", "thrown"})) \in Nat
                         /\ Cardinality(With(a, {"thrown"})) \in Nat
    BY <2>1, <2>4
  <2> HIDE DEF With
  <2>6. QED
    BY <2>2, <2>3, <2>5
<1>8. /\ running' \in [Task -> [Agent -> Nat]]
      /\ launches' \in [Task -> Nat]
  BY <1>1
<1>9. QED
  BY <1>1, <1>4, <1>5, <1>6, <1>7, <1>8 DEF work

LEMMA RestartTypeOK == TypeOK /\ Restart => TypeOK'
<1> SUFFICES ASSUME TypeOK, Restart PROVE TypeOK'
  OBVIOUS
<1> USE DEF TypeOK, AnAgent, TaskRec, RowRec, MemoRec, Policy
<1>1. PICK idl \in [Task -> BOOLEAN] :
        /\ task' = [t \in Task |-> RecoveredTask(policy,
                                     Loaded(row[t], idl[t]), NoMemo)]
        /\ row' = [t \in Task |-> RecoveredRow(policy,
                                     Loaded(row[t], idl[t]), NoMemo, row[t])]
        /\ memo' = [t \in Task |-> RecoveredMemo(policy,
                                     Loaded(row[t], idl[t]), NoMemo)]
  BY DEF Restart
<1>2. \A t \in Task : Loaded(row[t], idl[t]) \in TaskRec
  BY LoadedType
<1>3. task' \in [Task -> TaskRec] /\ row' \in [Task -> RowRec]
         /\ memo' \in [Task -> MemoRec]
  BY <1>1, <1>2, NoMemoType, RecoveredTaskType, RecoveredRowType,
     RecoveredMemoType
<1>4. QED
  BY <1>3, LimitsAreNat DEF Restart, NoRuns

\* The three steps whose only effect on a task is recovery.
LEMMA RecoveryTypeOK ==
    ASSUME TypeOK, NEW pol \in Policy
    PROVE  /\ [t \in Task |-> RecoveredTask(pol, task[t], memo[t])]
                \in [Task -> TaskRec]
           /\ [t \in Task |-> RecoveredRow(pol, task[t], memo[t], row[t])]
                \in [Task -> RowRec]
           /\ [t \in Task |-> RecoveredMemo(pol, task[t], memo[t])]
                \in [Task -> MemoRec]
BY RecoveredTaskType, RecoveredRowType, RecoveredMemoType
   DEF TypeOK, AnAgent, TaskRec, RowRec, MemoRec, Policy

\* A status change touches the task.
LEMMA TouchedType ==
    ASSUME NEW r \in TaskRec, NEW s \in Status
    PROVE  [r EXCEPT !.status = s, !.idle = FALSE] \in TaskRec
BY DEF TaskRec

LEMMA RowOfType == \A tk \in TaskRec : RowOf(tk) \in RowRec
BY DEF RowOf, TaskRec, RowRec

\* What every operator request on a task does to the counters.
LEMMA InterveneType ==
    ASSUME TypeOK, NEW t \in Task, Intervene(t)
    PROVE  /\ ops' \in Nat
           /\ touches' \in [Task -> Nat]
           /\ UNCHANGED <<memo, policy, work, launches, restarts>>
BY DEF TypeOK, Intervene

(* Every step of an execution that was started; Settles is the only thing  *)
(* it does to a task.                                                      *)
Ends(t, a) == LoopEnds(t, a) \/ ExecutionCompletes(t, a) \/ ExecutionFails(t, a)

\* The end of a loop touches no task; an outcome touches its own task only.
LEMMA EndsSettle ==
    ASSUME NEW t, NEW a, Ends(t, a)
    PROVE  /\ UNCHANGED <<memo, policy, launches, touches, ops, restarts>>
           /\ \/ UNCHANGED <<task, row>>
              \/ \E o \in {"completed", "failed"} : Settles(t, o)
BY DEF Ends, LoopEnds, ExecutionCompletes, ExecutionFails, history

\* The counters stay counters.
LEMMA EndsType ==
    ASSUME TypeOK, NEW t \in Task, NEW a \in Agent, Ends(t, a)
    PROVE  /\ {running', reporting'} \subseteq [Task -> [Agent -> Nat]]
           /\ {slots', leaked'} \subseteq [Agent -> Nat]
<1>1. ASSUME NEW r \in [Task -> [Agent -> Nat]]
      PROVE  /\ [r EXCEPT ![t][a] = @ + 1] \in [Task -> [Agent -> Nat]]
             /\ r[t][a] > 0
                  => [r EXCEPT ![t][a] = @ - 1] \in [Task -> [Agent -> Nat]]
  <2>1. r[t][a] \in Nat
    OBVIOUS
  <2>2. r[t][a] > 0 => r[t][a] - 1 \in Nat
    BY <2>1
  <2>3. QED
    BY <2>1, <2>2
<1>2. /\ running' \in [Task -> [Agent -> Nat]]
      /\ reporting' \in [Task -> [Agent -> Nat]]
  <2>1. /\ running \in [Task -> [Agent -> Nat]]
        /\ reporting \in [Task -> [Agent -> Nat]]
    BY DEF TypeOK
  <2>2. CASE LoopEnds(t, a)
    BY <1>1, <2>1, <2>2 DEF LoopEnds
  <2>3. CASE ExecutionCompletes(t, a)
    BY <1>1, <2>1, <2>3 DEF ExecutionCompletes
  <2>4. CASE ExecutionFails(t, a)
    BY <1>1, <2>1, <2>4 DEF ExecutionFails
  <2>5. QED
    BY <2>2, <2>3, <2>4 DEF Ends
<1>3. slots' \in [Agent -> Nat] /\ leaked' \in [Agent -> Nat]
  BY DEF TypeOK, Ends, LoopEnds, ExecutionCompletes, ExecutionFails, Release
<1>4. QED
  BY <1>2, <1>3

LEMMA NextTypeOK == TypeOK /\ [Next]_vars => TypeOK'
<1> SUFFICES ASSUME TypeOK, [Next]_vars PROVE TypeOK'
  OBVIOUS
<1> USE DEF TypeOK, history, work
<1>1. ASSUME NEW t \in Task, NEW a \in AnAgent, CreateTask(t, a)
      PROVE  TypeOK'
  BY <1>1 DEF AnAgent, CreateTask, RowOf, Status, TaskStatus, Queued, Terminal
<1>2. CASE Sweep
  <2>1. policy \in Policy
    BY DEF Policy
  <2>2. QED
    BY <1>2, <2>1, RecoveryTypeOK
       DEF Sweep, AnAgent, TaskRec, RowRec, MemoRec
<1>3. CASE DispatchPendingTasks
  BY <1>3, DispatchTypeOK
<1>4. ASSUME NEW t \in Task, NEW a \in Agent, Ends(t, a) PROVE TypeOK'
  <2>1. task' \in [Task -> TaskRec] /\ row' \in [Task -> RowRec]
    <3>1. CASE UNCHANGED <<task, row>>
      BY <3>1 DEF TaskRec, RowRec, AnAgent
    <3>2. ASSUME NEW o \in {"completed", "failed"}, Settles(t, o)
          PROVE  task' \in [Task -> TaskRec] /\ row' \in [Task -> RowRec]
      <4> DEFINE tk == [task[t] EXCEPT !.status = o, !.idle = FALSE]
      <4>1. task[t] \in TaskRec
        BY DEF TaskRec, AnAgent
      <4>2. o \in Status
        BY DEF Status, TaskStatus, Queued, Terminal
      <4>3. tk \in TaskRec /\ RowOf(tk) \in RowRec
        BY <4>1, <4>2, TouchedType, RowOfType
      <4>4. /\ task' = [task EXCEPT ![t] = tk]
            /\ row' = [row EXCEPT ![t] = RowOf(tk)]
        BY <3>2 DEF Settles
      <4> HIDE DEF tk
      <4>5. QED
        BY <4>3, <4>4 DEF TaskRec, RowRec, AnAgent
    <3>3. QED
      BY <1>4, <3>1, <3>2, EndsSettle
  <2>2. QED
    BY <1>4, <2>1, EndsSettle, EndsType DEF TaskRec, RowRec, AnAgent
<1>5. ASSUME NEW t \in Task, BecomeIdle(t) PROVE TypeOK'
  <2> DEFINE tk == [task[t] EXCEPT !.idle = TRUE]
  <2>0. task[t] \in TaskRec
    BY DEF TaskRec, AnAgent
  <2>1. tk \in TaskRec
    BY <2>0 DEF TaskRec
  <2>2. task' = [task EXCEPT ![t] = tk]
    BY <1>5 DEF BecomeIdle
  <2> HIDE DEF tk
  <2>3. task' \in [Task -> TaskRec]
    BY <2>1, <2>2 DEF TaskRec, AnAgent
  <2>4. QED
    BY <1>5, <2>3 DEF BecomeIdle, TaskRec, AnAgent
<1>6. ASSUME NEW t \in Task, CooldownElapses(t) PROVE TypeOK'
  BY <1>6 DEF CooldownElapses
<1>7. ASSUME NEW t \in Task, NEW s \in TaskStatus, UpdateTaskStatus(t, s)
      PROVE  TypeOK'
  <2>0. task[t] \in TaskRec
    BY DEF TaskRec, AnAgent
  <2> DEFINE tk == [task[t] EXCEPT !.status = s, !.idle = FALSE]
  <2>1. tk \in TaskRec /\ RowOf(tk) \in RowRec
    BY <2>0, TouchedType, RowOfType DEF Status
  <2>2. task' = [task EXCEPT ![t] = tk] /\ row' = [row EXCEPT ![t] = RowOf(tk)]
    BY <1>7 DEF UpdateTaskStatus
  <2> HIDE DEF tk
  <2>3. task' \in [Task -> TaskRec] /\ row' \in [Task -> RowRec]
    BY <2>1, <2>2 DEF TaskRec, RowRec, AnAgent
  <2>4. QED
    BY <1>7, <2>3, InterveneType
       DEF UpdateTaskStatus, TaskRec, RowRec, AnAgent
<1>8. ASSUME NEW t \in Task, NEW s \in MemoryOnly, SetInMemory(t, s)
      PROVE  TypeOK'
  <2>0. task[t] \in TaskRec
    BY DEF TaskRec, AnAgent
  <2> DEFINE tk == [task[t] EXCEPT !.status = s, !.idle = FALSE]
  <2>1. tk \in TaskRec
    BY <2>0, TouchedType DEF Status, TaskStatus, Terminal, MemoryOnly
  <2>2. task' = [task EXCEPT ![t] = tk]
    BY <1>8 DEF SetInMemory
  <2> HIDE DEF tk
  <2>3. task' \in [Task -> TaskRec]
    BY <2>1, <2>2 DEF TaskRec, AnAgent
  <2>4. QED
    BY <1>8, <2>3, InterveneType DEF SetInMemory, TaskRec, AnAgent
<1>9. ASSUME NEW pol \in Policy, SetReliabilityPolicy(pol) PROVE TypeOK'
  BY <1>9, RecoveryTypeOK
     DEF SetReliabilityPolicy, AnAgent, TaskRec, RowRec, MemoRec, Policy
<1>10. CASE Restart
  BY <1>10, RestartTypeOK
<1>11. CASE UNCHANGED vars
  BY <1>11 DEF vars
<1>12. QED
  BY <1>1, <1>2, <1>3, <1>4, <1>5, <1>6, <1>7, <1>8, <1>9, <1>10, <1>11
     DEF Next, Ends, Operator, AnAgent, Policy, CancelTask, DropTask,
         RequestRollback, ApplyRollback, MemoryOnly

\* Every reachable state is well typed.
THEOREM TypeCorrect == Spec => []TypeOK
<1>1. QED
  BY InitTypeOK, NextTypeOK, PTL DEF Spec

-----------------------------------------------------------------------------
(* The store.                                                              *)

\* Recovery writes the row of every task it changes.
LEMMA RecoveryWritesRow ==
    ASSUME NEW pol \in Policy, NEW tk \in TaskRec, NEW m \in MemoRec,
           NEW r \in RowRec, r # RowOf(tk) => tk.status \in MemoryOnly
    PROVE  RecoveredRow(pol, tk, m, r) # RowOf(RecoveredTask(pol, tk, m))
              => RecoveredTask(pol, tk, m).status \in MemoryOnly
BY DEF RecoveredRow, RecoveredTask

LEMMA NextStore ==
    TypeOK /\ StoreLagsOnlyOnMemoryOnly /\ [Next]_vars
       => StoreLagsOnlyOnMemoryOnly'
<1> SUFFICES ASSUME TypeOK, StoreLagsOnlyOnMemoryOnly, [Next]_vars,
                    NEW u \in Task
             PROVE  (row[u] # RowOf(task[u])
                       => task[u].status \in MemoryOnly)'
  BY DEF StoreLagsOnlyOnMemoryOnly
<1> USE DEF history, work
<1>0. /\ task[u] \in TaskRec /\ row[u] \in RowRec /\ memo[u] \in MemoRec
      /\ task \in [Task -> TaskRec] /\ row \in [Task -> RowRec]
      /\ policy \in Policy
      /\ row[u] # RowOf(task[u]) => task[u].status \in MemoryOnly
  BY DEF TypeOK, TaskRec, RowRec, MemoRec, AnAgent, Policy,
         StoreLagsOnlyOnMemoryOnly
<1>1. ASSUME NEW t \in Task, NEW a \in AnAgent, CreateTask(t, a)
      PROVE  (row[u] # RowOf(task[u]) => task[u].status \in MemoryOnly)'
  BY <1>0, <1>1 DEF CreateTask
<1>2. CASE Sweep
  BY <1>0, <1>2, RecoveryWritesRow DEF Sweep
<1>3. CASE DispatchPendingTasks
  BY <1>0, <1>3, RecoveryWritesRow DEF DispatchPendingTasks
<1>4. ASSUME NEW t \in Task, NEW a \in Agent, Ends(t, a)
      PROVE  (row[u] # RowOf(task[u]) => task[u].status \in MemoryOnly)'
  BY <1>0, <1>4, EndsSettle DEF Settles
<1>5. ASSUME NEW t \in Task, BecomeIdle(t)
      PROVE  (row[u] # RowOf(task[u]) => task[u].status \in MemoryOnly)'
  BY <1>0, <1>5 DEF BecomeIdle, RowOf, TaskRec
<1>6. ASSUME NEW t \in Task, CooldownElapses(t)
      PROVE  (row[u] # RowOf(task[u]) => task[u].status \in MemoryOnly)'
  BY <1>0, <1>6 DEF CooldownElapses
<1>7. ASSUME NEW t \in Task, NEW s \in TaskStatus, UpdateTaskStatus(t, s)
      PROVE  (row[u] # RowOf(task[u]) => task[u].status \in MemoryOnly)'
  BY <1>0, <1>7 DEF UpdateTaskStatus
<1>8. ASSUME NEW t \in Task, NEW s \in MemoryOnly, SetInMemory(t, s)
      PROVE  (row[u] # RowOf(task[u]) => task[u].status \in MemoryOnly)'
  BY <1>0, <1>8 DEF SetInMemory, TaskRec
<1>9. ASSUME NEW pol \in Policy, SetReliabilityPolicy(pol)
      PROVE  (row[u] # RowOf(task[u]) => task[u].status \in MemoryOnly)'
  BY <1>0, <1>9, RecoveryWritesRow DEF SetReliabilityPolicy
<1>10. CASE Restart
  <2>1. PICK idl \in [Task -> BOOLEAN] :
          /\ task' = [t \in Task |-> RecoveredTask(policy,
                                       Loaded(row[t], idl[t]), NoMemo)]
          /\ row' = [t \in Task |-> RecoveredRow(policy,
                                     Loaded(row[t], idl[t]), NoMemo, row[t])]
    BY <1>10 DEF Restart
  <2>2. RowOf(Loaded(row[u], idl[u])) = row[u]
    BY <1>0 DEF RowOf, Loaded, RowRec
  <2>3. Loaded(row[u], idl[u]) \in TaskRec
    BY <1>0, LoadedType
  <2>4. QED
    BY <1>0, <2>1, <2>2, <2>3, NoMemoType, RecoveryWritesRow
<1>11. CASE UNCHANGED vars
  BY <1>0, <1>11 DEF vars
<1>12. QED
  BY <1>1, <1>2, <1>3, <1>4, <1>5, <1>6, <1>7, <1>8, <1>9, <1>10, <1>11
     DEF Next, Ends, Operator, AnAgent, Policy, CancelTask, DropTask,
         RequestRollback, ApplyRollback, MemoryOnly

\* What a restart can lose is a cancellation, a drop or a rollback.
THEOREM StoreLag == Spec => []StoreLagsOnlyOnMemoryOnly
<1>1. Init => StoreLagsOnlyOnMemoryOnly
  BY DEF Init, StoreLagsOnlyOnMemoryOnly, RowOf, NoTask, NoRow
<1>2. QED
  BY <1>1, NextStore, TypeCorrect, PTL DEF Spec

-----------------------------------------------------------------------------
(* The launch budget.  It is not inductive: a task that is queued, or not  *)
(* yet created, still has a launch ahead of it, which must be counted with *)
(* the ones behind it.                                                     *)

Budget(m, n) == 1 + n + (IF m.attempts < MaxRetryLimit THEN m.attempts
                         ELSE MaxRetryLimit)
Ahead(tk)    == IF tk.status \in Queued \union {Absent} THEN 1 ELSE 0

LaunchInv == \A t \in Task :
                launches[t] + Ahead(task[t]) <= Budget(memo[t], touches[t])

\* A retry is paid for by the attempt it counts.
LEMMA RecoveryPays ==
    ASSUME NEW pol \in Policy, NEW tk \in TaskRec, NEW m \in MemoRec,
           NEW n \in Nat, NEW k \in Nat,
           k + Ahead(tk) <= Budget(m, n)
    PROVE  k + Ahead(RecoveredTask(pol, tk, m))
             <= Budget(RecoveredMemo(pol, tk, m), n)
<1>1. CASE ~IsStuck(pol, tk, m)
  BY <1>1 DEF RecoveredTask, RecoveredMemo
<1>2. CASE IsStuck(pol, tk, m) /\ ~Retries(pol, m)
  <2>1. Ahead(RecoveredTask(pol, tk, m)) = 0
    BY <1>2 DEF RecoveredTask, RecoveredStatus, Ahead, TaskRec, Queued, Absent
  <2>2. RecoveredMemo(pol, tk, m).attempts \in {m.attempts, m.attempts + 1}
    BY <1>2 DEF RecoveredMemo
  <2>3. QED
    BY <2>1, <2>2, LimitsAreNat DEF Budget, MemoRec, Ahead
<1>3. CASE IsStuck(pol, tk, m) /\ Retries(pol, m)
  <2>1. RecoveredMemo(pol, tk, m).attempts = m.attempts + 1
    BY <1>3, LimitsAreNat DEF RecoveredMemo, Retries, Policy, MemoRec
  <2>2. m.attempts + 1 <= MaxRetryLimit
    BY <1>3, LimitsAreNat DEF Retries, Policy, MemoRec
  <2>3. Ahead(RecoveredTask(pol, tk, m)) \in {0, 1}
    BY DEF Ahead
  <2>4. QED
    BY <2>1, <2>2, <2>3, LimitsAreNat DEF Budget, MemoRec, Ahead
<1>4. QED
  BY <1>1, <1>2, <1>3

LEMMA NextLaunch == TypeOK /\ LaunchInv /\ [Next]_vars => LaunchInv'
<1> SUFFICES ASSUME TypeOK, LaunchInv, [Next]_vars, NEW u \in Task
             PROVE  (launches[u] + Ahead(task[u])
                       <= Budget(memo[u], touches[u]))'
  BY DEF LaunchInv
<1> DEFINE Goal == launches[u] + Ahead(task[u]) <= Budget(memo[u], touches[u])
<1> USE DEF history, work
<1>0. /\ task[u] \in TaskRec /\ row[u] \in RowRec /\ memo[u] \in MemoRec
      /\ task \in [Task -> TaskRec] /\ memo \in [Task -> MemoRec]
      /\ launches \in [Task -> Nat] /\ touches \in [Task -> Nat]
      /\ launches[u] \in Nat /\ touches[u] \in Nat
      /\ policy \in Policy
      /\ Goal
  BY DEF TypeOK, TaskRec, RowRec, MemoRec, AnAgent, Policy, LaunchInv
<1>1. ASSUME NEW t \in Task, NEW a \in AnAgent, CreateTask(t, a)
      PROVE  Goal'
  BY <1>0, <1>1 DEF CreateTask, Exists, Ahead, Queued
<1>2. CASE Sweep
  BY <1>0, <1>2, RecoveryPays DEF Sweep
<1>3. CASE DispatchPendingTasks
  <2> DEFINE after == [t \in Task |-> RecoveredTask(policy, task[t], memo[t])]
             list  == {t \in Task : /\ after[t].status \in Queued
                                    /\ CanStart(after, t)}
  <2>1. PICK pick \in [list -> Agent], fate \in [list -> Fate] :
          /\ task' = [t \in Task |->
                        IF t \in list
                        THEN Dispatched(after[t], pick[t], fate[t])
                        ELSE after[t]]
          /\ memo' = [t \in Task |-> RecoveredMemo(policy, task[t], memo[t])]
          /\ launches' = [t \in Task |-> IF t \in list THEN launches[t] + 1
                                         ELSE launches[t]]
          /\ touches' = touches
    BY <1>3 DEF DispatchPendingTasks
  <2>2. launches[u] + Ahead(after[u])
          <= Budget(memo'[u], touches[u])
    BY <1>0, <2>1, RecoveryPays
  <2>3. CASE u \in list
    <3>1. Ahead(after[u]) = 1
      BY <2>3 DEF Ahead
    <3>2. Ahead(task'[u]) = 0
      BY <2>1, <2>3 DEF Ahead, Dispatched, Fate, Queued, Absent
    <3>3. QED
      BY <1>0, <2>1, <2>2, <2>3, <3>1, <3>2
  <2>4. CASE u \notin list
    BY <2>1, <2>2, <2>4
  <2>5. QED
    BY <2>3, <2>4
<1>4. ASSUME NEW t \in Task, NEW a \in Agent, Ends(t, a) PROVE Goal'
  <2>1. Ahead(task'[u]) <= Ahead(task[u])
    <3>1. CASE UNCHANGED <<task, row>>
      BY <3>1 DEF Ahead
    <3>2. ASSUME NEW o \in {"completed", "failed"}, Settles(t, o)
          PROVE  Ahead(task'[u]) <= Ahead(task[u])
      BY <1>0, <3>2 DEF Settles, Ahead, TaskRec, Queued, Absent
    <3>3. QED
      BY <1>4, <3>1, <3>2, EndsSettle
  <2>2. UNCHANGED <<launches, touches, memo>>
    BY <1>4, EndsSettle
  <2>3. Ahead(task'[u]) \in {0, 1} /\ Ahead(task[u]) \in {0, 1}
    BY DEF Ahead
  <2>4. QED
    BY <1>0, <2>1, <2>2, <2>3, LimitsAreNat DEF Budget, MemoRec
<1>5. ASSUME NEW t \in Task, BecomeIdle(t) PROVE Goal'
  BY <1>0, <1>5 DEF BecomeIdle, Ahead, TaskRec
<1>6. ASSUME NEW t \in Task, CooldownElapses(t) PROVE Goal'
  BY <1>0, <1>6 DEF CooldownElapses, Budget, MemoRec
<1>7. ASSUME NEW t \in Task, Exists(t), Intervene(t),
             task' = [task EXCEPT ![t] = task'[t]]
      PROVE  Goal'
  <2>1. UNCHANGED <<launches, memo>>
    BY <1>7 DEF Intervene
  <2>2. CASE u = t
    <3>1. touches'[u] = touches[u] + 1
      BY <1>0, <1>7, <2>2 DEF Intervene
    <3>2. Ahead(task'[u]) \in {0, 1} /\ Ahead(task[u]) \in {0, 1}
      BY DEF Ahead
    <3>3. QED
      BY <1>0, <2>1, <3>1, <3>2, LimitsAreNat DEF Budget, MemoRec
  <2>3. CASE u # t
    BY <1>0, <1>7, <2>1, <2>3 DEF Intervene
  <2>4. QED
    BY <2>2, <2>3
<1>8. ASSUME NEW t \in Task, NEW s \in TaskStatus, UpdateTaskStatus(t, s)
      PROVE  Goal'
  BY <1>0, <1>7, <1>8 DEF UpdateTaskStatus
<1>9. ASSUME NEW t \in Task, NEW s \in MemoryOnly, SetInMemory(t, s)
      PROVE  Goal'
  BY <1>0, <1>7, <1>9 DEF SetInMemory
<1>10. ASSUME NEW pol \in Policy, SetReliabilityPolicy(pol) PROVE Goal'
  BY <1>0, <1>10, RecoveryPays DEF SetReliabilityPolicy
<1>11. CASE Restart
  <2>1. PICK idl \in [Task -> BOOLEAN] :
          /\ task' = [t \in Task |-> RecoveredTask(policy,
                                       Loaded(row[t], idl[t]), NoMemo)]
          /\ memo' = [t \in Task |-> RecoveredMemo(policy,
                                       Loaded(row[t], idl[t]), NoMemo)]
    BY <1>11 DEF Restart
  <2>2. launches'[u] = 0 /\ touches'[u] = 0
    BY <1>11 DEF Restart
  <2>3. Loaded(row[u], idl[u]) \in TaskRec
    BY <1>0, LoadedType
  <2>4. 0 + Ahead(Loaded(row[u], idl[u])) <= Budget(NoMemo, 0)
    BY LimitsAreNat DEF Ahead, Budget, NoMemo
  <2>5. QED
    BY <1>0, <2>1, <2>2, <2>3, <2>4, NoMemoType, RecoveryPays
<1>12. CASE UNCHANGED vars
  BY <1>0, <1>12 DEF vars
<1>13. QED
  BY <1>1, <1>2, <1>3, <1>4, <1>5, <1>6, <1>8, <1>9, <1>10, <1>11, <1>12
     DEF Next, Ends, Operator, AnAgent, Policy, CancelTask, DropTask,
         RequestRollback, ApplyRollback, MemoryOnly

\* A process starts a task at most once, plus once per retry the policy's
\* clamp allows, plus once per operator request on it.
THEOREM LaunchesBounded == Spec => []LaunchBudget
<1>1. Init => LaunchInv
  BY LimitsAreNat DEF Init, LaunchInv, Ahead, Budget, NoTask, NoMemo
<1>2. TypeOK /\ LaunchInv => LaunchBudget
  <2> SUFFICES ASSUME TypeOK, LaunchInv, NEW t \in Task
               PROVE  launches[t] <= Budget(memo[t], touches[t])
    BY DEF LaunchBudget, Budget
  <2>1. launches[t] \in Nat /\ touches[t] \in Nat /\ memo[t].attempts \in Nat
    BY LimitsAreNat DEF TypeOK
  <2>2. Ahead(task[t]) \in {0, 1}
    BY DEF Ahead
  <2>3. QED
    BY <2>1, <2>2, LimitsAreNat DEF LaunchInv, Budget
<1>3. QED
  BY <1>1, <1>2, NextLaunch, TypeCorrect, PTL DEF Spec

-----------------------------------------------------------------------------
(* Quarantine.                                                             *)

\* No timer and no late outcome releases a quarantined task.
LEMMA QuarantineStays ==
    ASSUME TypeOK, [Next]_vars, NEW u \in Task, Quarantined(u),
           touches'[u] = touches[u], policy' = policy, restarts' = restarts
    PROVE  task'[u].status \notin Queued \union {"in_progress"}
<1> USE DEF Quarantined
<1> DEFINE Goal == task'[u].status \notin Queued \union {"in_progress"}
<1> USE DEF history, work
<1>0. /\ task[u] \in TaskRec /\ memo[u] \in MemoRec /\ policy \in Policy
      /\ task \in [Task -> TaskRec] /\ touches \in [Task -> Nat]
  BY DEF TypeOK, TaskRec, MemoRec, AnAgent, Policy
<1>1. RecoveredTask(policy, task[u], memo[u]).status = "blocked"
  <2>1. ~Retries(policy, memo[u])
    BY <1>0, LimitsAreNat DEF Retries, MemoRec, Policy
  <2>2. QED
    BY <1>0, <2>1 DEF RecoveredTask, RecoveredStatus, TaskRec
<1>2. ASSUME NEW t \in Task, NEW a \in AnAgent, CreateTask(t, a)
      PROVE  Goal
  BY <1>0, <1>2 DEF CreateTask, Exists, Absent, Queued
<1>3. CASE Sweep
  BY <1>1, <1>3 DEF Sweep, Queued
<1>4. CASE DispatchPendingTasks
  <2> DEFINE after == [t \in Task |->
                         RecoveredTask(policy, task[t], memo[t])]
             list  == {t \in Task : /\ after[t].status \in Queued
                                    /\ CanStart(after, t)}
  <2>1. PICK pick \in [list -> Agent], fate \in [list -> Fate] :
           task' = [t \in Task |->
                      IF t \in list
                      THEN Dispatched(after[t], pick[t], fate[t])
                      ELSE after[t]]
    BY <1>4 DEF DispatchPendingTasks
  <2>2. after[u].status = "blocked"
    BY <1>1
  <2>3. u \notin list
    BY <2>2 DEF Queued
  <2> HIDE DEF after, list
  <2>4. task'[u] = after[u]
    BY <2>1, <2>3
  <2>5. QED
    BY <2>2, <2>4 DEF Queued
<1>5. ASSUME NEW t \in Task, NEW a \in Agent, Ends(t, a) PROVE Goal
  <2>1. CASE UNCHANGED <<task, row>>
    BY <2>1 DEF Queued
  <2>2. ASSUME NEW o \in {"completed", "failed"}, Settles(t, o) PROVE Goal
    BY <1>0, <2>2 DEF Settles, TaskRec, Queued
  <2>3. QED
    BY <1>5, <2>1, <2>2, EndsSettle
<1>6. ASSUME NEW t \in Task, BecomeIdle(t) PROVE Goal
  BY <1>0, <1>6 DEF BecomeIdle, TaskRec, Queued
<1>7. ASSUME NEW t \in Task, CooldownElapses(t) PROVE Goal
  BY <1>7 DEF CooldownElapses, Queued
<1>8. ASSUME NEW t \in Task, Intervene(t),
             task' = [task EXCEPT ![t] = task'[t]]
      PROVE  Goal
  BY <1>0, <1>8 DEF Intervene, Queued
<1>9. CASE Operator
  <2>1. ASSUME NEW pol \in Policy, SetReliabilityPolicy(pol) PROVE Goal
    <3>1. pol = policy
      BY <2>1 DEF SetReliabilityPolicy
    <3>2. QED
      BY <2>1, <3>1, <1>1 DEF SetReliabilityPolicy, Queued
  <2>2. QED
    BY <1>0, <1>8, <1>9, <2>1
       DEF Operator, UpdateTaskStatus, SetInMemory, CancelTask, DropTask,
           RequestRollback, ApplyRollback, Policy
<1>10. CASE Restart
  BY <1>10, LimitsAreNat DEF Restart, TypeOK
<1>11. CASE UNCHANGED vars
  BY <1>11 DEF vars, Queued
<1>12. QED
  BY <1>2, <1>3, <1>4, <1>5, <1>6, <1>7, <1>9, <1>10, <1>11
     DEF Next, Ends, AnAgent

-----------------------------------------------------------------------------
(* Dependencies.                                                           *)

\* Recovery completes nothing: what is completed after it was so before.
LEMMA RecoveryCompletesNothing ==
    ASSUME NEW pol \in Policy, NEW tk \in TaskRec, NEW m \in MemoRec,
           RecoveredTask(pol, tk, m).status = "completed"
    PROVE  tk.status = "completed"
BY DEF RecoveredTask, RecoveredStatus, TaskRec

\* Only the dispatcher starts tasks.
LEMMA OnlyDispatchLaunches ==
    ASSUME TypeOK, [Next]_vars, NEW t \in Task, launches'[t] > launches[t]
    PROVE  DispatchPendingTasks
<1>1. launches[t] \in Nat /\ ~(launches[t] > launches[t]) /\ ~(0 > launches[t])
  BY DEF TypeOK
<1>2. UNCHANGED launches => FALSE
  BY <1>1
<1>3. ASSUME NEW u \in Task, NEW a \in Agent \union {NoAgent}, CreateTask(u, a)
      PROVE  FALSE
  BY <1>2, <1>3 DEF CreateTask, history
<1>4. ASSUME NEW u \in Task, NEW a \in Agent, Ends(u, a) PROVE FALSE
  BY <1>2, <1>4, EndsSettle
<1>5. ASSUME NEW u \in Task, BecomeIdle(u) \/ CooldownElapses(u) PROVE FALSE
  BY <1>2, <1>5 DEF BecomeIdle, CooldownElapses, history
<1>6. CASE Sweep
  BY <1>2, <1>6 DEF Sweep, history
<1>7. CASE Operator
  BY <1>2, <1>7 DEF Operator, UpdateTaskStatus, SetInMemory, CancelTask, DropTask,
                    RequestRollback, ApplyRollback, SetReliabilityPolicy,
                    Intervene, history
<1>8. CASE Restart
  BY <1>1, <1>8 DEF Restart
<1>9. CASE UNCHANGED vars
  BY <1>2, <1>9 DEF vars, history
<1>10. QED
  BY <1>3, <1>4, <1>5, <1>6, <1>7, <1>8, <1>9 DEF Next, Ends

\* A task is started only when every task it depends on was completed before
\* the dispatcher's pass began, whatever the pass recovers or starts.
LEMMA WaitingTasksWait ==
    ASSUME TypeOK, [Next]_vars, NEW t \in Task, launches'[t] > launches[t],
           NEW d \in Deps[t]
    PROVE  task[d].status = "completed"
<1> DEFINE after == [u \in Task |-> RecoveredTask(policy, task[u], memo[u])]
           list  == {u \in Task : /\ after[u].status \in Queued
                                  /\ CanStart(after, u)}
<1>1. launches' = [u \in Task |->
                     IF u \in list THEN launches[u] + 1 ELSE launches[u]]
  BY OnlyDispatchLaunches DEF DispatchPendingTasks
<1>2. t \in list
  <2>1. launches[t] \in Nat /\ ~(launches[t] > launches[t])
    BY DEF TypeOK
  <2> HIDE DEF list
  <2>2. QED
    BY <1>1, <2>1
<1>3. d \in Task /\ after[d].status = "completed"
  BY <1>2, DepsType DEF CanStart
<1>4. /\ task[d] \in TaskRec /\ memo[d] \in MemoRec /\ policy \in Policy
  BY <1>3 DEF TypeOK, TaskRec, MemoRec, Policy, AnAgent
<1>5. QED
  BY <1>3, <1>4, RecoveryCompletesNothing

(* No step starts a task that waits for another one, and no timer and no   *)
(* late outcome starts or re-queues a quarantined one                      *)
(* (OrchestratorService.recoverStuckEntries, dispatchPendingTasks).        *)
THEOREM HeldStay == Spec => HeldTasksStay
<1> DEFINE Stays(t) ==
             /\ Waiting(t) => ~(launches'[t] > launches[t])
             /\ /\ Quarantined(t)
                /\ touches'[t] = touches[t]
                /\ policy' = policy
                /\ restarts' = restarts
                => task'[t].status \notin Queued \union {"in_progress"}
<1>1. TypeOK /\ [Next]_vars => [\A t \in Task : Stays(t)]_vars
  <2> SUFFICES ASSUME TypeOK, [Next]_vars, NEW t \in Task PROVE Stays(t)
    OBVIOUS
  <2>1. Waiting(t) => ~(launches'[t] > launches[t])
    BY WaitingTasksWait DEF Waiting
  <2>2. QED
    BY <2>1, QuarantineStays
<1>2. QED
  BY <1>1, TypeCorrect, PTL DEF Spec, HeldTasksStay

-----------------------------------------------------------------------------
(* The limiter.                                                            *)

\* An agent's executions in their loop when r says how many of each task.
InFlight(r, a) == {e \in Task \X (Nat \ {0}) : e[2] <= r[e[1]][a]}

\* The set that is counted, however many tasks there are, is finite.
SlotsInv ==
    \A a \in Agent : /\ IsFiniteSet(InFlight(running, a))
                     /\ slots[a] = Cardinality(InFlight(running, a)) + leaked[a]
                     /\ slots[a] <= MaxConcurrent

RunCounts == [Task -> [Agent -> Nat]]

\* Counting by pairs is what the invariant does.
LEMMA LoopsInFlight ==
    ASSUME running \in RunCounts, NEW a \in Agent
    PROVE  Loops(a) = InFlight(running, a)
<1>1. \A t \in Task : running[t][a] \in Nat
  BY DEF RunCounts
<1>2. ASSUME NEW e \in Loops(a) PROVE e \in InFlight(running, a)
  <2>1. PICK t \in Task : e \in {t} \X (1..running[t][a])
    BY <1>2 DEF Loops
  <2>2. PICK i \in 1..running[t][a] : e = <<t, i>>
    BY <2>1
  <2>3. QED
    BY <1>1, <2>2 DEF InFlight
<1>3. ASSUME NEW e \in InFlight(running, a) PROVE e \in Loops(a)
  <2>1. PICK t \in Task, i \in Nat \ {0} : e = <<t, i>>
    BY <1>3 DEF InFlight
  <2>2. i \in 1..running[t][a]
    BY <1>1, <1>3, <2>1 DEF InFlight
  <2>3. e \in {t} \X (1..running[t][a])
    BY <2>1, <2>2
  <2>4. QED
    BY <2>3 DEF Loops
<1>4. QED
  BY <1>2, <1>3

\* A process without executions.
LEMMA NoneInFlight ==
    ASSUME NEW a \in Agent
    PROVE  /\ IsFiniteSet(InFlight(NoRuns, a))
           /\ Cardinality(InFlight(NoRuns, a)) = 0
<1>1. InFlight(NoRuns, a) = {}
  BY DEF InFlight, NoRuns
<1>2. QED
  BY <1>1, FS_EmptySet

\* A pass that starts one more execution of each task of W starts as many as
\* there are tasks in W.
LEMMA StartedAreCounted ==
    ASSUME NEW a \in Agent, NEW r \in RunCounts, NEW s \in RunCounts,
           NEW W \in SUBSET Task, IsFiniteSet(InFlight(r, a)),
           \A t \in Task : s[t][a] = IF t \in W THEN r[t][a] + 1 ELSE r[t][a]
    PROVE  /\ IsFiniteSet(InFlight(s, a))
           /\ Cardinality(InFlight(s, a)) =
                Cardinality(InFlight(r, a)) + Cardinality(W)
<1> DEFINE new == {e \in Task \X (Nat \ {0}) : /\ e[1] \in W
                                               /\ e[2] = r[e[1]][a] + 1}
           f   == [t \in W |-> <<t, r[t][a] + 1>>]
<1>1. \A t \in Task : r[t][a] \in Nat
  BY DEF RunCounts
<1>2. IsFiniteSet(W)
  BY TaskFinite, FS_Subset
<1>3. f \in Bijection(W, new)
  <2>1. \A t \in W : f[t] \in new
    BY <1>1
  <2>2. f \in [W -> new]
    BY <2>1
  <2>3. \A t, u \in W : f[t] = f[u] => t = u
    OBVIOUS
  <2>4. ASSUME NEW e \in new PROVE \E t \in W : f[t] = e
    BY <2>4
  <2>5. QED
    BY <2>2, <2>3, <2>4 DEF Bijection, Injection, Surjection, IsInjective
<1>4. IsFiniteSet(new) /\ Cardinality(new) = Cardinality(W)
  BY <1>2, <1>3, FS_Bijection DEF ExistsBijection
<1>5. InFlight(s, a) = InFlight(r, a) \union new
  <2>1. ASSUME NEW t \in Task, NEW i \in Nat \ {0}
        PROVE  <<t, i>> \in InFlight(s, a)
                 <=> <<t, i>> \in InFlight(r, a) \union new
    BY <1>1 DEF InFlight
  <2>2. QED
    BY <2>1 DEF InFlight
<1>6. InFlight(r, a) \intersect new = {}
  BY <1>1 DEF InFlight
<1>7. /\ IsFiniteSet(InFlight(r, a) \union new)
      /\ Cardinality(InFlight(r, a) \union new) =
           Cardinality(InFlight(r, a)) + Cardinality(new)
             - Cardinality(InFlight(r, a) \intersect new)
  <2> HIDE DEF new
  <2>1. QED
    BY <1>4, FS_Union
<1>8. Cardinality(InFlight(r, a) \intersect new) = 0
  BY <1>6, FS_EmptySet
<1>9. Cardinality(InFlight(r, a)) \in Nat /\ Cardinality(W) \in Nat
  BY <1>2, FS_CardinalityType
<1>10. QED
  <2> HIDE DEF new
  <2>1. QED
    BY <1>4, <1>5, <1>7, <1>8, <1>9

\* An execution that ends is one execution less, of its agent only.
LEMMA EndedIsCounted ==
    ASSUME NEW a \in Agent, NEW r \in RunCounts, NEW t \in Task, r[t][a] > 0,
           NEW s \in RunCounts, IsFiniteSet(InFlight(r, a)),
           \A u \in Task, b \in Agent :
              s[u][b] = IF u = t /\ b = a THEN r[t][a] - 1 ELSE r[u][b]
    PROVE  /\ IsFiniteSet(InFlight(s, a))
           /\ Cardinality(InFlight(s, a)) = Cardinality(InFlight(r, a)) - 1
           /\ Cardinality(InFlight(r, a)) \in Nat \ {0}
           /\ \A b \in Agent \ {a} : InFlight(s, b) = InFlight(r, b)
<1> DEFINE e == <<t, r[t][a]>>
<1>1. \A u \in Task, b \in Agent : r[u][b] \in Nat
  BY DEF RunCounts
<1>2. \A u \in Task, b \in Agent :
         s[u][b] = IF u = t /\ b = a THEN r[t][a] - 1 ELSE r[u][b]
  OBVIOUS
<1>3. e \in InFlight(r, a)
  BY <1>1 DEF InFlight
<1>4. InFlight(s, a) = InFlight(r, a) \ {e}
  <2>1. ASSUME NEW u \in Task, NEW i \in Nat \ {0}
        PROVE  <<u, i>> \in InFlight(s, a) <=> <<u, i>> \in InFlight(r, a) \ {e}
    BY <1>1, <1>2 DEF InFlight
  <2>2. QED
    BY <2>1 DEF InFlight
<1>5. \A b \in Agent \ {a} : InFlight(s, b) = InFlight(r, b)
  BY <1>2 DEF InFlight
<1>6. /\ IsFiniteSet(InFlight(r, a) \ {e})
      /\ Cardinality(InFlight(r, a) \ {e}) = Cardinality(InFlight(r, a)) - 1
  BY <1>3, FS_RemoveElement
<1>7. Cardinality(InFlight(r, a)) \in Nat /\ Cardinality(InFlight(r, a)) # 0
  BY <1>3, FS_CardinalityType, FS_EmptySet
<1>8. QED
  BY <1>4, <1>5, <1>6, <1>7

\* The dispatcher takes a slot for each execution that it starts and for each
\* that throws at once, and no more of them than were free.
LEMMA DispatchCounts ==
    ASSUME TypeOK, SlotsInv, DispatchPendingTasks, running' \in RunCounts
    PROVE  SlotsInv'
<1> DEFINE after == [t \in Task |-> RecoveredTask(policy, task[t], memo[t])]
           list  == {t \in Task : /\ after[t].status \in Queued
                                  /\ CanStart(after, t)}
<1>1. PICK pick \in [list -> Agent], fate \in [list -> Fate] :
        LET With(a, F) == {t \in list : pick[t] = a /\ fate[t] \in F}
        IN
        /\ \A a \in Agent : Admits(a, With(a, Fate), With(a, {"started", "thrown"}))
        /\ running' = [t \in Task |-> [a \in Agent |->
                         IF t \in With(a, {"started"})
                         THEN running[t][a] + 1 ELSE running[t][a]]]
        /\ slots' = [a \in Agent |-> slots[a]
                       + Cardinality(With(a, {"started", "thrown"}))]
        /\ leaked' = [a \in Agent |-> leaked[a] + Cardinality(With(a, {"thrown"}))]
  BY DEF DispatchPendingTasks
<1>2. list \subseteq Task
  OBVIOUS
<1> HIDE DEF after, list
<1> SUFFICES ASSUME NEW a \in Agent
             PROVE  /\ IsFiniteSet(InFlight(running', a))
                    /\ slots'[a] = Cardinality(InFlight(running', a)) + leaked'[a]
                    /\ slots'[a] <= MaxConcurrent
  BY DEF SlotsInv, InFlight
<1> DEFINE With(F) == {t \in list : pick[t] = a /\ fate[t] \in F}
           mine    == With(Fate)
           won     == With({"started", "thrown"})
           going   == With({"started"})
           lost    == With({"thrown"})
<1>3. \A F \in SUBSET Fate : With(F) \in SUBSET Task
  BY <1>2
<1>4. {mine, won, going, lost} \subseteq SUBSET Task
  BY <1>3 DEF Fate
<1>5. \A S \in SUBSET Task : IsFiniteSet(S) /\ Cardinality(S) \in Nat
  BY TaskFinite, FS_Subset, FS_CardinalityType
<1>6. Cardinality(won) = Cardinality(going) + Cardinality(lost)
  <2>1. won = going \union lost
    OBVIOUS
  <2>2. going \intersect lost = {}
    OBVIOUS
  <2> HIDE DEF won, going, lost
  <2>3. Cardinality(going \intersect lost) = 0
    BY <2>2, FS_EmptySet
  <2>4. Cardinality(going \union lost) = Cardinality(going) + Cardinality(lost)
                                         - Cardinality(going \intersect lost)
    BY <1>4, <1>5, FS_Union
  <2>5. QED
    BY <1>4, <1>5, <2>1, <2>3, <2>4
<1>7. /\ slots'[a] = slots[a] + Cardinality(won)
      /\ leaked'[a] = leaked[a] + Cardinality(lost)
  BY <1>1
<1>8. Cardinality(won) <= FreeSlots(a)
  <2>1. Cardinality(won) =
          IF Cardinality(mine) < FreeSlots(a) THEN Cardinality(mine)
          ELSE FreeSlots(a)
    BY <1>1 DEF Admits
  <2>2. FreeSlots(a) \in Nat
    BY LimitsAreNat DEF TypeOK, FreeSlots
  <2> HIDE DEF won, mine
  <2>3. QED
    BY <1>4, <1>5, <2>1, <2>2
<1>9. /\ IsFiniteSet(InFlight(running', a))
      /\ Cardinality(InFlight(running', a)) =
           Cardinality(InFlight(running, a)) + Cardinality(going)
  <2>1. \A t \in Task : running'[t][a] = IF t \in going THEN running[t][a] + 1
                                         ELSE running[t][a]
    BY <1>1
  <2>2. running \in RunCounts /\ IsFiniteSet(InFlight(running, a))
    BY DEF TypeOK, SlotsInv, RunCounts
  <2> HIDE DEF going
  <2>3. QED
    BY <1>4, <2>1, <2>2, StartedAreCounted
<1>10. /\ slots[a] \in Nat /\ slots[a] <= MaxConcurrent /\ leaked[a] \in Nat
       /\ slots[a] = Cardinality(InFlight(running, a)) + leaked[a]
       /\ IsFiniteSet(InFlight(running, a))
  BY DEF TypeOK, SlotsInv
<1>11. Cardinality(InFlight(running, a)) \in Nat
  BY <1>10, FS_CardinalityType
<1> HIDE DEF won, going, lost
<1>12. slots[a] + Cardinality(won) <= MaxConcurrent
  BY <1>4, <1>5, <1>8, <1>10, LimitsAreNat DEF FreeSlots
<1>13. slots'[a] = Cardinality(InFlight(running', a)) + leaked'[a]
  BY <1>4, <1>5, <1>6, <1>7, <1>9, <1>10, <1>11
<1>14. QED
  BY <1>7, <1>9, <1>12, <1>13

\* The slot of an execution is given back once, when its loop is over.
LEMMA EndCounts ==
    ASSUME TypeOK, SlotsInv, NEW t \in Task, NEW a \in Agent,
           running[t][a] > 0, running' = [running EXCEPT ![t][a] = @ - 1],
           Release(a), leaked' = leaked
    PROVE  SlotsInv'
<1>1. /\ running[t][a] > 0 /\ running' = [running EXCEPT ![t][a] = @ - 1]
      /\ slots' = [slots EXCEPT ![a] = IF @ > 1 THEN @ - 1 ELSE 0]
  BY DEF Release
<1>2. /\ running \in RunCounts /\ slots \in [Agent -> Nat]
      /\ leaked \in [Agent -> Nat]
  BY DEF TypeOK, RunCounts
<1>3. /\ IsFiniteSet(InFlight(running', a))
      /\ Cardinality(InFlight(running', a)) =
           Cardinality(InFlight(running, a)) - 1
      /\ Cardinality(InFlight(running, a)) \in Nat \ {0}
      /\ \A b \in Agent \ {a} : InFlight(running', b) = InFlight(running, b)
  <2>1. IsFiniteSet(InFlight(running, a))
    BY DEF SlotsInv
  <2>2. \A u \in Task, b \in Agent :
           running'[u][b] = IF u = t /\ b = a THEN running[t][a] - 1
                            ELSE running[u][b]
    BY <1>1, <1>2 DEF RunCounts
  <2>3. running' \in RunCounts
    BY <1>1, <1>2 DEF RunCounts
  <2>4. PICK r, s : r = running /\ s = running'
    OBVIOUS
  <2>5. /\ r \in RunCounts /\ s \in RunCounts /\ r[t][a] > 0
        /\ IsFiniteSet(InFlight(r, a))
        /\ \A u \in Task, b \in Agent :
              s[u][b] = IF u = t /\ b = a THEN r[t][a] - 1 ELSE r[u][b]
    BY <1>1, <1>2, <2>1, <2>2, <2>3, <2>4
  <2>6. /\ IsFiniteSet(InFlight(s, a))
        /\ Cardinality(InFlight(s, a)) = Cardinality(InFlight(r, a)) - 1
        /\ Cardinality(InFlight(r, a)) \in Nat \ {0}
        /\ \A b \in Agent \ {a} : InFlight(s, b) = InFlight(r, b)
    BY <2>5, EndedIsCounted
  <2>7. QED
    BY <2>4, <2>6
<1>4. /\ slots[a] = Cardinality(InFlight(running, a)) + leaked[a]
      /\ slots[a] <= MaxConcurrent
      /\ slots[a] \in Nat /\ leaked[a] \in Nat
  BY <1>2 DEF SlotsInv
<1>5. slots'[a] = slots[a] - 1
  BY <1>1, <1>2, <1>3, <1>4
<1>6. /\ slots'[a] = Cardinality(InFlight(running', a)) + leaked'[a]
      /\ slots'[a] <= MaxConcurrent
  BY <1>3, <1>4, <1>5, LimitsAreNat
<1>7. \A b \in Agent \ {a} : slots'[b] = slots[b] /\ leaked'[b] = leaked[b]
  BY <1>1, <1>2
<1>8. \A b \in Agent :
         /\ IsFiniteSet(InFlight(running', b))
         /\ slots'[b] = Cardinality(InFlight(running', b)) + leaked'[b]
         /\ slots'[b] <= MaxConcurrent
  BY <1>3, <1>6, <1>7 DEF SlotsInv
<1>9. QED
  BY <1>8 DEF SlotsInv, InFlight

\* Every step keeps the count.
LEMMA NextSlots == TypeOK /\ TypeOK' /\ SlotsInv /\ [Next]_vars => SlotsInv'
<1> SUFFICES ASSUME TypeOK, TypeOK', SlotsInv, [Next]_vars PROVE SlotsInv'
  OBVIOUS
<1>1. CASE UNCHANGED <<running, slots, leaked>>
  BY <1>1 DEF SlotsInv, InFlight
<1>2. CASE DispatchPendingTasks
  <2>1. running' \in RunCounts
    BY DEF TypeOK, RunCounts
  <2>2. QED
    BY <1>2, <2>1, DispatchCounts
<1>3. ASSUME NEW t \in Task, NEW a \in Agent, LoopEnds(t, a) PROVE SlotsInv'
  <2>1. /\ running[t][a] > 0 /\ running' = [running EXCEPT ![t][a] = @ - 1]
        /\ Release(a) /\ leaked' = leaked
    BY <1>3 DEF LoopEnds
  <2>2. QED
    BY <2>1, EndCounts
<1>4. ASSUME NEW t \in Task, NEW a \in Agent, ExecutionFails(t, a)
      PROVE  SlotsInv'
  <2>1. /\ running[t][a] > 0 /\ running' = [running EXCEPT ![t][a] = @ - 1]
        /\ Release(a) /\ leaked' = leaked
    BY <1>4 DEF ExecutionFails
  <2>2. QED
    BY <2>1, EndCounts
<1>5. ASSUME NEW t \in Task, NEW a \in Agent, ExecutionCompletes(t, a)
      PROVE  SlotsInv'
  BY <1>1, <1>5 DEF ExecutionCompletes
<1>6. CASE Restart
  <2>1. /\ running' = NoRuns /\ slots' = [a \in Agent |-> 0]
        /\ leaked' = [a \in Agent |-> 0]
    BY <1>6 DEF Restart
  <2>2. \A a \in Agent :
           /\ IsFiniteSet(InFlight(running', a))
           /\ slots'[a] = Cardinality(InFlight(running', a)) + leaked'[a]
           /\ slots'[a] <= MaxConcurrent
    BY <2>1, NoneInFlight, LimitsAreNat
  <2>3. QED
    BY <2>2 DEF SlotsInv, InFlight
<1>7. CASE Operator
  BY <1>1, <1>7
     DEF Operator, UpdateTaskStatus, SetInMemory, CancelTask, DropTask,
         RequestRollback, ApplyRollback, SetReliabilityPolicy, Intervene, work
<1>8. CASE Sweep
  BY <1>1, <1>8 DEF Sweep, work
<1>9. ASSUME NEW t \in Task, NEW a \in Agent \union {NoAgent}, CreateTask(t, a)
      PROVE  SlotsInv'
  BY <1>1, <1>9 DEF CreateTask, work
<1>10. ASSUME NEW t \in Task, BecomeIdle(t) \/ CooldownElapses(t)
       PROVE  SlotsInv'
  BY <1>1, <1>10 DEF BecomeIdle, CooldownElapses, work
<1>11. CASE UNCHANGED vars
  BY <1>1, <1>11 DEF vars, work
<1>12. QED
  BY <1>2, <1>3, <1>4, <1>5, <1>6, <1>7, <1>8, <1>9, <1>10, <1>11 DEF Next

(* ConcurrencyLimiter counts the executions in their loop, each once, and  *)
(* those that threw before it, and never more than maxConcurrentTasks:     *)
(* whatever becomes of the tasks meanwhile, no slot is given back twice,   *)
(* and none is lost but the ones taken by Agent.process before its try.    *)
THEOREM SlotsAlwaysLoops == Spec => []SlotsAreLoops
<1>1. Init => SlotsInv
  BY NoneInFlight, LimitsAreNat DEF Init, SlotsInv
<1>2. TypeOK /\ SlotsInv => SlotsAreLoops
  <2>1. TypeOK => running \in RunCounts
    BY DEF TypeOK, RunCounts
  <2>2. QED
    BY <2>1, LoopsInFlight DEF SlotsInv, SlotsAreLoops
<1>3. QED
  BY <1>1, <1>2, NextSlots, TypeCorrect, PTL DEF Spec

=============================================================================
