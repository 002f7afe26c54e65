------------------------- MODULE PlanExecutorProofs --------------------------
(***************************************************************************)
(* PlanExecutor keeps the promise of PlanRuns: for every set of nodes and  *)
(* executions, every shape of the plan and every limit.                    *)
(***************************************************************************)
EXTENDS PlanExecutor, FiniteSetTheorems, WellFoundedInduction, TLAPS

ExecRecord == [pc : {"idle", "batch", "poll", "over"}, plan : PlanRecord,
               aborted : BOOLEAN, work : [Node -> WorkRecord]]

Signalled == Execution \union {None}

\* The execution whose controller is kept can be told to stop.
ControllerIsLive ==
    controller # None => Alive(controller) /\ ~exec[controller].aborted

PlanInv == TypeOK /\ ControllerIsLive

-----------------------------------------------------------------------------
(* What a turn and the settling of a node make of an execution.            *)

\* Execution e stands at pc with object Q and work w afterwards.
Stands(e, pc, Q, w) ==
    /\ exec' = [exec EXCEPT ![e] = [exec[e] EXCEPT !.pc = pc, !.plan = Q, !.work = w]]
    /\ stored' = Q

\* The work that is under way is what was started.
Started(P, Q, w) ==
    \A n \in Node :
        /\ w[n].at # "none" <=> P.node[n] = "pending" /\ Q.node[n] = "running"
        /\ \/ Q.node[n] = P.node[n]
           \/ /\ P.node[n] = "pending" /\ Q.node[n] = "running"
              /\ \A d \in deps[n] : d \in Node /\ Q.node[d] \in {"done", "skipped"}

TurnsTo(e, P, c, pc, Q, w) ==
    /\ Stands(e, pc, Q, w)
    /\ Started(P, Q, w)
    /\ pc = "batch" <=> \E n \in Node : w[n].at # "none"
    /\ pc = "over" => controller' = None
    /\ pc # "over" => controller' = c /\ ~exec[e].aborted

\* There is no work in NoWork.
LEMMA NoWorkType == NoWork \in [Node -> WorkRecord]
BY ConfigType DEF NoWork, WorkRecord

LEMMA FinishOutcome ==
    ASSUME TypeOK, NEW e \in Execution, NEW P \in PlanRecord, NEW c \in Signalled,
           Finish(e, P)
    PROVE  \E Q \in PlanRecord : TurnsTo(e, P, c, "over", Q, NoWork)
<1> DEFINE Q == [P EXCEPT !.status = IF HasFailed(P) THEN "failed" ELSE "done"]
<1>1. Q \in PlanRecord /\ Q.node = P.node
  BY DEF PlanRecord, PlanStatus
<1>2. exec' = [exec EXCEPT ![e].pc = "over", ![e].plan = Q, ![e].work = NoWork]
      /\ stored' = Q /\ controller' = None
  BY DEF Finish
<1> HIDE DEF Q
<1>3. Stands(e, "over", Q, NoWork)
  BY <1>2 DEF Stands, TypeOK
<1>4. Started(P, Q, NoWork)
  BY <1>1 DEF Started, NoWork
<1>5. QED
  BY <1>1, <1>2, <1>3, <1>4 DEF TurnsTo, NoWork

LEMMA WaitOutcome ==
    ASSUME TypeOK, NEW e \in Execution, NEW P \in PlanRecord, NEW c \in Signalled,
           WaitForOthers(e, P, c), ~exec[e].aborted
    PROVE  TurnsTo(e, P, c, "poll", P, NoWork)
<1>1. Stands(e, "poll", P, NoWork)
  BY DEF WaitForOthers, Stands, TypeOK
<1>2. Started(P, P, NoWork)
  BY DEF Started, NoWork
<1>3. QED
  BY <1>1, <1>2 DEF TurnsTo, NoWork, WaitForOthers

LEMMA LaunchOutcome ==
    ASSUME TypeOK, NEW e \in Execution, NEW P \in PlanRecord, NEW c \in Signalled,
           LaunchBatch(e, P, c), ~exec[e].aborted, Ready(P) # {}
    PROVE  \E Q \in PlanRecord, w \in [Node -> WorkRecord] :
              TurnsTo(e, P, c, "batch", Q, w)
<1> DEFINE Q == [P EXCEPT !.node = [n \in Node |->
                   IF n \in Ready(P) THEN "running" ELSE P.node[n]]]
           w == [n \in Node |->
                   [at |-> IF n \in Ready(P) THEN "attempt" ELSE "none", tries |-> 0]]
<1>1. Q \in PlanRecord
  BY DEF PlanRecord, NodeStatus
<1>2. w \in [Node -> WorkRecord]
  BY ConfigType DEF WorkRecord
<1>3. Stands(e, "batch", Q, w) /\ controller' = c
  BY DEF LaunchBatch, Stands, TypeOK
<1>4. \A n \in Node : /\ Q.node[n] = IF n \in Ready(P) THEN "running" ELSE P.node[n]
                      /\ w[n].at # "none" <=> n \in Ready(P)
  BY DEF PlanRecord
<1>5. Ready(P) \subseteq Node /\ \A n \in Ready(P) : P.node[n] = "pending"
  BY DEF Ready
<1> HIDE DEF Q, w
<1>6. Started(P, Q, w)
  BY <1>4, <1>5 DEF Started, Ready
<1>7. QED
  BY <1>1, <1>2, <1>3, <1>4, <1>5, <1>6 DEF TurnsTo

LEMMA TurnOutcome ==
    ASSUME TypeOK, NEW e \in Execution, NEW P \in PlanRecord, NEW c \in Signalled,
           Turn(e, P, c)
    PROVE  \E pc \in {"batch", "poll", "over"}, Q \in PlanRecord,
              w \in [Node -> WorkRecord] : TurnsTo(e, P, c, pc, Q, w)
<1>1. CASE Finish(e, P)
  BY <1>1, FinishOutcome, NoWorkType
<1>2. CASE ~exec[e].aborted /\ Ready(P) # {} /\ LaunchBatch(e, P, c)
  BY <1>2, LaunchOutcome
<1>3. CASE ~exec[e].aborted /\ WaitForOthers(e, P, c)
  BY <1>3, WaitOutcome, NoWorkType
<1>4. QED
  BY <1>1, <1>2, <1>3 DEF Turn

-----------------------------------------------------------------------------
(* What the steps of an execution that is alive come to.                   *)

\* Some nodes under way settle, and nodes that are ready start.
Works(e, pc, Q, w) ==
    /\ Stands(e, pc, Q, w)
    /\ pc = "batch" <=> \E n \in Node : w[n].at # "none"
    /\ \A n \in Node :
          \/ Q.node[n] = exec[e].plan.node[n]
          \/ n \in Under(e) /\ Q.node[n] \in {"done", "failed", "skipped"}
          \/ /\ ~exec[e].aborted
             /\ exec[e].plan.node[n] = "pending" /\ Q.node[n] = "running"
             /\ \A d \in deps[n] : d \in Node /\ Q.node[d] \in {"done", "skipped"}
    /\ \A n \in Node :
          w[n].at # "none" <=>
             \/ exec[e].plan.node[n] = "pending" /\ Q.node[n] = "running"
             \/ n \in Under(e) /\ Q.node[n] = "running"
    /\ controller' # None => pc # "over" /\ controller' = controller

Kept == UNCHANGED <<deps, restarts, seen>>

\* A node that settles while others of its batch are under way.
LEMMA BatchGoesOn ==
    ASSUME TypeOK, NEW e \in Execution, exec[e].pc = "batch", NEW n \in Node, NEW P,
           exec' = [exec EXCEPT ![e].plan = P,
                                ![e].work[n] = [at |-> "none", tries |-> 0]],
           stored' = P
    PROVE  LET w == [exec[e].work EXCEPT ![n] = [at |-> "none", tries |-> 0]]
           IN  w \in [Node -> WorkRecord] /\ Stands(e, "batch", P, w)
<1> DEFINE off == [at |-> "none", tries |-> 0]
           w   == [exec[e].work EXCEPT ![n] = off]
<1>1. w \in [Node -> WorkRecord]
  <2>1. off \in WorkRecord
    BY ConfigType DEF WorkRecord
  <2>2. exec[e].work \in [Node -> WorkRecord]
    BY DEF TypeOK
  <2> HIDE DEF off
  <2>3. QED
    BY <2>1, <2>2
<1>2. exec[e] \in ExecRecord /\ exec \in [Execution -> ExecRecord]
  BY DEF TypeOK, ExecRecord
<1>3. exec' = [exec EXCEPT ![e] = [exec[e] EXCEPT !.plan = P,
                             !.work = [exec[e].work EXCEPT ![n] = off]]]
  BY <1>2 DEF ExecRecord
<1> HIDE DEF w
<1>4. [exec[e] EXCEPT !.plan = P, !.work = w]
         = [exec[e] EXCEPT !.pc = "batch", !.plan = P, !.work = w]
  BY <1>2 DEF ExecRecord
<1>5. Stands(e, "batch", P, w)
  BY <1>3, <1>4 DEF Stands, w
<1>6. QED
  BY <1>1, <1>5 DEF w

LEMMA SettleOutcome ==
    ASSUME TypeOK, NEW e \in Execution, NEW n \in Under(e),
           NEW s \in {"done", "failed", "skipped"}, Settle(e, n, s)
    PROVE  \E pc \in {"batch", "poll", "over"}, Q \in PlanRecord,
              w \in [Node -> WorkRecord] : Works(e, pc, Q, w)
<1> DEFINE O == exec[e].plan
           P == [O EXCEPT !.node[n] = s]
<1>1. /\ O \in PlanRecord /\ n \in Node /\ controller \in Signalled
      /\ exec[e].pc = "batch"
      /\ \A m \in Under(e) : m \in Node /\ O.node[m] = "running"
  BY DEF TypeOK, Under, Running, Signalled
<1>2. /\ P \in PlanRecord
      /\ P.node = [O.node EXCEPT ![n] = s]
  BY <1>1 DEF PlanRecord, NodeStatus
<1>3. CASE Under(e) = {n} /\ Turn(e, P, controller)
  <2> HIDE DEF P
  <2>1. PICK pc \in {"batch", "poll", "over"}, Q \in PlanRecord,
             w \in [Node -> WorkRecord] : TurnsTo(e, P, controller, pc, Q, w)
    BY <1>1, <1>2, <1>3, TurnOutcome
  <2>2. \A m \in Node : P.node[m] = IF m = n THEN s ELSE O.node[m]
    BY <1>1, <1>2 DEF PlanRecord
  <2>3. \A m \in Node : w[m].at # "none" => ~exec[e].aborted
    BY <2>1 DEF TurnsTo
  <2> HIDE DEF O
  <2>4. Works(e, pc, Q, w)
    BY <2>1, <2>2, <2>3, <1>1, <1>3 DEF TurnsTo, Started, Works, O
  <2>5. QED
    BY <2>4
<1>4. CASE /\ Under(e) # {n}
           /\ exec' = [exec EXCEPT ![e].plan = P,
                                   ![e].work[n] = [at |-> "none", tries |-> 0]]
           /\ stored' = P
           /\ UNCHANGED controller
  <2> DEFINE off == [at |-> "none", tries |-> 0]
             w   == [exec[e].work EXCEPT ![n] = off]
  <2>1. w \in [Node -> WorkRecord] /\ Stands(e, "batch", P, w)
    BY <1>1, <1>4, BatchGoesOn
  <2>3. \A m \in Node : w[m].at # "none" <=> m \in Under(e) \ {n}
    BY DEF TypeOK, Under
  <2>4. \A m \in Node : P.node[m] = IF m = n THEN s ELSE O.node[m]
    BY <1>1, <1>2 DEF PlanRecord
  <2>5. \E m \in Node : w[m].at # "none"
    BY <1>4, <1>1, <2>3
  <2> HIDE DEF w, P
  <2>6. Works(e, "batch", P, w)
    BY <2>1, <2>3, <2>4, <2>5, <1>1, <1>4 DEF Works
  <2>7. QED
    BY <1>2, <2>1, <2>6
<1>5. QED
  BY <1>3, <1>4 DEF Settle

\* An attempt that fails and is tried again, and a back-off that is over,
\* leave the objects and the set of nodes under way as they were.
Marks ==
    /\ exec' \in [Execution -> ExecRecord]
    /\ \A e \in Execution : /\ exec'[e].pc = exec[e].pc
                            /\ exec'[e].plan = exec[e].plan
                            /\ exec'[e].aborted = exec[e].aborted
                            /\ Under(e)' = Under(e)
    /\ UNCHANGED <<stored, controller>>

LEMMA MarkOutcome ==
    ASSUME TypeOK, NEW e \in Execution, NEW n \in Under(e),
           NEW v \in WorkRecord, v.at # "none",
           exec' = [exec EXCEPT ![e].work[n] = v], UNCHANGED <<stored, controller>>
    PROVE  Marks
<1>1. exec \in [Execution -> ExecRecord] /\ n \in Node
  BY DEF TypeOK, ExecRecord, Under
<1>2. exec' \in [Execution -> ExecRecord]
  BY <1>1 DEF ExecRecord
<1>3. \A f \in Execution : /\ exec'[f].pc = exec[f].pc
                           /\ exec'[f].plan = exec[f].plan
                           /\ exec'[f].aborted = exec[f].aborted
                           /\ exec'[f].work =
                                 IF f = e THEN [exec[e].work EXCEPT ![n] = v]
                                 ELSE exec[f].work
  BY <1>1 DEF ExecRecord
<1>4. \A f \in Execution : Under(f)' = Under(f)
  BY <1>1, <1>3 DEF Under, ExecRecord
<1>5. QED
  BY <1>2, <1>3, <1>4 DEF Marks

LEMMA AttemptMarks ==
    ASSUME TypeOK, NEW e \in Execution, NEW n \in Node, AttemptFails(e, n),
           ~Settle(e, n, "failed")
    PROVE  Kept /\ Marks
<1>1. exec[e].work[n] \in WorkRecord /\ exec[e].work[n].at = "attempt" /\ Kept
  BY DEF AttemptFails, TypeOK, Kept
<1> DEFINE k == exec[e].work[n].tries
           v == [at |-> "backoff", tries |-> IF k + 1 < MaxAttempts THEN k + 1 ELSE k]
<1>2. v \in WorkRecord /\ v.at # "none"
  BY <1>1, ConfigType DEF WorkRecord
<1>3. exec' = [exec EXCEPT ![e].work[n] = v] /\ UNCHANGED <<stored, controller>>
  BY DEF AttemptFails, TypeOK
<1>4. n \in Under(e)
  BY <1>1 DEF Under
<1> HIDE DEF v
<1>5. QED
  BY <1>1, <1>2, <1>3, <1>4, MarkOutcome

LEMMA BackoffMarks ==
    ASSUME TypeOK, NEW e \in Execution, NEW n \in Node, BackoffEnds(e, n),
           ~(exec[e].aborted /\ Settle(e, n, "skipped"))
    PROVE  Kept /\ Marks
<1>1. exec[e].work[n] \in WorkRecord /\ exec[e].work[n].at = "backoff" /\ Kept
  BY DEF BackoffEnds, TypeOK, Kept
<1> DEFINE v == [exec[e].work[n] EXCEPT !.at = "attempt"]
<1>2. v \in WorkRecord /\ v.at # "none"
  BY <1>1 DEF WorkRecord
<1>3. exec' = [exec EXCEPT ![e].work[n] = v] /\ UNCHANGED <<stored, controller>>
  BY DEF BackoffEnds, TypeOK
<1>4. n \in Under(e)
  BY <1>1 DEF Under
<1> HIDE DEF v
<1>5. QED
  BY <1>1, <1>2, <1>3, <1>4, MarkOutcome

LEMMA ProgressOutcome ==
    ASSUME TypeOK, NEW e \in Execution, Progress(e)
    PROVE  /\ Kept
           /\ \/ Marks
              \/ /\ Alive(e)
                 /\ \E pc \in {"batch", "poll", "over"}, Q \in PlanRecord,
                       w \in [Node -> WorkRecord] : Works(e, pc, Q, w)
<1>1. CASE Poll(e)
  <2>1. /\ exec[e].plan \in PlanRecord /\ controller \in Signalled
        /\ Alive(e) /\ Under(e) = {}
    BY <1>1 DEF Poll, TypeOK, Alive, Signalled
  <2>2. PICK pc \in {"batch", "poll", "over"}, Q \in PlanRecord,
             w \in [Node -> WorkRecord] :
               TurnsTo(e, exec[e].plan, controller, pc, Q, w)
    BY <1>1, <2>1, TurnOutcome DEF Poll
  <2>3. \A n \in Node : w[n].at # "none" => ~exec[e].aborted
    BY <2>2 DEF TurnsTo
  <2>4. Works(e, pc, Q, w)
    BY <2>1, <2>2, <2>3 DEF TurnsTo, Started, Works
  <2>5. QED
    BY <1>1, <2>1, <2>4 DEF Poll, Kept
<1>2. ASSUME NEW n \in Node, exec[e].work[n].at # "none",
             NEW s \in {"done", "failed", "skipped"}, Settle(e, n, s), Kept
      PROVE  /\ Kept /\ Alive(e)
             /\ \E pc \in {"batch", "poll", "over"}, Q \in PlanRecord,
                   w \in [Node -> WorkRecord] : Works(e, pc, Q, w)
  <2>1. n \in Under(e) /\ Alive(e)
    BY <1>2 DEF Under, Alive, TypeOK
  <2>2. QED
    BY <1>2, <2>1, SettleOutcome
<1>3. ASSUME NEW n \in Node, AttemptSucceeds(e, n)
      PROVE  /\ Kept /\ Alive(e)
             /\ \E pc \in {"batch", "poll", "over"}, Q \in PlanRecord,
                   w \in [Node -> WorkRecord] : Works(e, pc, Q, w)
  BY <1>2, <1>3 DEF AttemptSucceeds, Kept
<1>4. ASSUME NEW n \in Node, AttemptFails(e, n)
      PROVE  /\ Kept
             /\ \/ Marks
                \/ /\ Alive(e)
                   /\ \E pc \in {"batch", "poll", "over"}, Q \in PlanRecord,
                         w \in [Node -> WorkRecord] : Works(e, pc, Q, w)
  <2>1. exec[e].work[n] \in WorkRecord /\ exec[e].work[n].at = "attempt" /\ Kept
    BY <1>4 DEF AttemptFails, TypeOK, Kept
  <2>2. CASE Settle(e, n, "failed")
    BY <1>2, <2>1, <2>2
  <2>3. CASE ~Settle(e, n, "failed")
    BY <1>4, <2>3, AttemptMarks
  <2>4. QED
    BY <2>2, <2>3
<1>5. ASSUME NEW n \in Node, BackoffEnds(e, n)
      PROVE  /\ Kept
             /\ \/ Marks
                \/ /\ Alive(e)
                   /\ \E pc \in {"batch", "poll", "over"}, Q \in PlanRecord,
                         w \in [Node -> WorkRecord] : Works(e, pc, Q, w)
  <2>1. exec[e].work[n] \in WorkRecord /\ exec[e].work[n].at = "backoff" /\ Kept
    BY <1>5 DEF BackoffEnds, TypeOK, Kept
  <2>2. CASE Settle(e, n, "skipped")
    BY <1>2, <2>1, <2>2
  <2>3. CASE ~Settle(e, n, "skipped")
    BY <1>5, <2>3, BackoffMarks
  <2>4. QED
    BY <2>2, <2>3
<1>6. QED
  BY <1>1, <1>3, <1>4, <1>5 DEF Progress

-----------------------------------------------------------------------------
(* The inductive invariant.                                                *)

LEMMA StandsKeepsTypes ==
    ASSUME TypeOK, NEW e \in Execution, NEW pc \in {"batch", "poll", "over"},
           NEW Q \in PlanRecord, NEW w \in [Node -> WorkRecord],
           Stands(e, pc, Q, w),
           pc = "batch" <=> \E n \in Node : w[n].at # "none",
           \A n \in Node : w[n].at # "none" => Q.node[n] = "running"
    PROVE  /\ stored' \in PlanRecord
           /\ exec' \in [Execution -> ExecRecord]
           /\ \A f \in Execution : /\ Under(f)' # {} <=> exec'[f].pc = "batch"
                                   /\ Under(f)' \subseteq Running(exec'[f].plan)
           /\ exec'[e].pc = pc /\ exec'[e].plan = Q /\ exec'[e].aborted = exec[e].aborted
           /\ \A n \in Node : n \in Under(e)' <=> w[n].at # "none"
           /\ \A f \in Execution \ {e} : exec'[f] = exec[f] /\ Under(f)' = Under(f)
<1>1. exec \in [Execution -> ExecRecord]
  BY DEF TypeOK, ExecRecord
<1>2. /\ exec' \in [Execution -> ExecRecord]
      /\ exec'[e].pc = pc /\ exec'[e].plan = Q /\ exec'[e].work = w
      /\ exec'[e].aborted = exec[e].aborted
      /\ \A f \in Execution \ {e} : exec'[f] = exec[f]
  BY <1>1 DEF Stands, ExecRecord
<1>3. /\ \A n \in Node : n \in Under(e)' <=> w[n].at # "none"
      /\ Under(e)' \subseteq Node
      /\ \A f \in Execution \ {e} : Under(f)' = Under(f)
  BY <1>2 DEF Under
<1>4. Under(e)' # {} <=> exec'[e].pc = "batch"
  BY <1>2, <1>3
<1>5. Under(e)' \subseteq Running(exec'[e].plan)
  BY <1>2, <1>3 DEF Running
<1>6. \A f \in Execution : /\ Under(f)' # {} <=> exec'[f].pc = "batch"
                           /\ Under(f)' \subseteq Running(exec'[f].plan)
  BY <1>2, <1>3, <1>4, <1>5 DEF TypeOK
<1>7. stored' \in PlanRecord
  BY DEF Stands
<1>8. QED
  BY <1>2, <1>3, <1>6, <1>7

\* Work under way is running, in what a turn and a settling leave.
LEMMA WorksIsRunning ==
    ASSUME NEW e \in Execution, NEW pc \in {"batch", "poll", "over"},
           NEW Q \in PlanRecord, NEW w \in [Node -> WorkRecord], Works(e, pc, Q, w)
    PROVE  \A n \in Node : w[n].at # "none" => Q.node[n] = "running"
BY DEF Works

LEMMA BeginOutcome ==
    ASSUME TypeOK, NEW e \in Execution, Create(e) \/ Retry(e)
    PROVE  /\ exec[e] = NotYet
           /\ deps' = deps /\ restarts' = restarts /\ seen' \subseteq {"pause", "twins"}
           /\ \E pc \in {"batch", "poll", "over"}, P \in PlanRecord, Q \in PlanRecord,
                w \in [Node -> WorkRecord] : TurnsTo(e, P, e, pc, Q, w)
<1>1. e \in Signalled
  BY DEF Signalled
<1>2. ASSUME NEW P \in PlanRecord, Execute(e, P)
      PROVE  \E pc \in {"batch", "poll", "over"}, R \in PlanRecord, Q \in PlanRecord,
                w \in [Node -> WorkRecord] : TurnsTo(e, R, e, pc, Q, w)
  <2> DEFINE R == [P EXCEPT !.status = "running"]
  <2>1. R \in PlanRecord
    BY DEF PlanRecord, PlanStatus
  <2>2. Turn(e, R, e)
    BY <1>2 DEF Execute
  <2> HIDE DEF R
  <2>3. QED
    BY <1>1, <2>1, <2>2, TurnOutcome
<1>3. CASE Create(e)
  <2>1. NewPlan \in PlanRecord
    BY DEF NewPlan, PlanRecord, PlanStatus, NodeStatus
  <2>2. QED
    BY <1>2, <1>3, <2>1 DEF Create, TypeOK
<1>4. CASE Retry(e)
  <2> DEFINE P == [stored EXCEPT !.node = Retried(stored)]
  <2>1. stored \in PlanRecord
    BY <1>4 DEF Retry, TypeOK
  <2>2. P \in PlanRecord
    BY <2>1 DEF PlanRecord, Retried, NodeStatus
  <2>3. Execute(e, P) /\ exec[e] = NotYet /\ deps' = deps /\ restarts' = restarts
    BY <1>4 DEF Retry
  <2>4. seen' \subseteq {"pause", "twins"}
    BY <1>4 DEF Retry, TypeOK
  <2> HIDE DEF P
  <2>5. QED
    BY <1>2, <2>2, <2>3, <2>4
<1>5. QED
  BY <1>3, <1>4

LEMMA InitInv == Init => PlanInv
<1> SUFFICES ASSUME Init PROVE PlanInv
  OBVIOUS
<1>1. NewPlan \in PlanRecord
  BY DEF NewPlan, PlanRecord, PlanStatus, NodeStatus
<1>2. NotYet \in ExecRecord
  BY <1>1, NoWorkType DEF NotYet, ExecRecord
<1>3. \A e \in Execution : Under(e) = {} /\ exec[e].pc = "idle"
  BY DEF Init, Under, NotYet, NoWork
<1>4. QED
  BY <1>2, <1>3, ConfigType DEF Init, PlanInv, TypeOK, ControllerIsLive, ExecRecord

LEMMA MarksKeepInv == PlanInv /\ Kept /\ Marks => PlanInv'
BY DEF PlanInv, TypeOK, ControllerIsLive, Kept, Marks, ExecRecord, Alive

LEMMA WorksKeepsInv ==
    ASSUME PlanInv, NEW e \in Execution, Alive(e), Kept,
           NEW pc \in {"batch", "poll", "over"}, NEW Q \in PlanRecord,
           NEW w \in [Node -> WorkRecord], Works(e, pc, Q, w)
    PROVE  PlanInv'
<1> USE DEF PlanInv
<1>1. /\ stored' \in PlanRecord
      /\ exec' \in [Execution -> ExecRecord]
      /\ \A f \in Execution : /\ Under(f)' # {} <=> exec'[f].pc = "batch"
                              /\ Under(f)' \subseteq Running(exec'[f].plan)
      /\ exec'[e].pc = pc /\ exec'[e].aborted = exec[e].aborted
      /\ \A f \in Execution \ {e} : exec'[f] = exec[f]
  BY WorksIsRunning, StandsKeepsTypes DEF Works
<1>2. controller' # None => pc # "over" /\ controller' = controller
  BY DEF Works
<1>3. TypeOK'
  BY <1>1, <1>2 DEF TypeOK, Kept, ExecRecord
<1>4. ControllerIsLive'
  BY <1>1, <1>2 DEF ControllerIsLive, Alive, TypeOK
<1>5. QED
  BY <1>3, <1>4

LEMMA BeginKeepsInv ==
    ASSUME PlanInv, NEW e \in Execution, Create(e) \/ Retry(e)
    PROVE  PlanInv'
<1> USE DEF PlanInv
<1>1. PICK pc \in {"batch", "poll", "over"}, P \in PlanRecord, Q \in PlanRecord,
           w \in [Node -> WorkRecord] : TurnsTo(e, P, e, pc, Q, w)
  BY BeginOutcome
<1>2. \A n \in Node : w[n].at # "none" => Q.node[n] = "running"
  BY <1>1 DEF TurnsTo, Started
<1>3. /\ stored' \in PlanRecord
      /\ exec' \in [Execution -> ExecRecord]
      /\ \A f \in Execution : /\ Under(f)' # {} <=> exec'[f].pc = "batch"
                              /\ Under(f)' \subseteq Running(exec'[f].plan)
      /\ exec'[e].pc = pc /\ exec'[e].aborted = exec[e].aborted
  BY <1>1, <1>2, StandsKeepsTypes DEF TurnsTo
<1>4. controller' = IF pc = "over" THEN None ELSE e
  BY <1>1 DEF TurnsTo
<1>5. exec[e].aborted = FALSE
  BY BeginOutcome DEF NotYet
<1>6. TypeOK'
  BY <1>3, <1>4, BeginOutcome DEF TypeOK, ExecRecord
<1>7. ControllerIsLive'
  BY <1>3, <1>4, <1>5 DEF ControllerIsLive, Alive
<1>8. QED
  BY <1>6, <1>7

\* A restart ends every execution that is alive.
LEMMA RestartStops ==
    ASSUME TypeOK, Restart
    PROVE  /\ exec' \in [Execution -> ExecRecord]
           /\ \A e \in Execution : /\ Under(e)' = {}
                                   /\ exec'[e].plan = exec[e].plan
                                   /\ exec'[e].aborted = exec[e].aborted
                                   /\ exec'[e].pc = IF Alive(e) THEN "over" ELSE exec[e].pc
                                   /\ exec'[e].pc # "batch"
<1>1. exec \in [Execution -> ExecRecord]
  BY DEF TypeOK, ExecRecord
<1>2. \A e \in Execution :
         exec'[e] = IF Alive(e) THEN [exec[e] EXCEPT !.pc = "over", !.work = NoWork]
                    ELSE exec[e]
  BY DEF Restart
<1>3. \A e \in Execution :
         LET over == [exec[e] EXCEPT !.pc = "over", !.work = NoWork]
         IN  /\ over \in ExecRecord /\ over.pc = "over" /\ over.work = NoWork
             /\ over.plan = exec[e].plan /\ over.aborted = exec[e].aborted
  BY <1>1, NoWorkType DEF ExecRecord
<1>4. exec' \in [Execution -> ExecRecord]
  <2>1. \A e \in Execution : exec'[e] \in ExecRecord
    BY <1>1, <1>2, <1>3
  <2>2. exec' = [e \in Execution |-> exec'[e]]
    BY DEF Restart
  <2>3. QED
    BY <2>1, <2>2
<1>5. ASSUME NEW e \in Execution
      PROVE  /\ Under(e)' = {}
             /\ exec'[e].plan = exec[e].plan
             /\ exec'[e].aborted = exec[e].aborted
             /\ exec'[e].pc = IF Alive(e) THEN "over" ELSE exec[e].pc
             /\ exec'[e].pc # "batch"
  <2>1. CASE Alive(e)
    <3>1. /\ exec'[e].pc = "over" /\ exec'[e].work = NoWork
          /\ exec'[e].plan = exec[e].plan /\ exec'[e].aborted = exec[e].aborted
      BY <1>2, <1>3, <2>1
    <3>2. QED
      BY <2>1, <3>1 DEF Under, NoWork
  <2>2. CASE ~Alive(e)
    <3>1. exec'[e] = exec[e] /\ exec[e].pc # "batch"
      BY <1>2, <2>2 DEF Alive
    <3>2. Under(e)' = Under(e) /\ Under(e) = {}
      BY <3>1 DEF Under, TypeOK
    <3>3. QED
      BY <2>2, <3>1, <3>2
  <2>3. QED
    BY <2>1, <2>2
<1>6. QED
  BY <1>4, <1>5

LEMMA OthersKeepInv ==
    ASSUME PlanInv, Pause \/ Delete \/ Restart
    PROVE  PlanInv'
<1> USE DEF PlanInv
<1>0. exec \in [Execution -> ExecRecord]
  BY DEF TypeOK, ExecRecord
<1>1. CASE Pause
  <2>1. /\ exec' \in [Execution -> ExecRecord]
        /\ \A e \in Execution : /\ exec'[e].pc = exec[e].pc
                                /\ exec'[e].plan = exec[e].plan
                                /\ exec'[e].work = exec[e].work
    BY <1>0, <1>1 DEF Pause, ExecRecord
  <2>2. \A e \in Execution : Under(e)' = Under(e)
    BY <2>1 DEF Under
  <2>3. stored' \in PlanRecord \union {Gone}
    BY <1>1 DEF Pause, TypeOK, PlanRecord, PlanStatus
  <2>4. TypeOK'
    BY <1>1, <2>1, <2>2, <2>3 DEF Pause, TypeOK, ExecRecord
  <2>5. QED
    BY <1>1, <2>4 DEF Pause, ControllerIsLive
<1>2. CASE Delete
  <2>1. \A e \in Execution : Under(e)' = Under(e)
    BY <1>2 DEF Delete, Under
  <2>2. QED
    BY <1>2, <2>1 DEF Delete, TypeOK, ControllerIsLive, Alive
<1>3. CASE Restart
  <2>1. /\ exec' \in [Execution -> ExecRecord]
        /\ \A e \in Execution : Under(e)' = {} /\ exec'[e].pc # "batch"
    BY <1>3, RestartStops
  <2>2. \A e \in Execution : /\ Under(e)' # {} <=> exec'[e].pc = "batch"
                             /\ Under(e)' \subseteq Running(exec'[e].plan)
    BY <2>1
  <2>3. restarts' \in 0..MaxRestarts
    <3>1. restarts \in 0..MaxRestarts /\ MaxRestarts \in Nat
      BY ConfigType DEF TypeOK
    <3>2. restarts < MaxRestarts /\ restarts' = restarts + 1
      BY <1>3 DEF Restart
    <3>3. QED
      BY <3>1, <3>2
  <2>4. TypeOK'
    BY <1>3, <2>1, <2>2, <2>3 DEF Restart, TypeOK, ExecRecord
  <2>5. QED
    BY <1>3, <2>4 DEF Restart, ControllerIsLive
<1>4. QED
  BY <1>1, <1>2, <1>3

LEMMA NextInv == PlanInv /\ [Next]_vars => PlanInv'
<1> SUFFICES ASSUME PlanInv, [Next]_vars PROVE PlanInv'
  OBVIOUS
<1>1. ASSUME NEW e \in Execution, Progress(e) PROVE PlanInv'
  BY <1>1, ProgressOutcome, MarksKeepInv, WorksKeepsInv DEF PlanInv
<1>2. CASE UNCHANGED vars
  BY <1>2 DEF vars, PlanInv, TypeOK, ControllerIsLive, Under, Alive, Running
<1>3. QED
  BY <1>1, <1>2, BeginKeepsInv, OthersKeepInv DEF Next

\* The rows, the objects and the work of all executions are well formed, and
\* work is under way exactly in an execution's batch, on nodes its object
\* says are running.
THEOREM TypeCorrect == Spec => []TypeOK
<1>1. PlanInv => TypeOK
  BY DEF PlanInv
<1>2. QED
  BY <1>1, InitInv, NextInv, PTL DEF Spec

-----------------------------------------------------------------------------
(* The refinement: every step of PlanExecutor is one of PlanRuns, or one   *)
(* that PlanRuns does not see.                                             *)

LEMMA InitRefines == Init => Promise!Init
<1> SUFFICES ASSUME Init PROVE Promise!Init
  OBVIOUS
<1>1. \A e \in Execution : Under(e) = {} /\ Mode(e) = "idle"
  BY DEF Init, Under, NotYet, NoWork, Mode
<1>2. QED
  BY <1>1 DEF Promise!Init

\* A step that leaves every execution as its promise sees it is a stutter.
LEMMA Unseen ==
    ASSUME deps' = deps,
           \A e \in Execution : /\ exec'[e].plan.node = exec[e].plan.node
                               /\ Under(e)' = Under(e) /\ Mode(e)' = Mode(e)
    PROVE  UNCHANGED Promise!vars
BY DEF Promise!vars

LEMMA MarksRefine == PlanInv /\ Kept /\ Marks => UNCHANGED Promise!vars
<1> SUFFICES ASSUME PlanInv, Kept, Marks PROVE UNCHANGED Promise!vars
  OBVIOUS
<1>1. \A e \in Execution : /\ exec'[e].plan.node = exec[e].plan.node
                           /\ Under(e)' = Under(e) /\ Mode(e)' = Mode(e)
  BY DEF Marks, Mode
<1>2. QED
  BY <1>1, Unseen DEF Kept

LEMMA RestartRefines == PlanInv /\ Restart => Promise!Die
<1> SUFFICES ASSUME PlanInv, Restart PROVE Promise!Die
  OBVIOUS
<1>1. \A e \in Execution : Under(e)' = {}
  BY RestartStops DEF PlanInv
<1>2. \A e \in Execution : /\ exec'[e].plan.node = exec[e].plan.node
                           /\ Mode(e)' = IF Mode(e) = "idle" THEN "idle" ELSE "ended"
  BY RestartStops DEF PlanInv, Mode, TypeOK, Alive
<1>3. QED
  BY <1>1, <1>2 DEF Promise!Die, Restart

LEMMA PauseRefines == PlanInv /\ Pause => Promise!Stop(controller)
<1> SUFFICES ASSUME PlanInv, Pause PROVE Promise!Stop(controller)
  OBVIOUS
<1>1. /\ controller \in Execution /\ Mode(controller) = "on"
      /\ exec \in [Execution -> ExecRecord]
  BY DEF PlanInv, TypeOK, ControllerIsLive, Pause, Alive, Mode, ExecRecord
<1>2. \A e \in Execution :
         /\ exec'[e].plan = exec[e].plan /\ exec'[e].work = exec[e].work
         /\ exec'[e].pc = exec[e].pc
         /\ exec'[e].aborted = IF e = controller THEN TRUE ELSE exec[e].aborted
  BY <1>1 DEF Pause, ExecRecord
<1>3. \A e \in Execution :
         /\ Under(e)' = Under(e)
         /\ Mode(e)' = IF e = controller THEN "stopping" ELSE Mode(e)
  BY <1>1, <1>2 DEF Under, Mode, PlanInv, ControllerIsLive, Alive, Pause
<1>4. [e \in Execution |-> Mode(e)]'
        = [[e \in Execution |-> Mode(e)] EXCEPT ![controller] = "stopping"]
  BY <1>3
<1>5. /\ [e \in Execution |-> exec[e].plan.node]' = [e \in Execution |-> exec[e].plan.node]
      /\ [e \in Execution |-> Under(e)]' = [e \in Execution |-> Under(e)]
  BY <1>2, <1>3
<1>6. deps' = deps
  BY DEF Pause
<1>7. QED
  BY <1>1, <1>4, <1>5, <1>6 DEF Promise!Stop

\* Nobody but e moves, and it ends only with nothing under way.
LEMMA OnlyOneMoves ==
    ASSUME NEW e \in Execution, NEW to, Mode(e)' = to, deps' = deps,
           to = "ended" => Under(e)' = {},
           \A f \in Execution \ {e} : exec'[f] = exec[f] /\ Under(f)' = Under(f)
    PROVE  Promise!Only(e, to)
<1>1. \A f \in Execution \ {e} : Mode(f)' = Mode(f)
  BY DEF Mode
<1>2. [f \in Execution |-> Mode(f)]'
        = [[f \in Execution |-> Mode(f)] EXCEPT ![e] = to]
  BY <1>1
<1>3. /\ to = "ended" => [f \in Execution |-> Under(f)]'[e] = {}
      /\ \A f \in Execution \ {e} :
            /\ [g \in Execution |-> exec[g].plan.node]'[f]
                 = [g \in Execution |-> exec[g].plan.node][f]
            /\ [g \in Execution |-> Under(g)]'[f] = [g \in Execution |-> Under(g)][f]
  OBVIOUS
<1>4. QED
  BY <1>2, <1>3 DEF Promise!Only

LEMMA WorksRefines ==
    ASSUME PlanInv, NEW e \in Execution, Alive(e), Kept,
           NEW pc \in {"batch", "poll", "over"}, NEW Q \in PlanRecord,
           NEW w \in [Node -> WorkRecord], Works(e, pc, Q, w)
    PROVE  Promise!Work(e)
<1> DEFINE node  == [f \in Execution |-> exec[f].plan.node]
           under == [f \in Execution |-> Under(f)]
           mode  == [f \in Execution |-> Mode(f)]
<1>1. /\ exec'[e].pc = pc /\ exec'[e].plan = Q /\ exec'[e].aborted = exec[e].aborted
      /\ \A n \in Node : n \in Under(e)' <=> w[n].at # "none"
      /\ Under(e)' # {} <=> exec'[e].pc = "batch"
      /\ \A f \in Execution \ {e} : exec'[f] = exec[f] /\ Under(f)' = Under(f)
  BY WorksIsRunning, StandsKeepsTypes DEF Works, PlanInv
<1>2. /\ mode[e] = IF exec[e].aborted THEN "stopping" ELSE "on"
      /\ mode[e] \in {"on", "stopping"}
      /\ mode'[e] = IF pc = "over" THEN "ended" ELSE mode[e]
      /\ mode'[e] = Mode(e)'
  BY <1>1 DEF Mode, Alive
<1>3. node[e] = exec[e].plan.node /\ node'[e] = Q.node
      /\ under[e] = Under(e) /\ under'[e] = Under(e)'
  BY <1>1
<1>4. \E to \in {mode[e], "ended"} : Promise!Only(e, to)
  <2>1. PICK to \in {mode[e], "ended"} : Mode(e)' = to
    BY <1>2
  <2>2. to = "ended" => Under(e)' = {}
    BY <1>1, <1>2, <2>1
  <2>3. Promise!Only(e, to)
    BY <1>1, <2>1, <2>2, OnlyOneMoves DEF Kept
  <2>4. QED
    BY <2>3
<1>5. \A n \in Node :
         \/ node'[e][n] = node[e][n]
         \/ n \in under[e] /\ node'[e][n] \in {"done", "failed", "skipped"}
         \/ /\ mode[e] = "on" /\ node[e][n] = "pending" /\ node'[e][n] = "running"
            /\ \A d \in deps'[n] : d \in Node /\ node'[e][d] \in {"done", "skipped"}
  BY <1>2, <1>3 DEF Works, Kept
<1>6. \A n \in Node :
         n \in under'[e] <=> \/ node[e][n] # "running" /\ node'[e][n] = "running"
                             \/ n \in under[e] /\ node'[e][n] = "running"
  BY <1>1, <1>3, <1>5 DEF Works
<1>7. QED
  BY <1>2, <1>4, <1>5, <1>6 DEF Promise!Work, Promise!Satisfied, Promise!Starts

LEMMA BeginRefines ==
    ASSUME PlanInv, NEW e \in Execution, Create(e) \/ Retry(e)
    PROVE  Promise!Begin(e)
<1> DEFINE node  == [f \in Execution |-> exec[f].plan.node]
           under == [f \in Execution |-> Under(f)]
<1>1. PICK pc \in {"batch", "poll", "over"}, P \in PlanRecord, Q \in PlanRecord,
           w \in [Node -> WorkRecord] : TurnsTo(e, P, e, pc, Q, w)
  BY BeginOutcome DEF PlanInv
<1>2. \A n \in Node : w[n].at # "none" => Q.node[n] = "running"
  BY <1>1 DEF TurnsTo, Started
<1>3. /\ exec'[e].pc = pc /\ exec'[e].plan = Q /\ exec'[e].aborted = exec[e].aborted
      /\ \A n \in Node : n \in Under(e)' <=> w[n].at # "none"
      /\ Under(e)' # {} <=> exec'[e].pc = "batch"
      /\ \A f \in Execution \ {e} : exec'[f] = exec[f] /\ Under(f)' = Under(f)
  BY <1>1, <1>2, StandsKeepsTypes DEF TurnsTo, PlanInv
<1>4. exec[e] = NotYet /\ deps' = deps
  BY BeginOutcome DEF PlanInv
<1>5. Mode(e) = "idle" /\ Mode(e)' = IF pc = "over" THEN "ended" ELSE "on"
  BY <1>3, <1>4 DEF Mode, NotYet
<1>6. \E to \in {"on", "ended"} : Promise!Only(e, to)
  <2>1. PICK to \in {"on", "ended"} : Mode(e)' = to /\ (to = "ended" <=> pc = "over")
    BY <1>5
  <2>2. Promise!Only(e, to)
    BY <1>3, <1>4, <2>1, OnlyOneMoves
  <2>3. QED
    BY <2>2
<1>7. node'[e] = Q.node /\ under'[e] = Under(e)' /\ Under(e)' \subseteq Node
  BY <1>3 DEF Under
<1>8. \A n \in under'[e] :
         /\ node'[e][n] = "running"
         /\ \A d \in deps'[n] : d \in Node /\ node'[e][d] \in {"done", "skipped"}
  BY <1>1, <1>3, <1>4, <1>7 DEF TurnsTo, Started
<1>9. QED
  BY <1>5, <1>6, <1>8 DEF Promise!Begin, Promise!Satisfied

LEMMA NextRefines == PlanInv /\ [Next]_vars => [Promise!Next]_(Promise!vars)
<1> SUFFICES ASSUME PlanInv, [Next]_vars PROVE [Promise!Next]_(Promise!vars)
  OBVIOUS
<1>1. ASSUME NEW e \in Execution, Progress(e) PROVE [Promise!Next]_(Promise!vars)
  BY <1>1, ProgressOutcome, MarksRefine, WorksRefines DEF PlanInv, Promise!Next
<1>2. ASSUME NEW e \in Execution, Create(e) \/ Retry(e) PROVE Promise!Next
  BY <1>2, BeginRefines DEF Promise!Next
<1>3. CASE Pause
  BY <1>3, PauseRefines DEF Promise!Next, Pause, PlanInv, TypeOK
<1>4. CASE Delete
  <2>1. \A e \in Execution : Under(e)' = Under(e) /\ Mode(e)' = Mode(e)
    BY <1>4 DEF Delete, Under, Mode
  <2>2. QED
    BY <1>4, <2>1, Unseen DEF Delete
<1>5. CASE Restart
  BY <1>5, RestartRefines DEF Promise!Next
<1>6. CASE UNCHANGED vars
  <2>1. \A e \in Execution : Under(e)' = Under(e) /\ Mode(e)' = Mode(e)
    BY <1>6 DEF vars, Under, Mode
  <2>2. QED
    BY <1>6, <2>1, Unseen DEF vars
<1>7. QED
  BY <1>1, <1>2, <1>3, <1>4, <1>5, <1>6 DEF Next

\* The executions of a plan keep the promise of PlanRuns: a node starts only
\* when all it depends on is done or skipped, what has settled is not touched
\* again, an execution that was told to stop starts nothing more, and none
\* ends with a node under way unless the process dies; for every plan and any
\* number of executions of it.
THEOREM ExecutionsKeepPromise == Spec => KeepsPromise
<1>1. PlanInv /\ [Next]_vars => [Promise!Next]_(Promise!vars)
  BY NextRefines
<1>2. QED
  BY <1>1, InitInv, NextInv, InitRefines, PTL DEF Spec, KeepsPromise, Promise!Spec

-----------------------------------------------------------------------------
(* The verdict in the rows.                                                *)

\* A set of natural numbers has a least one.
LEMMA LeastOf ==
    ASSUME NEW S \in SUBSET Nat, S # {}
    PROVE  \E x \in S : \A y \in S : ~(y < x)
<1> DEFINE R == OpToRel(<, Nat)
<1>1. \A x, y \in Nat : y < x => <<y, x>> \in R
  BY DEF OpToRel
<1>2. IsWellFoundedOn(R, Nat)
  BY NatLessThanWellFounded
<1> HIDE DEF R
<1>3. \E x \in S : \A y \in S : ~ (<<y, x>> \in R)
  BY <1>2, WFMin
<1>4. QED
  BY <1>1, <1>3

\* A plan that can be executed does not get stuck: with nothing ready and
\* nothing running, no node is pending.  The one of least rank would be ready.
LEMMA NothingLeft ==
    ASSUME Executable, NEW P \in PlanRecord, Ready(P) = {}, Running(P) = {},
           \A n \in Node : P.node[n] \notin {"failed", "skipped"}
    PROVE  \A n \in Node : P.node[n] = "done"
<1>1. PICK rank \in [Node -> 1..Cardinality(Node)] :
         \A n \in Node : \A d \in deps[n] : d \in Node /\ rank[d] < rank[n]
  BY DEF Executable
<1>2. \A n \in Node : rank[n] \in Nat
  <2>1. Cardinality(Node) \in Nat
    BY ConfigType, FS_CardinalityType
  <2>2. QED
    BY <2>1
<1>3. \A n \in Node : P.node[n] \in {"pending", "done"}
  BY DEF PlanRecord, NodeStatus, Running
<1> DEFINE left == {n \in Node : P.node[n] = "pending"}
           S    == {rank[n] : n \in left}
<1>4. SUFFICES ASSUME left # {} PROVE FALSE
  BY <1>3
<1>5. S \in SUBSET Nat /\ S # {}
  BY <1>2, <1>4
<1>6. PICK x \in S : \A y \in S : ~(y < x)
  BY <1>5, LeastOf
<1>7. PICK n \in left : rank[n] = x
  BY <1>6
<1>8. \A d \in deps[n] : d \in Node /\ P.node[d] = "done"
  BY <1>1, <1>3, <1>6, <1>7
<1>9. n \in Ready(P)
  BY <1>7, <1>8 DEF Ready
<1>10. QED
  BY <1>9

Fit(P) ==
    /\ P.status = "failed" => HasFailed(P)
    /\ P.status = "done" => ~HasFailed(P)
    /\ P.status = "done" /\ Executable /\ "pause" \notin seen
          => \A n \in Node : P.node[n] = "done"

Unskipped(P) == "pause" \notin seen => \A n \in Node : P.node[n] # "skipped"

\* Without a pause, nothing is skipped and nobody is told to stop; and the
\* object of an execution that is alive says that the plan is running.
VerdictInv ==
    /\ stored # Gone => Fit(stored)
    /\ Unskipped(stored)
    /\ \A e \in Execution : /\ Unskipped(exec[e].plan)
                            /\ Alive(e) => exec[e].plan.status = "running"
                            /\ "pause" \notin seen => ~exec[e].aborted

\* The verdict of an execution that ends fits its nodes.
LEMMA FinishFits ==
    ASSUME TypeOK, NEW e \in Execution, NEW P \in PlanRecord, NEW c \in Signalled,
           Unskipped(P), "pause" \notin seen => ~exec[e].aborted,
           Complete(P) \/ exec[e].aborted \/ (Ready(P) = {} /\ Running(P) = {}),
           Finish(e, P)
    PROVE  \E Q \in PlanRecord : Stands(e, "over", Q, NoWork) /\ Fit(Q) /\ Unskipped(Q)
<1> DEFINE Q == [P EXCEPT !.status = IF HasFailed(P) THEN "failed" ELSE "done"]
<1>1. /\ Q \in PlanRecord /\ Q.node = P.node
      /\ Q.status = IF HasFailed(P) THEN "failed" ELSE "done"
  BY DEF PlanRecord, PlanStatus
<1>2. exec' = [exec EXCEPT ![e].pc = "over", ![e].plan = Q, ![e].work = NoWork]
      /\ stored' = Q
  BY DEF Finish
<1> HIDE DEF Q
<1>3. Stands(e, "over", Q, NoWork)
  BY <1>2 DEF Stands, TypeOK
<1>4. ASSUME ~HasFailed(P), Executable, "pause" \notin seen
      PROVE  \A n \in Node : P.node[n] = "done"
  <2>1. \A n \in Node : P.node[n] \notin {"failed", "skipped"}
    BY <1>4 DEF HasFailed, Unskipped
  <2>2. CASE Complete(P)
    BY <2>1, <2>2 DEF Complete
  <2>3. CASE Ready(P) = {} /\ Running(P) = {}
    BY <1>4, <2>1, <2>3, NothingLeft
  <2>4. QED
    BY <1>4, <2>2, <2>3
<1>5. Fit(Q)
  BY <1>1, <1>4 DEF Fit, HasFailed
<1>6. Unskipped(Q)
  BY <1>1 DEF Unskipped
<1>7. QED
  BY <1>1, <1>3, <1>5, <1>6

Judged(e) ==
    \E pc \in {"batch", "poll", "over"}, Q \in PlanRecord, w \in [Node -> WorkRecord] :
        /\ Stands(e, pc, Q, w) /\ Fit(Q) /\ Unskipped(Q)
        /\ pc # "over" => Q.status = "running"

LEMMA TurnFits ==
    ASSUME TypeOK, NEW e \in Execution, NEW P \in PlanRecord, NEW c \in Signalled,
           P.status = "running", Unskipped(P), "pause" \notin seen => ~exec[e].aborted,
           Turn(e, P, c)
    PROVE  Judged(e)
<1>1. CASE /\ Finish(e, P)
           /\ Complete(P) \/ exec[e].aborted \/ (Ready(P) = {} /\ Running(P) = {})
  BY <1>1, FinishFits, NoWorkType DEF Judged
<1>2. CASE Ready(P) # {} /\ LaunchBatch(e, P, c)
  <2> DEFINE Q == [P EXCEPT !.node = [n \in Node |->
                     IF n \in Ready(P) THEN "running" ELSE P.node[n]]]
             w == [n \in Node |->
                     [at |-> IF n \in Ready(P) THEN "attempt" ELSE "none", tries |-> 0]]
  <2>1. Q \in PlanRecord /\ Q.status = "running"
    BY DEF PlanRecord, NodeStatus
  <2>2. w \in [Node -> WorkRecord]
    BY ConfigType DEF WorkRecord
  <2>3. Stands(e, "batch", Q, w)
    BY <1>2 DEF LaunchBatch, Stands, TypeOK
  <2>4. \A n \in Node : Q.node[n] = IF n \in Ready(P) THEN "running" ELSE P.node[n]
    BY DEF PlanRecord
  <2> HIDE DEF Q, w
  <2>5. Fit(Q) /\ Unskipped(Q)
    BY <2>1, <2>4 DEF Fit, Unskipped
  <2>6. QED
    BY <2>1, <2>2, <2>3, <2>5 DEF Judged
<1>3. CASE WaitForOthers(e, P, c)
  <2>1. Stands(e, "poll", P, NoWork)
    BY <1>3 DEF WaitForOthers, Stands, TypeOK
  <2>2. Fit(P)
    BY DEF Fit
  <2>3. QED
    BY <2>1, <2>2, NoWorkType DEF Judged
<1>4. QED
  BY <1>1, <1>2, <1>3 DEF Turn

LEMMA SettleFits ==
    ASSUME TypeOK, VerdictInv, NEW e \in Execution, NEW n \in Under(e),
           NEW s \in {"done", "failed", "skipped"}, s = "skipped" => exec[e].aborted,
           Settle(e, n, s)
    PROVE  Judged(e)
<1> DEFINE O == exec[e].plan
           P == [O EXCEPT !.node[n] = s]
<1>1. /\ O \in PlanRecord /\ n \in Node /\ controller \in Signalled
      /\ exec[e].pc = "batch" /\ O.status = "running"
      /\ "pause" \notin seen => ~exec[e].aborted
  BY DEF TypeOK, Under, Signalled, VerdictInv, Alive
<1>2. /\ P \in PlanRecord /\ P.status = "running"
      /\ P.node = [O.node EXCEPT ![n] = s]
  BY <1>1 DEF PlanRecord, NodeStatus
<1>3. \A m \in Node : P.node[m] = IF m = n THEN s ELSE O.node[m]
  BY <1>1, <1>2 DEF PlanRecord
<1>4. Unskipped(P)
  BY <1>1, <1>3 DEF VerdictInv, Unskipped
<1>5. CASE Turn(e, P, controller)
  <2> HIDE DEF P
  <2>1. QED
    BY <1>1, <1>2, <1>4, <1>5, TurnFits
<1>6. CASE /\ exec' = [exec EXCEPT ![e].plan = P,
                                   ![e].work[n] = [at |-> "none", tries |-> 0]]
           /\ stored' = P
  <2> DEFINE off == [at |-> "none", tries |-> 0]
             w   == [exec[e].work EXCEPT ![n] = off]
  <2>1. w \in [Node -> WorkRecord] /\ Stands(e, "batch", P, w)
    BY <1>1, <1>6, BatchGoesOn
  <2>2. Fit(P)
    BY <1>2 DEF Fit
  <2> HIDE DEF w, P
  <2>3. QED
    BY <1>2, <1>4, <2>1, <2>2 DEF Judged
<1>7. QED
  BY <1>5, <1>6 DEF Settle

\* What Fit and Unskipped say of an object does not change with the rest.
LEMMA FitStays ==
    ASSUME deps' = deps, "pause" \in seen' <=> "pause" \in seen, NEW P
    PROVE  (Fit(P)' <=> Fit(P)) /\ (Unskipped(P)' <=> Unskipped(P))
<1>1. Executable' <=> Executable
  BY DEF Executable
<1>2. HasFailed(P)' <=> HasFailed(P)
  BY DEF HasFailed
<1>3. QED
  BY <1>1, <1>2 DEF Fit, Unskipped

LEMMA JudgedKeepsVerdict ==
    ASSUME TypeOK, VerdictInv, NEW e \in Execution, Judged(e),
           deps' = deps, "pause" \in seen' <=> "pause" \in seen,
           "pause" \notin seen => ~exec[e].aborted
    PROVE  VerdictInv'
<1>1. PICK pc \in {"batch", "poll", "over"}, Q \in PlanRecord, w \in [Node -> WorkRecord] :
        /\ Stands(e, pc, Q, w) /\ Fit(Q) /\ Unskipped(Q)
        /\ pc # "over" => Q.status = "running"
  BY DEF Judged
<1>2. exec \in [Execution -> ExecRecord]
  BY DEF TypeOK, ExecRecord
<1>3. /\ stored' = Q
      /\ exec'[e].pc = pc /\ exec'[e].plan = Q /\ exec'[e].aborted = exec[e].aborted
      /\ \A f \in Execution \ {e} : exec'[f] = exec[f]
  BY <1>1, <1>2 DEF Stands, ExecRecord
<1>4. Fit(Q)' /\ Unskipped(Q)'
  BY <1>1, FitStays
<1>5. Fit(stored)' /\ Unskipped(stored)' /\ Unskipped(exec[e].plan)'
  BY <1>3, <1>4 DEF Fit, Unskipped, HasFailed
<1>6. \A f \in Execution \ {e} : Unskipped(exec[f].plan)'
  BY <1>3 DEF VerdictInv, Unskipped
<1>7. \A f \in Execution : /\ Alive(f)' => exec'[f].plan.status = "running"
                           /\ "pause" \notin seen' => ~exec'[f].aborted
  BY <1>1, <1>3 DEF VerdictInv, Alive
<1>8. QED
  BY <1>5, <1>6, <1>7 DEF VerdictInv

LEMMA ProgressFits ==
    ASSUME TypeOK, VerdictInv, NEW e \in Execution, Progress(e)
    PROVE  Kept /\ (Marks \/ Judged(e))
<1>1. CASE Poll(e)
  <2>1. /\ exec[e].plan \in PlanRecord /\ controller \in Signalled
        /\ exec[e].plan.status = "running" /\ Unskipped(exec[e].plan)
        /\ "pause" \notin seen => ~exec[e].aborted
    BY <1>1 DEF Poll, TypeOK, Alive, Signalled, VerdictInv
  <2>2. QED
    BY <1>1, <2>1, TurnFits DEF Poll, Kept
<1>2. ASSUME NEW n \in Node, AttemptSucceeds(e, n) PROVE Kept /\ Judged(e)
  <2>1. n \in Under(e) /\ Settle(e, n, "done") /\ Kept
    BY <1>2 DEF AttemptSucceeds, Under, Kept
  <2>2. QED
    BY <2>1, SettleFits
<1>3. ASSUME NEW n \in Node, AttemptFails(e, n) PROVE Kept /\ (Marks \/ Judged(e))
  <2>1. n \in Under(e) /\ Kept
    BY <1>3 DEF AttemptFails, Under, Kept
  <2>2. CASE Settle(e, n, "failed")
    BY <2>1, <2>2, SettleFits
  <2>3. CASE ~Settle(e, n, "failed")
    BY <1>3, <2>1, <2>3, AttemptMarks
  <2>4. QED
    BY <2>2, <2>3
<1>4. ASSUME NEW n \in Node, BackoffEnds(e, n) PROVE Kept /\ (Marks \/ Judged(e))
  <2>1. n \in Under(e) /\ Kept
    BY <1>4 DEF BackoffEnds, Under, Kept
  <2>2. CASE exec[e].aborted /\ Settle(e, n, "skipped")
    BY <2>1, <2>2, SettleFits
  <2>3. CASE ~(exec[e].aborted /\ Settle(e, n, "skipped"))
    BY <1>4, <2>1, <2>3, BackoffMarks
  <2>4. QED
    BY <2>2, <2>3
<1>5. QED
  BY <1>1, <1>2, <1>3, <1>4 DEF Progress

LEMMA BeginFits ==
    ASSUME TypeOK, VerdictInv, NEW e \in Execution, Create(e) \/ Retry(e)
    PROVE  /\ Judged(e)
           /\ deps' = deps /\ ("pause" \in seen' <=> "pause" \in seen)
<1>0. e \in Signalled
  BY DEF Signalled
<1>1. ASSUME NEW P \in PlanRecord, Execute(e, P), Unskipped(P), exec[e] = NotYet
      PROVE  Judged(e)
  <2> DEFINE R == [P EXCEPT !.status = "running"]
  <2>1. R \in PlanRecord /\ R.status = "running" /\ R.node = P.node
    BY DEF PlanRecord, PlanStatus
  <2>2. Turn(e, R, e) /\ ~exec[e].aborted
    BY <1>1 DEF Execute, NotYet
  <2> HIDE DEF R
  <2>3. Unskipped(R)
    BY <1>1, <2>1 DEF Unskipped
  <2>4. QED
    BY <1>0, <2>1, <2>2, <2>3, TurnFits
<1>2. CASE Create(e)
  <2>1. NewPlan \in PlanRecord /\ Unskipped(NewPlan)
    BY DEF NewPlan, PlanRecord, PlanStatus, NodeStatus, Unskipped
  <2>2. QED
    BY <1>1, <1>2, <2>1 DEF Create
<1>3. CASE Retry(e)
  <2> DEFINE P == [stored EXCEPT !.node = Retried(stored)]
  <2>1. stored \in PlanRecord
    BY <1>3 DEF Retry, TypeOK
  <2>2. P \in PlanRecord
    BY <2>1 DEF PlanRecord, Retried, NodeStatus
  <2>3. Unskipped(P)
    BY <2>1 DEF VerdictInv, Unskipped, Retried, PlanRecord
  <2>4. Execute(e, P) /\ exec[e] = NotYet
        /\ deps' = deps /\ ("pause" \in seen' <=> "pause" \in seen)
    BY <1>3 DEF Retry
  <2> HIDE DEF P
  <2>5. QED
    BY <1>1, <2>2, <2>3, <2>4
<1>4. QED
  BY <1>2, <1>3

LEMMA MarksKeepVerdict == TypeOK /\ VerdictInv /\ Kept /\ Marks => VerdictInv'
<1> SUFFICES ASSUME TypeOK, VerdictInv, Kept, Marks PROVE VerdictInv'
  OBVIOUS
<1>1. stored # Gone => Fit(stored)'
  BY DEF VerdictInv, Kept, Marks, Fit, HasFailed, Executable
<1>2. QED
  BY <1>1 DEF VerdictInv, Kept, Marks, Unskipped, Alive

LEMMA OthersKeepVerdict ==
    ASSUME TypeOK, VerdictInv, Pause \/ Delete \/ Restart
    PROVE  VerdictInv'
<1>0. exec \in [Execution -> ExecRecord] /\ (stored # Gone => stored \in PlanRecord)
  BY DEF TypeOK, ExecRecord
<1>1. CASE Pause
  <2>1. \A e \in Execution : exec'[e].pc = exec[e].pc /\ exec'[e].plan = exec[e].plan
    BY <1>0, <1>1 DEF Pause, ExecRecord
  <2>2. "pause" \in seen'
    BY <1>1 DEF Pause
  <2>3. stored' # Gone => stored'.status = "paused"
    BY <1>0, <1>1 DEF Pause, PlanRecord
  <2>4. QED
    BY <2>1, <2>2, <2>3 DEF VerdictInv, Fit, Unskipped, Alive
<1>2. CASE Delete
  <2>1. Unskipped(Gone)'
    BY DEF Unskipped, Gone, NewPlan
  <2>2. QED
    BY <1>2, <2>1 DEF Delete, VerdictInv, Unskipped, Alive
<1>3. CASE Restart
  <2>1. \A e \in Execution : /\ exec'[e].plan = exec[e].plan
                             /\ exec'[e].aborted = exec[e].aborted
                             /\ exec'[e].pc = IF Alive(e) THEN "over" ELSE exec[e].pc
    BY <1>3, RestartStops
  <2>2. stored' = stored /\ seen' = seen /\ deps' = deps
    BY <1>3 DEF Restart
  <2>3. \A e \in Execution : Unskipped(exec[e].plan)'
    BY <2>1, <2>2 DEF VerdictInv, Unskipped
  <2>4. \A e \in Execution : /\ Alive(e)' => exec'[e].plan.status = "running"
                             /\ "pause" \notin seen' => ~exec'[e].aborted
    BY <2>1, <2>2 DEF VerdictInv, Alive
  <2>5. stored # Gone => Fit(stored)'
    BY <2>2 DEF VerdictInv, Fit, HasFailed, Executable
  <2>6. Unskipped(stored)'
    BY <2>2 DEF VerdictInv, Unskipped
  <2>7. QED
    BY <2>2, <2>3, <2>4, <2>5, <2>6 DEF VerdictInv
<1>4. QED
  BY <1>1, <1>2, <1>3

LEMMA NextVerdict == TypeOK /\ VerdictInv /\ [Next]_vars => VerdictInv'
<1> SUFFICES ASSUME TypeOK, VerdictInv, [Next]_vars PROVE VerdictInv'
  OBVIOUS
<1>1. ASSUME NEW e \in Execution, Create(e) \/ Retry(e) PROVE VerdictInv'
  BY <1>1, BeginFits, JudgedKeepsVerdict DEF VerdictInv
<1>2. ASSUME NEW e \in Execution, Progress(e) PROVE VerdictInv'
  BY <1>2, ProgressFits, MarksKeepVerdict, JudgedKeepsVerdict DEF VerdictInv, Kept
<1>3. CASE UNCHANGED vars
  <2>1. stored # Gone => Fit(stored)'
    BY <1>3 DEF vars, VerdictInv, Fit, HasFailed, Executable
  <2>2. QED
    BY <1>3, <2>1 DEF vars, VerdictInv, Unskipped, Alive
<1>4. QED
  BY <1>1, <1>2, <1>3, OthersKeepVerdict DEF Next

\* The verdict in the rows fits the nodes in them, in whatever order the
\* executions of the plan have written over each other: "failed" only with a
\* failed node, "done" only without, and with all nodes done when the plan
\* could be executed and was never paused.
THEOREM VerdictAlwaysFits == Spec => []VerdictFits
<1>1. Init => VerdictInv
  BY DEF Init, VerdictInv, Unskipped, NotYet, NewPlan, Gone, Alive
<1>2. VerdictInv => VerdictFits
  BY DEF VerdictInv, VerdictFits, Fit
<1>3. QED
  BY <1>1, <1>2, TypeCorrect, NextVerdict, PTL DEF Spec

-----------------------------------------------------------------------------
(* Results are kept.                                                       *)

\* Unless the plan was retried while it was being executed, one execution at
\* most is alive, and the rows hold its object's nodes unless they are gone;
\* there are no rows before the first execution.
WriterInv ==
    /\ "twins" \notin seen =>
          \A e \in Execution : Alive(e) =>
              /\ \A f \in Execution : Alive(f) => f = e
              /\ stored # Gone => stored.node = exec[e].plan.node
    /\ (\A e \in Execution : exec[e].pc = "idle") => stored = Gone

StaysDone(P, Q) == \A n \in Node : P.node[n] = "done" => Q.node[n] = "done"

\* The rows afterwards, of a step that is no deletion.
KeepsResults ==
    /\ "twins" \notin seen => StaysDone(stored, stored')
    /\ stored = Gone /\ stored' # Gone
          => WritersAlive # {} \/ \A e \in Execution : exec[e] = NotYet

LEMMA WorksKeepsResults ==
    ASSUME TypeOK, WriterInv, NEW e \in Execution, Alive(e), Kept,
           NEW pc \in {"batch", "poll", "over"}, NEW Q \in PlanRecord,
           NEW w \in [Node -> WorkRecord], Works(e, pc, Q, w)
    PROVE  WriterInv' /\ KeepsResults
<1>1. /\ stored' = Q /\ exec'[e].plan = Q /\ exec'[e].pc = pc
      /\ \A f \in Execution \ {e} : exec'[f] = exec[f]
  <2>1. Stands(e, pc, Q, w) /\ (pc = "batch" <=> \E n \in Node : w[n].at # "none")
    BY DEF Works
  <2>2. stored' = Q
    BY <2>1 DEF Stands
  <2>3. QED
    BY <2>1, <2>2, WorksIsRunning, StandsKeepsTypes
<1>2. \A n \in Under(e) : exec[e].plan.node[n] # "done"
  BY DEF TypeOK, Running
<1>3. \A n \in Node : exec[e].plan.node[n] = "done" => Q.node[n] = "done"
  BY <1>2 DEF Works
<1>4. "twins" \notin seen => StaysDone(stored, Q)
  BY <1>3 DEF WriterInv, StaysDone, Gone, NewPlan
<1>5. WriterInv'
  BY <1>1 DEF WriterInv, Alive, Kept
<1>6. KeepsResults
  BY <1>1, <1>4 DEF KeepsResults, WritersAlive
<1>7. QED
  BY <1>5, <1>6

LEMMA MarksKeepResults ==
    TypeOK /\ WriterInv /\ Kept /\ Marks => WriterInv' /\ KeepsResults
BY DEF WriterInv, Kept, Marks, KeepsResults, StaysDone, Alive

LEMMA BeginKeepsResults ==
    ASSUME TypeOK, WriterInv, NEW e \in Execution, Create(e) \/ Retry(e)
    PROVE  WriterInv' /\ KeepsResults
<1>1. ASSUME NEW P \in PlanRecord, Execute(e, P)
      PROVE  /\ stored' = exec'[e].plan /\ StaysDone(P, stored')
             /\ exec'[e].pc # "idle"
             /\ \A f \in Execution \ {e} : exec'[f] = exec[f]
  <2> DEFINE R == [P EXCEPT !.status = "running"]
  <2>1. R \in PlanRecord /\ R.node = P.node /\ Turn(e, R, e) /\ e \in Signalled
    BY <1>1 DEF PlanRecord, PlanStatus, Execute, Signalled
  <2> HIDE DEF R
  <2>2. PICK pc \in {"batch", "poll", "over"}, Q \in PlanRecord,
             w \in [Node -> WorkRecord] : TurnsTo(e, R, e, pc, Q, w)
    BY <2>1, TurnOutcome
  <2>3. stored' = Q /\ exec'[e].plan = Q /\ exec'[e].pc = pc
        /\ \A f \in Execution \ {e} : exec'[f] = exec[f]
    <3>1. /\ Stands(e, pc, Q, w) /\ (pc = "batch" <=> \E n \in Node : w[n].at # "none")
          /\ \A n \in Node : w[n].at # "none" => Q.node[n] = "running"
      BY <2>2 DEF TurnsTo, Started
    <3>2. stored' = Q
      BY <3>1 DEF Stands
    <3>3. QED
      BY <3>1, <3>2, StandsKeepsTypes
  <2>4. StaysDone(P, Q)
    BY <2>1, <2>2 DEF TurnsTo, Started, StaysDone
  <2>5. exec'[e].pc # "idle"
    BY <2>3
  <2>6. QED
    BY <2>3, <2>4, <2>5 DEF StaysDone
<1>2. CASE Create(e)
  <2>1. NewPlan \in PlanRecord
    BY DEF NewPlan, PlanRecord, PlanStatus, NodeStatus
  <2>2. \A f \in Execution : /\ exec[f] = NotYet
                             /\ exec[f].pc = "idle" /\ ~Alive(f)
    <3>1. \A f \in Execution : exec[f] = NotYet
      BY <1>2 DEF Create
    <3>2. NotYet.pc = "idle"
      BY DEF NotYet
    <3>3. QED
      BY <3>1, <3>2 DEF Alive
  <2>3. Execute(e, NewPlan) /\ seen' = seen
    BY <1>2 DEF Create
  <2>4. WriterInv'
    BY <1>1, <2>1, <2>2, <2>3 DEF WriterInv, Alive
  <2>5. StaysDone(stored, stored')
    BY <2>2 DEF WriterInv, NotYet, StaysDone, Gone, NewPlan
  <2>6. KeepsResults
    BY <2>2, <2>5 DEF KeepsResults, StaysDone
  <2>7. QED
    BY <2>4, <2>6
<1>3. CASE Retry(e)
  <2> DEFINE P == [stored EXCEPT !.node = Retried(stored)]
  <2>1. stored \in PlanRecord /\ stored # Gone
    BY <1>3 DEF Retry, TypeOK
  <2>2. P \in PlanRecord /\ StaysDone(stored, P)
    BY <2>1 DEF PlanRecord, Retried, NodeStatus, StaysDone
  <2>3. Execute(e, P) /\ seen' = seen \union IF WritersAlive = {} THEN {} ELSE {"twins"}
    BY <1>3 DEF Retry
  <2> HIDE DEF P
  <2>4. StaysDone(stored, stored')
    BY <1>1, <2>2, <2>3 DEF StaysDone
  <2>5. WriterInv'
    BY <1>1, <2>2, <2>3 DEF WriterInv, Alive, WritersAlive
  <2>6. QED
    BY <2>1, <2>4, <2>5 DEF KeepsResults
<1>4. QED
  BY <1>2, <1>3

LEMMA OthersKeepResults ==
    ASSUME TypeOK, WriterInv, Pause \/ Delete \/ Restart
    PROVE  WriterInv' /\ (KeepsResults \/ stored' = Gone)
<1>0. exec \in [Execution -> ExecRecord] /\ (stored # Gone => stored \in PlanRecord)
  BY DEF TypeOK, ExecRecord
<1>1. CASE Pause
  <2>1. \A e \in Execution : exec'[e].pc = exec[e].pc /\ exec'[e].plan = exec[e].plan
    BY <1>0, <1>1 DEF Pause, ExecRecord
  <2>2. stored' = Gone <=> stored = Gone
    BY <1>0, <1>1 DEF Pause, PlanRecord, PlanStatus, Gone, NewPlan
  <2>3. stored # Gone => stored'.node = stored.node
    BY <1>0, <1>1 DEF Pause, PlanRecord
  <2>4. "twins" \in seen' <=> "twins" \in seen
    BY <1>1 DEF Pause
  <2>5. WriterInv'
    BY <2>1, <2>2, <2>3, <2>4 DEF WriterInv, Alive
  <2>6. KeepsResults \/ stored' = Gone
    BY <2>2, <2>3 DEF KeepsResults, StaysDone
  <2>7. QED
    BY <2>5, <2>6
<1>2. CASE Delete
  BY <1>2 DEF Delete, WriterInv, Alive
<1>3. CASE Restart
  <2>1. \A e \in Execution : exec'[e].pc = IF Alive(e) THEN "over" ELSE exec[e].pc
    BY <1>3, RestartStops
  <2>2. \A e \in Execution : ~Alive(e)' /\ (exec'[e].pc = "idle" <=> exec[e].pc = "idle")
    BY <2>1 DEF Alive
  <2>3. stored' = stored /\ seen' = seen
    BY <1>3 DEF Restart
  <2>4. QED
    BY <2>2, <2>3 DEF WriterInv, KeepsResults, StaysDone
<1>4. QED
  BY <1>1, <1>2, <1>3

LEMMA NextResults ==
    TypeOK /\ WriterInv /\ [Next]_vars => WriterInv' /\ (KeepsResults \/ stored' = Gone)
<1> SUFFICES ASSUME TypeOK, WriterInv, [Next]_vars
             PROVE  WriterInv' /\ (KeepsResults \/ stored' = Gone)
  OBVIOUS
<1>1. ASSUME NEW e \in Execution, Progress(e) PROVE WriterInv' /\ KeepsResults
  BY <1>1, ProgressOutcome, MarksKeepResults, WorksKeepsResults
<1>2. CASE UNCHANGED vars
  BY <1>2 DEF vars, WriterInv, KeepsResults, StaysDone, Alive
<1>3. QED
  BY <1>1, <1>2, BeginKeepsResults, OthersKeepResults DEF Next

\* A node that the rows say is done stays so unless the plan was retried while
\* it was being executed, or is deleted; and a plan that was deleted comes
\* back only from an execution that is alive.
THEOREM ResultsAreAlwaysKept == Spec => ResultsAreKept
<1>1. TypeOK /\ WriterInv /\ [Next]_vars =>
        [/\ \A n \in Node :
               stored.node[n] = "done" /\ stored'.node[n] # "done"
                  => "twins" \in seen \/ stored' = Gone
         /\ stored = Gone /\ stored' # Gone
               => WritersAlive # {} \/ \A e \in Execution : exec[e] = NotYet]_vars
  BY NextResults DEF KeepsResults, StaysDone
<1>2. Init => WriterInv
  BY DEF Init, WriterInv, NotYet, Alive
<1>3. TypeOK /\ WriterInv /\ [Next]_vars => WriterInv'
  BY NextResults
<1>4. QED
  BY <1>1, <1>2, <1>3, TypeCorrect, PTL DEF Spec, ResultsAreKept

=============================================================================
