------------------------ MODULE RunbookEngineProofs -------------------------
(***************************************************************************)
(* Invariance proofs for RunbookEngine: for every set of runs, every       *)
(* sequence of template versions, every limit and any number of requests   *)
(* and restarts, approval gates hold, a run has one loop, a run that       *)
(* completed or failed is never written again, and none is lost sight of.  *)
(***************************************************************************)
EXTENDS RunbookEngine, FiniteSetTheorems, SequenceTheorems,
        WellFoundedInduction, TLAPS

Step    == [id : STRING, kind : {"approval", "body"}, guarded : BOOLEAN,
            onSuccess : STRING, onFailure : STRING]
StepRes == [status : StepStatus, approved : BOOLEAN]
RunRec  == [status : RunStatus, at : Nat \ {0}, results : Seq(StepRes)]
LoopRec == [alive : BOOLEAN, version : Version, entered : 0..MaxSteps]
RowRec  == [step : STRING, shown : Version,
            status : {"pending", "approved", "rejected"}]

SetStatus(q, i, x) == [q EXCEPT ![i].status = x]
SetResult(q, i, x) == [q EXCEPT ![i] = x]

\* No step of the run is being executed.
Idle(R) == \A k \in 1..Len(R.results) : R.results[k].status # "running"

\* What ties a run to its loop: the only step that can be executing is the
\* current one; none is while the run waits; and while the loop is alive the
\* run is running or was just cancelled, the current step is executing, and
\* if it is gated it has been approved.
LoopFits(R, l) ==
    /\ \A k \in 1..Len(R.results) :
          R.results[k].status = "running" => k = R.at
    /\ R.status = "waiting_approval" => Idle(R)
    /\ l.alive =>
          /\ R.status \in {"running", "cancelled"}
          /\ R.at \in 1..Len(R.results)
          /\ R.at \in 1..Len(Steps[l.version])
          /\ R.results[R.at].status = "running"
          /\ Gated(Steps[l.version][R.at]) => R.results[R.at].approved

\* The inductive invariant.
LoopInv == TypeOK /\ \A r \in Run : LoopFits(run[r], loop[r])

-----------------------------------------------------------------------------
(* Lemmas about sequences.                                                 *)

\* A non-empty set of naturals has a least element.
LEMMA LeastElement ==
    ASSUME NEW T \in SUBSET Nat, T # {}
    PROVE  \E x \in T : \A y \in T : x <= y
<1>1. \E x \in T : \A y \in T : ~(<<y, x>> \in OpToRel(<, Nat))
  BY WFMin, NatLessThanWellFounded, Zenon
<1>2. PICK x \in T : \A y \in T : ~(<<y, x>> \in OpToRel(<, Nat))
  BY <1>1
<1>3. \A y \in T : ~(y < x)
  <2>1. TAKE y \in T
  <2>2. <<y, x>> \in Nat \X Nat
    OBVIOUS
  <2>3. QED
    BY <1>2, <2>2 DEF OpToRel
<1>4. QED
  BY <1>3

\* A step id that occurs in a version has a first index there.
LEMMA IndexOfRange ==
    ASSUME NEW v \in Version, NEW id \in StepIds(v)
    PROVE  IndexOf(v, id) \in 1..Len(Steps[v])
<1> DEFINE T == {i \in 1..Len(Steps[v]) : Steps[v][i].id = id}
<1>1. Steps[v] \in Seq(Step)
  BY StepsType DEF Step
<1>2. Len(Steps[v]) \in Nat
  BY <1>1
<1>3. T \in SUBSET Nat /\ T # {}
  BY <1>2 DEF StepIds
<1>4. PICK x \in T : \A y \in T : x <= y
  BY <1>3, LeastElement
<1>5. \A j \in 1..(x - 1) : Steps[v][j].id # id
  BY <1>2, <1>4
<1>6. QED
  BY <1>4, <1>5 DEF IndexOf

\* Writing the status of one step result.
LEMMA StatusWritten ==
    ASSUME NEW q \in Seq(StepRes), NEW i \in Nat, NEW x \in StepStatus
    PROVE  /\ SetStatus(q, i, x) \in Seq(StepRes)
           /\ Len(SetStatus(q, i, x)) = Len(q)
           /\ \A k \in 1..Len(q) :
                 /\ SetStatus(q, i, x)[k].approved = q[k].approved
                 /\ SetStatus(q, i, x)[k].status =
                       IF k = i THEN x ELSE q[k].status
<1> DEFINE p == SetStatus(q, i, x)
<1>1. CASE i \in 1..Len(q)
  <2>1. q[i] \in StepRes
    BY <1>1
  <2>2. [q[i] EXCEPT !.status = x] \in StepRes
    BY <2>1 DEF StepRes
  <2>3. p = [q EXCEPT ![i] = [q[i] EXCEPT !.status = x]]
    BY DEF SetStatus
  <2>4. /\ p \in Seq(StepRes)
        /\ Len(p) = Len(q)
        /\ \A k \in 1..Len(q) :
              p[k] = IF k = i THEN [q[i] EXCEPT !.status = x] ELSE q[k]
    BY <1>1, <2>2, <2>3, ExceptSeq
  <2>5. QED
    BY <2>1, <2>4 DEF StepRes
<1>2. CASE i \notin 1..Len(q)
  <2>1. p = q
    BY <1>2 DEF SetStatus
  <2>2. \A k \in 1..Len(q) : k # i
    BY <1>2
  <2>3. QED
    BY <2>1, <2>2
<1>3. QED
  BY <1>1, <1>2

\* Replacing one step result.
LEMMA ResultWritten ==
    ASSUME NEW q \in Seq(StepRes), NEW i \in Nat, NEW x \in StepRes
    PROVE  /\ SetResult(q, i, x) \in Seq(StepRes)
           /\ Len(SetResult(q, i, x)) = Len(q)
           /\ \A k \in 1..Len(q) :
                 SetResult(q, i, x)[k] = IF k = i THEN x ELSE q[k]
<1>1. CASE i \in 1..Len(q)
  BY <1>1, ExceptSeq DEF SetResult
<1>2. CASE i \notin 1..Len(q)
  <2>1. SetResult(q, i, x) = q
    BY <1>2 DEF SetResult
  <2>2. \A k \in 1..Len(q) : k # i
    BY <1>2
  <2>3. QED
    BY <2>1, <2>2
<1>3. QED
  BY <1>1, <1>2

\* The same, of one place in the sequence.
LEMMA ResultAt ==
    \A q \in Seq(StepRes), i \in Nat, x \in StepRes : \A k \in 1..Len(q) :
        SetResult(q, i, x)[k] = IF k = i THEN x ELSE q[k]
  BY ResultWritten

-----------------------------------------------------------------------------
(* One turn of the loop.                                                   *)

\* A run whose loop is left idle fits it.
LEMMA LeavesFits ==
    ASSUME run \in [Run -> RunRec], loop \in [Run -> LoopRec],
           rows \in [Run -> Seq(RowRec)],
           NEW r \in Run, NEW R \in RunRec, NEW q \in Seq(RowRec),
           NEW v \in Version, Idle(R), Leaves(r, R, q, v)
    PROVE  /\ run' \in [Run -> RunRec]
           /\ loop' \in [Run -> LoopRec]
           /\ rows' \in [Run -> Seq(RowRec)]
           /\ LoopFits(run'[r], loop'[r])
           /\ \A s \in Run \ {r} : run'[s] = run[s] /\ loop'[s] = loop[s]
<1>1. /\ run' = [run EXCEPT ![r] = R]
      /\ rows' = [rows EXCEPT ![r] = q]
      /\ loop' = [loop EXCEPT ![r] = [alive |-> FALSE, version |-> v,
                                      entered |-> 0]]
  BY DEF Leaves
<1>2. [alive |-> FALSE, version |-> v, entered |-> 0] \in LoopRec
  BY BoundsAreNat DEF LoopRec
<1>3. /\ run' \in [Run -> RunRec]
      /\ loop' \in [Run -> LoopRec]
      /\ rows' \in [Run -> Seq(RowRec)]
      /\ \A s \in Run \ {r} : run'[s] = run[s] /\ loop'[s] = loop[s]
  BY <1>1, <1>2
<1>4. run'[r] = R /\ ~loop'[r].alive
  BY <1>1
<1>5. LoopFits(run'[r], loop'[r])
  BY <1>4 DEF LoopFits, Idle
<1>6. QED
  BY <1>3, <1>5

\* Entering a step of an idle run that is running or cancelled leaves a run
\* that fits its loop, whichever step is entered and whatever the limits say;
\* and it touches no other run.
LEMMA EnterFits ==
    ASSUME run \in [Run -> RunRec], loop \in [Run -> LoopRec],
           rows \in [Run -> Seq(RowRec)],
           NEW r \in Run, NEW R \in RunRec, NEW q \in Seq(RowRec),
           NEW v \in Version, NEW i \in Nat \ {0}, NEW n \in Nat \ {0},
           R.status \in {"running", "cancelled"}, Idle(R),
           Enter(r, R, q, v, i, n)
    PROVE  /\ run' \in [Run -> RunRec]
           /\ loop' \in [Run -> LoopRec]
           /\ rows' \in [Run -> Seq(RowRec)]
           /\ LoopFits(run'[r], loop'[r])
           /\ \A s \in Run \ {r} : run'[s] = run[s] /\ loop'[s] = loop[s]
<1> DEFINE left(R2, q2) == Leaves(r, R2, q2, v)
           Fits == /\ run' \in [Run -> RunRec]
                   /\ loop' \in [Run -> LoopRec]
                   /\ rows' \in [Run -> Seq(RowRec)]
                   /\ LoopFits(run'[r], loop'[r])
                   /\ \A s \in Run \ {r} : run'[s] = run[s]
                                           /\ loop'[s] = loop[s]
<1>1. ASSUME NEW R2 \in RunRec, NEW q2 \in Seq(RowRec), Idle(R2),
             left(R2, q2)
      PROVE  Fits
  BY <1>1, LeavesFits
<1>2. ASSUME NEW s \in RunStatus
      PROVE  [R EXCEPT !.status = s] \in RunRec /\ Idle([R EXCEPT !.status = s])
  BY DEF RunRec, Idle
<1>3. Steps[v] \in Seq(Step)
  BY StepsType DEF Step
<1>4. PICK res : res = R.results
  OBVIOUS
<1>5. res \in Seq(StepRes) /\ R.status \in RunStatus /\ i \in Nat
  BY <1>4 DEF RunRec
<1>6. "running" \in StepStatus /\ "waiting_approval" \in StepStatus
  BY DEF StepStatus
<1>7. CASE i > Len(Steps[v]) /\ left([R EXCEPT !.status = "completed"], q)
  BY <1>7, <1>1, <1>2 DEF RunStatus
<1>8. CASE left([R EXCEPT !.status = "failed"], q)
  BY <1>8, <1>1, <1>2 DEF RunStatus
<1>9. CASE left(R, q)
  BY <1>9, <1>1
<1>10. ASSUME i <= Len(Steps[v]), ~Overruns(r, n), ~Aborts(R, i),
             IF MustWait(R, v, i) THEN Pauses(r, R, q, v, i)
             ELSE Starts(r, R, q, v, i, n)
      PROVE  Fits
  <2>1. i \in 1..Len(R.results) /\ R.status = "running"
    BY <1>4, <1>5, <1>10 DEF Aborts
  <2>2. i \in 1..Len(Steps[v])
    BY <1>3, <1>10
  <2>3. CASE MustWait(R, v, i)
    <3> DEFINE p   == SetStatus(res, i, "waiting_approval")
               R2  == [R EXCEPT !.status = "waiting_approval", !.at = i,
                                !.results[i].status = "waiting_approval"]
               add == [step |-> Steps[v][i].id, shown |-> v,
                       status |-> "pending"]
    <3>1. /\ p \in Seq(StepRes) /\ Len(p) = Len(res)
          /\ \A k \in 1..Len(res) :
                p[k].status = IF k = i THEN "waiting_approval"
                              ELSE res[k].status
      <4>1. p \in Seq(StepRes) /\ Len(p) = Len(res)
        BY <1>5, <1>6, StatusWritten
      <4>2. \A k \in 1..Len(res) :
              p[k].status = IF k = i THEN "waiting_approval"
                            ELSE res[k].status
        BY <1>5, <1>6, StatusWritten
      <4>3. QED
        BY <4>1, <4>2
    <3>2. R2 = [R EXCEPT !.status = "waiting_approval", !.at = i,
                         !.results = p]
      BY <1>4 DEF SetStatus
    <3>3. R2 \in RunRec /\ R2.results = p
      BY <3>1, <3>2 DEF RunRec, RunStatus, Active
    <3>4. Idle(R2)
      BY <1>4, <3>1, <3>3 DEF Idle
    <3>5. Steps[v][i] \in Step
      BY <1>3, <2>2
    <3>6. add \in RowRec
      BY <3>5 DEF RowRec, Step
    <3>7. Append(q, add) \in Seq(RowRec)
      BY <3>6
    <3>8. left(R2, Append(q, add))
      BY <1>10, <2>3 DEF Pauses
    <3>9. QED
      BY <1>1, <3>3, <3>4, <3>7, <3>8
  <2>4. CASE ~MustWait(R, v, i)
    <3> DEFINE p  == SetStatus(res, i, "running")
               R2 == [R EXCEPT !.at = i, !.results[i].status = "running"]
               l2 == [alive |-> TRUE, version |-> v, entered |-> n]
    <3>1. /\ p \in Seq(StepRes) /\ Len(p) = Len(res)
          /\ \A k \in 1..Len(res) :
                /\ p[k].approved = res[k].approved
                /\ p[k].status = IF k = i THEN "running"
                                 ELSE res[k].status
      <4>1. p \in Seq(StepRes) /\ Len(p) = Len(res)
        BY <1>5, <1>6, StatusWritten
      <4>2. \A k \in 1..Len(res) :
              /\ p[k].approved = res[k].approved
              /\ p[k].status = IF k = i THEN "running" ELSE res[k].status
        BY <1>5, <1>6, StatusWritten
      <4>3. QED
        BY <4>1, <4>2
    <3>2. R2 = [R EXCEPT !.at = i, !.results = p]
      BY <1>4 DEF SetStatus
    <3>3. /\ R2 \in RunRec
          /\ R2.status = R.status /\ R2.at = i /\ R2.results = p
      BY <3>1, <3>2 DEF RunRec
    <3>4. l2 \in LoopRec
      BY <1>10, BoundsAreNat DEF Overruns, LoopRec
    <3>5. /\ run' = [run EXCEPT ![r] = R2]
          /\ rows' = [rows EXCEPT ![r] = q]
          /\ loop' = [loop EXCEPT ![r] = l2]
      BY <1>10, <2>4 DEF Starts
    <3>6. /\ run' \in [Run -> RunRec]
          /\ loop' \in [Run -> LoopRec]
          /\ rows' \in [Run -> Seq(RowRec)]
          /\ \A s \in Run \ {r} : run'[s] = run[s] /\ loop'[s] = loop[s]
      BY <3>3, <3>4, <3>5
    <3>7. run'[r] = R2 /\ loop'[r] = l2
      BY <3>5
    <3>8. Gated(Steps[v][i]) => p[i].approved
      BY <1>4, <2>1, <2>4, <3>1 DEF MustWait
    <3>9. \A k \in 1..Len(p) : p[k].status = "running" => k = i
      BY <1>4, <3>1 DEF Idle
    <3>10. /\ R2.status = "running" /\ R2.at = i /\ R2.results = p
           /\ l2.alive /\ l2.version = v
      BY <2>1, <3>3
    <3>11. i \in 1..Len(p) /\ p[i].status = "running"
      BY <1>4, <2>1, <3>1
    <3>12. LoopFits(R2, l2)
      BY <2>2, <3>8, <3>9, <3>10, <3>11 DEF LoopFits
    <3>13. QED
      BY <3>6, <3>7, <3>12
  <2>5. QED
    BY <2>3, <2>4
<1>11. QED
  BY <1>7, <1>8, <1>9, <1>10 DEF Enter

-----------------------------------------------------------------------------
(* The invariant is inductive.                                             *)

\* What a step of run r owes the invariant.
LEMMA OneRunKeepsInv ==
    ASSUME LoopInv, NEW r \in Run,
           run' \in [Run -> RunRec], loop' \in [Run -> LoopRec],
           rows' \in [Run -> Seq(RowRec)],
           LoopFits(run'[r], loop'[r]),
           \A s \in Run \ {r} : run'[s] = run[s] /\ loop'[s] = loop[s],
           template' = template, late' = late,
           cached' \subseteq Run, requests' \in Nat, restarts' \in Nat,
           edited' \in BOOLEAN
    PROVE  LoopInv'
<1>1. TypeOK'
  BY DEF LoopInv, TypeOK, RunRec, LoopRec, RowRec, StepRes
<1>2. \A s \in Run : LoopFits(run'[s], loop'[s])
  BY DEF LoopInv
<1>3. QED
  BY <1>1, <1>2 DEF LoopInv

LEMMA InvTypes ==
    LoopInv => /\ run \in [Run -> RunRec]
               /\ loop \in [Run -> LoopRec]
               /\ rows \in [Run -> Seq(RowRec)]
BY DEF LoopInv, TypeOK, RunRec, LoopRec, RowRec, StepRes

\* A step of run r that enters the loop keeps the invariant.
LEMMA EnterKeepsInv ==
    ASSUME LoopInv, NEW r \in Run,
           NEW R \in RunRec, NEW q \in Seq(RowRec), NEW v \in Version,
           NEW i \in Nat \ {0}, NEW n \in Nat \ {0},
           R.status \in {"running", "cancelled"}, Idle(R),
           Enter(r, R, q, v, i, n),
           template' = template, late' = late,
           cached' \subseteq Run, requests' \in Nat, restarts' \in Nat,
           edited' \in BOOLEAN
    PROVE  /\ LoopInv'
           /\ \A s \in Run \ {r} : run'[s] = run[s]
BY InvTypes, EnterFits, OneRunKeepsInv

\* So does one that leaves it.
LEMMA LeavesKeepsInv ==
    ASSUME LoopInv, NEW r \in Run,
           NEW R \in RunRec, NEW q \in Seq(RowRec), NEW v \in Version,
           Idle(R), Leaves(r, R, q, v),
           template' = template, late' = late,
           cached' \subseteq Run, requests' \in Nat, restarts' \in Nat,
           edited' \in BOOLEAN
    PROVE  /\ LoopInv'
           /\ \A s \in Run \ {r} : run'[s] = run[s]
BY InvTypes, LeavesFits, OneRunKeepsInv

\* A new run is idle.
LEMMA NewRunIdle ==
    ASSUME NEW v \in Version
    PROVE  /\ NewRun(v) \in RunRec
           /\ NewRun(v).status = "running"
           /\ Idle(NewRun(v))
<1> DEFINE res == [i \in 1..Len(Steps[v]) |->
                      [status |-> "pending", approved |-> FALSE]]
<1>1. Len(Steps[v]) \in Nat
  BY StepsType
<1>2. [status |-> "pending", approved |-> FALSE] \in StepRes
  BY DEF StepRes, StepStatus
<1>3. res \in Seq(StepRes) /\ Len(res) = Len(Steps[v])
  BY <1>1, <1>2
<1>4. \A k \in 1..Len(res) : res[k].status = "pending"
  BY <1>3
<1>5. NewRun(v) = [status |-> "running", at |-> 1, results |-> res]
  BY DEF NewRun
<1>6. QED
  BY <1>3, <1>4, <1>5 DEF RunRec, RunStatus, Active, Idle

LEMMA InitInv == Init => LoopInv
<1> SUFFICES ASSUME Init PROVE LoopInv
  OBVIOUS
<1>1. NoRun \in RunRec /\ NoRun.status = "none" /\ NoRun.results = <<>>
  BY DEF NoRun, RunRec, RunStatus
<1>2. NoLoop \in LoopRec /\ ~NoLoop.alive
  BY BoundsAreNat DEF Init, NoLoop, LoopRec
<1>3. <<>> \in Seq(RowRec) /\ Len(<<>>) = 0
  OBVIOUS
<1>4. TypeOK
  BY <1>1, <1>2, <1>3
     DEF Init, TypeOK, RunRec, StepRes, LoopRec, RowRec
<1>5. LoopFits(NoRun, NoLoop)
  BY <1>1, <1>2, <1>3 DEF LoopFits
<1>6. QED
  BY <1>4, <1>5 DEF Init, LoopInv

LEMMA ExecuteRunInv ==
    ASSUME LoopInv, NEW r \in Run, ExecuteRun(r)
    PROVE  /\ LoopInv'
           /\ \A s \in Run \ {r} : run'[s] = run[s]
<1>1. template \in Version /\ Enter(r, NewRun(template), <<>>, template, 1, 1)
  BY DEF ExecuteRun
<1>2. <<>> \in Seq(RowRec)
  OBVIOUS
<1>3. /\ template' = template /\ late' = late
      /\ cached' \subseteq Run /\ requests' \in Nat /\ restarts' \in Nat
      /\ edited' \in BOOLEAN
  BY DEF ExecuteRun, LoopInv, TypeOK
<1>4. /\ NewRun(template) \in RunRec /\ Idle(NewRun(template))
      /\ NewRun(template).status \in {"running", "cancelled"}
  BY <1>1, NewRunIdle
<1>5. 1 \in Nat \ {0}
  OBVIOUS
<1>6. QED
  BY <1>1, <1>2, <1>3, <1>4, <1>5, EnterKeepsInv

\* The step that ends was the only one executing: its run is idle again.
LEMMA StepEndsInv ==
    ASSUME LoopInv, NEW r \in Run, NEW ok \in BOOLEAN, StepEnds(r, ok)
    PROVE  /\ LoopInv'
           /\ \A s \in Run \ {r} : run'[s] = run[s]
<1> DEFINE v == loop[r].version
           i == run[r].at
           x == IF ok THEN "success" ELSE "failed"
           R == [run[r] EXCEPT !.results[i].status = x]
           next == IF ok THEN Steps[v][i].onSuccess ELSE Steps[v][i].onFailure
           others == /\ template' = template /\ late' = late
                     /\ cached' \subseteq Run
                     /\ requests' \in Nat /\ restarts' \in Nat
      /\ edited' \in BOOLEAN
<1>1. /\ loop[r].alive
      /\ run[r] \in RunRec /\ v \in Version /\ loop[r].entered \in Nat
      /\ rows[r] \in Seq(RowRec)
  <2>1. loop[r].alive
    BY DEF StepEnds
  <2>2. run[r] \in RunRec /\ loop[r] \in LoopRec /\ rows[r] \in Seq(RowRec)
    BY InvTypes
  <2>3. v \in Version /\ loop[r].entered \in Nat
    BY <2>2, BoundsAreNat DEF LoopRec
  <2>4. QED
    BY <2>1, <2>2, <2>3
<1>2. PICK res : res = run[r].results
  OBVIOUS
<1>3. /\ res \in Seq(StepRes) /\ i \in Nat \ {0} /\ i \in Nat
      /\ run[r].status \in {"running", "cancelled"}
      /\ \A k \in 1..Len(res) : res[k].status = "running" => k = i
      /\ i \in 1..Len(Steps[v])
  BY <1>1, <1>2 DEF LoopInv, LoopFits, RunRec
<1>4. x \in StepStatus /\ x # "running"
  BY DEF StepStatus
<1> DEFINE p == SetStatus(res, i, x)
<1>5. /\ p \in Seq(StepRes) /\ Len(p) = Len(res)
      /\ \A k \in 1..Len(res) :
            p[k].status = IF k = i THEN x ELSE res[k].status
  <2> HIDE DEF x, i
  <2>1. i \in Nat /\ res \in Seq(StepRes) /\ x \in StepStatus
    BY <1>3, <1>4
  <2>2. p \in Seq(StepRes) /\ Len(p) = Len(res)
    BY <2>1, StatusWritten
  <2>3. \A k \in 1..Len(res) : p[k].status = IF k = i THEN x ELSE res[k].status
    BY <2>1, StatusWritten
  <2>4. QED
    BY <2>2, <2>3
<1>6. R = [run[r] EXCEPT !.results = p]
  BY <1>2 DEF SetStatus
<1>7. R \in RunRec /\ R.results = p /\ R.status = run[r].status
  BY <1>1, <1>5, <1>6 DEF RunRec
<1>8. Idle(R)
  BY <1>3, <1>4, <1>5, <1>7 DEF Idle
<1>9. others
  BY DEF StepEnds, LoopInv, TypeOK
<1>10. ASSUME NEW s \in RunStatus, Leaves(r, [R EXCEPT !.status = s], rows[r], v)
       PROVE  LoopInv' /\ \A t \in Run \ {r} : run'[t] = run[t]
  <2>1. [R EXCEPT !.status = s] \in RunRec /\ Idle([R EXCEPT !.status = s])
    BY <1>7, <1>8 DEF RunRec, Idle
  <2> HIDE DEF R, v
  <2> QED
    BY <1>1, <1>9, <1>10, <2>1, LeavesKeepsInv
<1>11. ASSUME NEW j \in Nat \ {0}, Enter(r, R, rows[r], v, j, loop[r].entered + 1)
       PROVE  LoopInv' /\ \A t \in Run \ {r} : run'[t] = run[t]
  <2>1. R.status \in {"running", "cancelled"}
    BY <1>3, <1>7
  <2>2. loop[r].entered + 1 \in Nat \ {0}
    BY <1>1
  <2> HIDE DEF R, v
  <2> QED
    BY <1>1, <1>7, <1>8, <1>9, <1>11, <2>1, <2>2, EnterKeepsInv
<1>12. \/ Leaves(r, [R EXCEPT !.status = "completed"], rows[r], v)
       \/ Leaves(r, [R EXCEPT !.status = "failed"], rows[r], v)
       \/ Enter(r, R, rows[r], v, i + 1, loop[r].entered + 1)
       \/ /\ next \in StepIds(v)
          /\ Enter(r, R, rows[r], v, IndexOf(v, next), loop[r].entered + 1)
  BY DEF StepEnds
<1>13. Len(Steps[v]) \in Nat
  BY <1>1, StepsType
<1>14. next \in StepIds(v) => IndexOf(v, next) \in Nat \ {0}
  <2> HIDE DEF v, next
  <2> QED
    BY <1>1, <1>13, IndexOfRange
<1>15. i + 1 \in Nat \ {0}
  BY <1>3
<1>16. "completed" \in RunStatus /\ "failed" \in RunStatus
  BY DEF RunStatus
<1> HIDE DEF R, v, i, next
<1>17. QED
  BY <1>10, <1>11, <1>12, <1>14, <1>15, <1>16

\* A decision rewrites the approval rows of a run.
LEMMA DecideRowType ==
    ASSUME LoopInv, NEW r \in Run, NEW id,
           NEW verdict \in {"approved", "rejected"}
    PROVE  DecideRow(r, id, verdict) \in Seq(RowRec)
<1>1. PICK q : q = rows[r]
  OBVIOUS
<1>2. q \in Seq(RowRec)
  BY <1>1, InvTypes
<1>3. \A k \in 1..Len(q) : [q[k] EXCEPT !.status = verdict] \in RowRec
  <2>1. TAKE k \in 1..Len(q)
  <2>2. q[k] \in RowRec
    BY <1>2
  <2>3. QED
    BY <2>2 DEF RowRec
<1>4. DecideRow(r, id, verdict) \in [1..Len(q) -> RowRec]
  BY <1>1, <1>2, <1>3 DEF DecideRow
<1>5. QED
  BY <1>2, <1>4

\* Replacing the current result of an idle run by one that does not execute
\* leaves it idle.
LEMMA DecidedIdle ==
    ASSUME NEW R \in RunRec, Idle(R), NEW x \in StepStatus, x # "running",
           NEW R2, R2 = [R EXCEPT !.status = "running",
                                  !.results[R.at] = [status |-> x,
                                                     approved |-> TRUE]]
    PROVE  R2 \in RunRec /\ Idle(R2) /\ R2.status = "running"
<1>1. PICK res : res = R.results
  OBVIOUS
<1>2. PICK i : i = R.at
  OBVIOUS
<1>3. PICK new : new = [status |-> x, approved |-> TRUE]
  OBVIOUS
<1>4. PICK p : p = SetResult(res, i, new)
  OBVIOUS
<1>5. new \in StepRes /\ new.status # "running"
  BY <1>3 DEF StepRes
<1>6. res \in Seq(StepRes) /\ i \in Nat
  BY <1>1, <1>2 DEF RunRec
<1>7. /\ p \in Seq(StepRes) /\ Len(p) = Len(res)
      /\ \A k \in 1..Len(res) : p[k] = IF k = i THEN new ELSE res[k]
  <2>1. p \in Seq(StepRes) /\ Len(p) = Len(res)
    BY <1>4, <1>5, <1>6, ResultWritten
  <2>2. \A k \in 1..Len(res) : p[k] = IF k = i THEN new ELSE res[k]
    <3>1. ASSUME NEW k \in 1..Len(res)
          PROVE  SetResult(res, i, new)[k] = IF k = i THEN new ELSE res[k]
      BY <1>5, <1>6, ResultAt
    <3>2. QED
      BY <1>4, <3>1
  <2>3. QED
    BY <2>1, <2>2
<1>8. R2 = [R EXCEPT !.status = "running", !.results = p]
  BY <1>1, <1>2, <1>3, <1>4 DEF SetResult
<1>9. R2 \in RunRec /\ R2.results = p /\ R2.status = "running"
  BY <1>7, <1>8 DEF RunRec, RunStatus, Active
<1>10. Idle(R2)
  BY <1>1, <1>5, <1>7, <1>9 DEF Idle
<1>11. QED
  BY <1>9, <1>10

\* So does marking it rejected.
LEMMA RejectedIdle ==
    ASSUME NEW R \in RunRec, Idle(R),
           NEW R2, R2 = [R EXCEPT !.results[R.at].status = "rejected"]
    PROVE  R2 \in RunRec /\ Idle(R2) /\ R2.status = R.status
<1>1. PICK res : res = R.results
  OBVIOUS
<1>2. PICK i : i = R.at
  OBVIOUS
<1>3. PICK x : x = "rejected"
  OBVIOUS
<1>4. res \in Seq(StepRes) /\ i \in Nat /\ x \in StepStatus /\ x # "running"
  BY <1>1, <1>2, <1>3 DEF RunRec, StepStatus
<1>5. PICK p : p = SetStatus(res, i, x)
  OBVIOUS
<1>6. p \in Seq(StepRes) /\ Len(p) = Len(res)
  BY <1>4, <1>5, StatusWritten
<1>7. \A k \in 1..Len(res) : p[k].status = IF k = i THEN x ELSE res[k].status
  BY <1>4, <1>5, StatusWritten
<1>8. R2 = [R EXCEPT !.results = p]
  BY <1>1, <1>2, <1>3, <1>5 DEF SetStatus
<1>9. R2 \in RunRec /\ R2.results = p /\ R2.status = R.status
  BY <1>6, <1>8 DEF RunRec
<1>10. Idle(R2)
  BY <1>1, <1>4, <1>6, <1>7, <1>9 DEF Idle
<1>11. QED
  BY <1>9, <1>10

LEMMA ApproveStepInv ==
    ASSUME LoopInv, NEW r \in Run, ApproveStep(r)
    PROVE  /\ LoopInv'
           /\ \A s \in Run \ {r} : run'[s] = run[s]
<1> DEFINE step == Steps[template][run[r].at]
           q    == DecideRow(r, step.id, "approved")
           R(x) == [run[r] EXCEPT !.status = "running",
                                  !.results[run[r].at] =
                                      [status |-> x, approved |-> TRUE]]
           S    == [R("success") EXCEPT !.at = run[r].at + 1]
<1>1. /\ run[r] \in RunRec /\ template \in Version
      /\ run[r].status = "waiting_approval" /\ Idle(run[r])
  BY InvTypes DEF ApproveStep, CanDecide, LoopInv, LoopFits
<1>2. q \in Seq(RowRec)
  BY DecideRowType
<1>3. "success" \in StepStatus /\ "pending" \in StepStatus
  BY DEF StepStatus
<1>4. R("success") \in RunRec /\ Idle(R("success"))
      /\ R("success").status = "running"
  BY <1>1, <1>3, DecidedIdle
<1>5. R("pending") \in RunRec /\ Idle(R("pending"))
      /\ R("pending").status = "running"
  BY <1>1, <1>3, DecidedIdle
<1>6. run[r].at \in Nat \ {0} /\ run[r].at + 1 \in Nat \ {0}
  BY <1>1 DEF RunRec
<1>7. S \in RunRec /\ Idle(S) /\ S.status = "running"
  <2>1. PICK T : T = R("success")
    OBVIOUS
  <2>2. PICK j : j = run[r].at + 1
    OBVIOUS
  <2>3. S = [T EXCEPT !.at = j]
    BY <2>1, <2>2
  <2> HIDE DEF R, S
  <2>4. T \in RunRec /\ Idle(T) /\ T.status = "running" /\ j \in Nat \ {0}
    BY <1>4, <1>6, <2>1, <2>2
  <2>5. QED
    BY <2>3, <2>4 DEF RunRec, Idle
<1>8. /\ template' = template /\ late' = late
      /\ cached' \subseteq Run /\ requests' \in Nat /\ restarts' \in Nat
      /\ edited' \in BOOLEAN
  BY DEF ApproveStep, Request, LoopInv, TypeOK
<1>9. \/ Enter(r, S, q, template, run[r].at + 1, 1)
      \/ Enter(r, R("pending"), q, template, run[r].at, 1)
  BY DEF ApproveStep
<1>10. 1 \in Nat \ {0}
  OBVIOUS
<1> HIDE DEF q, R, S
<1>11. QED
  BY <1>1, <1>2, <1>5, <1>6, <1>7, <1>8, <1>9, <1>10, EnterKeepsInv

LEMMA RejectStepInv ==
    ASSUME LoopInv, NEW r \in Run, RejectStep(r)
    PROVE  /\ LoopInv'
           /\ \A s \in Run \ {r} : run'[s] = run[s]
<1> DEFINE step == Steps[template][run[r].at]
           q    == DecideRow(r, step.id, "rejected")
           R    == [run[r] EXCEPT !.results[run[r].at].status = "rejected"]
           j    == IndexOf(template, step.onFailure)
           B    == [R EXCEPT !.status = "running", !.at = j]
           E    == [R EXCEPT !.status = "rejected"]
<1>1. /\ run[r] \in RunRec /\ loop[r] \in LoopRec /\ template \in Version
      /\ run[r].status = "waiting_approval" /\ Idle(run[r])
      /\ ~loop[r].alive
  BY InvTypes DEF RejectStep, CanDecide, LoopInv, LoopFits
<1>2. q \in Seq(RowRec)
  BY DecideRowType
<1>3. R \in RunRec /\ Idle(R)
  BY <1>1, RejectedIdle
<1>4. /\ template' = template /\ late' = late
      /\ cached' \subseteq Run /\ requests' \in Nat /\ restarts' \in Nat
      /\ edited' \in BOOLEAN
  BY DEF RejectStep, Request, LoopInv, TypeOK
<1>5. CASE step.onFailure \in StepIds(template)
  <2>1. Len(Steps[template]) \in Nat
    BY <1>1, StepsType
  <2>2. j \in Nat \ {0}
    BY <1>1, <1>5, <2>1, IndexOfRange
  <2>3. B \in RunRec /\ Idle(B) /\ B.status = "running"
    <3>1. PICK T : T = R
      OBVIOUS
    <3>2. B = [T EXCEPT !.status = "running", !.at = j]
      BY <3>1
    <3> HIDE DEF R, B, j
    <3>3. T \in RunRec /\ Idle(T)
      BY <1>3, <3>1
    <3>4. QED
      BY <2>2, <3>2, <3>3 DEF RunRec, RunStatus, Active, Idle
  <2>4. Enter(r, B, q, template, j, 1)
    BY <1>5 DEF RejectStep
  <2>5. 1 \in Nat \ {0}
    OBVIOUS
  <2> HIDE DEF q, R, j, B
  <2>6. QED
    BY <1>1, <1>2, <1>4, <2>2, <2>3, <2>4, <2>5, EnterKeepsInv
<1>6. CASE step.onFailure \notin StepIds(template)
  <2>1. /\ run' = [run EXCEPT ![r] = E]
        /\ rows' = [rows EXCEPT ![r] = q]
        /\ loop' = loop
    BY <1>6 DEF RejectStep
  <2> HIDE DEF q
  <2>2. E \in RunRec /\ Idle(E)
    <3>1. PICK T : T = R
      OBVIOUS
    <3>2. E = [T EXCEPT !.status = "rejected"]
      BY <3>1
    <3> HIDE DEF R, E
    <3>3. T \in RunRec /\ Idle(T)
      BY <1>3, <3>1
    <3>4. QED
      BY <3>2, <3>3 DEF RunRec, RunStatus, Idle
  <2> HIDE DEF E
  <2>3. /\ run' \in [Run -> RunRec]
        /\ loop' \in [Run -> LoopRec]
        /\ rows' \in [Run -> Seq(RowRec)]
        /\ \A s \in Run \ {r} : run'[s] = run[s] /\ loop'[s] = loop[s]
    BY <1>2, <2>1, <2>2, InvTypes
  <2>4. run'[r] = E /\ ~loop'[r].alive
    BY <1>1, <2>1, InvTypes
  <2>5. LoopFits(run'[r], loop'[r])
    BY <2>2, <2>4 DEF LoopFits, Idle
  <2>6. QED
    BY <1>4, <2>3, <2>5, OneRunKeepsInv
<1>7. QED
  BY <1>5, <1>6

\* Cancelling a run leaves its loop alone: a step that is executing goes on.
LEMMA CancelRunInv ==
    ASSUME LoopInv, NEW r \in Run, CancelRun(r)
    PROVE  /\ LoopInv'
           /\ \A s \in Run \ {r} : run'[s] = run[s]
<1> DEFINE C == [run[r] EXCEPT !.status = "cancelled"]
<1>1. /\ run' = [run EXCEPT ![r] = C]
      /\ loop' = loop /\ rows' = rows
      /\ template' = template /\ late' = late
      /\ cached' \subseteq Run /\ requests' \in Nat /\ restarts' \in Nat
      /\ edited' \in BOOLEAN
  BY DEF CancelRun, Request, LoopInv, TypeOK
<1>2. run[r] \in RunRec
  BY InvTypes
<1>3. /\ C \in RunRec /\ C.status = "cancelled"
      /\ C.at = run[r].at /\ C.results = run[r].results
  BY <1>2 DEF RunRec, RunStatus
<1> HIDE DEF C
<1>4. /\ run' \in [Run -> RunRec]
      /\ loop' \in [Run -> LoopRec]
      /\ rows' \in [Run -> Seq(RowRec)]
      /\ \A s \in Run \ {r} : run'[s] = run[s] /\ loop'[s] = loop[s]
  BY <1>1, <1>3, InvTypes
<1>5. run'[r] = C /\ loop'[r] = loop[r]
  BY <1>1, InvTypes
<1>6. LoopFits(run[r], loop[r])
  BY DEF LoopInv
<1>7. LoopFits(C, loop[r])
  BY <1>3, <1>6 DEF LoopFits
<1>8. QED
  BY <1>1, <1>4, <1>5, <1>7, OneRunKeepsInv

\* The other actions leave the runs alone.
LEMMA OtherActionsInv ==
    ASSUME LoopInv,
           \/ \E v \in Version : UpdateTemplate(v)
           \/ DeleteTemplate
           \/ \E r \in Run : RunTimeElapses(r)
           \/ Restart
           \/ UNCHANGED vars
    PROVE  LoopInv' /\ run' = run
<1>1. ASSUME TypeOK', run' = run, loop' = loop
      PROVE  LoopInv' /\ run' = run
  BY <1>1 DEF LoopInv
<1>2. TypeOK
  BY DEF LoopInv
<1>3. CASE \E v \in Version : UpdateTemplate(v)
  <2>1. /\ template' \in Version \union {Deleted} /\ requests' \in Nat
        /\ edited' \in BOOLEAN
        /\ UNCHANGED <<run, loop, cached, rows, late, restarts>>
    BY <1>2, <1>3 DEF UpdateTemplate, Request, TypeOK
  <2>2. TypeOK'
    BY <1>2, <2>1 DEF TypeOK
  <2>3. QED
    BY <1>1, <2>1, <2>2
<1>4. CASE DeleteTemplate
  <2>1. /\ template' \in Version \union {Deleted} /\ requests' \in Nat
        /\ edited' \in BOOLEAN
        /\ UNCHANGED <<run, loop, cached, rows, late, restarts>>
    BY <1>2, <1>4 DEF DeleteTemplate, Request, TypeOK
  <2>2. TypeOK'
    BY <1>2, <2>1 DEF TypeOK
  <2>3. QED
    BY <1>1, <2>1, <2>2
<1>5. CASE \E r \in Run : RunTimeElapses(r)
  <2>1. /\ late' \in [Run -> BOOLEAN]
        /\ UNCHANGED <<template, edited, run, loop, cached, rows, requests,
                       restarts>>
    BY <1>2, <1>5 DEF RunTimeElapses, TypeOK
  <2>2. TypeOK'
    BY <1>2, <2>1 DEF TypeOK
  <2>3. QED
    BY <1>1, <2>1, <2>2
<1>6. CASE Restart
  <2>1. /\ loop' \in [Run -> LoopRec]
        /\ \A r \in Run : ~loop'[r].alive
    BY <1>6, InvTypes DEF Restart, LoopRec
  <2>2. /\ cached' \subseteq Run /\ restarts' \in Nat
        /\ UNCHANGED <<template, edited, run, rows, late, requests>>
    BY <1>2, <1>6 DEF Restart, TypeOK
  <2>3. TypeOK'
    BY <1>2, <2>1, <2>2 DEF TypeOK, LoopRec
  <2>4. \A r \in Run : LoopFits(run'[r], loop'[r])
    BY <2>1, <2>2 DEF LoopInv, LoopFits
  <2>5. QED
    BY <2>2, <2>3, <2>4 DEF LoopInv
<1>7. CASE UNCHANGED vars
  <2>1. TypeOK'
    BY <1>2, <1>7 DEF vars, TypeOK
  <2>2. QED
    BY <1>1, <1>7, <2>1 DEF vars
<1>8. QED
  BY <1>3, <1>4, <1>5, <1>6, <1>7

\* One step keeps the invariant and writes no run that completed or failed:
\* the only run it may write is one that has not started, that waits, whose
\* loop is alive, or that can be cancelled.
LEMMA NextInv ==
    ASSUME LoopInv, [Next]_vars
    PROVE  /\ LoopInv'
           /\ \A s \in Run : run[s].status \in {"completed", "failed"}
                               => run'[s] = run[s]
<1>1. ASSUME NEW r \in Run, ExecuteRun(r)
      PROVE  /\ LoopInv' /\ \A s \in Run \ {r} : run'[s] = run[s]
             /\ run[r].status \notin {"completed", "failed"}
  BY <1>1, ExecuteRunInv DEF ExecuteRun
<1>2. ASSUME NEW r \in Run, NEW ok \in BOOLEAN, StepEnds(r, ok)
      PROVE  /\ LoopInv' /\ \A s \in Run \ {r} : run'[s] = run[s]
             /\ run[r].status \notin {"completed", "failed"}
  <2>1. LoopFits(run[r], loop[r]) /\ loop[r].alive
    BY <1>2 DEF LoopInv, StepEnds
  <2>2. QED
    BY <1>2, <2>1, StepEndsInv DEF LoopFits
<1>3. ASSUME NEW r \in Run, ApproveStep(r)
      PROVE  /\ LoopInv' /\ \A s \in Run \ {r} : run'[s] = run[s]
             /\ run[r].status \notin {"completed", "failed"}
  BY <1>3, ApproveStepInv DEF ApproveStep, CanDecide
<1>4. ASSUME NEW r \in Run, RejectStep(r)
      PROVE  /\ LoopInv' /\ \A s \in Run \ {r} : run'[s] = run[s]
             /\ run[r].status \notin {"completed", "failed"}
  BY <1>4, RejectStepInv DEF RejectStep, CanDecide
<1>5. ASSUME NEW r \in Run, CancelRun(r)
      PROVE  /\ LoopInv' /\ \A s \in Run \ {r} : run'[s] = run[s]
             /\ run[r].status \notin {"completed", "failed"}
  BY <1>5, CancelRunInv DEF CancelRun, Active
<1>6. CASE \/ \E v \in Version : UpdateTemplate(v)
           \/ DeleteTemplate
           \/ \E r \in Run : RunTimeElapses(r)
           \/ Restart
           \/ UNCHANGED vars
  BY <1>6, OtherActionsInv
<1>7. QED
  BY <1>1, <1>2, <1>3, <1>4, <1>5, <1>6 DEF Next

-----------------------------------------------------------------------------
(* No run is lost from sight.                                              *)

NothingPending(q) == \A k \in 1..Len(q) : q[k].status # "pending"

\* A run that is running is being executed, unless the process was restarted
\* or the version outgrew the run; one that waits can be found by its last
\* row.
Visible(R, l, q, again) ==
    /\ R.status = "running" /\ ~l.alive =>
          again \/ Len(Steps[l.version]) > Len(R.results)
    /\ R.status = "waiting_approval" =>
          LET last == q[Len(q)]
          IN  /\ q # <<>>
              /\ last.status = "pending"
              /\ last.step = Steps[last.shown][R.at].id

\* At most one row is pending, that of a run that waits, or waited when it
\* was cancelled.
Decided(R, l, q) ==
    /\ \A j, k \in 1..Len(q) :
          q[j].status = "pending" /\ q[k].status = "pending" => j = k
    /\ \/ NothingPending(q)
       \/ R.status \in {"waiting_approval", "cancelled"}
    /\ l.alive => NothingPending(q)

\* Everything an approver was shown, and everything that is executed, is of
\* version t.
OfVersion(l, q, t) ==
    /\ l.alive => l.version = t
    /\ \A k \in 1..Len(q) : q[k].shown = t

\* What keeps run r in sight; again says that the process was restarted.
InSight(r, again) ==
    /\ Visible(run[r], loop[r], rows[r], again)
    /\ ~edited => /\ Decided(run[r], loop[r], rows[r])
                  /\ template \in Version =>
                        OfVersion(loop[r], rows[r], template)

SightInv == LoopInv /\ \A r \in Run : InSight(r, restarts > 0)

\* Leaving the loop.
LEMMA LeavesRun ==
    ASSUME LoopInv, NEW r \in Run, NEW R, NEW q, NEW v, Leaves(r, R, q, v)
    PROVE  /\ run'[r] = R /\ rows'[r] = q
           /\ ~loop'[r].alive /\ loop'[r].version = v
           /\ \A s \in Run \ {r} : /\ run'[s] = run[s] /\ loop'[s] = loop[s]
                                   /\ rows'[s] = rows[s]
  BY InvTypes DEF Leaves

\* Entering a step leaves a run that is executed, that has ended, that the
\* template outgrew, or that waits and has a new last row.
LEMMA EnterSight ==
    ASSUME LoopInv, NEW r \in Run,
           NEW R \in RunRec, NEW q \in Seq(RowRec), NEW v \in Version,
           NEW i \in Nat \ {0}, NEW n \in Nat \ {0},
           R.status \in {"running", "cancelled"}, Enter(r, R, q, v, i, n)
    PROVE  /\ Visible(run'[r], loop'[r], rows'[r], FALSE)
           /\ NothingPending(q) => Decided(run'[r], loop'[r], rows'[r])
           /\ (\A k \in 1..Len(q) : q[k].shown = v) =>
                 OfVersion(loop'[r], rows'[r], v)
           /\ \A s \in Run \ {r} : /\ run'[s] = run[s] /\ loop'[s] = loop[s]
                                   /\ rows'[s] = rows[s]
<1> DEFINE Goal ==
             /\ Visible(run'[r], loop'[r], rows'[r], FALSE)
             /\ NothingPending(q) => Decided(run'[r], loop'[r], rows'[r])
             /\ (\A k \in 1..Len(q) : q[k].shown = v) =>
                   OfVersion(loop'[r], rows'[r], v)
             /\ \A s \in Run \ {r} : /\ run'[s] = run[s] /\ loop'[s] = loop[s]
                                     /\ rows'[s] = rows[s]
<1> DEFINE ended(x) == [R EXCEPT !.status = x]
<1>1. ASSUME NEW x \in {"completed", "failed"},
             Leaves(r, ended(x), q, v)
      PROVE  Goal
  <2>1. ended(x).status = x
    BY DEF RunRec
  <2> HIDE DEF ended
  <2>2. /\ run'[r].status = x /\ rows'[r] = q /\ ~loop'[r].alive
        /\ \A s \in Run \ {r} : /\ run'[s] = run[s] /\ loop'[s] = loop[s]
                                /\ rows'[s] = rows[s]
    BY <1>1, <2>1, LeavesRun
  <2>3. Visible(run'[r], loop'[r], rows'[r], FALSE)
    BY <2>2 DEF Visible
  <2>4. NothingPending(q) => Decided(run'[r], loop'[r], rows'[r])
    BY <2>2 DEF Decided, NothingPending
  <2>5. QED
    BY <2>2, <2>3, <2>4 DEF OfVersion
<1>2. CASE i <= Len(Steps[v]) /\ Aborts(R, i) /\ Leaves(r, R, q, v)
  <2>1. /\ run'[r] = R /\ rows'[r] = q
        /\ ~loop'[r].alive /\ loop'[r].version = v
        /\ \A s \in Run \ {r} : /\ run'[s] = run[s] /\ loop'[s] = loop[s]
                                /\ rows'[s] = rows[s]
    BY <1>2, LeavesRun
  <2>2. Len(Steps[v]) \in Nat /\ Len(R.results) \in Nat
    BY StepsType DEF RunRec
  <2>3. R.status = "running" => Len(Steps[v]) > Len(R.results)
    BY <1>2, <2>2 DEF Aborts
  <2>4. Visible(run'[r], loop'[r], rows'[r], FALSE)
    BY <2>1, <2>3 DEF Visible
  <2>5. NothingPending(q) => Decided(run'[r], loop'[r], rows'[r])
    BY <2>1 DEF Decided, NothingPending
  <2>6. QED
    BY <2>1, <2>4, <2>5 DEF OfVersion
<1>3. CASE i <= Len(Steps[v]) /\ Pauses(r, R, q, v, i)
  <2> DEFINE row == [step |-> Steps[v][i].id, shown |-> v,
                     status |-> "pending"]
             W   == [R EXCEPT !.status = "waiting_approval", !.at = i,
                              !.results[i].status = "waiting_approval"]
             qq  == Append(q, row)
  <2>1. W.status = "waiting_approval" /\ W.at = i
    BY DEF RunRec
  <2>2. Leaves(r, W, qq, v)
    BY <1>3 DEF Pauses
  <2>3. row \in RowRec
    <3>1. Steps[v] \in Seq(Step) /\ i \in 1..Len(Steps[v])
      BY <1>3, StepsType DEF Step
    <3>2. Steps[v][i] \in Step
      BY <3>1
    <3>3. QED
      BY <3>2 DEF RowRec, Step
  <2>4. row.status = "pending" /\ row.shown = v /\ row.step = Steps[v][i].id
    OBVIOUS
  <2> HIDE DEF W, row
  <2>5. /\ Len(qq) = Len(q) + 1 /\ Len(q) \in Nat /\ qq # <<>>
        /\ qq[Len(qq)] = row
        /\ \A k \in 1..Len(q) : qq[k] = q[k]
    BY <2>3
  <2> HIDE DEF qq
  <2>6. /\ run'[r] = W /\ rows'[r] = qq /\ ~loop'[r].alive
        /\ \A s \in Run \ {r} : /\ run'[s] = run[s] /\ loop'[s] = loop[s]
                                /\ rows'[s] = rows[s]
    BY <2>2, LeavesRun
  <2>7. Visible(W, loop'[r], qq, FALSE)
    BY <2>1, <2>4, <2>5, <2>6 DEF Visible
  <2>8. NothingPending(q) => Decided(W, loop'[r], qq)
    <3>1. ASSUME NothingPending(q), NEW k \in 1..Len(qq),
                 qq[k].status = "pending"
          PROVE  k = Len(qq)
      BY <2>5, <3>1 DEF NothingPending
    <3>2. QED
      BY <2>1, <2>6, <3>1 DEF Decided
  <2>9. (\A k \in 1..Len(q) : q[k].shown = v) => OfVersion(loop'[r], qq, v)
    <3>1. ASSUME \A k \in 1..Len(q) : q[k].shown = v, NEW k \in 1..Len(qq)
          PROVE  qq[k].shown = v
      BY <2>4, <2>5, <3>1
    <3>2. QED
      BY <2>6, <3>1 DEF OfVersion
  <2>10. QED
    BY <2>6, <2>7, <2>8, <2>9
<1>4. CASE Starts(r, R, q, v, i, n)
  <2> DEFINE B == [R EXCEPT !.at = i, !.results[i].status = "running"]
  <2>1. B.status = R.status
    BY DEF RunRec
  <2>2. /\ run'[r] = B /\ rows'[r] = q
        /\ loop'[r].alive /\ loop'[r].version = v
        /\ \A s \in Run \ {r} : /\ run'[s] = run[s] /\ loop'[s] = loop[s]
                                /\ rows'[s] = rows[s]
    BY <1>4, InvTypes DEF Starts
  <2> HIDE DEF B
  <2>3. Visible(run'[r], loop'[r], rows'[r], FALSE)
    BY <2>1, <2>2 DEF Visible
  <2>4. NothingPending(q) => Decided(run'[r], loop'[r], rows'[r])
    BY <2>2 DEF Decided, NothingPending
  <2>5. QED
    BY <2>2, <2>3, <2>4 DEF OfVersion
<1>5. QED
  <2>1. \/ Leaves(r, ended("completed"), q, v)
        \/ Leaves(r, ended("failed"), q, v)
        \/ i <= Len(Steps[v]) /\ Aborts(R, i) /\ Leaves(r, R, q, v)
        \/ i <= Len(Steps[v]) /\ Pauses(r, R, q, v, i)
        \/ Starts(r, R, q, v, i, n)
    BY DEF Enter
  <2> HIDE DEF ended
  <2>2. CASE Leaves(r, ended("completed"), q, v)
    BY <1>1, <2>2
  <2>3. CASE Leaves(r, ended("failed"), q, v)
    BY <1>1, <2>3
  <2>4. QED
    BY <1>2, <1>3, <1>4, <2>1, <2>2, <2>3

\* A step that enters a step of run r keeps it in sight, when no row of the
\* run is left pending and the version entered is the one that was shown.
LEMMA EnterInSight ==
    ASSUME LoopInv, NEW r \in Run,
           NEW R \in RunRec, NEW q \in Seq(RowRec), NEW v \in Version,
           NEW i \in Nat \ {0}, NEW n \in Nat \ {0},
           R.status \in {"running", "cancelled"}, Enter(r, R, q, v, i, n),
           UNCHANGED <<template, edited, restarts>>,
           ~edited => NothingPending(q),
           ~edited /\ template \in Version =>
              v = template /\ \A k \in 1..Len(q) : q[k].shown = template
    PROVE  /\ InSight(r, restarts > 0)'
           /\ \A s \in Run \ {r} : /\ run'[s] = run[s] /\ loop'[s] = loop[s]
                                   /\ rows'[s] = rows[s]
<1>1. /\ Visible(run'[r], loop'[r], rows'[r], FALSE)
      /\ NothingPending(q) => Decided(run'[r], loop'[r], rows'[r])
      /\ (\A k \in 1..Len(q) : q[k].shown = v) =>
            OfVersion(loop'[r], rows'[r], v)
      /\ \A s \in Run \ {r} : /\ run'[s] = run[s] /\ loop'[s] = loop[s]
                              /\ rows'[s] = rows[s]
  BY EnterSight
<1>2. Visible(run'[r], loop'[r], rows'[r], restarts' > 0)
  BY <1>1 DEF Visible
<1>3. ~edited' => Decided(run'[r], loop'[r], rows'[r])
  BY <1>1
<1>4. ~edited' /\ template' \in Version =>
         OfVersion(loop'[r], rows'[r], template')
  BY <1>1
<1>5. QED
  BY <1>1, <1>2, <1>3, <1>4 DEF InSight

\* So does one that ends the run, whatever its rows show.
LEMMA LeavesInSight ==
    ASSUME LoopInv, NEW r \in Run, NEW R, NEW q, NEW v, Leaves(r, R, q, v),
           R.status \notin {"running", "waiting_approval"},
           UNCHANGED <<template, edited, restarts>>,
           ~edited => NothingPending(q),
           ~edited /\ template \in Version =>
              \A k \in 1..Len(q) : q[k].shown = template
    PROVE  /\ InSight(r, restarts > 0)'
           /\ \A s \in Run \ {r} : /\ run'[s] = run[s] /\ loop'[s] = loop[s]
                                   /\ rows'[s] = rows[s]
<1>1. /\ run'[r] = R /\ rows'[r] = q /\ ~loop'[r].alive
      /\ \A s \in Run \ {r} : /\ run'[s] = run[s] /\ loop'[s] = loop[s]
                              /\ rows'[s] = rows[s]
  BY LeavesRun
<1>2. Visible(run'[r], loop'[r], rows'[r], restarts' > 0)
  BY <1>1 DEF Visible
<1>3. ~edited' => Decided(run'[r], loop'[r], rows'[r])
  BY <1>1 DEF Decided, NothingPending
<1>4. ~edited' /\ template' \in Version =>
         OfVersion(loop'[r], rows'[r], template')
  BY <1>1 DEF OfVersion
<1>5. QED
  BY <1>1, <1>2, <1>3, <1>4 DEF InSight

\* A decision reaches the row the run waits for: while the template has not
\* been edited, none is left pending.
LEMMA DecisionLands ==
    ASSUME SightInv, NEW r \in Run, template \in Version, ~edited,
           run[r].status = "waiting_approval",
           NEW verdict \in {"approved", "rejected"}
    PROVE  LET q == DecideRow(r, Steps[template][run[r].at].id, verdict)
           IN  /\ NothingPending(q)
               /\ \A k \in 1..Len(q) : q[k].shown = template
<1> DEFINE id == Steps[template][run[r].at].id
           q  == DecideRow(r, id, verdict)
<1>1. PICK p \in Seq(RowRec) : p = rows[r]
  BY InvTypes DEF SightInv
<1>2. /\ Visible(run[r], loop[r], p, restarts > 0)
      /\ Decided(run[r], loop[r], p)
      /\ OfVersion(loop[r], p, template)
  BY <1>1 DEF SightInv, InSight
<1> DEFINE n == Len(p)
<1>3. n \in Nat /\ n \in 1..n
  <2>1. n \in Nat /\ p # <<>>
    BY <1>2 DEF Visible
  <2>2. QED
    BY <2>1
<1>4. p[n].status = "pending" /\ p[n].shown = template /\ p[n].step = id
  BY <1>2, <1>3 DEF Visible, OfVersion
<1>5. \A k \in 1..n : /\ p[k].status = "pending" => k = n
                      /\ p[k].shown = template
  BY <1>2, <1>3, <1>4 DEF Decided, OfVersion
<1>6. PendingFor(r, id) = {n}
  BY <1>1, <1>3, <1>4, <1>5 DEF PendingFor
<1>7. q = [k \in 1..n |-> IF k = n THEN [p[k] EXCEPT !.status = verdict]
                          ELSE p[k]]
  <2> HIDE DEF id
  <2>1. q = [k \in 1..n |->
               IF k \in PendingFor(r, id)
                  /\ \A j \in PendingFor(r, id) : j <= k
               THEN [p[k] EXCEPT !.status = verdict] ELSE p[k]]
    BY <1>1 DEF DecideRow
  <2>2. \A k \in 1..n : (k \in PendingFor(r, id)
                         /\ \A j \in PendingFor(r, id) : j <= k) <=> k = n
    BY <1>3, <1>6
  <2>3. QED
    BY <2>1, <2>2
<1>8. \A k \in 1..n : p[k] \in RowRec
  OBVIOUS
<1> HIDE DEF q
<1>9. Len(q) = n
  BY <1>3, <1>7
<1>10. \A k \in 1..n : q[k].status # "pending" /\ q[k].shown = template
  <2>1. TAKE k \in 1..n
  <2>2. CASE k = n
    <3>1. q[k] = [p[k] EXCEPT !.status = verdict]
      BY <1>7, <2>2
    <3>2. QED
      BY <1>5, <1>8, <3>1 DEF RowRec
  <2>3. CASE k # n
    <3>1. q[k] = p[k]
      BY <1>7, <2>3
    <3>2. QED
      BY <1>5, <2>3, <3>1
  <2>4. QED
    BY <2>2, <2>3
<1>11. NothingPending(q) /\ \A k \in 1..Len(q) : q[k].shown = template
  BY <1>9, <1>10 DEF NothingPending
<1>12. QED
  BY <1>11 DEF q

\* What a step of run r that touches no other owes the invariant.
LEMMA OneRunInSight ==
    ASSUME SightInv, NEW r \in Run, InSight(r, restarts > 0)',
           \A s \in Run \ {r} : /\ run'[s] = run[s] /\ loop'[s] = loop[s]
                                /\ rows'[s] = rows[s],
           UNCHANGED <<template, edited, restarts>>
    PROVE  \A s \in Run : InSight(s, restarts > 0)'
  BY DEF SightInv, InSight

LEMMA ExecuteRunSight ==
    ASSUME SightInv, NEW r \in Run, ExecuteRun(r)
    PROVE  \A s \in Run : InSight(s, restarts > 0)'
<1>1. /\ template \in Version
      /\ Enter(r, NewRun(template), <<>>, template, 1, 1)
      /\ UNCHANGED <<template, edited, restarts>>
  BY DEF ExecuteRun
<1>2. /\ NewRun(template) \in RunRec
      /\ NewRun(template).status \in {"running", "cancelled"}
  BY <1>1, NewRunIdle
<1>3. PICK q \in Seq(RowRec) : q = <<>>
  <2>1. <<>> \in Seq(RowRec)
    OBVIOUS
  <2>2. QED
    BY <2>1
<1>4. NothingPending(q) /\ \A k \in 1..Len(q) : q[k].shown = template
  BY <1>3 DEF NothingPending
<1>5. 1 \in Nat \ {0} /\ LoopInv
  BY DEF SightInv
<1>6. /\ InSight(r, restarts > 0)'
      /\ \A s \in Run \ {r} : /\ run'[s] = run[s] /\ loop'[s] = loop[s]
                              /\ rows'[s] = rows[s]
  BY <1>1, <1>2, <1>3, <1>4, <1>5, EnterInSight
<1>7. QED
  BY <1>1, <1>6, OneRunInSight

\* A step that ends finds no row pending: none was when it was entered, and
\* its run has not waited since.
LEMMA StepEndsSight ==
    ASSUME SightInv, NEW r \in Run, NEW ok \in BOOLEAN, StepEnds(r, ok)
    PROVE  \A s \in Run : InSight(s, restarts > 0)'
<1> DEFINE v == loop[r].version
           i == run[r].at
           x == IF ok THEN "success" ELSE "failed"
           R == [run[r] EXCEPT !.results[i].status = x]
           next == IF ok THEN Steps[v][i].onSuccess ELSE Steps[v][i].onFailure
           ended(st) == [R EXCEPT !.status = st]
<1>1. LoopInv /\ loop[r].alive /\ UNCHANGED <<template, edited, restarts>>
  BY DEF SightInv, StepEnds
<1>2. /\ run[r] \in RunRec /\ loop[r] \in LoopRec /\ rows[r] \in Seq(RowRec)
  BY <1>1, InvTypes
<1>3. /\ v \in Version /\ loop[r].entered + 1 \in Nat \ {0}
      /\ i \in Nat \ {0}
  BY <1>2, BoundsAreNat DEF LoopRec, RunRec
<1>4. LoopFits(run[r], loop[r]) /\ InSight(r, restarts > 0)
  BY <1>1 DEF SightInv, LoopInv
<1>5. /\ run[r].status \in {"running", "cancelled"}
      /\ ~edited => NothingPending(rows[r])
      /\ ~edited /\ template \in Version =>
            /\ v = template
            /\ \A k \in 1..Len(rows[r]) : rows[r][k].shown = template
  BY <1>1, <1>4 DEF LoopFits, InSight, Decided, OfVersion
<1>6. R \in RunRec /\ R.status = run[r].status
  <2>1. PICK res \in Seq(StepRes) : res = run[r].results
    BY <1>2 DEF RunRec
  <2>2. SetStatus(res, i, x) \in Seq(StepRes)
    <3>1. x \in StepStatus /\ i \in Nat
      BY <1>3 DEF StepStatus
    <3> HIDE DEF x, i
    <3>2. QED
      BY <3>1, StatusWritten
  <2>3. R = [run[r] EXCEPT !.results = SetStatus(res, i, x)]
    BY <2>1 DEF SetStatus
  <2> HIDE DEF R, x, i
  <2>4. QED
    BY <1>2, <2>2, <2>3 DEF RunRec
<1>7. \A st : ended(st).status = st
  BY <1>6 DEF RunRec
<1>8. \/ Leaves(r, ended("completed"), rows[r], v)
      \/ Leaves(r, ended("failed"), rows[r], v)
      \/ Enter(r, R, rows[r], v, i + 1, loop[r].entered + 1)
      \/ /\ next \in StepIds(v)
         /\ Enter(r, R, rows[r], v, IndexOf(v, next), loop[r].entered + 1)
  BY DEF StepEnds
<1> DEFINE Goal == /\ InSight(r, restarts > 0)'
                   /\ \A s \in Run \ {r} :
                         /\ run'[s] = run[s] /\ loop'[s] = loop[s]
                         /\ rows'[s] = rows[s]
<1>9. ASSUME NEW st \in {"completed", "failed"},
             Leaves(r, ended(st), rows[r], v)
      PROVE  Goal
  <2> HIDE DEF ended, v
  <2>1. QED
    BY <1>1, <1>5, <1>7, <1>9, LeavesInSight
<1>10. ASSUME NEW j \in Nat \ {0},
              Enter(r, R, rows[r], v, j, loop[r].entered + 1)
       PROVE  Goal
  <2> HIDE DEF R, v
  <2>1. QED
    BY <1>1, <1>2, <1>3, <1>5, <1>6, <1>10, EnterInSight
<1>11. next \in StepIds(v) => IndexOf(v, next) \in Nat \ {0}
  <2>1. Len(Steps[v]) \in Nat
    BY <1>3, StepsType
  <2> HIDE DEF v, next
  <2>2. QED
    BY <1>3, <2>1, IndexOfRange
<1>12. i + 1 \in Nat \ {0}
  BY <1>3
<1>13. Goal
  <2> HIDE DEF R, v, i, next, ended
  <2>1. CASE Leaves(r, ended("completed"), rows[r], v)
    BY <1>9, <2>1
  <2>2. CASE Leaves(r, ended("failed"), rows[r], v)
    BY <1>9, <2>2
  <2>3. CASE Enter(r, R, rows[r], v, i + 1, loop[r].entered + 1)
    BY <1>10, <1>12, <2>3
  <2>4. CASE /\ next \in StepIds(v)
             /\ Enter(r, R, rows[r], v, IndexOf(v, next), loop[r].entered + 1)
    BY <1>10, <1>11, <2>4
  <2>5. QED
    BY <1>8, <2>1, <2>2, <2>3, <2>4
<1>14. QED
  BY <1>1, <1>13, OneRunInSight

LEMMA ApproveStepSight ==
    ASSUME SightInv, NEW r \in Run, ApproveStep(r)
    PROVE  \A s \in Run : InSight(s, restarts > 0)'
<1> DEFINE step == Steps[template][run[r].at]
           q    == DecideRow(r, step.id, "approved")
           R(x) == [run[r] EXCEPT !.status = "running",
                                  !.results[run[r].at] =
                                      [status |-> x, approved |-> TRUE]]
           S    == [R("success") EXCEPT !.at = run[r].at + 1]
<1>1. /\ LoopInv /\ template \in Version
      /\ run[r].status = "waiting_approval"
      /\ UNCHANGED <<template, edited, restarts>>
  BY DEF SightInv, ApproveStep, CanDecide, Request
<1>2. run[r] \in RunRec /\ Idle(run[r])
  BY <1>1, InvTypes DEF LoopInv, LoopFits
<1>3. q \in Seq(RowRec)
  BY <1>1, DecideRowType
<1>4. ~edited => /\ NothingPending(q)
                 /\ \A k \in 1..Len(q) : q[k].shown = template
  BY <1>1, DecisionLands
<1>5. "success" \in StepStatus /\ "pending" \in StepStatus
  BY DEF StepStatus
<1>6. R("success") \in RunRec /\ R("success").status = "running"
  BY <1>1, <1>2, <1>5, DecidedIdle
<1>7. R("pending") \in RunRec /\ R("pending").status = "running"
  BY <1>1, <1>2, <1>5, DecidedIdle
<1>8. run[r].at \in Nat \ {0} /\ run[r].at + 1 \in Nat \ {0}
  BY <1>2 DEF RunRec
<1>9. S \in RunRec /\ S.status = "running"
  <2>1. PICK T : T = R("success")
    OBVIOUS
  <2>2. PICK j : j = run[r].at + 1
    OBVIOUS
  <2>3. S = [T EXCEPT !.at = j]
    BY <2>1, <2>2
  <2>4. T \in RunRec /\ T.status = "running" /\ j \in Nat \ {0}
    BY <1>6, <1>8, <2>1, <2>2
  <2> HIDE DEF R, S
  <2>5. QED
    BY <2>3, <2>4 DEF RunRec
<1>10. \/ Enter(r, S, q, template, run[r].at + 1, 1)
       \/ Enter(r, R("pending"), q, template, run[r].at, 1)
  BY DEF ApproveStep
<1>11. 1 \in Nat \ {0}
  OBVIOUS
<1> HIDE DEF q, R, S
<1>12. /\ InSight(r, restarts > 0)'
       /\ \A s \in Run \ {r} : /\ run'[s] = run[s] /\ loop'[s] = loop[s]
                               /\ rows'[s] = rows[s]
  BY <1>1, <1>3, <1>4, <1>7, <1>8, <1>9, <1>10, <1>11, EnterInSight
<1>13. QED
  BY <1>1, <1>12, OneRunInSight

LEMMA RejectStepSight ==
    ASSUME SightInv, NEW r \in Run, RejectStep(r)
    PROVE  \A s \in Run : InSight(s, restarts > 0)'
<1> DEFINE step == Steps[template][run[r].at]
           q    == DecideRow(r, step.id, "rejected")
           R    == [run[r] EXCEPT !.results[run[r].at].status = "rejected"]
           j    == IndexOf(template, step.onFailure)
           B    == [R EXCEPT !.status = "running", !.at = j]
           E    == [R EXCEPT !.status = "rejected"]
<1>1. /\ LoopInv /\ template \in Version
      /\ run[r].status = "waiting_approval"
      /\ UNCHANGED <<template, edited, restarts>>
  BY DEF SightInv, RejectStep, CanDecide, Request
<1>2. run[r] \in RunRec /\ Idle(run[r]) /\ ~loop[r].alive
  BY <1>1, InvTypes DEF LoopInv, LoopFits
<1>3. q \in Seq(RowRec)
  BY <1>1, DecideRowType
<1>4. ~edited => /\ NothingPending(q)
                 /\ \A k \in 1..Len(q) : q[k].shown = template
  BY <1>1, DecisionLands
<1>5. R \in RunRec
  BY <1>2, RejectedIdle
<1>6. CASE step.onFailure \in StepIds(template)
  <2>1. Len(Steps[template]) \in Nat
    BY <1>1, StepsType
  <2>2. j \in Nat \ {0}
    BY <1>1, <1>6, <2>1, IndexOfRange
  <2>3. B \in RunRec /\ B.status = "running"
    <3>1. PICK T : T = R
      OBVIOUS
    <3>2. B = [T EXCEPT !.status = "running", !.at = j]
      BY <3>1
    <3> HIDE DEF R, B, j
    <3>3. T \in RunRec
      BY <1>5, <3>1
    <3>4. QED
      BY <2>2, <3>2, <3>3 DEF RunRec, RunStatus, Active
  <2>4. Enter(r, B, q, template, j, 1)
    BY <1>6 DEF RejectStep
  <2>5. 1 \in Nat \ {0}
    OBVIOUS
  <2> HIDE DEF q, R, j, B
  <2>6. /\ InSight(r, restarts > 0)'
        /\ \A s \in Run \ {r} : /\ run'[s] = run[s] /\ loop'[s] = loop[s]
                                /\ rows'[s] = rows[s]
    BY <1>1, <1>3, <1>4, <2>2, <2>3, <2>4, <2>5, EnterInSight
  <2>7. QED
    BY <1>1, <2>6, OneRunInSight
<1>7. CASE step.onFailure \notin StepIds(template)
  <2>1. /\ run' = [run EXCEPT ![r] = E]
        /\ rows' = [rows EXCEPT ![r] = q]
        /\ loop' = loop
    BY <1>7 DEF RejectStep
  <2>2. E.status = "rejected"
    BY <1>5 DEF RunRec
  <2> HIDE DEF q, R, E
  <2>3. /\ run'[r] = E /\ rows'[r] = q
        /\ \A s \in Run \ {r} : /\ run'[s] = run[s] /\ loop'[s] = loop[s]
                                /\ rows'[s] = rows[s]
    BY <1>1, <2>1, InvTypes
  <2>4. InSight(r, restarts > 0)'
    <3>1. Visible(run'[r], loop'[r], rows'[r], restarts' > 0)
      BY <2>2, <2>3 DEF Visible
    <3>2. ~edited' => Decided(run'[r], loop'[r], rows'[r])
      BY <1>1, <1>4, <2>3 DEF Decided, NothingPending
    <3>3. ~edited' /\ template' \in Version =>
             OfVersion(loop'[r], rows'[r], template')
      BY <1>1, <1>2, <1>4, <2>1, <2>3 DEF OfVersion
    <3>4. QED
      BY <3>1, <3>2, <3>3 DEF InSight
  <2>5. QED
    BY <1>1, <2>3, <2>4, OneRunInSight
<1>8. QED
  BY <1>6, <1>7

\* A run that is cancelled while it waits keeps its pending row.
LEMMA CancelRunSight ==
    ASSUME SightInv, NEW r \in Run, CancelRun(r)
    PROVE  \A s \in Run : InSight(s, restarts > 0)'
<1>1. /\ run' = [run EXCEPT ![r].status = "cancelled"]
      /\ UNCHANGED <<loop, rows, template, edited, restarts>>
      /\ LoopInv
  BY DEF CancelRun, Request, SightInv
<1>2. run'[r].status = "cancelled" /\ \A s \in Run \ {r} : run'[s] = run[s]
  BY <1>1, InvTypes DEF RunRec
<1>3. InSight(r, restarts > 0)
  BY DEF SightInv
<1>4. Visible(run'[r], loop'[r], rows'[r], restarts' > 0)
  BY <1>2 DEF Visible
<1>5. ~edited' => Decided(run'[r], loop'[r], rows'[r])
  BY <1>1, <1>2, <1>3 DEF InSight, Decided
<1>6. ~edited' /\ template' \in Version =>
         OfVersion(loop'[r], rows'[r], template')
  BY <1>1, <1>3 DEF InSight
<1>7. InSight(r, restarts > 0)'
  BY <1>4, <1>5, <1>6 DEF InSight
<1>8. QED
  BY <1>1, <1>2, <1>7, OneRunInSight

\* Edits end what is promised of an unedited template, deleting it and a
\* restart leave the rows alone.
LEMMA OtherActionsSight ==
    ASSUME SightInv,
           \/ \E v \in Version : UpdateTemplate(v)
           \/ DeleteTemplate
           \/ \E r \in Run : RunTimeElapses(r)
           \/ Restart
           \/ UNCHANGED vars,
           NEW s \in Run
    PROVE  InSight(s, restarts > 0)'
<1>1. InSight(s, restarts > 0) /\ LoopInv
  BY DEF SightInv
<1>2. CASE \E v \in Version : UpdateTemplate(v)
  <2>1. edited' /\ UNCHANGED <<run, loop, rows, restarts>>
    BY <1>2 DEF UpdateTemplate, Request
  <2>2. QED
    BY <1>1, <2>1 DEF InSight
<1>3. CASE DeleteTemplate
  <2>1. template' \notin Version /\ UNCHANGED <<run, loop, rows, restarts, edited>>
    BY <1>3, DeletedIsNoVersion DEF DeleteTemplate, Request
  <2>2. QED
    BY <1>1, <2>1 DEF InSight
<1>4. CASE \/ \E r \in Run : RunTimeElapses(r)
           \/ UNCHANGED vars
  <2>1. UNCHANGED <<run, loop, rows, restarts, edited, template>>
    BY <1>4 DEF RunTimeElapses, vars
  <2>2. QED
    BY <1>1, <2>1 DEF InSight
<1>5. CASE Restart
  <2>1. /\ ~loop'[s].alive /\ restarts' > 0
        /\ UNCHANGED <<run, rows, template, edited>>
    <3>1. restarts \in Nat /\ loop[s] \in LoopRec
      BY <1>1, InvTypes DEF LoopInv, TypeOK
    <3>2. QED
      BY <1>5, <3>1 DEF Restart, LoopRec
  <2>2. Visible(run'[s], loop'[s], rows'[s], restarts' > 0)
    BY <1>1, <2>1 DEF InSight, Visible
  <2>3. ~edited' => Decided(run'[s], loop'[s], rows'[s])
    BY <1>1, <2>1 DEF InSight, Decided
  <2>4. ~edited' /\ template' \in Version =>
           OfVersion(loop'[s], rows'[s], template')
    BY <1>1, <2>1 DEF InSight, OfVersion
  <2>5. QED
    BY <2>2, <2>3, <2>4 DEF InSight
<1>6. QED
  BY <1>2, <1>3, <1>4, <1>5

\* Every step keeps every run in sight.
LEMMA NextSight == SightInv /\ [Next]_vars => SightInv'
<1> SUFFICES ASSUME SightInv, [Next]_vars PROVE SightInv'
  OBVIOUS
<1>1. LoopInv'
  BY NextInv DEF SightInv
<1>2. \A s \in Run : InSight(s, restarts > 0)'
  <2>1. CASE \E r \in Run : ExecuteRun(r)
    BY <2>1, ExecuteRunSight
  <2>2. CASE \E r \in Run, ok \in BOOLEAN : StepEnds(r, ok)
    BY <2>2, StepEndsSight
  <2>3. CASE \E r \in Run : ApproveStep(r)
    BY <2>3, ApproveStepSight
  <2>4. CASE \E r \in Run : RejectStep(r)
    BY <2>4, RejectStepSight
  <2>5. CASE \E r \in Run : CancelRun(r)
    BY <2>5, CancelRunSight
  <2>6. CASE \/ \E v \in Version : UpdateTemplate(v)
             \/ DeleteTemplate
             \/ \E r \in Run : RunTimeElapses(r)
             \/ Restart
             \/ UNCHANGED vars
    BY <2>6, OtherActionsSight
  <2>7. QED
    BY <2>1, <2>2, <2>3, <2>4, <2>5, <2>6 DEF Next
<1>3. QED
  BY <1>1, <1>2 DEF SightInv

-----------------------------------------------------------------------------
(* The theorems.                                                           *)

\* The inductive invariant holds in every reachable state.
LEMMA SpecLoopInv == Spec => []LoopInv
<1>1. Init => LoopInv
  BY InitInv
<1>2. LoopInv /\ [Next]_vars => LoopInv'
  BY NextInv
<1>3. QED
  BY <1>1, <1>2, PTL DEF Spec

\* Runs, loops and approval rows keep their types: in particular the count of
\* steps entered since a run was resumed never passes MAX_STEPS_PER_RUN.
THEOREM TypeCorrect == Spec => []TypeOK
<1>1. LoopInv => TypeOK
  BY DEF LoopInv
<1>2. QED
  BY <1>1, SpecLoopInv, PTL

\* _executeSteps never runs the body of a gated step that was not approved,
\* whatever the templates branch to and whenever they are edited.
THEOREM GatesAlwaysHold == Spec => []GatesHold
<1>1. LoopInv => GatesHold
  BY DEF LoopInv, LoopFits, GatesHold
<1>2. QED
  BY <1>1, SpecLoopInv, PTL

\* A run has one loop: decisions, cancellations, edits and restarts never make
\* it execute two steps at once, or one while it waits or after its end.
THEOREM OneStepAlways == Spec => []OneStepAtATime
<1>1. ASSUME LoopInv, NEW r \in Run
      PROVE  /\ Cardinality(Executing(r)) <= 1
             /\ loop[r].alive => /\ run[r].status \in {"running", "cancelled"}
                                 /\ Executing(r) = {run[r].at}
  <2>1. LoopFits(run[r], loop[r])
    BY <1>1 DEF LoopInv
  <2>2. Executing(r) \subseteq {run[r].at}
    BY <2>1 DEF LoopFits, Executing
  <2>3. Cardinality(Executing(r)) <= 1
    <3>1. IsFiniteSet({run[r].at}) /\ Cardinality({run[r].at}) = 1
      BY FS_Singleton
    <3>2. QED
      BY <2>2, <3>1, FS_Subset
  <2>4. loop[r].alive => Executing(r) = {run[r].at}
    BY <2>1, <2>2 DEF LoopFits, Executing
  <2>5. QED
    BY <2>1, <2>3, <2>4 DEF LoopFits
<1>2. LoopInv => OneStepAtATime
  BY <1>1 DEF OneStepAtATime
<1>3. QED
  BY <1>2, SpecLoopInv, PTL

\* A run that completed or failed is never written again: not by a late
\* approval, rejection or cancellation, nor by a restart.
THEOREM EndedRunsStay == Spec => EndedRunsAreFinal
<1>1. LoopInv /\ [Next]_vars
      => [\A r \in Run : run[r].status \in {"completed", "failed"}
                            => run'[r] = run[r]]_vars
  BY NextInv
<1>2. QED
  BY <1>1, SpecLoopInv, PTL DEF Spec, EndedRunsAreFinal

\* No run is lost from sight: one that runs is being executed, unless the
\* process was restarted or the template outgrew it; one that waits is found
\* by its last row; and while the template is not edited, no decision misses
\* the row it is about.
THEOREM RunsStayInSight == Spec => []NoRunIsLost
<1>1. Init => SightInv
  <2> SUFFICES ASSUME Init PROVE SightInv
    OBVIOUS
  <2>1. NoRun.status = "none" /\ Len(<<>>) = 0
    BY DEF NoRun
  <2>2. ASSUME NEW r \in Run
        PROVE  InSight(r, restarts > 0)
    <3>1. run[r].status = "none" /\ ~loop[r].alive /\ rows[r] = <<>>
      BY <2>1 DEF Init, NoLoop
    <3>2. QED
      BY <2>1, <3>1
      DEF InSight, Visible, Decided, NothingPending, OfVersion
  <2>3. QED
    BY <2>2, InitInv DEF SightInv
<1>2. SightInv => NoRunIsLost
  <2> SUFFICES ASSUME SightInv, NEW r \in Run
               PROVE  LET last    == rows[r][Len(rows[r])]
                          pending == {k \in 1..Len(rows[r]) :
                                        rows[r][k].status = "pending"}
                      IN  /\ run[r].status = "running" /\ ~loop[r].alive
                               => \/ restarts > 0
                                  \/ Len(Steps[loop[r].version])
                                        > Len(run[r].results)
                          /\ run[r].status = "waiting_approval" =>
                               /\ rows[r] # <<>>
                               /\ last.status = "pending"
                               /\ last.step = Steps[last.shown][run[r].at].id
                          /\ ~edited =>
                               /\ Cardinality(pending) <= 1
                               /\ pending # {} =>
                                     run[r].status \in {"waiting_approval",
                                                        "cancelled"}
    BY DEF NoRunIsLost
  <2> DEFINE pending == {k \in 1..Len(rows[r]) :
                           rows[r][k].status = "pending"}
  <2>1. InSight(r, restarts > 0)
    BY DEF SightInv
  <2>2. ASSUME ~edited
        PROVE  /\ Cardinality(pending) <= 1
               /\ pending # {} => run[r].status \in {"waiting_approval",
                                                     "cancelled"}
    <3>1. Decided(run[r], loop[r], rows[r])
      BY <2>1, <2>2 DEF InSight
    <3>2. CASE pending = {}
      BY <3>2, FS_EmptySet
    <3>3. CASE pending # {}
      <4>1. PICK k \in pending : pending = {k}
        BY <3>1, <3>3 DEF Decided
      <4>2. Cardinality(pending) = 1
        BY <4>1, FS_Singleton
      <4>3. QED
        BY <3>1, <3>3, <4>2 DEF Decided, NothingPending
    <3>4. QED
      BY <3>2, <3>3
  <2>3. QED
    BY <2>1, <2>2 DEF InSight, Visible
<1>3. QED
  BY <1>1, <1>2, NextSight, PTL DEF Spec

=============================================================================
