------------------------ MODULE ScheduleEngineProofs -------------------------
(***************************************************************************)
(* The stored in-flight count is accounted for, and with SQLite it is a    *)
(* lock and the cron jobs follow the rows: for every set of schedules, any *)
(* number of runs, edits, faults and crashes.                              *)
(*                                                                         *)
(* At the end, the same for Maintenance, the program's other scheduler: a  *)
(* job is armed for the next window or its window has come, so no window   *)
(* is run twice.                                                           *)
(***************************************************************************)
EXTENDS ScheduleEngine, Maintenance, FiniteSetTheorems, SequenceTheorems, TLAPS

Owner   == Tenant \union {NoTenant}
Row     == [tenant : Owner, status : Status \union {"absent"}, inFlight : Nat,
            last : {"never", "current", "due", "old"}]
RunRec  == [phase : Phase, sched : Schedule \union {NoSchedule}, tenant : Owner]
BootRec == [stage : {"down", "replaying", "up"}, listed : SUBSET Schedule,
            todo : SUBSET Schedule, on : Run \union {NoRun}]
Call    == [sched : Schedule, tenant : Owner, stage : {"reread", "rebind"}, bind : BOOLEAN]

-----------------------------------------------------------------------------
(* Type correctness.                                                       *)

LEMMA InitTypeOK == Init => TypeOK
<1> SUFFICES ASSUME Init PROVE TypeOK
  OBVIOUS
<1>1. \A s \in Schedule : row[s] \in Row
  <2>1. Absent \in Row /\ Fresh(SystemTenant, "enabled") \in Row
    BY SystemIsATenant DEF Absent, Fresh, Row, Status, Owner
  <2>2. QED
    BY <2>1 DEF Init
<1>2. row \in [Schedule -> Row]
  BY <1>1 DEF Init
<1>3. boot \in BootRec
  BY DEF Init, BootRec, Down
<1>4. QED
  BY <1>2, <1>3 DEF Init, TypeOK, Row, BootRec, FreeRun, Phase, Owner, NoJobs

LastRun == {"never", "current", "due", "old"}

\* What a row may become.
LEMMA RowReplaced ==
    ASSUME TypeOK, NEW s \in Schedule, NEW new \in Row
    PROVE  [row EXCEPT ![s] = new] \in [Schedule -> Row]
BY DEF TypeOK, Row, Owner

LEMMA RowChanges ==
    ASSUME TypeOK, NEW s \in Schedule, NEW n \in Nat, NEW l \in LastRun
    PROVE  /\ [row EXCEPT ![s].inFlight = n] \in [Schedule -> Row]
           /\ [row EXCEPT ![s].last = l] \in [Schedule -> Row]
           /\ [row EXCEPT ![s].inFlight = n, ![s].last = l] \in [Schedule -> Row]
<1>1. row \in [Schedule -> Row] /\ row[s] \in Row
  BY DEF TypeOK, Row, Owner
<1>2. /\ [row[s] EXCEPT !.inFlight = n] \in Row
      /\ [row[s] EXCEPT !.last = l] \in Row
      /\ [row[s] EXCEPT !.inFlight = n, !.last = l] \in Row
  BY <1>1 DEF Row, LastRun
<1>3. [row EXCEPT ![s].inFlight = n, ![s].last = l] =
        [row EXCEPT ![s] = [row[s] EXCEPT !.inFlight = n, !.last = l]]
  BY <1>1 DEF Row
<1>4. QED
  BY <1>1, <1>2, <1>3

LEMMA StatusChanges ==
    ASSUME TypeOK, NEW s \in Schedule, NEW st \in Status
    PROVE  [row EXCEPT ![s].status = st] \in [Schedule -> Row]
BY DEF TypeOK, Row, Owner

\* Reading a row takes a free slot for a schedule, or leaves the slots alone.
LEMMA ReadTypes ==
    ASSUME TypeOK, NEW s \in Schedule, NEW t \in Owner, NEW r \in Free, Read(s, t, r)
    PROVE  /\ run' \in [Run -> RunRec]
           /\ \A q \in Run : run'[q].phase = "free" <=> run'[q].sched = NoSchedule
           /\ skips' \subseteq Schedule
<1>1. r \in Run
  BY DEF Free
<1>2. [phase |-> "checked", sched |-> s, tenant |-> t] \in RunRec
  BY DEF RunRec, Phase
<1>3. run' \in [Run -> RunRec]
  BY <1>1, <1>2 DEF Read, TypeOK, RunRec, Owner
<1>4. \A q \in Run : run'[q].phase = "free" <=> run'[q].sched = NoSchedule
  BY <1>1, NoScheduleFresh DEF Read, TypeOK
<1>5. QED
  BY <1>3, <1>4 DEF Read, TypeOK

\* A run moves on, keeping its schedule.
LEMMA PhaseTypes ==
    ASSUME TypeOK, NEW r \in Run, run[r].phase # "free",
           NEW p \in Phase \ {"free"}, run' = [run EXCEPT ![r].phase = p]
    PROVE  /\ run' \in [Run -> RunRec]
           /\ \A q \in Run : run'[q].phase = "free" <=> run'[q].sched = NoSchedule
           /\ run[r].sched \in Schedule
BY NoScheduleFresh DEF TypeOK, RunRec, Owner

\* A slot is given back.
LEMMA FreedTypes ==
    ASSUME TypeOK, NEW r \in Run, run' = [run EXCEPT ![r] = FreeRun]
    PROVE  /\ run' \in [Run -> RunRec]
           /\ \A q \in Run : run'[q].phase = "free" <=> run'[q].sched = NoSchedule
<1>1. FreeRun \in RunRec
  BY DEF FreeRun, RunRec, Phase, Owner
<1>2. QED
  BY <1>1 DEF TypeOK, RunRec, FreeRun, Owner

LEMMA AwaitedType ==
    ASSUME TypeOK, NEW r \in Run
    PROVE  Awaited(r) \in BootRec
BY DEF Awaited, TypeOK, BootRec

LEMMA UncountedTypes ==
    ASSUME TypeOK, NEW r \in Run, NEW s \in Schedule, NEW n \in Nat,
           NEW leaked \in Nat, Uncounted(r, s, n, leaked)
    PROVE  wiped' \in [Schedule -> BOOLEAN] /\ lost' \in [Schedule -> Nat]
BY DEF Uncounted, TypeOK

LEMMA RunTypes ==
    ASSUME TypeOK, NEW r \in Run, RunSteps(r) \/ StoreThrows(r)
    PROVE  TypeOK'
<1>1. CASE MarkRunStarted(r)
  <2>1. run[r].sched \in Schedule /\ run[r].phase # "free"
    BY <1>1, NoScheduleFresh DEF MarkRunStarted, TypeOK
  <2>2. row' \in [Schedule -> Row]
    <3>1. CASE Found(run[r].sched, run[r].tenant)
      <4>1. PICK n \in Nat, l \in LastRun :
              row' = [row EXCEPT ![run[r].sched].inFlight = n, ![run[r].sched].last = l]
        <5>1. row[run[r].sched].inFlight + 1 \in Nat /\ "current" \in LastRun
          BY <2>1 DEF TypeOK, LastRun
        <5>2. row' = [row EXCEPT ![run[r].sched].inFlight = row[run[r].sched].inFlight + 1,
                                ![run[r].sched].last = "current"]
          <6> DEFINE s == run[r].sched
          <6>1. row' = [row EXCEPT ![s].inFlight = @ + 1, ![s].last = "current"]
            BY <1>1, <3>1 DEF MarkRunStarted
          <6>2. QED
            BY <6>1
        <5>3. QED
          BY <5>1, <5>2
      <4>2. QED
        BY <2>1, <4>1, RowChanges
    <3>2. CASE ~Found(run[r].sched, run[r].tenant)
      BY <1>1, <3>2 DEF MarkRunStarted, TypeOK, Row, Owner
    <3>3. QED
      BY <3>1, <3>2
  <2>3. run' = [run EXCEPT ![r].phase = "marked"] /\ "marked" \in Phase \ {"free"}
    BY <1>1 DEF MarkRunStarted, Phase
  <2>4. wiped' \in [Schedule -> BOOLEAN]
    BY <1>1, <2>1 DEF MarkRunStarted, TypeOK, Exists, Found
  <2>5. QED
    BY <1>1, <2>1, <2>2, <2>3, <2>4, PhaseTypes
       DEF MarkRunStarted, TypeOK, Row, RunRec, Owner
<1>2. CASE AppendRun(r)
  <2>1. /\ run' = [run EXCEPT ![r].phase = "running"] /\ run[r].phase # "free"
        /\ "running" \in Phase \ {"free"}
    BY <1>2 DEF AppendRun, Phase
  <2>2. QED
    BY <1>2, <2>1, PhaseTypes DEF AppendRun, TypeOK, RunRec, Owner
<1>3. CASE RunEnds(r)
  <2> DEFINE n == IF Found(run[r].sched, run[r].tenant)
                  THEN Decremented(row[run[r].sched].inFlight)
                  ELSE row[run[r].sched].inFlight
  <2>1. /\ run' = [run EXCEPT ![r].phase = "finished"] /\ run[r].phase # "free"
        /\ "finished" \in Phase \ {"free"}
    BY <1>3 DEF RunEnds, Phase
  <2>2. run[r].sched \in Schedule
    BY <2>1, PhaseTypes
  <2>3. n \in Nat
    BY <2>2 DEF Decremented, TypeOK
  <2>4. row' \in [Schedule -> Row]
    <3>1. row' = [row EXCEPT ![run[r].sched].inFlight = n]
      BY <1>3 DEF RunEnds
    <3>2. "due" \in LastRun
      BY DEF LastRun
    <3>3. QED
      BY <2>2, <2>3, <3>1, <3>2, RowChanges
  <2>5. wiped' \in [Schedule -> BOOLEAN] /\ lost' \in [Schedule -> Nat]
    <3>1. Uncounted(r, run[r].sched, n, 0)
      BY <1>3 DEF RunEnds
    <3>2. QED
      BY <2>2, <2>3, <3>1, UncountedTypes
  <2>6. QED
    BY <1>3, <2>1, <2>4, <2>5, PhaseTypes DEF RunEnds, TypeOK, RunRec, Row, Owner
<1>4. CASE FinalizeRun(r)
  <2>1. boot' \in BootRec
    BY <1>4, AwaitedType DEF FinalizeRun
  <2>2. QED
    BY <1>4, <2>1, FreedTypes DEF FinalizeRun, TypeOK, RunRec, BootRec, Owner
<1>5. CASE StoreThrows(r)
  <2>1. run' = [run EXCEPT ![r] = FreeRun] /\ boot' = Awaited(r)
    BY <1>5 DEF StoreThrows
  <2>2. boot' \in BootRec
    BY <2>1, AwaitedType
  <2>3. wiped' \in [Schedule -> BOOLEAN] /\ lost' \in [Schedule -> Nat]
    <3>1. CASE run[r].phase \in Counted
      <4>1. run[r].sched \in Schedule
        BY <3>1 DEF TypeOK, Counted
      <4>2. row[run[r].sched].inFlight \in Nat
        BY <4>1 DEF TypeOK
      <4>3. Uncounted(r, run[r].sched, row[run[r].sched].inFlight,
                      IF Exists(run[r].sched) THEN 1 ELSE 0)
        BY <1>5, <3>1 DEF StoreThrows
      <4>4. QED
        BY <4>1, <4>2, <4>3, UncountedTypes
    <3>2. CASE run[r].phase \notin Counted
      BY <1>5, <3>2 DEF StoreThrows, TypeOK
    <3>3. QED
      BY <3>1, <3>2
  <2>4. /\ faults' = faults + 1
        /\ UNCHANGED <<deployment, row, job, started, calls, skips, astray, edits, crashes>>
    BY <1>5 DEF StoreThrows
  <2>5. /\ run' \in [Run -> RunRec]
        /\ \A q \in Run : run'[q].phase = "free" <=> run'[q].sched = NoSchedule
    BY <2>1, FreedTypes
  <2>6. QED
    BY <2>2, <2>3, <2>4, <2>5 DEF TypeOK, RunRec, BootRec, Owner
<1>6. QED
  BY <1>1, <1>2, <1>3, <1>4, <1>5 DEF RunSteps

LEMMA StartTypes ==
    ASSUME TypeOK, NEW s \in Schedule, Tick(s) \/ RunNow(s) \/ ReplayMissed(s)
    PROVE  TypeOK'
<1>1. PICK r \in Free, t \in Owner : Read(s, t, r)
  <2>1. job[s] \in Owner /\ row[s].tenant \in Owner /\ SystemTenant \in Owner
    BY SystemIsATenant DEF TypeOK, Owner
  <2>2. QED
    BY <2>1 DEF Tick, RunNow, ReplayMissed
<1>2. CASE Tick(s)
  <2>1. row' \in [Schedule -> Row]
    <3>1. PICK l \in LastRun :
            row' = [row EXCEPT ![s].last = l]
      <4>1. row[s].last \in LastRun /\ "due" \in LastRun
        BY DEF TypeOK, LastRun
      <4>2. CASE row[s].last \in {"never", "old"}
        BY <1>2, <4>1, <4>2 DEF Tick
      <4>3. CASE row[s].last \notin {"never", "old"}
        BY <1>2, <4>1, <4>3 DEF Tick
      <4>4. QED
        BY <4>2, <4>3
    <3>2. QED
      BY <3>1, RowChanges, 0 \in Nat
  <2>2. QED
    BY <1>1, <1>2, <2>1, ReadTypes DEF Tick, TypeOK, RunRec, Row, Owner
<1>3. CASE RunNow(s)
  BY <1>1, <1>3, ReadTypes DEF RunNow, TypeOK, RunRec, Owner
<1>4. CASE ReplayMissed(s)
  <2>1. boot' \in BootRec
    <3>1. PICK q \in Free :
            boot' = [boot EXCEPT !.todo = @ \ {s},
                       !.on = IF VerdictOn(s, SystemTenant) = "go" THEN q ELSE NoRun]
      BY <1>4 DEF ReplayMissed
    <3>2. q \in Run
      BY DEF Free
    <3>3. QED
      BY <3>1, <3>2 DEF TypeOK, BootRec
  <2>2. QED
    BY <1>1, <1>4, <2>1, ReadTypes DEF ReplayMissed, TypeOK, RunRec, BootRec, Owner
<1>5. QED
  BY <1>2, <1>3, <1>4

LEMMA EditTypes ==
    ASSUME TypeOK, NEW s \in Schedule, Upsert(s) \/ SetStatus(s) \/ Delete(s)
    PROVE  TypeOK'
<1>1. ASSUME NEW new \in Row, Rewrite(s, new)
      PROVE  /\ row' \in [Schedule -> Row] /\ wiped' \in [Schedule -> BOOLEAN]
             /\ lost' \in [Schedule -> Nat]
  <2>1. row' \in [Schedule -> Row]
    BY <1>1, RowReplaced DEF Rewrite
  <2>2. QED
    BY <1>1, <2>1 DEF Rewrite, TypeOK
<1>2. ASSUME NEW t \in Owner, NEW stage \in {"reread", "rebind"}, NEW bind \in BOOLEAN,
             Suspend(s, t, stage, bind)
      PROVE  calls' \subseteq Call
  BY <1>2 DEF Suspend, TypeOK, Call, Owner
<1>3. edits' \in Nat
  <2>1. Edit
    BY DEF Upsert, SetStatus, Delete
  <2>2. QED
    BY <2>1 DEF Edit, TypeOK
<1>4. row[s].tenant \in Owner /\ deployment.tenants \subseteq Tenant
  BY DeploymentType DEF TypeOK, Owner
<1>5. CASE Upsert(s)
  <2>1. PICK status \in Status, t \in deployment.tenants, owner \in Owner :
          /\ Rewrite(s, Fresh(owner, status))
          /\ Suspend(s, t, "rebind", status = "enabled")
          /\ astray' = astray \ {s} \/ astray' = astray \union {s}
    <3>1. PICK status \in Status, t \in deployment.tenants :
            /\ Rewrite(s, Fresh(IF Exists(s) THEN row[s].tenant ELSE t, status))
            /\ Suspend(s, t, "rebind", status = "enabled")
            /\ astray' = astray \ {s} \/ astray' = astray \union {s}
      BY <1>5 DEF Upsert
    <3>2. (IF Exists(s) THEN row[s].tenant ELSE t) \in Owner
      BY <1>4 DEF Owner
    <3>3. QED
      BY <3>1, <3>2
  <2>2. /\ Fresh(owner, status) \in Row /\ (status = "enabled") \in BOOLEAN
        /\ t \in Owner
    BY <1>4 DEF Fresh, Row, Owner
  <2>3. calls' \subseteq Call
    BY <1>2, <2>1, <2>2
  <2>4. /\ row' \in [Schedule -> Row] /\ wiped' \in [Schedule -> BOOLEAN]
        /\ lost' \in [Schedule -> Nat]
    BY <1>1, <2>1, <2>2
  <2>5. astray' \subseteq Schedule
    BY <2>1 DEF TypeOK
  <2>6. QED
    BY <1>3, <1>5, <2>3, <2>4, <2>5 DEF Upsert, TypeOK, Row, Call, Owner
<1>6. CASE SetStatus(s)
  <2>1. PICK status \in Status :
          /\ row' = [row EXCEPT ![s].status = status]
          /\ Suspend(s, row[s].tenant, "reread", status = "enabled")
    BY <1>6 DEF SetStatus
  <2>2. calls' \subseteq Call
    BY <1>2, <1>4, <2>1
  <2>3. astray' \subseteq Schedule
    BY <1>6 DEF SetStatus, TypeOK
  <2>4. QED
    BY <1>3, <1>6, <2>1, <2>2, <2>3, StatusChanges
       DEF SetStatus, TypeOK, Row, Call, Owner
<1>7. CASE Delete(s)
  <2>1. /\ Absent \in Row /\ Rewrite(s, Absent)
        /\ Suspend(s, row[s].tenant, "rebind", FALSE)
    BY <1>7 DEF Delete, Absent, Row, Owner
  <2>2. calls' \subseteq Call
    BY <1>2, <1>4, <2>1
  <2>3. QED
    BY <1>1, <1>3, <1>7, <2>1, <2>2 DEF Delete, TypeOK, Row, Call, Owner
<1>8. QED
  BY <1>5, <1>6, <1>7

LEMMA OtherTypes ==
    ASSUME TypeOK,
           \/ \E s \in Schedule : TimePasses(s)
           \/ CallSteps \/ Start \/ BindAll \/ Stop \/ Crash \/ UNCHANGED vars
    PROVE  TypeOK'
<1>1. ASSUME NEW s \in Schedule, TimePasses(s) PROVE TypeOK'
  <2>1. row' \in [Schedule -> Row]
    <3>1. PICK l \in LastRun : row' = [row EXCEPT ![s].last = l]
      BY <1>1 DEF TimePasses, LastRun
    <3>2. QED
      BY <3>1, RowChanges, 0 \in Nat
  <2>2. QED
    BY <1>1, <2>1 DEF TimePasses, TypeOK, Row, Owner
<1>2. ASSUME NEW c \in calls, Reread(c) PROVE TypeOK'
  <2>1. c \in Call /\ [c EXCEPT !.stage = "rebind"] \in Call
    <3>1. c \in Call
      BY DEF TypeOK, Call, Owner
    <3>2. QED
      BY <3>1 DEF Call
  <2>2. calls' \subseteq Call
    BY <1>2, <2>1 DEF Reread, TypeOK, Call, Owner
  <2>3. QED
    BY <1>2, <2>2 DEF Reread, TypeOK, Call, Owner
<1>3. ASSUME NEW c \in calls, Rebind(c) PROVE TypeOK'
  <2>1. Rebound(c) \in [Schedule -> Owner]
    BY DEF Rebound, TypeOK, Owner
  <2>2. QED
    BY <1>3, <2>1 DEF Rebind, TypeOK, Owner
<1>4. CASE Start
  <2>1. boot' \in BootRec
    BY <1>4 DEF Start, BootRec
  <2>2. QED
    BY <1>4, <2>1 DEF Start, TypeOK, BootRec
<1>5. CASE BindAll
  <2>1. boot' \in BootRec
    BY <1>5 DEF BindAll, TypeOK, BootRec
  <2>2. job' \in [Schedule -> Owner] /\ astray' \subseteq Schedule
    BY <1>5, SystemIsATenant DEF BindAll, TypeOK, Owner
  <2>3. QED
    BY <1>5, <2>1, <2>2 DEF BindAll, TypeOK, BootRec, Owner
<1>6. CASE Stop
  BY <1>6 DEF Stop, TypeOK, NoJobs
<1>7. CASE Crash
  <2>1. FreeRun \in RunRec /\ Down \in BootRec
    BY DEF FreeRun, RunRec, Phase, Down, BootRec, Owner
  <2>2. lost' \in [Schedule -> Nat] /\ wiped' \in [Schedule -> BOOLEAN]
    BY <1>7 DEF Crash, TypeOK
  <2>3. /\ run' \in [Run -> RunRec]
        /\ \A q \in Run : run'[q].phase = "free" <=> run'[q].sched = NoSchedule
    BY <1>7, <2>1 DEF Crash, FreeRun
  <2>4. /\ boot' \in BootRec /\ calls' = {} /\ job' = NoJobs /\ started' = FALSE
        /\ crashes' \in Nat /\ astray' = {}
        /\ UNCHANGED <<deployment, row, skips, edits, faults>>
    BY <1>7, <2>1 DEF Crash, TypeOK
  <2>5. QED
    BY <2>2, <2>3, <2>4 DEF TypeOK, RunRec, BootRec, Owner, NoJobs
<1>8. CASE UNCHANGED vars
  BY <1>8 DEF vars, TypeOK
<1>9. QED
  BY <1>1, <1>2, <1>3, <1>4, <1>5, <1>6, <1>7, <1>8 DEF CallSteps

LEMMA NextTypeOK == TypeOK /\ [Next]_vars => TypeOK'
BY RunTypes, StartTypes, EditTypes, OtherTypes DEF Next, BootSteps

(* The rows, jobs, calls and runs keep their shape, the stored count is     *)
(* never negative, and a free slot belongs to no schedule (ScheduleEngine,  *)
(* ScheduledTaskStore.markRunFinished).                                     *)
THEOREM TypeCorrect == Spec => []TypeOK
BY InitTypeOK, NextTypeOK, PTL DEF Spec

-----------------------------------------------------------------------------
(* With SQLite one thing is suspended at a store call at a time: a run, a  *)
(* request or the boot; and a process that is down does nothing.           *)

Busy(r) == run[r].phase \in {"checked", "marked", "finished"}

OneAtATime ==
    /\ \A r, q \in Run : Busy(r) /\ Busy(q) => r = q
    /\ \A c, d \in calls : c = d
    /\ (\E r \in Run : Busy(r)) => calls = {}
    /\ boot.stage = "replaying" /\ boot.on = NoRun =>
          calls = {} /\ \A r \in Run : ~Busy(r)

NothingRuns ==
    calls = {} /\ job = NoJobs /\ ~started /\ \A r \in Run : run[r].phase = "free"

SoloInv ==
    /\ Store = "sqlite" => OneAtATime
    /\ boot.stage = "down" => NothingRuns

LEMMA InitSolo == Init => SoloInv
BY DEF Init, SoloInv, OneAtATime, NothingRuns, Busy, FreeRun, Down

\* Whatever needs the macrotask queue finds nothing suspended.
LEMMA SettledIsQuiet ==
    ASSUME TypeOK, Settled, Store = "sqlite"
    PROVE  /\ calls = {} /\ \A r \in Run : ~Busy(r)
           /\ boot.stage = "replaying" => boot.on # NoRun
BY DEF Settled, Busy

LEMMA RunSolo ==
    ASSUME TypeOK, SoloInv, NEW r \in Run, RunSteps(r) \/ StoreThrows(r)
    PROVE  SoloInv'
<1> USE DEF TypeOK
<1>1. run[r].phase # "free" /\ UNCHANGED <<deployment, calls, job, started>>
  BY DEF RunSteps, MarkRunStarted, AppendRun, RunEnds, FinalizeRun, StoreThrows
<1>2. boot.stage # "down" /\ boot'.stage = boot.stage
  <2>1. boot' = boot \/ boot' = Awaited(r)
    BY DEF RunSteps, MarkRunStarted, AppendRun, RunEnds, FinalizeRun, StoreThrows
  <2>2. boot'.stage = boot.stage
    BY <2>1 DEF Awaited
  <2>3. QED
    BY <1>1, <2>2 DEF SoloInv, NothingRuns
<1>3. ASSUME Store = "sqlite" PROVE OneAtATime'
  <2>1. OneAtATime
    BY <1>3 DEF SoloInv
  <2>2. \A q \in Run \ {r} : run'[q] = run[q]
    BY DEF RunSteps, MarkRunStarted, AppendRun, RunEnds, FinalizeRun, StoreThrows
  <2>3. CASE MarkRunStarted(r) \/ AppendRun(r)
    <3>1. Busy(r) /\ boot' = boot
      BY <2>3 DEF MarkRunStarted, AppendRun, Busy
    <3>2. QED
      BY <1>1, <2>1, <2>2, <3>1 DEF OneAtATime, Busy
  <2>4. CASE RunEnds(r)
    <3>1. /\ calls = {} /\ \A q \in Run : ~Busy(q)
          /\ boot.stage = "replaying" => boot.on # NoRun
      BY <1>3, <2>4, SettledIsQuiet DEF RunEnds
    <3>2. boot' = boot
      BY <2>4 DEF RunEnds
    <3>3. QED
      BY <1>1, <2>2, <3>1, <3>2 DEF OneAtATime, Busy
  <2>5. CASE FinalizeRun(r) \/ StoreThrows(r)
    <3>1. ~Busy(r)'
      BY <2>5 DEF FinalizeRun, StoreThrows, Busy, FreeRun
    <3>2. calls = {} /\ \A q \in Run \ {r} : ~Busy(q)
      <4>1. CASE Busy(r)
        BY <2>1, <4>1 DEF OneAtATime
      <4>2. CASE ~Busy(r)
        <5>1. Settled
          BY <1>1, <2>5, <4>2 DEF FinalizeRun, StoreThrows, Busy, Phase
        <5>2. QED
          BY <1>3, <5>1, SettledIsQuiet
      <4>3. QED
        BY <4>1, <4>2
    <3>3. QED
      BY <1>1, <2>2, <3>1, <3>2 DEF OneAtATime, Busy
  <2>6. QED
    BY <2>3, <2>4, <2>5 DEF RunSteps
<1>4. QED
  BY <1>1, <1>2, <1>3 DEF SoloInv, Store

LEMMA StartSolo ==
    ASSUME TypeOK, SoloInv, NEW s \in Schedule, Tick(s) \/ RunNow(s) \/ ReplayMissed(s)
    PROVE  SoloInv'
<1>1. UNCHANGED <<deployment, calls, job, started>>
  BY DEF Tick, RunNow, ReplayMissed
<1>2. boot.stage # "down" /\ boot'.stage = boot.stage
  <2>1. boot.stage # "down"
    BY DEF Tick, RunNow, ReplayMissed, Settled, Up
  <2>2. boot'.stage = boot.stage
    BY DEF Tick, RunNow, ReplayMissed, TypeOK
  <2>3. QED
    BY <2>1, <2>2
<1>3. ASSUME Store = "sqlite" PROVE OneAtATime'
  <2>1. calls = {} /\ \A q \in Run : ~Busy(q)
    <3>1. CASE Settled
      BY <1>3, <3>1, SettledIsQuiet
    <3>2. CASE ReplayMissed(s)
      BY <1>3, <3>2 DEF ReplayMissed, SoloInv, OneAtATime
    <3>3. QED
      BY <3>1, <3>2 DEF Tick, RunNow
  <2>2. PICK r \in Free, t \in {job[s], row[s].tenant, SystemTenant} :
          /\ Read(s, t, r)
          /\ \/ Settled /\ boot' = boot
             \/ boot' = [boot EXCEPT !.todo = @ \ {s},
                          !.on = IF VerdictOn(s, t) = "go" THEN r ELSE NoRun]
    BY DEF Tick, RunNow, ReplayMissed
  <2>3. r \in Run /\ r # NoRun
    BY SlotsAreFinite DEF Free
  <2>4. CASE VerdictOn(s, t) = "go"
    <3>1. \A q \in Run \ {r} : run'[q] = run[q]
      BY <2>2, <2>4 DEF Read, TypeOK
    <3>2. boot'.stage = "replaying" => boot'.on # NoRun
      BY <1>3, <2>2, <2>3, <2>4, SettledIsQuiet DEF TypeOK
    <3>3. QED
      BY <1>1, <2>1, <3>1, <3>2 DEF OneAtATime, Busy
  <2>5. CASE VerdictOn(s, t) # "go"
    <3>1. run' = run
      BY <2>2, <2>5 DEF Read
    <3>2. QED
      BY <1>1, <2>1, <3>1 DEF OneAtATime, Busy
  <2>6. QED
    BY <2>4, <2>5
<1>4. QED
  BY <1>1, <1>2, <1>3 DEF SoloInv, Store

LEMMA EditSolo ==
    ASSUME TypeOK, SoloInv, NEW s \in Schedule, Upsert(s) \/ SetStatus(s) \/ Delete(s)
    PROVE  SoloInv'
<1>1. Settled /\ UNCHANGED <<deployment, boot, run, job, started>>
  BY DEF Upsert, SetStatus, Delete
<1>2. PICK c : calls' = calls \union {c}
  BY DEF Upsert, SetStatus, Delete, Suspend
<1>3. ASSUME Store = "sqlite" PROVE OneAtATime'
  BY <1>1, <1>2, <1>3, SettledIsQuiet DEF OneAtATime, Busy
<1>4. boot.stage # "down"
  BY <1>1 DEF Settled, Up
<1>5. QED
  BY <1>1, <1>3, <1>4 DEF SoloInv, Store

LEMMA OtherSolo ==
    ASSUME TypeOK, SoloInv,
           \/ \E s \in Schedule : TimePasses(s)
           \/ CallSteps \/ Start \/ BindAll \/ Stop \/ Crash \/ UNCHANGED vars
    PROVE  SoloInv'
<1>1. CASE (\E s \in Schedule : TimePasses(s)) \/ UNCHANGED vars
  <2>1. UNCHANGED <<deployment, boot, run, job, started, calls>>
    BY <1>1 DEF TimePasses, vars
  <2>2. QED
    BY <2>1 DEF SoloInv, OneAtATime, NothingRuns, Busy, Store
<1>2. CASE CallSteps
  <2>1. PICK c \in calls : Reread(c) \/ Rebind(c)
    BY <1>2 DEF CallSteps
  <2>2. UNCHANGED <<deployment, boot, run>>
    BY <2>1 DEF Reread, Rebind
  <2>3. PICK d : calls' \subseteq (calls \ {c}) \union {d}
    <3>1. CASE Reread(c)
      BY <3>1 DEF Reread
    <3>2. CASE Rebind(c)
      BY <3>2 DEF Rebind
    <3>3. QED
      BY <2>1, <3>1, <3>2
  <2>4. boot.stage # "down"
    BY <2>1 DEF SoloInv, NothingRuns
  <2>5. ASSUME Store = "sqlite" PROVE OneAtATime'
    <3>1. OneAtATime /\ calls = {c}
      BY <2>1, <2>5 DEF SoloInv, OneAtATime
    <3>2. \A a, b \in calls' : a = b
      BY <2>3, <3>1
    <3>3. /\ \A r \in Run : ~Busy(r)
          /\ ~(boot.stage = "replaying" /\ boot.on = NoRun)
      BY <3>1 DEF OneAtATime
    <3>4. QED
      BY <2>2, <3>2, <3>3 DEF OneAtATime, Busy
  <2>6. QED
    BY <2>2, <2>4, <2>5 DEF SoloInv, Store
<1>3. CASE Start
  BY <1>3 DEF Start, SoloInv, OneAtATime, NothingRuns, Busy
<1>4. CASE BindAll
  <2>1. /\ boot'.stage = "up" /\ boot.stage # "down"
        /\ UNCHANGED <<deployment, run, calls>>
    BY <1>4 DEF BindAll, TypeOK
  <2>2. QED
    BY <2>1 DEF SoloInv, OneAtATime, Busy, Store
<1>5. CASE Stop
  <2>1. /\ UNCHANGED <<deployment, boot, run, calls>> /\ boot.stage # "down"
    BY <1>5 DEF Stop, Settled, Up
  <2>2. QED
    BY <2>1 DEF SoloInv, OneAtATime, Busy, Store
<1>6. CASE Crash
  BY <1>6 DEF Crash, SoloInv, OneAtATime, NothingRuns, Busy, Down, FreeRun
<1>7. QED
  BY <1>1, <1>2, <1>3, <1>4, <1>5, <1>6

LEMMA NextSolo == TypeOK /\ SoloInv /\ [Next]_vars => SoloInv'
BY RunSolo, StartSolo, EditSolo, OtherSolo DEF Next, BootSteps

-----------------------------------------------------------------------------
(* The stored count.  Unless the row was replaced or deleted under a run,  *)
(* the runs that count belong to the tenant of the row, so that the end of *)
(* each of them finds it.                                                  *)

CountFits(s) ==
    Exists(s) /\ ~wiped[s] =>
        /\ row[s].inFlight = Cardinality(Live(s)) + lost[s]
        /\ Store = "sqlite" => Cardinality(Live(s)) <= 1
        /\ \A r \in Live(s) : run[r].tenant = row[s].tenant

\* With SQLite the count that a run has found at zero is still at zero when it
\* is incremented.
VerdictFits ==
    Store = "sqlite" =>
        \A r \in Run : run[r].phase = "checked" => row[run[r].sched].inFlight = 0

CountInv == VerdictFits /\ \A s \in Schedule : CountFits(s)

LEMMA LiveType ==
    ASSUME NEW s \in Schedule
    PROVE  /\ IsFiniteSet(Live(s)) /\ Cardinality(Live(s)) \in Nat
           /\ Cardinality(Live(s)) = 0 <=> Live(s) = {}
<1>1. Live(s) \subseteq Run
  BY DEF Live
<1>2. IsFiniteSet(Live(s))
  BY <1>1, SlotsAreFinite, FS_Subset
<1>3. QED
  BY <1>2, FS_CardinalityType, FS_EmptySet

\* A schedule for which no run begins or stops to count has the same runs.
LEMMA SameLive ==
    ASSUME NEW s \in Schedule,
           \A r \in Run : run'[r].sched = s /\ run'[r].phase \in Counted
                          <=> run[r].sched = s /\ run[r].phase \in Counted
    PROVE  Live(s)' = Live(s)
BY DEF Live

\* A step that leaves row, runs and history of a schedule alone.
LEMMA SameCount ==
    ASSUME NEW s \in Schedule, CountFits(s),
           Live(s)' = Live(s), deployment' = deployment,
           row'[s].inFlight = row[s].inFlight, row'[s].status = row[s].status,
           row'[s].tenant = row[s].tenant,
           \A r \in Live(s) : run'[r].tenant = run[r].tenant,
           wiped'[s] = wiped[s], lost'[s] = lost[s]
    PROVE  CountFits(s)'
BY DEF CountFits, Exists, Store

LEMMA InitCount == Init => CountInv
<1> SUFFICES ASSUME Init PROVE CountInv
  OBVIOUS
<1>1. ASSUME NEW s \in Schedule PROVE CountFits(s)
  <2>1. Live(s) = {}
    BY DEF Init, Live, FreeRun, Counted
  <2>2. Cardinality(Live(s)) = 0
    BY <2>1, LiveType
  <2>3. row[s].inFlight = 0 /\ lost[s] = 0
    BY DEF Init, Absent, Fresh
  <2>4. QED
    BY <2>1, <2>2, <2>3 DEF CountFits
<1>2. VerdictFits
  BY DEF Init, VerdictFits, FreeRun
<1>3. QED
  BY <1>1, <1>2 DEF CountInv

\* With SQLite nobody is between the check and the count when others may move.
LEMMA QuietVerdict ==
    ASSUME TypeOK, Settled, deployment' = deployment,
           \A r \in Run : run'[r].phase = "checked" => run[r].phase = "checked"
    PROVE  VerdictFits'
BY SettledIsQuiet DEF VerdictFits, Busy, Store

\* A run that is counted by the row it found at zero.
LEMMA MarkCount ==
    ASSUME TypeOK, SoloInv, CountInv, NEW r \in Run, MarkRunStarted(r)
    PROVE  CountInv'
<1>0. PICK s \in Schedule : s = run[r].sched
  BY NoScheduleFresh DEF MarkRunStarted, TypeOK
<1>1. /\ run[r].phase = "checked"
      /\ run' = [run EXCEPT ![r].phase = "marked"]
      /\ UNCHANGED <<deployment, lost>>
  BY DEF MarkRunStarted
<1>2. \A t \in Schedule \ {s} : row'[t] = row[t] /\ wiped'[t] = wiped[t]
  BY <1>0, <1>1 DEF MarkRunStarted, TypeOK
<1>3. /\ row'[s].status = row[s].status /\ row'[s].tenant = row[s].tenant
      /\ Found(s, run[r].tenant) => row'[s].inFlight = row[s].inFlight + 1
  <2>1. CASE Found(s, run[r].tenant)
    <3>1. row' = [row EXCEPT ![s].inFlight = @ + 1, ![s].last = "current"]
      BY <1>0, <2>1 DEF MarkRunStarted
    <3>2. QED
      BY <3>1 DEF TypeOK
  <2>2. CASE ~Found(s, run[r].tenant)
    BY <1>0, <2>2 DEF MarkRunStarted
  <2>3. QED
    BY <2>1, <2>2
<1>4. Live(s)' = Live(s) \union {r} /\ r \notin Live(s)
  BY <1>0, <1>1 DEF Live, Counted, TypeOK
<1>5. Cardinality(Live(s)') = Cardinality(Live(s)) + 1
  BY <1>1, <1>4, LiveType, FS_AddElement
<1>6. \A q \in Run : run'[q].tenant = run[q].tenant
  BY <1>1 DEF TypeOK
<1>7. ASSUME NEW t \in Schedule \ {s} PROVE CountFits(t)'
  <2>1. Live(t)' = Live(t)
    BY <1>0, <1>1, SameLive DEF TypeOK
  <2>2. \A q \in Live(t) : run'[q].tenant = run[q].tenant
    BY <1>6 DEF Live
  <2>3. QED
    BY <1>1, <1>2, <2>1, <2>2, SameCount DEF CountInv
<1>8. CountFits(s)'
  <2> SUFFICES ASSUME Exists(s)', ~wiped'[s]
               PROVE  /\ row'[s].inFlight = Cardinality(Live(s)') + lost'[s]
                      /\ Store = "sqlite" => Cardinality(Live(s)') <= 1
                      /\ \A q \in Live(s)' : run'[q].tenant = row'[s].tenant
    BY <1>1 DEF CountFits, Store
  <2>1. Exists(s)
    BY <1>3 DEF Exists
  <2>2. Found(s, run[r].tenant) /\ ~wiped[s]
    BY <1>0, <2>1 DEF MarkRunStarted, TypeOK
  <2>3. /\ row[s].inFlight = Cardinality(Live(s)) + lost[s]
        /\ \A q \in Live(s) : run[q].tenant = row[s].tenant
    BY <2>1, <2>2 DEF CountInv, CountFits
  <2>4. lost[s] \in Nat /\ Cardinality(Live(s)) \in Nat /\ row[s].inFlight \in Nat
    BY <1>1, LiveType DEF TypeOK
  <2>5. Store = "sqlite" => row[s].inFlight = 0
    BY <1>0, <1>1 DEF CountInv, VerdictFits
  <2>6. Store = "sqlite" => Cardinality(Live(s)) = 0
    BY <2>3, <2>4, <2>5
  <2>7. \A q \in Live(s)' : run'[q].tenant = row'[s].tenant
    <3>1. run[r].tenant = row[s].tenant
      BY <2>2 DEF Found
    <3>2. Live(s) \subseteq Run
      BY DEF Live
    <3>3. QED
      BY <1>3, <1>4, <1>6, <2>3, <3>1, <3>2
  <2>8. row'[s].inFlight = row[s].inFlight + 1
    BY <1>3, <2>2
  <2>9. QED
    BY <1>1, <1>5, <2>3, <2>4, <2>6, <2>7, <2>8
<1>9. VerdictFits'
  <2>1. ASSUME Store = "sqlite" PROVE \A q \in Run : run'[q].phase # "checked"
    <3>1. \A q \in Run : run[q].phase = "checked" => q = r
      BY <1>1, <2>1 DEF SoloInv, OneAtATime, Busy
    <3>2. QED
      BY <1>1, <3>1 DEF TypeOK
  <2>2. QED
    BY <1>1, <2>1 DEF VerdictFits, Store
<1>10. QED
  BY <1>7, <1>8, <1>9 DEF CountInv

\* A run of a wiped schedule that is the last one makes it sound again; one of
\* another schedule takes its share away, or leaves it behind as lost.
LEMMA UncountedFits ==
    ASSUME TypeOK, NEW r \in Run, NEW s \in Schedule, r \in Live(s), CountFits(s),
           NEW n \in Nat, NEW leaked \in {0, 1}, Uncounted(r, s, n, leaked),
           deployment' = deployment,
           Live(s)' = Live(s) \ {r},
           row'[s].status = row[s].status, row'[s].inFlight = n,
           row'[s].tenant = row[s].tenant,
           \A q \in Live(s) \ {r} : run'[q].tenant = run[q].tenant,
           Exists(s) /\ ~wiped[s] => n = row[s].inFlight - 1 + leaked
    PROVE  CountFits(s)'
<1> DEFINE over == wiped[s] /\ Live(s) \subseteq {r}
<1>1. /\ wiped'[s] = (wiped[s] /\ ~over)
      /\ lost'[s] = IF over THEN n ELSE lost[s] + leaked
  BY DEF Uncounted, TypeOK
<1>2. Cardinality(Live(s)') = Cardinality(Live(s)) - 1
  BY LiveType, FS_RemoveElement
<1>3. /\ lost[s] \in Nat /\ Cardinality(Live(s)) \in Nat /\ row[s].inFlight \in Nat
      /\ wiped[s] \in BOOLEAN
  BY LiveType DEF TypeOK
<1>4. CASE over
  <2>1. Live(s)' = {}
    BY <1>4
  <2>2. Cardinality(Live(s)') = 0
    BY <2>1, FS_EmptySet
  <2>3. lost'[s] = n
    BY <1>1, <1>4
  <2>4. QED
    BY <2>1, <2>2, <2>3 DEF CountFits
<1>5. CASE ~over
  <2> SUFFICES ASSUME Exists(s)', ~wiped'[s]
               PROVE  /\ row'[s].inFlight = Cardinality(Live(s)') + lost'[s]
                      /\ Store = "sqlite" => Cardinality(Live(s)') <= 1
                      /\ \A q \in Live(s)' : run'[q].tenant = row'[s].tenant
    BY DEF CountFits, Store
  <2>1. Exists(s) /\ ~wiped[s]
    BY <1>1, <1>3, <1>5 DEF Exists
  <2>2. /\ row[s].inFlight = Cardinality(Live(s)) + lost[s]
        /\ Store = "sqlite" => Cardinality(Live(s)) <= 1
        /\ \A q \in Live(s) : run[q].tenant = row[s].tenant
    BY <2>1 DEF CountFits
  <2>3. lost'[s] = lost[s] + leaked
    BY <1>1, <1>5
  <2>4. \A q \in Live(s)' : run'[q].tenant = row'[s].tenant
    BY <2>2
  <2>5. QED
    BY <1>2, <1>3, <2>1, <2>2, <2>3, <2>4
<1>6. QED
  BY <1>4, <1>5

LEMMA EndCount ==
    ASSUME TypeOK, CountInv, NEW r \in Run, RunEnds(r)
    PROVE  CountInv'
<1>0. PICK s \in Schedule : s = run[r].sched
  BY DEF RunEnds, TypeOK
<1> DEFINE n == IF Found(s, run[r].tenant) THEN Decremented(row[s].inFlight)
                ELSE row[s].inFlight
<1>1. /\ run[r].phase = "running" /\ Settled
      /\ run' = [run EXCEPT ![r].phase = "finished"]
      /\ row' = [row EXCEPT ![s].inFlight = n]
      /\ Uncounted(r, s, n, 0) /\ deployment' = deployment
  BY <1>0 DEF RunEnds
<1>2. row[s].inFlight \in Nat /\ n \in Nat
  BY DEF TypeOK, Decremented
<1>3. r \in Live(s) /\ Live(s)' = Live(s) \ {r}
  BY <1>0, <1>1 DEF Live, Counted, TypeOK
<1>4. /\ row'[s].status = row[s].status /\ row'[s].inFlight = n
      /\ row'[s].tenant = row[s].tenant
      /\ \A q \in Run : run'[q].tenant = run[q].tenant
  <2> HIDE DEF n
  <2>1. QED
    BY <1>1 DEF TypeOK
<1>5. Exists(s) /\ ~wiped[s] => n = row[s].inFlight - 1 + 0
  <2>1. Cardinality(Live(s)) # 0 /\ Cardinality(Live(s)) \in Nat /\ lost[s] \in Nat
    BY <1>3, LiveType DEF TypeOK
  <2>2. Exists(s) /\ ~wiped[s] => /\ row[s].inFlight = Cardinality(Live(s)) + lost[s]
                                  /\ Found(s, run[r].tenant)
    BY <1>3 DEF CountInv, CountFits, Found
  <2>3. QED
    BY <1>2, <2>1, <2>2 DEF Decremented
<1>6. CountFits(s)'
  <2>1. CountFits(s)
    BY DEF CountInv
  <2>2. \A q \in Live(s) \ {r} : run'[q].tenant = run[q].tenant
    BY <1>4 DEF Live
  <2> HIDE DEF n
  <2>3. QED
    BY <1>1, <1>2, <1>3, <1>4, <1>5, <2>1, <2>2, UncountedFits
<1>7. ASSUME NEW t \in Schedule \ {s} PROVE CountFits(t)'
  <2>1. Live(t)' = Live(t)
    BY <1>0, <1>1, SameLive DEF TypeOK
  <2>2. row'[t] = row[t] /\ wiped'[t] = wiped[t] /\ lost'[t] = lost[t]
    <3> HIDE DEF n
    <3>1. QED
      BY <1>1 DEF TypeOK, Uncounted
  <2>3. \A q \in Live(t) : run'[q].tenant = run[q].tenant
    BY <1>4 DEF Live
  <2>4. QED
    BY <1>1, <2>1, <2>2, <2>3, SameCount DEF CountInv
<1>8. VerdictFits'
  BY <1>1, QuietVerdict DEF TypeOK
<1>9. QED
  BY <1>6, <1>7, <1>8 DEF CountInv

LEMMA ThrowCount ==
    ASSUME TypeOK, SoloInv, CountInv, NEW r \in Run, StoreThrows(r)
    PROVE  CountInv'
<1>0. PICK s \in Schedule : s = run[r].sched
  BY DEF StoreThrows, TypeOK
<1>1. /\ run[r].phase # "free" /\ run' = [run EXCEPT ![r] = FreeRun]
      /\ row' = row /\ deployment' = deployment
  BY DEF StoreThrows
<1>2. VerdictFits'
  BY <1>1 DEF CountInv, VerdictFits, TypeOK, Store, FreeRun
<1>3. ASSUME NEW t \in Schedule \ {s} PROVE Live(t)' = Live(t)
  <2>1. FreeRun.phase \notin Counted
    BY DEF FreeRun, Counted
  <2>2. QED
    BY <1>0, <1>1, <2>1, SameLive DEF TypeOK
<1>4. \A q \in Run \ {r} : run'[q].tenant = run[q].tenant
  BY <1>1 DEF TypeOK
<1>5. ASSUME NEW t \in Schedule, r \notin Live(t)
      PROVE  \A q \in Live(t) : run'[q].tenant = run[q].tenant
  BY <1>4, <1>5 DEF Live
<1>6. CASE run[r].phase \in Counted
  <2> DEFINE n == row[s].inFlight
             leaked == IF Exists(s) THEN 1 ELSE 0
  <2>1. Uncounted(r, s, n, leaked)
    BY <1>0, <1>6 DEF StoreThrows
  <2>2. r \in Live(s) /\ Live(s)' = Live(s) \ {r}
    BY <1>0, <1>1, <1>6 DEF Live, Counted, TypeOK, FreeRun
  <2>3. n \in Nat /\ leaked \in {0, 1} /\ CountFits(s)
    BY DEF TypeOK, CountInv
  <2>4. Exists(s) /\ ~wiped[s] => n = row[s].inFlight - 1 + leaked
    BY <2>3
  <2>5. /\ row'[s].status = row[s].status /\ row'[s].inFlight = n
        /\ row'[s].tenant = row[s].tenant
        /\ \A q \in Live(s) \ {r} : run'[q].tenant = run[q].tenant
    BY <1>1, <1>4 DEF Live
  <2>6. \A t \in Schedule \ {s} : wiped'[t] = wiped[t] /\ lost'[t] = lost[t]
    BY <2>1 DEF Uncounted, TypeOK
  <2> HIDE DEF n, leaked
  <2>7. CountFits(s)'
    BY <1>1, <2>1, <2>2, <2>3, <2>4, <2>5, UncountedFits
  <2>8. ASSUME NEW t \in Schedule \ {s} PROVE CountFits(t)'
    <3>1. r \notin Live(t)
      BY <1>0 DEF Live
    <3>2. QED
      BY <1>1, <1>3, <1>5, <2>6, <3>1, SameCount DEF CountInv
  <2>9. QED
    BY <1>2, <2>7, <2>8 DEF CountInv
<1>7. CASE run[r].phase \notin Counted
  <2>1. wiped' = wiped /\ lost' = lost
    BY <1>7 DEF StoreThrows
  <2>2. Live(s)' = Live(s)
    BY <1>0, <1>1, <1>7 DEF Live, Counted, TypeOK, FreeRun
  <2>3. \A t \in Schedule : Live(t)' = Live(t)
    BY <1>3, <2>2
  <2>4. ASSUME NEW t \in Schedule PROVE CountFits(t)'
    <3>1. r \notin Live(t)
      BY <1>7 DEF Live
    <3>2. QED
      BY <1>1, <1>5, <2>1, <2>3, <3>1, SameCount DEF CountInv
  <2>5. QED
    BY <1>2, <2>4 DEF CountInv
<1>8. QED
  BY <1>6, <1>7

LEMMA QuietRunCount ==
    ASSUME TypeOK, SoloInv, CountInv, NEW r \in Run, AppendRun(r) \/ FinalizeRun(r)
    PROVE  CountInv'
<1>1. UNCHANGED <<deployment, row, wiped, lost>>
  BY DEF AppendRun, FinalizeRun
<1>2. ASSUME NEW t \in Schedule PROVE Live(t)' = Live(t)
  <2>1. \A q \in Run \ {r} : run'[q] = run[q]
    BY DEF AppendRun, FinalizeRun, TypeOK
  <2>2. CASE AppendRun(r)
    <3>1. /\ run'[r].sched = run[r].sched /\ run[r].phase = "marked"
          /\ run'[r].phase = "running"
      BY <2>2 DEF AppendRun, TypeOK
    <3>2. QED
      BY <2>1, <3>1, SameLive DEF Counted
  <2>3. CASE FinalizeRun(r)
    <3>1. run[r].phase = "finished" /\ run'[r].phase = "free"
      BY <2>3 DEF FinalizeRun, TypeOK, FreeRun
    <3>2. QED
      BY <2>1, <3>1, SameLive DEF Counted
  <2>4. QED
    BY <2>2, <2>3
<1>3. VerdictFits'
  BY <1>1 DEF AppendRun, FinalizeRun, CountInv, VerdictFits, Store, TypeOK, FreeRun
<1>4. \A t \in Schedule : \A q \in Live(t) : run'[q].tenant = run[q].tenant
  BY DEF AppendRun, FinalizeRun, Live, Counted, TypeOK
<1>5. QED
  BY <1>1, <1>2, <1>3, <1>4, SameCount DEF CountInv

LEMMA StartCount ==
    ASSUME TypeOK, SoloInv, CountInv, NEW s \in Schedule,
           Tick(s) \/ RunNow(s) \/ ReplayMissed(s)
    PROVE  CountInv'
<1>1. PICK r \in Free, u \in {job[s], row[s].tenant, SystemTenant} : Read(s, u, r)
  BY DEF Tick, RunNow, ReplayMissed
<1>2. r \in Run /\ run[r].phase = "free"
  BY DEF Free
<1>3. UNCHANGED <<deployment, wiped, lost>>
  BY DEF Tick, RunNow, ReplayMissed
<1>4. \A t \in Schedule : row'[t].inFlight = row[t].inFlight
                          /\ row'[t].status = row[t].status
                          /\ row'[t].tenant = row[t].tenant
  <2>1. CASE Tick(s)
    <3>1. PICK l : row' = [row EXCEPT ![s].last = l]
      BY <2>1 DEF Tick
    <3>2. QED
      BY <3>1 DEF TypeOK
  <2>2. CASE RunNow(s) \/ ReplayMissed(s)
    BY <2>2 DEF RunNow, ReplayMissed
  <2>3. QED
    BY <2>1, <2>2
<1>5. ASSUME NEW t \in Schedule PROVE Live(t)' = Live(t)
  BY <1>1, <1>2, SameLive DEF Read, Counted, TypeOK
<1>6. VerdictFits'
  <2> SUFFICES ASSUME NEW q \in Run, Store = "sqlite", run'[q].phase = "checked"
               PROVE  row'[run'[q].sched].inFlight = 0
    BY <1>3 DEF VerdictFits, Store
  <2>1. CASE run'[q] = run[q]
    <3>1. run[q].sched \in Schedule
      BY <2>1 DEF TypeOK
    <3>2. QED
      BY <1>4, <2>1, <3>1 DEF CountInv, VerdictFits
  <2>2. CASE run'[q] # run[q]
    <3>1. VerdictOn(s, u) = "go" /\ run'[q].sched = s
      BY <1>1, <1>2, <2>2 DEF Read, TypeOK
    <3>2. ~(row[s].inFlight > 0)
      BY <3>1 DEF VerdictOn
    <3>3. QED
      BY <1>4, <3>1, <3>2 DEF TypeOK
  <2>3. QED
    BY <2>1, <2>2
<1>7. \A t \in Schedule : \A q \in Live(t) : run'[q].tenant = run[q].tenant
  BY <1>1, <1>2 DEF Read, Live, Counted, TypeOK
<1>8. QED
  BY <1>3, <1>4, <1>5, <1>6, <1>7, SameCount DEF CountInv

LEMMA EditCount ==
    ASSUME TypeOK, CountInv, NEW s \in Schedule,
           Upsert(s) \/ SetStatus(s) \/ Delete(s)
    PROVE  CountInv'
<1>1. Settled /\ UNCHANGED <<deployment, run>>
  BY DEF Upsert, SetStatus, Delete
<1>2. \A t \in Schedule : Live(t)' = Live(t)
  BY <1>1 DEF Live
<1>3. VerdictFits'
  BY <1>1, QuietVerdict
<1>4. ASSUME NEW new, new.inFlight = 0, Rewrite(s, new) PROVE CountInv'
  <2>1. ASSUME NEW t \in Schedule \ {s} PROVE CountFits(t)'
    <3>1. row'[t] = row[t] /\ wiped'[t] = wiped[t] /\ lost'[t] = lost[t]
      BY <1>4 DEF Rewrite, TypeOK
    <3>2. QED
      BY <1>1, <1>2, <3>1, SameCount DEF CountInv
  <2>2. CountFits(s)'
    <3>1. /\ row'[s].inFlight = 0 /\ lost'[s] = 0
          /\ wiped'[s] = (Live(s) # {})
      BY <1>4 DEF Rewrite, TypeOK
    <3>2. ~wiped'[s] => Live(s)' = {} /\ Cardinality(Live(s)') = 0
      BY <1>2, <3>1, LiveType
    <3>3. QED
      BY <3>1, <3>2 DEF CountFits
  <2>3. QED
    BY <1>3, <2>1, <2>2 DEF CountInv
<1>5. CASE Upsert(s)
  <2>1. PICK owner, st : Rewrite(s, Fresh(owner, st))
    BY <1>5 DEF Upsert
  <2>2. Fresh(owner, st).inFlight = 0
    BY DEF Fresh
  <2>3. QED
    BY <1>4, <2>1, <2>2
<1>6. CASE Delete(s)
  BY <1>4, <1>6 DEF Delete, Absent
<1>7. CASE SetStatus(s)
  <2>1. PICK st \in Status : row' = [row EXCEPT ![s].status = st]
    BY <1>7 DEF SetStatus
  <2>2. Exists(s) /\ UNCHANGED <<wiped, lost>>
    BY <1>7 DEF SetStatus
  <2>3. ASSUME NEW t \in Schedule PROVE CountFits(t)'
    <3>1. /\ row'[t].inFlight = row[t].inFlight /\ (Exists(t)' => Exists(t))
          /\ row'[t].tenant = row[t].tenant
      BY <2>1, <2>2 DEF TypeOK, Exists
    <3>2. QED
      BY <1>1, <1>2, <2>2, <3>1 DEF CountInv, CountFits, Store
  <2>4. QED
    BY <1>3, <2>3 DEF CountInv
<1>8. QED
  BY <1>5, <1>6, <1>7

LEMMA OtherCount ==
    ASSUME TypeOK, CountInv,
           \/ \E s \in Schedule : TimePasses(s)
           \/ CallSteps \/ Start \/ BindAll \/ Stop \/ Crash \/ UNCHANGED vars
    PROVE  CountInv'
<1>1. CASE Crash
  <2>1. /\ \A r \in Run : run'[r] = FreeRun
        /\ \A s \in Schedule : lost'[s] = row[s].inFlight
        /\ row' = row
    BY <1>1 DEF Crash
  <2>2. ASSUME NEW s \in Schedule PROVE CountFits(s)'
    <3>1. Live(s)' = {}
      BY <2>1 DEF Live, FreeRun, Counted
    <3>2. Cardinality(Live(s)') = 0
      BY <3>1, FS_EmptySet
    <3>3. QED
      BY <2>1, <3>1, <3>2 DEF CountFits, TypeOK
  <2>3. VerdictFits'
    BY <2>1 DEF VerdictFits, FreeRun
  <2>4. QED
    BY <2>2, <2>3 DEF CountInv
<1>2. CASE ~Crash
  <2>1. UNCHANGED <<deployment, run, wiped, lost>>
    BY <1>2 DEF TimePasses, CallSteps, Reread, Rebind, Start, BindAll, Stop, vars
  <2>2. \A t \in Schedule : row'[t].inFlight = row[t].inFlight
                            /\ row'[t].status = row[t].status
                            /\ row'[t].tenant = row[t].tenant
    <3>1. \/ row' = row
          \/ \E s \in Schedule, l \in LastRun : row' = [row EXCEPT ![s].last = l]
      BY <1>2 DEF TimePasses, CallSteps, Reread, Rebind, Start, BindAll, Stop, vars, LastRun
    <3>2. QED
      BY <3>1 DEF TypeOK
  <2>3. \A t \in Schedule : Live(t)' = Live(t)
    BY <2>1 DEF Live
  <2>4. VerdictFits'
    <3>1. \A r \in Run : run[r].phase = "checked" => run[r].sched \in Schedule
      BY DEF TypeOK
    <3>2. QED
      BY <2>1, <2>2, <3>1 DEF CountInv, VerdictFits, Store
  <2>5. QED
    BY <2>1, <2>2, <2>3, <2>4, SameCount DEF CountInv
<1>3. QED
  BY <1>1, <1>2

LEMMA NextCount == TypeOK /\ SoloInv /\ CountInv /\ [Next]_vars => CountInv'
BY MarkCount, EndCount, ThrowCount, QuietRunCount, StartCount, EditCount, OtherCount
   DEF Next, RunSteps, BootSteps

(* The stored count is the number of runs in flight and what dead processes *)
(* and failed store calls left in it, and with SQLite no two runs of a      *)
(* schedule overlap, unless it was replaced or deleted under a run          *)
(* (ScheduleEngine.executeRun, markRunStarted, markRunFinished).            *)
THEOREM LockAlwaysAccountedFor == Spec => []LockIsAccountedFor
<1>1. CountInv => LockIsAccountedFor
  BY DEF CountInv, CountFits, LockIsAccountedFor
<1>2. QED
  BY <1>1, InitCount, NextCount, InitSolo, NextSolo, TypeCorrect, PTL DEF Spec

-----------------------------------------------------------------------------
(* The cron jobs, with SQLite.                                              *)

HasCall(s) == \E c \in calls : c.sched = s

\* A request that has written the row has its rebinding before it, and that
\* is to do what the row says.
CallsFit ==
    \A c \in calls : /\ c.bind <=> Enabled(c.sched)
                     /\ c.bind => c.tenant = row[c.sched].tenant \/ c.sched \in astray
                     /\ c.stage = "reread" => Found(c.sched, c.tenant)

JobFits(s) ==
    /\ started /\ boot.stage # "down" /\ Enabled(s) =>
          \/ job[s] = row[s].tenant \/ s \in astray \/ HasCall(s)
          \/ boot.stage = "replaying" /\ s \in boot.listed
    /\ Bound(s) => Enabled(s) \/ s \in boot.listed \/ HasCall(s)

JobInv == Store = "sqlite" => CallsFit /\ \A s \in Schedule : JobFits(s)

LEMMA InitJobs == Init => JobInv
BY DEF Init, JobInv, CallsFit, JobFits, HasCall, Down, Bound, NoJobs

\* A step that moves nothing but runs, and the boot among its replays.
LEMMA SameJobs ==
    ASSUME TypeOK, JobInv, UNCHANGED <<deployment, job, started, calls, astray>>,
           \A s \in Schedule : /\ row'[s].status = row[s].status
                               /\ row'[s].tenant = row[s].tenant,
           boot'.stage = boot.stage, boot'.listed = boot.listed
    PROVE  JobInv'
<1>1. \A s \in Schedule : /\ Enabled(s)' <=> Enabled(s)
                          /\ \A t : Found(s, t)' <=> Found(s, t)
                          /\ HasCall(s)' <=> HasCall(s)
                          /\ Bound(s)' <=> Bound(s)
  <2>1. ASSUME NEW s \in Schedule, NEW t PROVE Found(s, t)' <=> Found(s, t)
    BY DEF Found, Exists
  <2>2. QED
    BY <2>1 DEF Enabled, HasCall, Bound
<1>2. ASSUME CallsFit PROVE CallsFit'
  <2>1. \A c \in calls : c.sched \in Schedule
    BY DEF TypeOK
  <2>2. QED
    BY <1>1, <1>2, <2>1 DEF CallsFit
<1>3. ASSUME NEW s \in Schedule, JobFits(s) PROVE JobFits(s)'
  BY <1>1, <1>3 DEF JobFits
<1>4. QED
  BY <1>2, <1>3 DEF JobInv, Store

LEMMA RunJobs ==
    ASSUME TypeOK, JobInv, NEW r \in Run, RunSteps(r) \/ StoreThrows(r)
    PROVE  JobInv'
<1>1. UNCHANGED <<deployment, job, started, calls, astray>>
  BY DEF RunSteps, MarkRunStarted, AppendRun, RunEnds, FinalizeRun, StoreThrows
<1>2. ASSUME NEW s \in Schedule
      PROVE  row'[s].status = row[s].status /\ row'[s].tenant = row[s].tenant
  <2>1. CASE MarkRunStarted(r)
    <3>1. \/ row' = row
          \/ row' = [row EXCEPT ![run[r].sched].inFlight = @ + 1,
                                ![run[r].sched].last = "current"]
      BY <2>1 DEF MarkRunStarted
    <3>2. QED
      BY <3>1 DEF TypeOK
  <2>2. CASE RunEnds(r)
    <3>1. PICK n : row' = [row EXCEPT ![run[r].sched].inFlight = n]
      BY <2>2 DEF RunEnds
    <3>2. QED
      BY <3>1 DEF TypeOK
  <2>3. CASE AppendRun(r) \/ FinalizeRun(r) \/ StoreThrows(r)
    BY <2>3 DEF AppendRun, FinalizeRun, StoreThrows
  <2>4. QED
    BY <2>1, <2>2, <2>3 DEF RunSteps
<1>3. boot'.stage = boot.stage /\ boot'.listed = boot.listed
  <2>1. boot' = boot \/ boot' = Awaited(r)
    BY DEF RunSteps, MarkRunStarted, AppendRun, RunEnds, FinalizeRun, StoreThrows
  <2>2. QED
    BY <2>1 DEF Awaited, TypeOK
<1>4. QED
  BY <1>1, <1>2, <1>3, SameJobs

LEMMA StartJobs ==
    ASSUME TypeOK, JobInv, NEW s \in Schedule, Tick(s) \/ RunNow(s) \/ ReplayMissed(s)
    PROVE  JobInv'
<1>1. UNCHANGED <<deployment, job, started, calls, astray>>
  BY DEF Tick, RunNow, ReplayMissed
<1>2. \A t \in Schedule : row'[t].status = row[t].status /\ row'[t].tenant = row[t].tenant
  <2>1. row' = row \/ \E l : row' = [row EXCEPT ![s].last = l]
    <3>1. CASE Tick(s)
      BY <3>1 DEF Tick
    <3>2. CASE RunNow(s) \/ ReplayMissed(s)
      BY <3>2 DEF RunNow, ReplayMissed
    <3>3. QED
      BY <3>1, <3>2
  <2>2. QED
    BY <2>1 DEF TypeOK
<1>3. boot'.stage = boot.stage /\ boot'.listed = boot.listed
  BY DEF Tick, RunNow, ReplayMissed, TypeOK
<1>4. QED
  BY <1>1, <1>2, <1>3, SameJobs

\* A request leaves one call suspended, for its own schedule.
LEMMA EditJobs ==
    ASSUME TypeOK, JobInv, NEW s \in Schedule, Upsert(s) \/ SetStatus(s) \/ Delete(s)
    PROVE  JobInv'
<1>1. Settled /\ UNCHANGED <<deployment, job, started, boot>>
  BY DEF Upsert, SetStatus, Delete
<1> SUFFICES ASSUME Store = "sqlite"
             PROVE  CallsFit' /\ \A t \in Schedule : JobFits(t)'
  BY <1>1 DEF JobInv, Store
<1>2. calls = {}
  BY <1>1, SettledIsQuiet
<1>3. PICK st, stage, c :
        /\ row'[s].status = st
        /\ calls' = {c} /\ c.sched = s /\ c.stage = stage /\ c.bind = (st = "enabled")
        /\ stage = "reread" => st # "absent" /\ c.tenant = row'[s].tenant
        /\ c.bind => c.tenant = row'[s].tenant \/ s \in astray'
        /\ \A t \in Schedule \ {s} : /\ row'[t] = row[t]
                                     /\ t \in astray' <=> t \in astray
  <2>1. CASE Upsert(s)
    <3>1. PICK st, t, owner :
            /\ row' = [row EXCEPT ![s] = Fresh(owner, st)]
            /\ Suspend(s, t, "rebind", st = "enabled")
            /\ astray' = IF t = owner THEN astray \ {s} ELSE astray \union {s}
      <4>1. PICK st, t :
              LET owner == IF Exists(s) THEN row[s].tenant ELSE t
              IN  /\ Rewrite(s, Fresh(owner, st))
                  /\ Suspend(s, t, "rebind", st = "enabled")
                  /\ astray' = IF t = owner THEN astray \ {s} ELSE astray \union {s}
        BY <2>1 DEF Upsert
      <4>2. PICK owner : owner = IF Exists(s) THEN row[s].tenant ELSE t
        OBVIOUS
      <4>3. /\ Rewrite(s, Fresh(owner, st)) /\ Suspend(s, t, "rebind", st = "enabled")
            /\ astray' = IF t = owner THEN astray \ {s} ELSE astray \union {s}
        BY <4>1, <4>2
      <4>4. QED
        BY <4>3 DEF Rewrite
    <3>2. PICK c : c = [sched |-> s, tenant |-> t, stage |-> "rebind",
                        bind |-> st = "enabled"]
      OBVIOUS
    <3>3. /\ calls' = {c} /\ c.sched = s /\ c.tenant = t /\ c.stage = "rebind"
          /\ c.bind = (st = "enabled")
      BY <1>2, <3>1, <3>2 DEF Suspend
    <3>4. /\ row'[s].status = st /\ row'[s].tenant = owner
          /\ \A u \in Schedule \ {s} : row'[u] = row[u]
      BY <3>1 DEF Fresh, TypeOK
    <3>5. QED
      BY <3>1, <3>3, <3>4
  <2>2. CASE SetStatus(s)
    <3>1. PICK st \in Status :
            /\ row' = [row EXCEPT ![s].status = st]
            /\ Suspend(s, row[s].tenant, "reread", st = "enabled")
            /\ astray' = astray \ {s}
      BY <2>2 DEF SetStatus
    <3>2. PICK c : c = [sched |-> s, tenant |-> row[s].tenant, stage |-> "reread",
                        bind |-> st = "enabled"]
      OBVIOUS
    <3>3. /\ calls' = {c} /\ c.sched = s /\ c.tenant = row[s].tenant /\ c.stage = "reread"
          /\ c.bind = (st = "enabled")
      BY <1>2, <3>1, <3>2 DEF Suspend
    <3>4. /\ row'[s].status = st /\ row'[s].tenant = row[s].tenant
          /\ \A u \in Schedule \ {s} : row'[u] = row[u]
      BY <3>1 DEF TypeOK
    <3>5. st # "absent"
      BY DEF Status
    <3>6. QED
      BY <3>1, <3>3, <3>4, <3>5
  <2>3. CASE Delete(s)
    <3>1. /\ row' = [row EXCEPT ![s] = Absent] /\ Suspend(s, row[s].tenant, "rebind", FALSE)
          /\ astray' = astray
      BY <2>3 DEF Delete, Rewrite
    <3>2. PICK c : c = [sched |-> s, tenant |-> row[s].tenant, stage |-> "rebind",
                        bind |-> FALSE]
      OBVIOUS
    <3>3. /\ calls' = {c} /\ c.sched = s /\ c.stage = "rebind"
          /\ c.bind = ("absent" = "enabled")
      BY <1>2, <3>1, <3>2 DEF Suspend
    <3>4. row'[s].status = "absent" /\ \A u \in Schedule \ {s} : row'[u] = row[u]
      BY <3>1 DEF Absent, TypeOK
    <3>5. QED
      BY <3>1, <3>3, <3>4
  <2>4. QED
    BY <2>1, <2>2, <2>3
<1>4. CallsFit'
  BY <1>3 DEF CallsFit, Enabled, Found, Exists
<1>5. JobFits(s)'
  BY <1>3 DEF JobFits, HasCall
<1>6. ASSUME NEW t \in Schedule \ {s} PROVE JobFits(t)'
  <2>1. JobFits(t) /\ ~HasCall(t)
    BY <1>2 DEF JobInv, HasCall
  <2>2. /\ Enabled(t)' <=> Enabled(t)
        /\ row'[t].tenant = row[t].tenant
        /\ Bound(t)' <=> Bound(t)
    BY <1>1, <1>3 DEF Enabled, Bound
  <2>3. QED
    BY <1>1, <1>3, <2>1, <2>2 DEF JobFits
<1>7. QED
  BY <1>4, <1>5, <1>6

LEMMA CallJobs ==
    ASSUME TypeOK, SoloInv, JobInv, NEW c \in calls, Reread(c) \/ Rebind(c)
    PROVE  JobInv'
<1>1. UNCHANGED <<deployment, row, started, boot, astray>>
  BY DEF Reread, Rebind
<1> SUFFICES ASSUME Store = "sqlite"
             PROVE  CallsFit' /\ \A t \in Schedule : JobFits(t)'
  BY <1>1 DEF JobInv, Store
<1>2. /\ calls = {c} /\ c \in Call
      /\ c.bind <=> Enabled(c.sched)
      /\ c.bind => c.tenant = row[c.sched].tenant \/ c.sched \in astray
      /\ c.stage = "reread" => Found(c.sched, c.tenant)
  BY DEF SoloInv, OneAtATime, JobInv, CallsFit, TypeOK, Call, Owner
<1>3. \A s \in Schedule : Enabled(s)' <=> Enabled(s)
  BY <1>1 DEF Enabled
<1>4. CASE Reread(c)
  <2>1. PICK d : d = [c EXCEPT !.stage = "rebind"]
    OBVIOUS
  <2>2. calls' = {d} /\ job' = job
    BY <1>2, <1>4, <2>1 DEF Reread
  <2>3. /\ d.sched = c.sched /\ d.bind = c.bind /\ d.tenant = c.tenant /\ d.stage = "rebind"
        /\ c.sched \in Schedule
    BY <1>2, <2>1 DEF Call
  <2>4. CallsFit'
    BY <1>1, <1>2, <1>3, <2>2, <2>3 DEF CallsFit
  <2>5. \A s \in Schedule : (HasCall(s)' <=> HasCall(s)) /\ (Bound(s)' <=> Bound(s))
    BY <1>2, <2>2, <2>3 DEF HasCall, Bound
  <2>6. QED
    BY <1>1, <1>3, <2>2, <2>4, <2>5 DEF JobInv, JobFits
<1>5. CASE Rebind(c)
  <2>1. calls' = {} /\ job' = Rebound(c)
    BY <1>2, <1>5 DEF Rebind
  <2>2. CallsFit'
    BY <2>1 DEF CallsFit
  <2>3. c.sched \in Schedule /\ c.bind \in BOOLEAN /\ started \in BOOLEAN
    BY <1>2 DEF Call, TypeOK
  <2>4. \A t \in Schedule \ {c.sched} : job'[t] = job[t]
    BY <2>1, <2>3 DEF Rebound, TypeOK
  <2>5. /\ ~c.bind => job'[c.sched] = NoTenant
        /\ c.bind /\ started => job'[c.sched] = c.tenant
    BY <2>1, <2>3 DEF Rebound, TypeOK
  <2>6. ASSUME NEW t \in Schedule PROVE JobFits(t)'
    <3>1. JobFits(t) /\ (HasCall(t) <=> t = c.sched)
      BY <1>2 DEF JobInv, HasCall
    <3>2. CASE t = c.sched
      BY <1>1, <1>2, <1>3, <2>3, <2>5, <3>2 DEF JobFits, Bound
    <3>3. CASE t # c.sched
      BY <1>1, <1>3, <2>4, <3>1, <3>3 DEF JobFits, Bound
    <3>4. QED
      BY <3>2, <3>3
  <2>7. QED
    BY <2>2, <2>6
<1>6. QED
  BY <1>4, <1>5

LEMMA BootJobs ==
    ASSUME TypeOK, SoloInv, JobInv, Start \/ BindAll
    PROVE  JobInv'
<1>1. UNCHANGED <<deployment, row, calls>>
  BY DEF Start, BindAll
<1> SUFFICES ASSUME Store = "sqlite"
             PROVE  CallsFit' /\ \A t \in Schedule : JobFits(t)'
  BY <1>1 DEF JobInv, Store
<1>2. calls = {}
  BY DEF Start, BindAll, SoloInv, OneAtATime, NothingRuns
<1>3. CallsFit'
  BY <1>1, <1>2 DEF CallsFit
<1>4. ASSUME NEW t \in Schedule PROVE JobFits(t)'
  <2>1. JobFits(t) /\ ~HasCall(t) /\ (Enabled(t)' <=> Enabled(t))
    BY <1>1, <1>2 DEF JobInv, HasCall, Enabled
  <2>2. CASE Start
    <3>1. /\ job'[t] = NoTenant /\ boot'.stage = "replaying"
          /\ boot'.listed = {s \in Schedule : Enabled(s) /\ Found(s, SystemTenant)}
          /\ astray' = {s \in Schedule : Enabled(s) /\ ~Found(s, SystemTenant)}
      BY <2>2 DEF Start, SoloInv, NothingRuns, NoJobs
    <3>2. QED
      BY <2>1, <3>1 DEF JobFits, Bound
  <2>3. CASE BindAll
    <3>1. /\ boot.stage = "replaying" /\ started' = started /\ row' = row
          /\ job'[t] = IF t \in boot.listed THEN SystemTenant ELSE job[t]
          /\ boot'.listed = {s \in boot.listed : ~Enabled(s)}
          /\ t \in astray' <=> IF t \in boot.listed THEN ~Found(t, SystemTenant)
                              ELSE t \in astray
      BY <2>3 DEF BindAll, TypeOK
    <3>2. CASE t \in boot.listed
      BY <2>1, <3>1, <3>2 DEF JobFits, Found, Bound
    <3>3. CASE t \notin boot.listed
      BY <2>1, <3>1, <3>3 DEF JobFits, Bound
    <3>4. QED
      BY <3>2, <3>3
  <2>4. QED
    BY <2>2, <2>3
<1>5. QED
  BY <1>3, <1>4

LEMMA EndJobs ==
    ASSUME TypeOK, SoloInv, JobInv, Stop \/ Crash
    PROVE  JobInv'
<1>1. /\ ~started' /\ job' = NoJobs /\ UNCHANGED <<deployment, row>>
      /\ calls' = {} \/ (calls' = calls /\ astray' = astray)
  BY DEF Stop, Crash
<1>2. ASSUME CallsFit PROVE CallsFit'
  <2>1. CASE calls' = {}
    BY <2>1 DEF CallsFit
  <2>2. CASE calls' = calls /\ astray' = astray
    BY <1>1, <1>2, <2>2 DEF CallsFit, Enabled, Found, Exists
  <2>3. QED
    BY <1>1, <2>1, <2>2
<1>3. \A s \in Schedule : JobFits(s)'
  BY <1>1 DEF JobFits, Bound, NoJobs
<1>4. QED
  BY <1>1, <1>2, <1>3 DEF JobInv, Store

LEMMA NextJobs == TypeOK /\ SoloInv /\ JobInv /\ [Next]_vars => JobInv'
<1> SUFFICES ASSUME TypeOK, SoloInv, JobInv, [Next]_vars PROVE JobInv'
  OBVIOUS
<1>1. ASSUME NEW s \in Schedule, TimePasses(s) PROVE JobInv'
  <2>1. \/ row' = [row EXCEPT ![s].last = "due"]
        \/ row' = [row EXCEPT ![s].last = "old"]
    BY <1>1 DEF TimePasses
  <2>2. ASSUME NEW t \in Schedule
        PROVE  row'[t].status = row[t].status /\ row'[t].tenant = row[t].tenant
    <3>1. PICK l : row' = [row EXCEPT ![s].last = l]
      BY <2>1
    <3>2. QED
      BY <3>1 DEF TypeOK
  <2>3. UNCHANGED <<deployment, job, started, calls, astray, boot>>
    BY <1>1 DEF TimePasses
  <2>4. QED
    BY <2>2, <2>3, SameJobs
<1>2. CASE UNCHANGED vars
  BY <1>2, SameJobs DEF vars
<1>3. QED
  BY <1>1, <1>2, RunJobs, StartJobs, EditJobs, CallJobs, BootJobs, EndJobs
     DEF Next, BootSteps, CallSteps

(* With SQLite, once the engine has started and no request is half done, an *)
(* enabled schedule has a job that is bound for its tenant, and a job       *)
(* without an enabled schedule is one that the boot bound for a schedule    *)
(* that was paused or deleted meanwhile; with the exception of schedules of *)
(* other tenants that the boot did not list, and of those bound in the name *)
(* of another tenant (ScheduleEngine.start, upsert, setStatus, delete).     *)
THEOREM JobsAlwaysFollowRows == Spec => []JobsFollowRows
<1>1. TypeOK /\ JobInv => JobsFollowRows
  <2> SUFFICES ASSUME TypeOK, JobInv, Store = "sqlite", Settled
               PROVE  /\ started /\ boot.stage = "up" =>
                            \A s \in Schedule \ astray : Enabled(s) => job[s] = row[s].tenant
                      /\ \A s \in Schedule : Bound(s) => Enabled(s) \/ s \in boot.listed
    BY DEF JobsFollowRows
  <2>1. \A s \in Schedule : JobFits(s) /\ ~HasCall(s)
    BY SettledIsQuiet DEF JobInv, HasCall
  <2>2. QED
    BY <2>1 DEF JobFits
<1>2. QED
  BY <1>1, InitJobs, NextJobs, InitSolo, NextSolo, InitTypeOK, NextTypeOK, PTL DEF Spec

-----------------------------------------------------------------------------
(* Maintenance, the other scheduler of the program, for every set of jobs,  *)
(* servers and periods.  The two share no state.                            *)

JobRec    == [there : BOOLEAN, enabled : BOOLEAN, every : Periods,
              targets : Targets \union {{}}, next : Nat \union {Null},
              last : JobStatus]
JobRunRec == [on : BOOLEAN, left : Seq(Server), got : Seq(Outcome),
              passed : 0..MaxRuns]

\* The window that an enabled job waits for is the next one, or it has come
\* and the tick has not started the job since.
Armed(r, f) ==
    r.there /\ r.enabled => \/ r.next = NextRun(r.every)
                            \/ r.next = 0 /\ f = TRUE

RunFits(r, alive) == /\ r.left # <<>> => r.on
                     /\ r.on => alive = TRUE

JobsInv ==
    /\ now \in 0..(Cycle - 1)
    /\ ticked \in BOOLEAN
    /\ up \in BOOLEAN
    /\ jobs \in [Job -> JobRec]
    /\ rows \in [Job -> Seq(RowStatus)]
    /\ \A j \in Job : Len(rows[j]) <= MaxRuns
    /\ running \in [Job -> JobRunRec]
    /\ alarms \subseteq Job \X Server
    /\ fresh \in [Job -> BOOLEAN]
    /\ \A j \in Job : Armed(jobs[j], fresh[j])
    /\ \A j \in Job : RunFits(running[j], up)

\* What division leaves is less than the divisor.
LEMMA Remainder ==
    ASSUME NEW n \in Nat, NEW p \in Nat \ {0}
    PROVE  n % p \in 0..(p - 1)
OBVIOUS

\* A number is a multiple and what division leaves.
LEMMA Division ==
    ASSUME NEW n \in Nat, NEW p \in Nat \ {0}
    PROVE  n = p * (n \div p) + (n % p)
OBVIOUS

\* A number that is written as a multiple and a rest has that rest.
LEMMA RemainderOf ==
    ASSUME NEW p \in Nat \ {0}, NEW q \in Int, NEW r \in 0..(p - 1)
    PROVE  (p * q + r) % p = r
OBVIOUS

\* A multiple and a multiple more make a multiple.
LEMMA OneMore ==
    ASSUME NEW p \in Int, NEW q \in Int
    PROVE  p * (q + 1) = p * q + p
OBVIOUS

\* The rest grows by one with the number, until the divisor is reached.
LEMMA NextRemainder ==
    ASSUME NEW n \in Nat, NEW p \in Nat \ {0}
    PROVE  (n + 1) % p = IF n % p = p - 1 THEN 0 ELSE (n % p) + 1
<1>1. PICK q \in Int, r \in 0..(p - 1) : n = p * q + r /\ n % p = r
  <2>1. n \div p \in Int
    OBVIOUS
  <2>2. QED
    BY <2>1, Remainder, Division
<1>2. PICK m \in Int : m = p * q
  OBVIOUS
<1>3. n = m + r
  BY <1>1, <1>2
<1>4. CASE r = p - 1
  <2>1. p * (q + 1) = m + p
    BY OneMore, <1>2
  <2>2. n + 1 = m + p
    BY <1>3, <1>4
  <2>3. (p * (q + 1) + 0) % p = 0
    BY RemainderOf
  <2>4. p * (q + 1) + 0 = n + 1
    BY <2>1, <2>2
  <2>5. QED
    BY <2>3, <2>4, <1>1, <1>4
<1>5. CASE r # p - 1
  <2>1. PICK k \in 0..(p - 1) : k = r + 1
    BY <1>5
  <2>2. (p * q + k) % p = k
    BY RemainderOf
  <2>3. p * q + k = n + 1
    BY <1>2, <1>3, <2>1
  <2>4. QED
    BY <2>1, <2>2, <2>3, <1>1, <1>5
<1>6. QED
  BY <1>4, <1>5

\* The clock of the model wraps around, and no schedule sees that.
LEMMA ClockWraps ==
    ASSUME NEW n \in 0..(Cycle - 1), NEW p \in Periods
    PROVE  /\ (n + 1) % Cycle \in 0..(Cycle - 1)
           /\ ((n + 1) % Cycle) % p = (n + 1) % p
<1>1. Cycle \in Nat \ {0} /\ p \in Nat \ {0} /\ Cycle % p = 0 /\ n \in Nat
  BY ConfigType
<1>2. n % Cycle = n
  <2>1. (Cycle * 0 + n) % Cycle = n
    BY <1>1, RemainderOf
  <2>2. QED
    BY <1>1, <2>1
<1>3. (n + 1) % Cycle = IF n = Cycle - 1 THEN 0 ELSE n + 1
  <2>1. (n + 1) % Cycle = IF n % Cycle = Cycle - 1 THEN 0 ELSE (n % Cycle) + 1
    BY <1>1, NextRemainder
  <2>2. QED
    BY <1>2, <2>1
<1>4. 0 % p = 0
  <2>1. (p * 0 + 0) % p = 0
    BY <1>1, RemainderOf
  <2>2. QED
    BY <1>1, <2>1
<1>5. QED
  BY <1>1, <1>3, <1>4

\* nextRunAt is at least a minute and at most a period away.
LEMMA NextRunAhead ==
    ASSUME now \in 0..(Cycle - 1), NEW p \in Periods
    PROVE  NextRun(p) \in 1..p /\ NextRun(p) \in Nat
<1>1. p \in Nat \ {0} /\ now \in Nat
  BY ConfigType
<1>2. QED
  BY <1>1, Remainder DEF NextRun

\* The servers of a run come in a sequence, which is empty if they are none.
LEMMA ListOf ==
    ASSUME NEW S, IsFiniteSet(S)
    PROVE  /\ SetToSeq(S) \in Seq(S)
           /\ S = {} => SetToSeq(S) = <<>>
<1>1. Cardinality(S) \in Nat /\ ExistsBijection(1..Cardinality(S), S)
  BY FS_CardinalityType
<1>2. PICK n \in Nat : n = Cardinality(S)
  BY <1>1
<1>3. \E f \in [1..n -> S] : IsInjective(f)
  BY <1>1, <1>2 DEF ExistsBijection, Bijection, Injection, IsInjective
<1>4. SetToSeq(S) \in [1..n -> S]
  BY <1>2, <1>3 DEF SetToSeq
<1>5. SetToSeq(S) \in Seq(S) /\ Len(SetToSeq(S)) = n
  BY <1>4
<1>6. S = {} => n = 0
  BY <1>2, FS_EmptySet
<1>7. QED
  BY <1>5, <1>6

\* A registry of servers is finite, whichever of them are enabled.
LEMMA TargetsFinite ==
    ASSUME NEW R, NEW E \in SUBSET Server
    PROVE  /\ TargetsOf(R, E) \in SUBSET Server
           /\ IsFiniteSet(TargetsOf(R, E))
<1>1. IsFiniteSet(Server)
  BY ConfigType
<1>2. TargetsOf(R, E) \in SUBSET Server
  BY DEF TargetsOf
<1>3. QED
  BY <1>1, <1>2, FS_Subset

\* A run begins with servers to go, or not at all.
LEMMA BegunFits ==
    ASSUME NEW R, NEW E \in SUBSET Server
    PROVE  /\ Begun(R, E) \in JobRunRec
           /\ RunFits(Begun(R, E), TRUE)
<1>1. PICK S : S = TargetsOf(R, E)
  OBVIOUS
<1>2. S \in SUBSET Server /\ IsFiniteSet(S)
  BY <1>1, TargetsFinite
<1>3. PICK q : q = SetToSeq(S)
  OBVIOUS
<1>4. q \in Seq(Server) /\ (S = {} => q = <<>>)
  BY <1>2, <1>3, ListOf
<1>5. MaxRuns \in Nat
  BY ConfigType
<1>6. Begun(R, E) = [Idle EXCEPT !.on = S # {}, !.left = q]
  BY <1>1, <1>3 DEF Begun
<1>7. CASE S = {}
  <2>1. Begun(R, E) = [on |-> FALSE, left |-> <<>>, got |-> <<>>, passed |-> 0]
    BY <1>4, <1>6, <1>7 DEF Idle
  <2>2. QED
    BY <2>1, <1>5 DEF JobRunRec, RunFits
<1>8. CASE S # {}
  <2>1. Begun(R, E) = [on |-> TRUE, left |-> q, got |-> <<>>, passed |-> 0]
    BY <1>6, <1>8 DEF Idle
  <2>2. QED
    BY <2>1, <1>4, <1>5 DEF JobRunRec, RunFits
<1>9. QED
  BY <1>7, <1>8

\* The states that the operations write.
LEMMA JobStatuses ==
    /\ Outcome \subseteq JobStatus
    /\ "failed" \in JobStatus /\ "never" \in JobStatus
    /\ "partial" \in JobStatus /\ "success" \in JobStatus
    /\ "timeout" \in JobStatus
    /\ Outcome \subseteq RowStatus
    /\ "skipped" \in RowStatus
  BY DEF Outcome, JobStatus, RowStatus

\* A job that is started waits for the next window.
LEMMA AdvancedFits ==
    ASSUME now \in 0..(Cycle - 1),
           NEW R \in JobRec, NEW E \in SUBSET Server, NEW f
    PROVE  Advanced(R, E) \in JobRec /\ Armed(Advanced(R, E), f)
<1>1. R.every \in Periods /\ R.last \in JobStatus
  BY DEF JobRec
<1>2. PICK n \in Nat : n = NextRun(R.every)
  BY <1>1, NextRunAhead
<1>3. PICK l \in JobStatus :
         l = IF TargetsOf(R, E) = {} THEN "failed" ELSE R.last
  BY <1>1, JobStatuses
<1>4. PICK A : A = [R EXCEPT !.next = n, !.last = l]
  OBVIOUS
<1>5. Advanced(R, E) = A
  BY <1>2, <1>3, <1>4 DEF Advanced, JobRec
<1>6. A \in JobRec /\ A.every = R.every /\ A.next = n
  BY <1>4 DEF JobRec
<1>7. QED
  BY <1>2, <1>5, <1>6 DEF Armed

\* After an edit every job waits for the next window, whatever was missed.
LEMMA RecomputedFits ==
    ASSUME now \in 0..(Cycle - 1), NEW J \in [Job -> JobRec]
    PROVE  /\ Recomputed(J) \in [Job -> JobRec]
           /\ \A j \in Job, f \in BOOLEAN : Armed(Recomputed(J)[j], f)
<1> DEFINE C == Recomputed(J)
<1>1. ASSUME NEW j \in Job
      PROVE  /\ C[j] \in JobRec
             /\ \A f \in BOOLEAN : Armed(C[j], f)
  <2>1. J[j] \in JobRec /\ J[j].every \in Periods
    BY DEF JobRec
  <2>2. PICK n \in Nat \union {Null} :
           n = IF J[j].enabled THEN NextRun(J[j].every) ELSE Null
    BY <2>1, NextRunAhead
  <2>3. PICK R : R = J[j]
    OBVIOUS
  <2>4. C[j] = IF ~R.there THEN R ELSE [R EXCEPT !.next = n]
    BY <2>2, <2>3 DEF Recomputed
  <2>5. [R EXCEPT !.next = n] \in JobRec /\ R \in JobRec
    BY <2>1, <2>3 DEF JobRec
  <2>6. C[j] \in JobRec
    BY <2>4, <2>5
  <2>7. C[j].there /\ C[j].enabled => C[j].next = NextRun(C[j].every)
    BY <2>2, <2>3, <2>4, <2>5 DEF JobRec
  <2>8. QED
    BY <2>6, <2>7 DEF Armed
<1>2. C \in [Job -> JobRec]
  <2>1. C = [j \in Job |-> C[j]]
    BY DEF Recomputed
  <2>2. QED
    BY <1>1, <2>1
<1>3. QED
  BY <1>1, <1>2

\* The rows of a job stay within the cap.
LEMMA CappedFits ==
    ASSUME NEW S, NEW q \in Seq(S)
    PROVE  Capped(q) \in Seq(S) /\ Len(Capped(q)) <= MaxRuns
<1>1. MaxRuns \in Nat \ {0} /\ Len(q) \in Nat
  BY ConfigType
<1>2. CASE Len(q) <= MaxRuns
  BY <1>2 DEF Capped
<1>3. CASE ~(Len(q) <= MaxRuns)
  <2>0. PICK n \in Nat : n = Len(q)
    BY <1>1
  <2>1. PICK a \in 1..(Len(q) + 1) : a = Len(q) - MaxRuns + 1
    <3>1. n - MaxRuns + 1 \in 1..(n + 1)
      BY <1>1, <1>3, <2>0
    <3>2. QED
      BY <2>0, <3>1
  <2>2. SubSeq(q, a, Len(q)) \in Seq(S)
    BY <1>1, <2>1, SubSeqProperties
  <2>3. Len(SubSeq(q, a, Len(q))) = MaxRuns
    BY <1>1, <1>3, <2>1, SubSeqProperties
  <2>4. QED
    BY <1>3, <2>1, <2>2, <2>3, <1>1 DEF Capped
<1>4. QED
  BY <1>2, <1>3

\* A row that is inserted leaves a sequence of rows.
LEMMA InsertedFits ==
    ASSUME NEW S, NEW q \in Seq(S), NEW e \in S, NEW i \in 1..(Len(q) + 1)
    PROVE  InsertAt(q, i, e) \in Seq(S)
<1>1. SubSeq(q, 1, i - 1) \in Seq(S) /\ SubSeq(q, i, Len(q)) \in Seq(S)
  BY SubSeqProperties
<1>2. QED
  BY <1>1 DEF InsertAt

\* The summary of a run is a status that a job may have.
LEMMA OverallFits ==
    ASSUME NEW got \in Seq(Outcome)
    PROVE  Overall(got) \in JobStatus
<1>1. PICK S : S = ToSet(got)
  OBVIOUS
<1>2. Overall(got) = CASE S \subseteq {"success"} -> "success"
                            [] "success" \in S         -> "partial"
                            [] S = {"timeout"}         -> "timeout"
                            [] OTHER                   -> "failed"
  BY <1>1 DEF Overall
<1>3. CASE S \subseteq {"success"} \/ "success" \in S \/ S = {"timeout"}
  <2>1. Overall(got) \in {"success", "partial", "timeout"}
    BY <1>2, <1>3
  <2>2. QED
    BY <2>1, JobStatuses
<1>4. CASE ~(S \subseteq {"success"} \/ "success" \in S \/ S = {"timeout"})
  BY <1>2, <1>4, JobStatuses
<1>5. QED
  BY <1>3, <1>4

-----------------------------------------------------------------------------
(* The invariant holds at the start and is kept by every step.              *)

LEMMA JobsInit ==
    MaintenanceInit => JobsInv
<1> SUFFICES ASSUME MaintenanceInit PROVE JobsInv
  OBVIOUS
<1>1. NoJob \in JobRec /\ ~NoJob.there
  BY JobStatuses, ConfigType DEF NoJob, JobRec
<1>2. Idle \in JobRunRec /\ RunFits(Idle, FALSE)
  BY ConfigType DEF Idle, JobRunRec, RunFits
<1>3. now \in 0..(Cycle - 1) /\ ticked \in BOOLEAN /\ up \in BOOLEAN
  <2>1. now = 0 /\ ticked = FALSE /\ up = FALSE
    BY DEF MaintenanceInit
  <2>2. Cycle \in Nat \ {0}
    BY ConfigType
  <2>3. now \in 0..(Cycle - 1)
    BY <2>1, <2>2
  <2>4. QED
    BY <2>1, <2>3
<1>4. /\ jobs \in [Job -> JobRec]
      /\ \A j \in Job : Armed(jobs[j], fresh[j])
  BY <1>1 DEF MaintenanceInit, Armed
<1>5. /\ rows \in [Job -> Seq(RowStatus)]
      /\ \A j \in Job : Len(rows[j]) <= MaxRuns
  <2>1. PICK q : q = <<>> /\ q \in Seq(RowStatus)
    BY EmptySeq
  <2>2. rows = [j \in Job |-> q] /\ Len(q) = 0
    BY <2>1 DEF MaintenanceInit
  <2>3. QED
    BY <2>2, ConfigType
<1>6. /\ running \in [Job -> JobRunRec]
      /\ \A j \in Job : RunFits(running[j], up)
  BY <1>2 DEF MaintenanceInit
<1>7. alarms \subseteq Job \X Server /\ fresh \in [Job -> BOOLEAN]
  BY DEF MaintenanceInit
<1>8. QED
  BY <1>3, <1>4, <1>5, <1>6, <1>7 DEF JobsInv

\* The windows that jobs wait for stay the same within a minute.
LEMMA ArmedInTheMinute ==
    ASSUME now' = now, NEW j \in Job, Armed(jobs'[j], fresh'[j])
    PROVE  Armed(jobs[j], fresh[j])'
BY DEF Armed, NextRun

\* What a tick makes of rows that are armed.
LEMMA DispatchesKeeps ==
    ASSUME JobsInv, NEW J \in [Job -> JobRec],
           \A j \in Job : Armed(J[j], fresh[j]),
           Dispatches(J), now' = now, up' = TRUE, alarms' = alarms
    PROVE  JobsInv'
<1> DEFINE busy == {j \in Due(J) : running[j].on}
           starts == Due(J) \ busy
<1>1. PICK E \in SUBSET Server :
        /\ jobs' = [j \in Job |-> IF j \in starts THEN Advanced(J[j], E)
                                    ELSE J[j]]
        /\ running' = [j \in Job |->
                        IF j \in starts THEN Begun(J[j], E)
                        ELSE IF j \in busy
                             THEN [running[j] EXCEPT !.passed = Passed(@)]
                             ELSE running[j]]
        /\ rows' = [j \in Job |-> IF j \in busy
                                  THEN Capped(Append(rows[j], "skipped"))
                                  ELSE rows[j]]
        /\ fresh' = [j \in Job |-> fresh[j] /\ j \notin starts]
        /\ ticked' = TRUE
  BY DEF Dispatches
<1> HIDE DEF busy, starts
<1>2. now' \in 0..(Cycle - 1) /\ ticked' \in BOOLEAN /\ up' \in BOOLEAN
  BY <1>1 DEF JobsInv
<1>3. ASSUME NEW j \in Job
      PROVE  jobs'[j] \in JobRec /\ fresh'[j] \in BOOLEAN /\ Armed(jobs'[j], fresh'[j])
  <2>1. J[j] \in JobRec /\ now \in 0..(Cycle - 1) /\ fresh[j] \in BOOLEAN
    BY DEF JobsInv
  <2>2. CASE j \in starts
    <3>1. jobs'[j] = Advanced(J[j], E) /\ fresh'[j] = FALSE
      BY <1>1, <2>1, <2>2
    <3>2. QED
      BY <2>1, <3>1, AdvancedFits
  <2>3. CASE j \notin starts
    <3>1. jobs'[j] = J[j]
      BY <1>1, <2>3
    <3>2. fresh'[j] = fresh[j]
      BY <1>1, <2>1, <2>3
    <3>3. QED
      BY <2>1, <3>1, <3>2
  <2>4. QED
    BY <2>2, <2>3
<1>4. /\ jobs' \in [Job -> JobRec] /\ fresh' \in [Job -> BOOLEAN]
      /\ \A j \in Job : Armed(jobs[j], fresh[j])'
  <2>1. /\ jobs' = [j \in Job |-> jobs'[j]]
        /\ fresh' = [j \in Job |-> fresh'[j]]
    BY <1>1
  <2>2. /\ jobs' \in [Job -> JobRec] /\ fresh' \in [Job -> BOOLEAN]
    BY <1>3, <2>1
  <2>3. QED
    BY <1>3, <2>2, ArmedInTheMinute
<1>5. ASSUME NEW j \in Job
      PROVE  running'[j] \in JobRunRec /\ RunFits(running'[j], TRUE)
  <2>1. running[j] \in JobRunRec /\ RunFits(running[j], up)
    BY DEF JobsInv
  <2>2. CASE j \in starts
    <3>1. running'[j] = Begun(J[j], E)
      BY <1>1, <2>2
    <3>2. QED
      BY <3>1, BegunFits
  <2>3. CASE j \notin starts /\ j \in busy
    <3>1. running'[j] = [running[j] EXCEPT !.passed = Passed(@)]
      BY <1>1, <2>3
    <3>2. PICK R : R = running[j]
      OBVIOUS
    <3>3. R \in JobRunRec /\ RunFits(R, up) /\ MaxRuns \in Nat
      BY <2>1, <3>2, ConfigType
    <3>4. PICK n \in 0..MaxRuns : n = Passed(R.passed)
      BY <3>3 DEF Passed, JobRunRec
    <3>5. running'[j] = [R EXCEPT !.passed = n]
      BY <3>1, <3>2, <3>4
    <3>6. QED
      BY <3>3, <3>5 DEF JobRunRec, RunFits
  <2>4. CASE j \notin starts /\ j \notin busy
    <3>1. running'[j] = running[j]
      BY <1>1, <2>4
    <3>2. QED
      BY <2>1, <3>1 DEF RunFits
  <2>5. QED
    BY <2>2, <2>3, <2>4
<1>6. /\ running' \in [Job -> JobRunRec]
      /\ \A j \in Job : RunFits(running'[j], up')
  <2>1. running' = [j \in Job |-> running'[j]]
    BY <1>1
  <2>2. QED
    BY <1>5, <2>1
<1>7. ASSUME NEW j \in Job
      PROVE  rows'[j] \in Seq(RowStatus) /\ Len(rows'[j]) <= MaxRuns
  <2>1. rows[j] \in Seq(RowStatus) /\ Len(rows[j]) <= MaxRuns
    BY DEF JobsInv
  <2>2. CASE j \in busy
    <3>1. PICK q : q = Append(rows[j], "skipped")
      OBVIOUS
    <3>2. q \in Seq(RowStatus) /\ rows'[j] = Capped(q)
      BY <1>1, <2>1, <2>2, <3>1, JobStatuses
    <3>3. QED
      BY <3>2, CappedFits
  <2>3. CASE j \notin busy
    BY <1>1, <2>1, <2>3
  <2>4. QED
    BY <2>2, <2>3
<1>8. /\ rows' \in [Job -> Seq(RowStatus)]
      /\ \A j \in Job : Len(rows'[j]) <= MaxRuns
  <2>1. rows' = [j \in Job |-> rows'[j]]
    BY <1>1
  <2>2. QED
    BY <1>7, <2>1
<1>9. alarms' \subseteq Job \X Server
  BY DEF JobsInv
<1>10. QED
  BY <1>2, <1>4, <1>6, <1>8, <1>9 DEF JobsInv

\* What every handler that only edits the rows of jobs has to show.
LEMMA RowsEdited ==
    ASSUME JobsInv, jobs' \in [Job -> JobRec],
           \A j \in Job : Armed(jobs'[j], fresh[j]),
           UNCHANGED <<now, ticked, up, rows, running, alarms, fresh>>
    PROVE  JobsInv'
<1>1. \A j \in Job : Armed(jobs[j], fresh[j])'
  BY ArmedInTheMinute
<1>2. QED
  BY <1>1 DEF JobsInv

LEMMA BootKeeps ==
    ASSUME JobsInv, Boot
    PROVE  JobsInv'
<1> DEFINE seeded == [j \in Job |-> IF j \in Seeds /\ ~jobs[j].there
                                    THEN Job_(TRUE, SeedPeriod, {}) ELSE jobs[j]]
<1>1. Job_(TRUE, SeedPeriod, {}) \in JobRec
  BY JobStatuses, ConfigType DEF Job_, NoJob, JobRec
<1>2. seeded \in [Job -> JobRec]
  BY <1>1 DEF JobsInv
<1>3. /\ Dispatches(Recomputed(seeded))
      /\ up' = TRUE /\ UNCHANGED <<now, alarms>>
  BY DEF Boot
<1> HIDE DEF seeded
<1>4. PICK J : J = Recomputed(seeded)
  OBVIOUS
<1>5. /\ J \in [Job -> JobRec]
      /\ \A j \in Job : Armed(J[j], fresh[j])
  BY <1>2, <1>4, RecomputedFits DEF JobsInv
<1>6. Dispatches(J)
  BY <1>3, <1>4
<1>7. QED
  BY <1>3, <1>5, <1>6, DispatchesKeeps

LEMMA TickKeeps ==
    ASSUME JobsInv, MaintenanceTick
    PROVE  JobsInv'
<1>1. /\ up = TRUE /\ Dispatches(jobs) /\ UNCHANGED <<now, up, alarms>>
  BY DEF MaintenanceTick, JobsInv
<1>2. /\ jobs \in [Job -> JobRec]
      /\ \A j \in Job : Armed(jobs[j], fresh[j])
  BY DEF JobsInv
<1>3. QED
  BY <1>1, <1>2, DispatchesKeeps

\* A minute less to wait, until the window comes.
LEMMA WaitShrinks ==
    ASSUME now \in 0..(Cycle - 1), now' = (now + 1) % Cycle,
           NEW p \in Periods
    PROVE  /\ NextRun(p) > 1 => NextRun(p)' = NextRun(p) - 1
           /\ NextRun(p) = 1 => now' % p = 0
<1>1. p \in Nat \ {0} /\ now \in Nat
  BY ConfigType
<1>2. now' % p = (now + 1) % p
  BY ClockWraps
<1>3. (now + 1) % p = IF now % p = p - 1 THEN 0 ELSE (now % p) + 1
  BY <1>1, NextRemainder
<1>4. PICK r \in 0..(p - 1) : r = now % p
  BY <1>1, Remainder
<1>5. NextRun(p) = p - r /\ NextRun(p)' = p - (now' % p)
  BY <1>4 DEF NextRun
<1>6. now' % p = IF r = p - 1 THEN 0 ELSE r + 1
  BY <1>2, <1>3, <1>4
<1>7. QED
  BY <1>1, <1>5, <1>6

LEMMA MinutePassesKeeps ==
    ASSUME JobsInv, MinutePasses
    PROVE  JobsInv'
<1>1. /\ now' = (now + 1) % Cycle
      /\ ticked' = FALSE
      /\ jobs' = [j \in Job |-> [jobs[j] EXCEPT !.next = IF @ > 0 THEN @ - 1 ELSE @]]
      /\ fresh' = [j \in Job |-> jobs[j].there /\ (fresh[j] \/ now' % jobs[j].every = 0)]
      /\ UNCHANGED <<up, rows, running, alarms>>
  BY DEF MinutePasses
<1>2. now \in 0..(Cycle - 1)
  BY DEF JobsInv
<1>3. now' \in 0..(Cycle - 1)
  <2>1. PICK p : p \in Periods
    BY ConfigType
  <2>2. QED
    BY <1>1, <1>2, <2>1, ClockWraps
<1>4. ASSUME NEW j \in Job
      PROVE  /\ jobs'[j] \in JobRec /\ fresh'[j] \in BOOLEAN
             /\ Armed(jobs[j], fresh[j])'
  <2>1. PICK R : R = jobs[j]
    OBVIOUS
  <2>2. R \in JobRec /\ R.every \in Periods /\ fresh[j] \in BOOLEAN
    BY <2>1 DEF JobsInv, JobRec
  <2>3. PICK n \in Nat \union {Null} : n = IF R.next > 0 THEN R.next - 1 ELSE R.next
    BY <2>2 DEF JobRec, Null
  <2>4. jobs'[j] = [R EXCEPT !.next = n]
    BY <1>1, <2>1, <2>3
  <2>5. fresh'[j] = (R.there /\ (fresh[j] \/ now' % R.every = 0))
    BY <1>1, <2>1
  <2>6. fresh'[j] \in BOOLEAN
    BY <2>5
  <2>7. /\ jobs'[j] \in JobRec
        /\ jobs'[j].there = R.there /\ jobs'[j].enabled = R.enabled
        /\ jobs'[j].every = R.every /\ jobs'[j].next = n
    BY <2>2, <2>4 DEF JobRec
  <2>8. ASSUME R.there, R.enabled
        PROVE  \/ n = NextRun(R.every)'
               \/ n = 0 /\ fresh'[j] = TRUE
    <3>1. \/ R.next = NextRun(R.every)
          \/ R.next = 0 /\ fresh[j] = TRUE
      BY <2>1, <2>8 DEF JobsInv, Armed
    <3>2. NextRun(R.every) \in Nat /\ NextRun(R.every) \in 1..R.every
      BY <1>2, <2>2, NextRunAhead
    <3>3. CASE R.next = 0 /\ fresh[j] = TRUE
      <4>1. n = 0
        BY <2>3, <3>3
      <4>2. fresh'[j] = TRUE
        BY <2>5, <2>8, <3>3
      <4>3. QED
        BY <4>1, <4>2
    <3>4. CASE R.next = NextRun(R.every) /\ R.next > 1
      <4>1. n = R.next - 1
        BY <2>3, <3>2, <3>4
      <4>2. NextRun(R.every)' = NextRun(R.every) - 1
        BY <1>1, <1>2, <2>2, <3>4, WaitShrinks
      <4>3. QED
        BY <3>4, <4>1, <4>2
    <3>5. CASE R.next = NextRun(R.every) /\ R.next = 1
      <4>1. now' % R.every = 0
        BY <1>1, <1>2, <2>2, <3>5, WaitShrinks
      <4>2. n = 0
        BY <2>3, <3>5
      <4>3. fresh'[j] = TRUE
        BY <2>5, <2>8, <4>1
      <4>4. QED
        BY <4>2, <4>3
    <3>6. R.next = NextRun(R.every) => R.next > 1 \/ R.next = 1
      BY <2>2, <3>2, ConfigType
    <3>7. QED
      BY <3>1, <3>3, <3>4, <3>5, <3>6
  <2>9. Armed(jobs[j], fresh[j])'
    <3>1. PICK Q : Q = jobs'[j]
      OBVIOUS
    <3>2. Q.there /\ Q.enabled => \/ Q.next = NextRun(Q.every)'
                                  \/ Q.next = 0 /\ fresh'[j] = TRUE
      BY <2>7, <2>8, <3>1
    <3>3. QED
      BY <3>1, <3>2 DEF Armed, NextRun
  <2>10. QED
    BY <2>6, <2>7, <2>9
<1>5. jobs' \in [Job -> JobRec] /\ fresh' \in [Job -> BOOLEAN]
  <2>1. /\ jobs' = [j \in Job |-> jobs'[j]]
        /\ fresh' = [j \in Job |-> fresh'[j]]
    BY <1>1
  <2>2. QED
    BY <1>4, <2>1
<1>6. QED
  BY <1>1, <1>3, <1>4, <1>5 DEF JobsInv

\* A process that dies takes its runs with it.
LEMMA CrashKeeps ==
    ASSUME JobsInv, ProcessDies
    PROVE  JobsInv'
<1>1. /\ up' = FALSE /\ running' = [j \in Job |-> Idle]
      /\ UNCHANGED <<now, ticked, jobs, rows, alarms, fresh>>
  BY DEF ProcessDies
<1>2. Idle \in JobRunRec /\ RunFits(Idle, FALSE)
  BY ConfigType DEF Idle, JobRunRec, RunFits
<1>3. /\ running' \in [Job -> JobRunRec]
      /\ \A j \in Job : RunFits(running'[j], up')
  BY <1>1, <1>2
<1>4. \A j \in Job : Armed(jobs[j], fresh[j])'
  BY <1>1, ArmedInTheMinute DEF JobsInv
<1>5. QED
  BY <1>1, <1>3, <1>4 DEF JobsInv

\* A command that ends leaves a row, and an incident if it failed.
LEMMA CommandEndsKeeps ==
    ASSUME JobsInv, NEW j \in Job, NEW o \in Outcome,
           CommandEnds(j, o)
    PROVE  JobsInv'
<1>1. PICK got : got = Append(running[j].got, o)
  OBVIOUS
<1>2. /\ running[j].on /\ running[j].left # <<>>
      /\ rows' = [rows EXCEPT ![j] = WithRow(j, o)]
      /\ alarms' = IF o = "success" THEN alarms
                   ELSE alarms \union {<<j, Head(running[j].left)>>}
      /\ \/ /\ Len(running[j].left) > 1
            /\ running' = [running EXCEPT ![j].left = Tail(@), ![j].got = got,
                                        ![j].passed = 0]
            /\ UNCHANGED jobs
         \/ /\ running' = [running EXCEPT ![j] = Idle]
            /\ jobs' = IF jobs[j].there
                         THEN [jobs EXCEPT ![j].last = Overall(got)]
                         ELSE jobs
      /\ UNCHANGED <<now, ticked, up, fresh>>
  BY <1>1 DEF CommandEnds
<1>3. PICK R : R = running[j]
  OBVIOUS
<1>4. R \in JobRunRec /\ RunFits(R, up) /\ R.left \in Seq(Server) /\ R.left # <<>>
  BY <1>2, <1>3 DEF JobsInv, JobRunRec
<1>5. got \in Seq(Outcome)
  BY <1>1, <1>3, <1>4 DEF JobRunRec
<1>6. alarms' \subseteq Job \X Server
  <2>1. Head(R.left) \in Server
    BY <1>4
  <2>2. QED
    BY <1>2, <1>3, <2>1 DEF JobsInv
<1>7. /\ rows' \in [Job -> Seq(RowStatus)]
      /\ \A k \in Job : Len(rows'[k]) <= MaxRuns
  <2>1. PICK q \in Seq(RowStatus) : q = rows[j]
    BY DEF JobsInv
  <2>2. R.passed \in Nat /\ Len(q) \in Nat
    BY <1>4, ConfigType DEF JobRunRec
  <2>3. PICK i \in 1..(Len(q) + 1) :
          i = Len(q) + 1 - (IF R.passed < Len(q) THEN R.passed ELSE Len(q))
    <3>1. PICK n \in Nat : n = Len(q)
      BY <2>2
    <3>2. n + 1 - (IF R.passed < n THEN R.passed ELSE n) \in 1..(n + 1)
      BY <2>2
    <3>3. QED
      BY <3>1, <3>2
  <2>4. o \in RowStatus
    BY JobStatuses
  <2>5. PICK s : s = InsertAt(q, i, o)
    OBVIOUS
  <2>6. s \in Seq(RowStatus)
    BY <2>4, <2>5, InsertedFits
  <2>7. WithRow(j, o) = Capped(s)
    BY <1>3, <2>1, <2>3, <2>5 DEF WithRow
  <2>8. WithRow(j, o) \in Seq(RowStatus) /\ Len(WithRow(j, o)) <= MaxRuns
    BY <2>6, <2>7, CappedFits
  <2>9. QED
    BY <1>2, <2>8 DEF JobsInv
<1>8. CASE /\ running' = [running EXCEPT ![j].left = Tail(@), ![j].got = got, ![j].passed = 0]
           /\ UNCHANGED jobs
  <2>1. PICK Q : Q = [R EXCEPT !.left = Tail(@), !.got = got, !.passed = 0]
    OBVIOUS
  <2>2. running' = [running EXCEPT ![j] = Q]
    BY <1>3, <1>8, <2>1 DEF JobsInv
  <2>3. Tail(R.left) \in Seq(Server) /\ 0 \in 0..MaxRuns
    BY <1>4, ConfigType
  <2>4. Q \in JobRunRec
    BY <1>4, <1>5, <2>1, <2>3 DEF JobRunRec
  <2>5. RunFits(Q, up)
    BY <1>2, <1>3, <1>4, <2>1 DEF RunFits, JobRunRec
  <2>6. /\ running' \in [Job -> JobRunRec]
        /\ \A k \in Job : RunFits(running'[k], up')
    BY <1>2, <2>2, <2>4, <2>5 DEF JobsInv
  <2>7. \A k \in Job : Armed(jobs[k], fresh[k])'
    BY <1>2, <1>8, ArmedInTheMinute DEF JobsInv
  <2>8. QED
    BY <1>2, <1>6, <1>7, <1>8, <2>6, <2>7 DEF JobsInv
<1>9. CASE /\ running' = [running EXCEPT ![j] = Idle]
           /\ jobs' = IF jobs[j].there
                        THEN [jobs EXCEPT ![j].last = Overall(got)]
                        ELSE jobs
  <2>1. Idle \in JobRunRec /\ RunFits(Idle, up)
    BY ConfigType DEF Idle, JobRunRec, RunFits
  <2>2. /\ running' \in [Job -> JobRunRec]
        /\ \A k \in Job : RunFits(running'[k], up')
    BY <1>2, <1>9, <2>1 DEF JobsInv
  <2>3. PICK l \in JobStatus : l = Overall(got)
    BY <1>5, OverallFits
  <2>4. PICK A : A = [jobs[j] EXCEPT !.last = l]
    OBVIOUS
  <2>5. /\ A \in JobRec /\ A.there = jobs[j].there /\ A.enabled = jobs[j].enabled
        /\ A.every = jobs[j].every /\ A.next = jobs[j].next
    BY <2>4 DEF JobsInv, JobRec
  <2>6. jobs' = [jobs EXCEPT ![j] = A] \/ jobs' = jobs
    BY <1>9, <2>3, <2>4
  <2>7. jobs' \in [Job -> JobRec]
    BY <2>5, <2>6 DEF JobsInv
  <2>8. ASSUME NEW k \in Job
        PROVE  Armed(jobs'[k], fresh'[k])
    <3>1. Armed(jobs[k], fresh[k]) /\ fresh'[k] = fresh[k]
      BY <1>2 DEF JobsInv
    <3>2. \/ jobs'[k] = jobs[k]
          \/ k = j /\ jobs'[k] = A
      BY <2>6 DEF JobsInv
    <3>3. QED
      BY <2>5, <3>1, <3>2 DEF Armed
  <2>9. \A k \in Job : Armed(jobs[k], fresh[k])'
    BY <1>2, <2>8, ArmedInTheMinute
  <2>10. QED
    BY <1>2, <1>6, <1>7, <2>2, <2>7, <2>9 DEF JobsInv
<1>10. QED
  BY <1>2, <1>8, <1>9

\* POST /maintenance/:id/run.
LEMMA RunNowKeeps ==
    ASSUME JobsInv, NEW j \in Job, RunJobNow(j)
    PROVE  JobsInv'
<1>1. PICK E \in SUBSET Server :
        /\ running' = [running EXCEPT ![j] = Begun(jobs[j], E)]
        /\ jobs' = [jobs EXCEPT ![j] = Advanced(jobs[j], E)]
  BY DEF RunJobNow
<1>2. up /\ UNCHANGED <<now, ticked, up, rows, alarms, fresh>>
  BY DEF RunJobNow
<1>3. PICK B : B = Begun(jobs[j], E)
  OBVIOUS
<1>4. B \in JobRunRec /\ RunFits(B, TRUE)
  BY <1>3, BegunFits
<1>5. up = TRUE /\ up' = TRUE
  BY <1>2 DEF JobsInv
<1>6. /\ running' \in [Job -> JobRunRec]
      /\ \A k \in Job : RunFits(running'[k], up')
  BY <1>1, <1>3, <1>4, <1>5 DEF JobsInv
<1>7. PICK A : A = Advanced(jobs[j], E)
  OBVIOUS
<1>8. A \in JobRec /\ Armed(A, fresh[j])
  BY <1>7, AdvancedFits DEF JobsInv
<1>9. /\ jobs' \in [Job -> JobRec]
      /\ \A k \in Job : Armed(jobs'[k], fresh'[k])
  BY <1>1, <1>2, <1>7, <1>8 DEF JobsInv
<1>10. \A k \in Job : Armed(jobs[k], fresh[k])'
  BY <1>2, <1>9, ArmedInTheMinute
<1>11. QED
  BY <1>2, <1>6, <1>9, <1>10 DEF JobsInv

\* POST and PUT /maintenance.
LEMMA EditKeeps ==
    ASSUME JobsInv, NEW j \in Job, NEW on \in BOOLEAN,
           NEW p \in Periods, NEW S \in Targets,
           CreateJob(j, on, p, S) \/ UpdateJob(j, on, p, S)
    PROVE  JobsInv'
<1>1. PICK R : R \in JobRec
               /\ jobs' = Recomputed([jobs EXCEPT ![j] = R])
  <2>1. CASE CreateJob(j, on, p, S)
    <3>1. Job_(on, p, S) \in JobRec
      BY JobStatuses, ConfigType DEF Job_, NoJob, JobRec
    <3>2. QED
      BY <2>1, <3>1 DEF CreateJob
  <2>2. CASE UpdateJob(j, on, p, S)
    <3>1. PICK R : R = [jobs[j] EXCEPT !.enabled = on, !.every = p, !.targets = S]
      OBVIOUS
    <3>2. R \in JobRec
      BY <3>1 DEF JobsInv, JobRec
    <3>3. [jobs EXCEPT ![j].enabled = on, ![j].every = p, ![j].targets = S] =
            [jobs EXCEPT ![j] = R]
      BY <3>1 DEF JobsInv, JobRec
    <3>4. QED
      BY <2>2, <3>2, <3>3 DEF UpdateJob
  <2>3. QED
    BY <2>1, <2>2
<1>2. UNCHANGED <<now, ticked, up, rows, running, alarms, fresh>>
  BY DEF CreateJob, UpdateJob
<1>3. PICK J : J = [jobs EXCEPT ![j] = R]
  OBVIOUS
<1>4. J \in [Job -> JobRec]
  BY <1>1, <1>3 DEF JobsInv
<1>5. /\ jobs' \in [Job -> JobRec]
      /\ \A k \in Job : Armed(jobs'[k], fresh[k])
  <2>1. /\ Recomputed(J) \in [Job -> JobRec]
        /\ \A k \in Job, f \in BOOLEAN : Armed(Recomputed(J)[k], f)
    BY <1>4, RecomputedFits DEF JobsInv
  <2>2. jobs' = Recomputed(J)
    BY <1>1, <1>3
  <2>3. \A k \in Job : fresh[k] \in BOOLEAN
    BY DEF JobsInv
  <2>4. QED
    BY <2>1, <2>2, <2>3
<1>6. QED
  BY <1>2, <1>5, RowsEdited

\* DELETE /maintenance/:id.
LEMMA DeleteKeeps ==
    ASSUME JobsInv, NEW j \in Job, DeleteJob(j)
    PROVE  JobsInv'
<1>1. /\ jobs' = [jobs EXCEPT ![j] = NoJob]
      /\ rows' = [rows EXCEPT ![j] = <<>>]
      /\ running' = [running EXCEPT ![j].passed = 0]
      /\ fresh' = [fresh EXCEPT ![j] = FALSE]
      /\ UNCHANGED <<now, ticked, up, alarms>>
  BY DEF DeleteJob
<1>2. PICK N : N = NoJob
  OBVIOUS
<1>3. N \in JobRec /\ ~N.there
  BY <1>2, JobStatuses, ConfigType DEF NoJob, JobRec
<1>4. /\ jobs' \in [Job -> JobRec] /\ fresh' \in [Job -> BOOLEAN]
      /\ \A k \in Job : Armed(jobs'[k], fresh'[k])
  BY <1>1, <1>2, <1>3 DEF JobsInv, Armed
<1>5. \A k \in Job : Armed(jobs[k], fresh[k])'
  BY <1>1, <1>4, ArmedInTheMinute
<1>6. PICK q : q = <<>> /\ q \in Seq(RowStatus) /\ Len(q) = 0
  BY EmptySeq
<1>7. /\ rows' \in [Job -> Seq(RowStatus)]
      /\ \A k \in Job : Len(rows'[k]) <= MaxRuns
  <2>1. rows' = [rows EXCEPT ![j] = q] /\ Len(q) <= MaxRuns
    BY <1>1, <1>6, ConfigType
  <2>2. QED
    BY <1>6, <2>1 DEF JobsInv
<1>8. PICK R : R = [running[j] EXCEPT !.passed = 0]
  OBVIOUS
<1>9. R \in JobRunRec /\ RunFits(R, up) /\ running' = [running EXCEPT ![j] = R]
  <2>1. running[j] \in JobRunRec /\ RunFits(running[j], up)
    BY DEF JobsInv
  <2>2. 0 \in 0..MaxRuns
    BY ConfigType
  <2>3. R \in JobRunRec
    BY <1>8, <2>1, <2>2 DEF JobRunRec
  <2>4. RunFits(R, up)
    BY <1>8, <2>1 DEF JobRunRec, RunFits
  <2>5. running' = [running EXCEPT ![j] = R]
    BY <1>1, <1>8 DEF JobsInv
  <2>6. QED
    BY <2>3, <2>4, <2>5
<1>10. /\ running' \in [Job -> JobRunRec]
       /\ \A k \in Job : RunFits(running'[k], up')
  BY <1>1, <1>9 DEF JobsInv
<1>11. QED
  BY <1>1, <1>4, <1>5, <1>7, <1>10 DEF JobsInv

\* What a step of the scheduler may be.
LEMMA JobSteps ==
    ASSUME [MaintenanceNext]_maintenanceVars
    PROVE  \/ Boot \/ MaintenanceTick \/ MinutePasses \/ ProcessDies
           \/ \E j \in Job : RunJobNow(j) \/ DeleteJob(j)
           \/ \E j \in Job, on \in BOOLEAN, p \in Periods, S \in Targets :
                 CreateJob(j, on, p, S) \/ UpdateJob(j, on, p, S)
           \/ \E j \in Job, o \in Outcome : CommandEnds(j, o)
           \/ \E a \in alarms : CloseIncident(a)
           \/ UNCHANGED <<now, ticked, up, jobs, rows, running, alarms, fresh>>
BY DEF MaintenanceNext, Operator, maintenanceVars

LEMMA JobsStep ==
    JobsInv /\ [MaintenanceNext]_maintenanceVars => JobsInv'
<1> SUFFICES ASSUME JobsInv, [MaintenanceNext]_maintenanceVars PROVE JobsInv'
  OBVIOUS
<1>1. CASE Boot
  BY <1>1, BootKeeps
<1>2. CASE MaintenanceTick
  BY <1>2, TickKeeps
<1>3. CASE MinutePasses
  BY <1>3, MinutePassesKeeps
<1>4. CASE ProcessDies
  BY <1>4, CrashKeeps
<1>5. ASSUME NEW j \in Job, RunJobNow(j) \/ DeleteJob(j)
      PROVE  JobsInv'
  BY <1>5, RunNowKeeps, DeleteKeeps
<1>6. ASSUME NEW j \in Job, NEW on \in BOOLEAN, NEW p \in Periods, NEW S \in Targets,
             CreateJob(j, on, p, S) \/ UpdateJob(j, on, p, S)
      PROVE  JobsInv'
  BY <1>6, EditKeeps
<1>7. ASSUME NEW j \in Job, NEW o \in Outcome, CommandEnds(j, o)
      PROVE  JobsInv'
  BY <1>7, CommandEndsKeeps
<1>8. ASSUME NEW a \in alarms, CloseIncident(a)
      PROVE  JobsInv'
  <2>1. /\ alarms' \subseteq alarms
        /\ UNCHANGED <<now, ticked, up, jobs, rows, running, fresh>>
    BY <1>8 DEF CloseIncident
  <2>2. \A j \in Job : Armed(jobs[j], fresh[j])'
    BY <2>1, ArmedInTheMinute DEF JobsInv
  <2>3. QED
    BY <2>1, <2>2 DEF JobsInv
<1>9. CASE UNCHANGED <<now, ticked, up, jobs, rows, running, alarms, fresh>>
  <2>1. \A j \in Job : Armed(jobs[j], fresh[j])'
    BY <1>9, ArmedInTheMinute DEF JobsInv
  <2>2. QED
    BY <1>9, <2>1 DEF JobsInv
<1>10. QED
  BY JobSteps, <1>1, <1>2, <1>3, <1>4, <1>5, <1>6, <1>7, <1>8, <1>9

\* What a request makes not due are jobs.
LEMMA ForgoneAreJobs ==
    ASSUME forgone \subseteq Job, [MaintenanceNext]_maintenanceVars
    PROVE  forgone' \subseteq Job
<1>1. CASE UNCHANGED maintenanceVars
  BY <1>1 DEF maintenanceVars
<1>2. CASE \/ Boot \/ MaintenanceTick \/ MinutePasses \/ ProcessDies
           \/ \E j \in Job, o \in Outcome : CommandEnds(j, o)
           \/ \E a \in alarms : CloseIncident(a)
  <2>1. forgone' = {}
    BY <1>2 DEF Boot, MaintenanceTick, Dispatches, MinutePasses, ProcessDies,
                CommandEnds, CloseIncident
  <2>2. QED
    BY <2>1
<1>3. CASE \E j \in Job : Operator(j)
  <2>1. forgone' = Due(jobs) \ Due(jobs')
    BY <1>3 DEF Operator, RunJobNow, DeleteJob, CreateJob, UpdateJob, Forgoing
  <2>2. Due(jobs) \subseteq Job
    BY DEF Due
  <2>3. QED
    BY <2>1, <2>2
<1>4. QED
  BY <1>1, <1>2, <1>3 DEF MaintenanceNext

LEMMA JobsInvHolds ==
    MaintenanceSpec => []JobsInv
<1>1. MaintenanceInit => JobsInv
  BY JobsInit
<1>2. JobsInv /\ [MaintenanceNext]_maintenanceVars => JobsInv'
  BY JobsStep
<1>3. QED
  BY <1>1, <1>2, PTL DEF MaintenanceSpec

\* Maintenance: a job that is enabled waits for a window at most one period
\* ahead, its rows stay within MAX_RUNS_PER_JOB, and only a live process has
\* runs: for every set of jobs, servers and periods.
THEOREM JobsTypeCorrect ==
    MaintenanceSpec => []MaintenanceTypeOK
<1>1. JobsInv /\ forgone \subseteq Job => MaintenanceTypeOK
  <2> SUFFICES ASSUME JobsInv, forgone \subseteq Job PROVE MaintenanceTypeOK
    OBVIOUS
  <2>1. ASSUME NEW j \in Job, jobs[j].there, jobs[j].enabled
        PROVE  jobs[j].next \in 0..jobs[j].every
    <3>1. PICK R : R = jobs[j]
      OBVIOUS
    <3>2. /\ R \in JobRec /\ R.every \in Periods /\ R.every \in Nat \ {0}
          /\ R.next = NextRun(R.every) \/ R.next = 0
      BY <2>1, <3>1, ConfigType DEF JobsInv, JobRec, Armed
    <3>3. NextRun(R.every) \in 1..R.every
      BY <3>2, NextRunAhead DEF JobsInv
    <3>4. QED
      BY <3>1, <3>2, <3>3
  <2>2. \A j \in Job : /\ running[j].left # <<>> => running[j].on
                       /\ running[j].on => up
                       /\ running[j].passed \in 0..MaxRuns
    BY DEF JobsInv, RunFits, JobRunRec
  <2>3. {ticked, up} \subseteq BOOLEAN
    BY DEF JobsInv
  <2>4. QED
    BY <2>1, <2>2, <2>3 DEF JobsInv, JobRec, MaintenanceTypeOK
<1>2. MaintenanceSpec => []JobsInv
  BY JobsInvHolds
<1>3. MaintenanceInit => forgone \subseteq Job
  BY DEF MaintenanceInit
<1>4. forgone \subseteq Job /\ [MaintenanceNext]_maintenanceVars => (forgone \subseteq Job)'
  BY ForgoneAreJobs
<1>5. QED
  BY <1>1, <1>2, <1>3, <1>4, PTL DEF MaintenanceSpec

\* Maintenance: however runs, edits, deletions and restarts fall, the tick
\* starts a job only when a window of its schedule has come since the tick
\* last started it.
THEOREM JobsRunOncePerWindow ==
    MaintenanceSpec => NoWindowTwice
<1> DEFINE Once == \A j \in Job :
                     ~running[j].on /\ running'[j].on /\ ticked' # ticked /\ up => fresh[j]
<1>1. JobsInv /\ [MaintenanceNext]_maintenanceVars => [Once]_maintenanceVars
  <2> SUFFICES ASSUME JobsInv, [MaintenanceNext]_maintenanceVars, NEW j \in Job,
                      ~running[j].on, running'[j].on, ticked' # ticked, up
               PROVE  fresh[j]
    BY DEF maintenanceVars
  <2>1. CASE MaintenanceTick
    <3>1. j \in Due(jobs)
      BY <2>1 DEF MaintenanceTick, Dispatches
    <3>2. PICK R : R = jobs[j]
      OBVIOUS
    <3>3. R.there /\ R.enabled /\ R.next = 0 /\ R.every \in Periods
      BY <3>1, <3>2 DEF Due, JobsInv, JobRec
    <3>4. NextRun(R.every) \in 1..R.every /\ R.every \in Nat
      BY <3>3, NextRunAhead, ConfigType DEF JobsInv
    <3>5. NextRun(R.every) # 0
      BY <3>4
    <3>6. QED
      BY <3>2, <3>3, <3>5 DEF JobsInv, Armed
  <2>2. CASE Boot
    BY <2>2 DEF Boot
  <2>3. CASE MinutePasses
    BY <2>3 DEF MinutePasses
  <2>4. CASE ticked' = ticked
    BY <2>4
  <2>5. QED
    BY JobSteps, <2>1, <2>2, <2>3, <2>4
       DEF ProcessDies, RunJobNow, DeleteJob, CreateJob, UpdateJob,
           CommandEnds, CloseIncident
<1>2. MaintenanceSpec => []JobsInv
  BY JobsInvHolds
<1>3. QED
  BY <1>1, <1>2, PTL DEF MaintenanceSpec, NoWindowTwice

=============================================================================
