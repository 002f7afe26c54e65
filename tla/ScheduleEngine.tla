---------------------------- MODULE ScheduleEngine --------------------------
(***************************************************************************)
(* The cron-driven ScheduleEngine and its ScheduledTaskStore: what a tick, *)
(* a run-now request, an edit through the schedules API, the boot with its *)
(* replay of missed runs, a shutdown, a crash and a failing query do to    *)
(* the stored in-flight count that serves as the lock of a schedule, and   *)
(* to the cron jobs bound in memory.                                       *)
(*                                                                         *)
(* Every store call is awaited.  With SQLite the call is synchronous, so   *)
(* only microtasks come between two of them and no other request gets in   *)
(* between (Settled); with Postgres each await is a point where any other  *)
(* handler may run.  A crash may come between any two store calls.         *)
(*                                                                         *)
(* A history row is not kept, except that a row "skipped: concurrent run   *)
(* in flight" was written.  Which missed runs are due is decided when the  *)
(* boot lists the schedules.                                               *)
(*                                                                         *)
(* A schedule has one id and belongs to one tenant.  A statement of the    *)
(* store names both, and a job calls back with the tenant it was bound     *)
(* with.  Seeds and boot act for the system tenant; a request to create or *)
(* replace names any tenant, the other requests are made by a caller of    *)
(* the tenant that the schedule belongs to (for anyone else it is absent). *)
(***************************************************************************)
EXTENDS Integers, FiniteSets

CONSTANTS
    Schedule,    \* schedule ids
    Run,         \* slots for the executeRun calls in flight at one time
    NoRun,       \* no run
    NoSchedule,  \* the schedule of a free slot
    Tenant,      \* tenant ids
    SystemTenant, \* SYSTEM_TENANT_ID, the tenant of whatever no request began
    NoTenant,    \* no tenant
    Deployments, \* the deployments of a behaviour: the store, which schedules
                 \* may exist, which tenants requests name, and, as bounds,
                 \* how many create, replace, pause, resume and delete
                 \* requests there are and how many store calls of runs throw
    MaxCrashes   \* bound: process deaths

ASSUME SlotsAreFinite == IsFiniteSet(Run) /\ NoRun \notin Run
ASSUME NoScheduleFresh == NoSchedule \notin Schedule
ASSUME SystemIsATenant == SystemTenant \in Tenant /\ NoTenant \notin Tenant
ASSUME DeploymentType ==
    Deployments \subseteq [store : {"sqlite", "postgres"}, schedules : SUBSET Schedule,
                          tenants : SUBSET Tenant, maxEdits : Nat, maxFaults : Nat]
ASSUME MaxCrashesType == MaxCrashes \in Nat

VARIABLES
    deployment, \* the deployment, which never changes
    row,      \* the stored schedule: tenant, status, in_flight_count, age of
              \* last_run_at
    job,      \* ScheduleEngine.jobs: the tenant that the node-cron job of a
              \* schedule was bound with
    started,  \* ScheduleEngine.started
    boot,     \* progress of start(): stage, initial list, replays left, awaited run
    run,      \* executeRun calls in flight: how far, for which schedule, and
              \* the tenant of the row that was read
    calls,    \* upsert, setStatus and delete calls suspended at an await
    skips,    \* history: schedules with a concurrent-run-in-flight row
    wiped,    \* history: the row was replaced or deleted under a run in flight
    lost,     \* history: how much of the count belongs to runs that are gone
    astray,   \* history: schedules that the boot left out, or whose job it or
              \* a request bound with another tenant than their own
    edits, crashes, faults   \* spent so far

vars == <<deployment, row, job, started, boot, run, calls, skips, wiped, lost, astray,
          edits, crashes, faults>>

-----------------------------------------------------------------------------
Status == {"enabled", "paused"}
Absent == [tenant |-> NoTenant, status |-> "absent", inFlight |-> 0, last |-> "never"]

\* What buildSchedule makes: counters at zero, no last run.
Fresh(t, status) == [tenant |-> t, status |-> status, inFlight |-> 0, last |-> "never"]

\* The steps of executeRun between awaits.
Phase   == {"free", "checked", "marked", "running", "finished"}
FreeRun == [phase |-> "free", sched |-> NoSchedule, tenant |-> NoTenant]
NoJobs  == [s \in Schedule |-> NoTenant]

Down == [stage |-> "down", listed |-> {}, todo |-> {}, on |-> NoRun]

Store      == deployment.store
Exists(s)  == row[s].status # "absent"
Enabled(s) == row[s].status = "enabled"
Bound(s)   == job[s] # NoTenant
Up         == boot.stage # "down"
Counted    == {"marked", "running"}
Live(s)    == {r \in Run : run[r].sched = s /\ run[r].phase \in Counted}
Free       == {r \in Run : run[r].phase = "free"}

\* The row that a statement WHERE id = s AND tenant_id = t matches.
Found(s, t) == Exists(s) /\ row[s].tenant = t

\* A new macrotask can begin: with SQLite, whatever is suspended at a store
\* call has the microtask queue to itself.
Settled ==
    /\ Up
    /\ Store = "sqlite" =>
          /\ calls = {}
          /\ \A r \in Run : run[r].phase \in {"free", "running"}
          /\ boot.stage = "replaying" => boot.on # NoRun

-----------------------------------------------------------------------------
\* executeRun

\* Faulty variant: the in-flight count is not consulted.
VerdictWithoutLock(s, t) ==
    IF Found(s, t) /\ Enabled(s) THEN "go" ELSE "refused"

VerdictOn(s, t) ==
    CASE ~(Found(s, t) /\ Enabled(s)) -> "refused"
      [] row[s].inFlight > 0          -> "concurrent"
      [] OTHER                        -> "go"

\* Reads the row for tenant t and takes the decision; a refusal writes its
\* skipped row and is over.
Read(s, t, r) ==
    /\ run' = IF VerdictOn(s, t) = "go"
              THEN [run EXCEPT ![r] = [phase |-> "checked", sched |-> s, tenant |-> t]]
              ELSE run
    /\ skips' = IF VerdictOn(s, t) = "concurrent" THEN skips \union {s} ELSE skips

MarkRunStarted(r) ==
    LET s == run[r].sched
    IN  /\ run[r].phase = "checked"
        /\ run' = [run EXCEPT ![r].phase = "marked"]
        /\ row' = IF Found(s, run[r].tenant)
                  THEN [row EXCEPT ![s].inFlight = @ + 1, ![s].last = "current"]
                  ELSE row
        /\ wiped' = [wiped EXCEPT ![s] = @ \/ (Exists(s) /\ ~Found(s, run[r].tenant))]
        /\ UNCHANGED <<deployment, job, started, boot, calls, skips, lost,
                       astray, edits, crashes, faults>>

\* The placeholder row is appended and the action dispatched.
AppendRun(r) ==
    /\ run[r].phase = "marked"
    /\ run' = [run EXCEPT ![r].phase = "running"]
    /\ UNCHANGED <<deployment, row, job, started, boot, calls, skips, wiped,
                   lost, astray, edits, crashes, faults>>

\* Run r of s stops being counted, leaving n behind in the stored count; a
\* wiped schedule is sound again once no run of it is in flight.
Uncounted(r, s, n, leaked) ==
    LET over == wiped[s] /\ Live(s) \subseteq {r}
    IN  /\ wiped' = [wiped EXCEPT ![s] = @ /\ ~over]
        /\ lost'  = [lost EXCEPT ![s] = IF over THEN n ELSE @ + leaked]

\* Faulty variant: the count is decremented without MAX(0, ...).
DecrementedBelowZero(n) == n - 1

Decremented(n) == IF n > 0 THEN n - 1 ELSE 0

\* The action completes, fails or throws; finally markRunFinished.
RunEnds(r) ==
    LET s == run[r].sched
        n == IF Found(s, run[r].tenant) THEN Decremented(row[s].inFlight)
             ELSE row[s].inFlight
    IN  /\ run[r].phase = "running"
        /\ Settled
        /\ run' = [run EXCEPT ![r].phase = "finished"]
        /\ row' = [row EXCEPT ![s].inFlight = n]
        /\ Uncounted(r, s, n, 0)
        /\ UNCHANGED <<deployment, job, started, boot, calls, skips, astray,
                       edits, crashes, faults>>

\* start() awaits the runs it replays.
Awaited(r) == IF boot.on = r THEN [boot EXCEPT !.on = NoRun] ELSE boot

\* finalizeRun and setNextRun; executeRun returns.
FinalizeRun(r) ==
    /\ run[r].phase = "finished"
    /\ run' = [run EXCEPT ![r] = FreeRun]
    /\ boot' = Awaited(r)
    /\ UNCHANGED <<deployment, row, job, started, calls, skips, wiped, lost,
                   astray, edits, crashes, faults>>

\* The store call a run is at throws: executeRun rejects where it stands.
\* Only the dispatch is inside the try block, so a count already taken stays.
StoreThrows(r) ==
    LET s == run[r].sched
    IN  /\ faults < deployment.maxFaults
        /\ run[r].phase # "free"
        /\ run[r].phase = "running" => Settled
        /\ faults' = faults + 1
        /\ run' = [run EXCEPT ![r] = FreeRun]
        /\ boot' = Awaited(r)
        /\ IF run[r].phase \in Counted
           THEN Uncounted(r, s, row[s].inFlight, IF Exists(s) THEN 1 ELSE 0)
           ELSE UNCHANGED <<wiped, lost>>
        /\ UNCHANGED <<deployment, row, job, started, calls, skips, astray,
                       edits, crashes>>

-----------------------------------------------------------------------------
\* What starts a run, and the passing of time

\* node-cron calls back; the callback only holds the id and the tenant.
Tick(s) ==
    /\ Settled
    /\ Bound(s)
    /\ \E r \in Free : Read(s, job[s], r)
    /\ row' = [row EXCEPT ![s].last = IF @ \in {"never", "old"} THEN @ ELSE "due"]
    /\ UNCHANGED <<deployment, job, started, boot, calls, wiped, lost, astray,
                   edits, crashes, faults>>

RunNow(s) ==
    /\ Settled
    /\ Exists(s)
    /\ \E r \in Free : Read(s, row[s].tenant, r)
    /\ UNCHANGED <<deployment, row, job, started, boot, calls, wiped, lost,
                   astray, edits, crashes, faults>>

\* A moment the expression matches goes by and no job is bound, or the last
\* run becomes older than missedRunWindowMs.
TimePasses(s) ==
    /\ \/ row[s].last = "current" /\ ~Bound(s) /\ row' = [row EXCEPT ![s].last = "due"]
       \/ row[s].last \in {"current", "due"} /\ row' = [row EXCEPT ![s].last = "old"]
    /\ Up => Settled
    /\ UNCHANGED <<deployment, job, started, boot, run, calls, skips, wiped,
                   lost, astray, edits, crashes, faults>>

-----------------------------------------------------------------------------
\* Requests of the schedules API

Edit == edits < deployment.maxEdits /\ edits' = edits + 1

\* The row is written as a whole; the runs in flight are no longer counted.
Rewrite(s, new) ==
    /\ row' = [row EXCEPT ![s] = new]
    /\ wiped' = [wiped EXCEPT ![s] = Live(s) # {}]
    /\ lost' = [lost EXCEPT ![s] = 0]

Suspend(s, t, stage, bind) ==
    calls' = calls \union {[sched |-> s, tenant |-> t, stage |-> stage, bind |-> bind]}

\* POST /api/schedules, for a new id or an existing one.  A row that is
\* replaced keeps its tenant; the job is bound with the one in the request.
Upsert(s) ==
    /\ Settled
    /\ s \in deployment.schedules
    /\ Edit
    /\ \E status \in Status, t \in deployment.tenants :
          LET owner == IF Exists(s) THEN row[s].tenant ELSE t
          IN  /\ Rewrite(s, Fresh(owner, status))
              /\ Suspend(s, t, "rebind", status = "enabled")
              /\ astray' = IF t = owner THEN astray \ {s} ELSE astray \union {s}
    /\ UNCHANGED <<deployment, job, started, boot, run, skips, crashes, faults>>

SetStatus(s) ==
    /\ Settled
    /\ Edit
    /\ Exists(s)
    /\ \E status \in Status :
          /\ row' = [row EXCEPT ![s].status = status]
          /\ Suspend(s, row[s].tenant, "reread", status = "enabled")
    /\ astray' = astray \ {s}
    /\ UNCHANGED <<deployment, job, started, boot, run, skips, wiped, lost,
                   crashes, faults>>

Delete(s) ==
    /\ Settled
    /\ Edit
    /\ Exists(s)
    /\ Rewrite(s, Absent)
    /\ Suspend(s, row[s].tenant, "rebind", FALSE)
    /\ UNCHANGED <<deployment, job, started, boot, run, skips, astray, crashes,
                   faults>>

\* setStatus re-reads the row and gives up when it is gone.
Reread(c) ==
    /\ c.stage = "reread"
    /\ calls' = (calls \ {c})
                  \union IF Found(c.sched, c.tenant) THEN {[c EXCEPT !.stage = "rebind"]}
                                            ELSE {}
    /\ UNCHANGED <<deployment, row, job, started, boot, run, skips, wiped, lost,
                   astray, edits, crashes, faults>>

\* Faulty variant: resuming a schedule only touches the store.
ReboundUnlessNew(c) ==
    IF c.bind THEN job ELSE [job EXCEPT ![c.sched] = NoTenant]

\* A job is bound only while the engine is started; it is always dropped.
Rebound(c) ==
    CASE ~c.bind            -> [job EXCEPT ![c.sched] = NoTenant]
      [] c.bind /\ started  -> [job EXCEPT ![c.sched] = c.tenant]
      [] c.bind /\ ~started -> job

Rebind(c) ==
    /\ c.stage = "rebind"
    /\ calls' = calls \ {c}
    /\ job' = Rebound(c)
    /\ UNCHANGED <<deployment, row, started, boot, run, skips, wiped, lost,
                   astray, edits, crashes, faults>>

-----------------------------------------------------------------------------
\* Boot, shutdown and crash

\* start() lists the schedules once: those of the system tenant, for it runs
\* outside of any request.
Start ==
    /\ boot.stage = "down"
    /\ started' = TRUE
    /\ astray' = {s \in Schedule : Enabled(s) /\ ~Found(s, SystemTenant)}
    /\ LET listed == {s \in Schedule : Enabled(s) /\ Found(s, SystemTenant)}
       IN  boot' = [stage |-> "replaying", listed |-> listed, on |-> NoRun,
                    todo |-> {s \in listed : row[s].last = "due"}]
    /\ UNCHANGED <<deployment, row, job, run, calls, skips, wiped, lost, edits,
                   crashes, faults>>

\* Faulty variant: a replay that is refused is tried again.
ReplayUntilRun(s) ==
    /\ boot.stage = "replaying" /\ boot.on = NoRun /\ s \in boot.todo
    /\ \E r \in Free :
          /\ Read(s, SystemTenant, r)
          /\ boot' = IF VerdictOn(s, SystemTenant) = "go"
                     THEN [boot EXCEPT !.todo = @ \ {s}, !.on = r] ELSE boot
    /\ UNCHANGED <<deployment, row, job, started, calls, wiped, lost, astray,
                   edits, crashes, faults>>

\* One replay per schedule, one after the other, each awaited to its end.
ReplayMissed(s) ==
    /\ boot.stage = "replaying" /\ boot.on = NoRun /\ s \in boot.todo
    /\ \E r \in Free :
          /\ Read(s, SystemTenant, r)
          /\ boot' = [boot EXCEPT
                !.todo = @ \ {s},
                !.on = IF VerdictOn(s, SystemTenant) = "go" THEN r ELSE NoRun]
    /\ UNCHANGED <<deployment, row, job, started, calls, wiped, lost, astray,
                   edits, crashes, faults>>

\* Jobs are bound for the schedules that were enabled when start() began, with
\* the tenant they had then.  Those that are not enabled any more are
\* remembered in listed.
BindAll ==
    /\ boot.stage = "replaying" /\ boot.on = NoRun /\ boot.todo = {}
    /\ job' = [s \in Schedule |-> IF s \in boot.listed THEN SystemTenant ELSE job[s]]
    /\ astray' = (astray \ boot.listed)
                   \union {s \in boot.listed : ~Found(s, SystemTenant)}
    /\ boot' = [boot EXCEPT !.stage = "up",
                            !.listed = {s \in boot.listed : ~Enabled(s)}]
    /\ UNCHANGED <<deployment, row, started, run, calls, skips, wiped, lost,
                   edits, crashes, faults>>

Stop ==
    /\ Settled
    /\ started
    /\ started' = FALSE
    /\ job' = NoJobs
    /\ UNCHANGED <<deployment, row, boot, run, calls, skips, wiped, lost,
                   astray, edits, crashes, faults>>

\* The process ends, with or without a shutdown: only the rows are left.
Crash ==
    /\ Up
    /\ crashes < MaxCrashes
    /\ crashes' = crashes + 1
    /\ boot' = Down
    /\ started' = FALSE
    /\ job' = NoJobs
    /\ run' = [r \in Run |-> FreeRun]
    /\ calls' = {}
    /\ wiped' = [s \in Schedule |-> FALSE]
    /\ lost' = [s \in Schedule |-> row[s].inFlight]
    /\ astray' = {}
    /\ UNCHANGED <<deployment, row, skips, edits, faults>>

-----------------------------------------------------------------------------
\* A new deployment, its default schedules seeded.
Init ==
    /\ deployment \in Deployments
    /\ row \in [Schedule -> {Absent, Fresh(SystemTenant, "enabled")}]
    /\ \A s \in Schedule \ deployment.schedules : row[s] = Absent
    /\ job = NoJobs
    /\ started = FALSE
    /\ boot = Down
    /\ run = [r \in Run |-> FreeRun]
    /\ calls = {}
    /\ skips = {}
    /\ wiped = [s \in Schedule |-> FALSE]
    /\ lost = [s \in Schedule |-> 0]
    /\ astray = {}
    /\ edits = 0 /\ crashes = 0 /\ faults = 0

RunSteps(r) == MarkRunStarted(r) \/ AppendRun(r) \/ RunEnds(r) \/ FinalizeRun(r)
CallSteps   == \E c \in calls : Reread(c) \/ Rebind(c)
BootSteps   == BindAll \/ \E s \in Schedule : ReplayMissed(s)

Next ==
    \/ \E r \in Run : RunSteps(r) \/ StoreThrows(r)
    \/ \E s \in Schedule : \/ Tick(s) \/ RunNow(s) \/ TimePasses(s)
                           \/ Upsert(s) \/ SetStatus(s) \/ Delete(s)
    \/ CallSteps
    \/ Start
    \/ BootSteps
    \/ Stop
    \/ Crash

Spec == Init /\ [][Next]_vars

\* Awaited store calls resolve, actions end, and start() goes on.  The end of
\* an action waits its turn in the event queue, which is first in first out,
\* so it is not overtaken for ever (SF); nor is the boot, which only the
\* bound on the run slots can hold up.  Nothing is asked of ticks, of requests
\* or of the restart after a crash.
Fairness ==
    /\ \A r \in Run : WF_vars(RunSteps(r)) /\ SF_vars(RunEnds(r))
    /\ WF_vars(CallSteps)
    /\ SF_vars(BootSteps)

FairSpec == Spec /\ Fairness

-----------------------------------------------------------------------------
\* Types.  The stored count is never negative, and a slot is free exactly when
\* it belongs to no schedule.
TypeOK ==
    /\ deployment \in Deployments
    /\ row \in [Schedule -> [tenant : Tenant \union {NoTenant},
                             status : Status \union {"absent"}, inFlight : Nat,
                             last : {"never", "current", "due", "old"}]]
    /\ job \in [Schedule -> Tenant \union {NoTenant}]
    /\ started \in BOOLEAN
    /\ boot \in [stage : {"down", "replaying", "up"}, listed : SUBSET Schedule,
                 todo : SUBSET Schedule, on : Run \union {NoRun}]
    /\ run \in [Run -> [phase : Phase, sched : Schedule \union {NoSchedule},
                        tenant : Tenant \union {NoTenant}]]
    /\ \A r \in Run : run[r].phase = "free" <=> run[r].sched = NoSchedule
    /\ calls \subseteq [sched : Schedule, tenant : Tenant \union {NoTenant},
                        stage : {"reread", "rebind"}, bind : BOOLEAN]
    /\ skips \subseteq Schedule
    /\ wiped \in [Schedule -> BOOLEAN]
    /\ lost \in [Schedule -> Nat]
    /\ astray \subseteq Schedule
    /\ edits \in Nat /\ crashes \in Nat /\ faults \in Nat

\* The stored count is the number of runs in flight plus what dead processes
\* and failed store calls left in it, unless the schedule was replaced or
\* deleted under a run; and with SQLite the count is a lock: two runs of a
\* schedule overlap only after it was replaced or deleted while one was in
\* flight.
LockIsAccountedFor ==
    \A s \in Schedule : Exists(s) /\ ~wiped[s] =>
        /\ row[s].inFlight = Cardinality(Live(s)) + lost[s]
        /\ Store = "sqlite" => Cardinality(Live(s)) <= 1

\* "Persists, then re-binds the cron job so callers don't have to bounce the
\* engine" (ScheduleEngine.ts): once the engine has started and no request is
\* half done, an enabled schedule has a cron job that looks for it where it is
\* stored, whatever was created, paused or resumed during the boot or after
\* it; and a job without an enabled schedule is one the boot bound for a
\* schedule that was paused or deleted while missed runs were replayed.  It
\* holds with SQLite; with Postgres two requests can write the row in one order
\* and the job in the other.  Astray are the schedules of other tenants that
\* were enabled before a restart, those that a request replaced in the name of
\* another tenant, and those that were made anew by another tenant while the
\* boot replayed missed runs, each until a request of its own tenant.
JobsFollowRows ==
    Store = "sqlite" /\ Settled =>
        /\ started /\ boot.stage = "up" =>
              \A s \in Schedule \ astray : Enabled(s) => job[s] = row[s].tenant
        /\ \A s \in Schedule : Bound(s) => Enabled(s) \/ s \in boot.listed

\* The boot comes to the end of its replays and binds the jobs, however many
\* runs it has to wait for, unless the process dies first; and the lock of a
\* schedule is released again and again, down to what runs that are gone left
\* in it: no interleaving of ticks, requests, edits and boot leaks a count.
BootEndsAndLocksOpen ==
    /\ boot.stage = "replaying" ~> boot.stage # "replaying"
    /\ \A s \in Schedule : []<>(row[s].inFlight <= lost[s])

\* "When non-zero, the engine stops triggering new runs while this schedule
\* has an in-flight run" (ScheduledTaskTypes.ts): a run is skipped as
\* concurrent only when another run of its schedule is in flight.
SkippedForARun ==
    [][\A s \in skips' \ skips : Live(s) # {}]_vars

=============================================================================
