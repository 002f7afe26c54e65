---------------------------- MODULE Maintenance ------------------------------
(***************************************************************************)
(* MaintenanceScheduler and MaintenanceStore: cron jobs that run a command *)
(* on servers, one server after the other.  A tick once a minute starts    *)
(* the jobs whose nextRunAt has come; operators create, edit, delete and   *)
(* run jobs at any time, and the process may be down for a while.          *)
(*                                                                         *)
(* SQLite is synchronous, so only the execution of a command is awaited:   *)
(* every handler is one step, and so is what a run does between two        *)
(* commands.  Time is counted in minutes; what happens within a minute     *)
(* comes before its tick or after it.  A cron expression is a period, and  *)
(* nextRunAt is how many minutes are left until then.                      *)
(***************************************************************************)
EXTENDS Integers, Sequences, FiniteSets, SequencesExt

CONSTANTS
    Job,            \* job ids
    Seeds,          \* DEFAULT_SEEDS: the jobs that every boot creates
    SeedPeriod,     \* their schedule
    Server,         \* the servers of the registry
    Periods,        \* the schedules: every that many minutes
    Cycle,          \* a common multiple of the periods
    Targets,        \* the serverIds of jobs; {} means every server
    MaxRuns         \* MAX_RUNS_PER_JOB (100 in the code)

ASSUME ConfigType ==
    /\ Seeds \subseteq Job /\ SeedPeriod \in Periods
    /\ Periods \subseteq Nat \ {0} /\ Cycle \in Nat \ {0}
    /\ \A p \in Periods : Cycle % p = 0
    /\ IsFiniteSet(Server) /\ Targets \subseteq SUBSET Server
    /\ MaxRuns \in Nat \ {0}

VARIABLES
    now,        \* the minute, modulo Cycle
    ticked,     \* the tick of this minute is over
    up,         \* the process lives
    jobs,       \* the rows of maintenance_jobs
    rows,       \* job -> status of its maintenance_runs, newest last
    running,    \* MaintenanceScheduler.running: the run of each job
    alarms,     \* the <<job, server>> whose incident is active
    fresh,      \* history: job -> a window of it came since the tick last
                \* started it
    forgone     \* history: the jobs that the last step, a request, has made
                \* not due

maintenanceVars == <<now, ticked, up, jobs, rows, running, alarms, fresh, forgone>>

-----------------------------------------------------------------------------
Outcome   == {"success", "failed", "timeout"}
RowStatus == Outcome \union {"skipped"}
JobStatus == Outcome \union {"never", "partial"}

Null == -1      \* nextRunAt is null

NoJob == [there |-> FALSE, enabled |-> FALSE, every |-> SeedPeriod,
          targets |-> {}, next |-> Null, last |-> "never"]

Job_(on, p, S) == [NoJob EXCEPT !.there = TRUE, !.enabled = on,
                                !.every = p, !.targets = S]

\* left: the servers to go; got: the outcomes so far; passed: how many of the
\* newest rows are younger than the command that is being executed.
Idle == [on |-> FALSE, left |-> <<>>, got |-> <<>>, passed |-> 0]

\* CronParser.getNextRun: the next match after this minute.
NextRun(p) == p - (now % p)

\* Faulty variant: only jobs that are disabled are looked at.
RecomputedIfUnset(J) ==
    [j \in Job |-> IF J[j].there /\ ~J[j].enabled THEN [J[j] EXCEPT !.next = Null]
                   ELSE J[j]]

\* recomputeAllNextRuns: whatever a job was waiting for, or was due for.
Recomputed(J) ==
    [j \in Job |->
        IF ~J[j].there THEN J[j]
        ELSE [J[j] EXCEPT !.next = IF J[j].enabled THEN NextRun(J[j].every)
                                   ELSE Null]]

Due(J) == {j \in Job : J[j].there /\ J[j].enabled /\ J[j].next = 0}

\* resolveTargets, when the servers E are enabled in the registry, which
\* operators change at any time.
TargetsOf(R, E) == E \intersect (IF R.targets = {} THEN Server ELSE R.targets)

\* Faulty variant: a run without targets is never over.
BegunForGood(R, E) == [Idle EXCEPT !.on = TRUE, !.left = SetToSeq(TargetsOf(R, E))]

Begun(R, E) == [Idle EXCEPT !.on = TargetsOf(R, E) # {},
                             !.left = SetToSeq(TargetsOf(R, E))]

\* Faulty variant: nextRunAt is left for the end of the run.
AdvancedNot(R, E) ==
    IF TargetsOf(R, E) = {} THEN [R EXCEPT !.last = "failed"] ELSE R

\* The row of a job that is started.
Advanced(R, E) ==
    [R EXCEPT !.next = NextRun(R.every),
              !.last = IF TargetsOf(R, E) = {} THEN "failed" ELSE @]

\* The newest MaxRuns rows.
Capped(q) == IF Len(q) <= MaxRuns THEN q
             ELSE SubSeq(q, Len(q) - MaxRuns + 1, Len(q))

Passed(n) == IF n < MaxRuns THEN n + 1 ELSE n

\* tick, on the rows J: a job that is still running gets a skipped row, and
\* stays due.
Dispatches(J) ==
    LET busy   == {j \in Due(J) : running[j].on}
        starts == Due(J) \ busy
    IN  \E E \in SUBSET Server :
        /\ jobs' = [j \in Job |-> IF j \in starts THEN Advanced(J[j], E) ELSE J[j]]
        /\ running' = [j \in Job |->
                     IF j \in starts THEN Begun(J[j], E)
                     ELSE IF j \in busy THEN [running[j] EXCEPT !.passed = Passed(@)]
                     ELSE running[j]]
        /\ rows' = [j \in Job |-> IF j \in busy THEN Capped(Append(rows[j], "skipped"))
                                  ELSE rows[j]]
        /\ fresh' = [j \in Job |-> fresh[j] /\ j \notin starts]
        /\ ticked' = TRUE
        /\ forgone' = {}

-----------------------------------------------------------------------------
MaintenanceInit ==
    /\ now = 0 /\ ticked = FALSE /\ up = FALSE
    /\ jobs = [j \in Job |-> NoJob]
    /\ rows = [j \in Job |-> <<>>]
    /\ running = [j \in Job |-> Idle]
    /\ alarms = {}
    /\ fresh = [j \in Job |-> FALSE]
    /\ forgone = {}

\* seedDefaults, then start with its immediate tick.
Boot ==
    /\ ~up
    /\ up' = TRUE
    /\ LET seeded == [j \in Job |-> IF j \in Seeds /\ ~jobs[j].there
                                    THEN Job_(TRUE, SeedPeriod, {}) ELSE jobs[j]]
       IN  Dispatches(Recomputed(seeded))
    /\ UNCHANGED <<now, alarms>>

MaintenanceTick ==
    /\ up /\ ~ticked
    /\ Dispatches(jobs)
    /\ UNCHANGED <<now, up, alarms>>

MinutePasses ==
    /\ up => ticked
    /\ now' = (now + 1) % Cycle
    /\ ticked' = FALSE
    /\ jobs' = [j \in Job |-> [jobs[j] EXCEPT !.next = IF @ > 0 THEN @ - 1 ELSE @]]
    /\ fresh' = [j \in Job |-> jobs[j].there /\ (fresh[j] \/ now' % jobs[j].every = 0)]
    /\ forgone' = {}
    /\ UNCHANGED <<up, rows, running, alarms>>

\* Nothing is written when the process dies.
ProcessDies ==
    /\ up
    /\ up' = FALSE
    /\ running' = [j \in Job |-> Idle]
    /\ forgone' = {}
    /\ UNCHANGED <<now, ticked, jobs, rows, alarms, fresh>>

-----------------------------------------------------------------------------
Overall(got) ==
    LET S == ToSet(got)
    IN  CASE S \subseteq {"success"}          -> "success"
          [] "success" \in S                  -> "partial"
          [] S = {"timeout"}                  -> "timeout"
          [] OTHER                            -> "failed"

\* Rows are ordered by the time their command began.
WithRow(j, o) ==
    Capped(InsertAt(rows[j], Len(rows[j]) + 1 -
              (IF running[j].passed < Len(rows[j]) THEN running[j].passed ELSE Len(rows[j])), o))

\* The command ends on a server; after the last one, the run is summarized.
\* A row is written even for a job that was deleted meanwhile, the summary
\* is not.
CommandEnds(j, o) ==
    LET got == Append(running[j].got, o)
    IN  /\ running[j].on /\ running[j].left # <<>>
        /\ rows' = [rows EXCEPT ![j] = WithRow(j, o)]
        /\ alarms' = IF o = "success" THEN alarms
                     ELSE alarms \union {<<j, Head(running[j].left)>>}
        /\ \/ /\ Len(running[j].left) > 1
              /\ running' = [running EXCEPT ![j].left = Tail(@), ![j].got = got, ![j].passed = 0]
              /\ UNCHANGED jobs
           \/ /\ Len(running[j].left) = 1
              /\ running' = [running EXCEPT ![j] = Idle]
              /\ jobs' = IF jobs[j].there THEN [jobs EXCEPT ![j].last = Overall(got)]
                        ELSE jobs
        /\ forgone' = {}
        /\ UNCHANGED <<now, ticked, up, fresh>>

\* What a request does to the jobs that are due.
Forgoing == forgone' = Due(jobs) \ Due(jobs')

\* POST /maintenance/:id/run, of a disabled job too.
RunJobNow(j) ==
    /\ up /\ jobs[j].there /\ ~running[j].on
    /\ \E E \in SUBSET Server :
          /\ running' = [running EXCEPT ![j] = Begun(jobs[j], E)]
          /\ jobs' = [jobs EXCEPT ![j] = Advanced(jobs[j], E)]
    /\ Forgoing
    /\ UNCHANGED <<now, ticked, up, rows, alarms, fresh>>

-----------------------------------------------------------------------------
\* POST, PUT and DELETE /maintenance.

CreateJob(j, on, p, S) ==
    /\ up /\ ~jobs[j].there
    /\ jobs' = Recomputed([jobs EXCEPT ![j] = Job_(on, p, S)])
    /\ Forgoing
    /\ UNCHANGED <<now, ticked, up, rows, running, alarms, fresh>>

UpdateJob(j, on, p, S) ==
    /\ up /\ jobs[j].there
    /\ jobs' = Recomputed([jobs EXCEPT ![j].enabled = on, ![j].every = p, ![j].targets = S])
    /\ Forgoing
    /\ UNCHANGED <<now, ticked, up, rows, running, alarms, fresh>>

\* The rows go with the job; its run goes on.
DeleteJob(j) ==
    /\ up /\ jobs[j].there
    /\ jobs' = [jobs EXCEPT ![j] = NoJob]
    /\ rows' = [rows EXCEPT ![j] = <<>>]
    /\ running' = [running EXCEPT ![j].passed = 0]
    /\ fresh' = [fresh EXCEPT ![j] = FALSE]
    /\ Forgoing
    /\ UNCHANGED <<now, ticked, up, alarms>>

\* An operator closes the incident of a failure.
CloseIncident(a) ==
    /\ alarms' = alarms \ {a}
    /\ forgone' = {}
    /\ UNCHANGED <<now, ticked, up, jobs, rows, running, fresh>>

Operator(j) ==
    \/ RunJobNow(j) \/ DeleteJob(j)
    \/ \E on \in BOOLEAN, p \in Periods, S \in Targets :
          CreateJob(j, on, p, S) \/ UpdateJob(j, on, p, S)

MaintenanceNext ==
    \/ Boot \/ MaintenanceTick \/ MinutePasses \/ ProcessDies
    \/ \E j \in Job : \/ Operator(j)
                      \/ \E o \in Outcome : CommandEnds(j, o)
    \/ \E a \in alarms : CloseIncident(a)

MaintenanceSpec == MaintenanceInit /\ [][MaintenanceNext]_maintenanceVars

\* Time passes, the tick is an interval timer, and a command has a timeout.
MaintenanceFairness ==
    /\ WF_maintenanceVars(MinutePasses) /\ WF_maintenanceVars(MaintenanceTick)
    /\ \A j \in Job : WF_maintenanceVars(\E o \in Outcome : CommandEnds(j, o))

MaintenanceFairSpec == MaintenanceSpec /\ MaintenanceFairness

-----------------------------------------------------------------------------
(* Types; a job that is enabled is armed, at most one period ahead; only a *)
(* live process has runs.                                                  *)
MaintenanceTypeOK ==
    /\ now \in 0..(Cycle - 1)
    /\ {ticked, up} \subseteq BOOLEAN
    /\ jobs \in [Job -> [there : BOOLEAN, enabled : BOOLEAN, every : Periods,
                        targets : Targets \union {{}}, next : Nat \union {Null},
                        last : JobStatus]]
    /\ \A j \in Job : jobs[j].there /\ jobs[j].enabled => jobs[j].next \in 0..jobs[j].every
    /\ rows \in [Job -> Seq(RowStatus)]
    /\ \A j \in Job : Len(rows[j]) <= MaxRuns
    /\ \A j \in Job : /\ running[j].left # <<>> => running[j].on
                      /\ running[j].on => up
                      /\ running[j].passed \in 0..MaxRuns
    /\ alarms \subseteq Job \X Server
    /\ fresh \in [Job -> BOOLEAN]
    /\ forgone \subseteq Job

(* A window of a job is run by the tick once at most: however runs, edits, *)
(* deletions and restarts fall, the tick starts a job only when a window   *)
(* of its schedule has come since the tick last started it; and a process  *)
(* that was down never makes up for more than that.                        *)
NoWindowTwice ==
    [][\A j \in Job :
         ~running[j].on /\ running'[j].on /\ ticked' # ticked /\ up => fresh[j]]_maintenanceVars

(* A job that is due is started by a tick, after the run before it if that *)
(* is still on: a run of it is on, or the job has failed for want of       *)
(* servers.  Two things may come in between.  The process may die; and a   *)
(* request may make the job not due, for it deletes or disables the job or *)
(* runs it by hand, or it creates or edits any job, whereupon              *)
(* recomputeAllNextRuns puts every job off to its next window.             *)
DueJobsRun ==
    \A j \in Job :
        up /\ j \in Due(jobs) ~>
            \/ ~fresh[j] /\ (running[j].on \/ jobs[j].last = "failed")
            \/ ~up
            \/ j \in forgone

=============================================================================
