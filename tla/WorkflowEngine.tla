--------------------------- MODULE WorkflowEngine ---------------------------
(***************************************************************************)
(* WorkflowEngine: staged runs of workflow templates.  Runs are started    *)
(* for an incident (the fallback of AgentIncidentHandler), by an operator, *)
(* or by the engine's own minute timer; operators and agents then set the  *)
(* status of one stage at a time, and the engine makes the run consistent  *)
(* again.  A second timer of the server ends runs whose incident is over,  *)
(* whose incident is gone, or that nobody has touched for two hours.       *)
(*                                                                         *)
(* Every handler is synchronous and ends by writing all the runs to disk,  *)
(* so the file holds what memory holds; of the templates, only the custom  *)
(* ones are written, and only when one of them is added, edited or         *)
(* deleted.  Runs are numbered in the order of createdAt.                  *)
(***************************************************************************)
EXTENDS Integers, Sequences, FiniteSets

CONSTANTS
    BuiltIn,        \* ids of the built-in templates
    Custom,         \* ids a custom template may have
    StageLists,     \* the lists of stage names a template may have
    BuiltInStages,  \* built-in id -> its list
    Incident,       \* incidents; their runs have the task id inc-<incident>
    NoIncident,     \* stands for the task id of a scheduled run
    Intervals,      \* scheduleInterval of a template, in minutes; 0 is off
    MaxRuns,        \* WORKFLOW_MAX_RUNS (2000 in the code)
    MaxStarted,     \* bound: runs ever started
    MaxRequests,    \* bound: requests per behaviour
    MaxRestarts,    \* bound: process restarts per behaviour
    MaxTime         \* bound: minutes

ASSUME ListsType ==
    /\ \A l \in StageLists : l \in Seq(STRING) /\ Len(l) > 0
    /\ BuiltInStages \in [BuiltIn -> StageLists]
    /\ BuiltIn \intersect Custom = {}
    /\ NoIncident \notin Incident
ASSUME BuiltInIsFinite == IsFiniteSet(BuiltIn)
ASSUME BoundsAreNat ==
    /\ Intervals \subseteq Nat
    /\ MaxRuns \in Nat \ {0} /\ MaxStarted \in Nat /\ MaxRequests \in Nat
    /\ MaxRestarts \in Nat /\ MaxTime \in Nat

VARIABLES
    templates,  \* the templates in memory
    stored,     \* the custom templates on disk
    runs,       \* the runs, in memory and on disk
    started,    \* number of runs ever started
    incident,   \* status of each incident, as the recovery timer sees it
    now,        \* minutes
    requests,   \* requests so far
    restarts    \* restarts so far

vars == <<templates, stored, runs, started, incident, now,
          requests, restarts>>

-----------------------------------------------------------------------------
Template    == BuiltIn \union Custom
RunId       == 1..MaxStarted
StageStatus == {"pending", "in_progress", "done", "failed", "skipped"}
NoRun       == [status |-> "none"]
Active(rs)  == {r \in RunId : rs[r].status = "active"}
Kept(rs)    == {r \in RunId : rs[r].status # "none"}

\* Index of the first element of a list that is in S, or 0.
First(list, S) ==
    LET hits == {i \in DOMAIN list : list[i] \in S}
    IN  IF hits = {} THEN 0
        ELSE CHOOSE i \in hits : \A j \in hits : i <= j

\* lastScheduledAt is a time, or 0: a template never scheduled is long due.
Fresh(stages) == [stages |-> stages, every |-> 0, last |-> 0]

\* Every stage in progress but the k-th goes back to pending.
Demoted(stages, k) ==
    [i \in DOMAIN stages |-> IF i # k /\ stages[i] = "in_progress"
                             THEN "pending" ELSE stages[i]]

\* Faulty variant: the first stage in progress is chosen, the others stay.
NormalizedLeavingOthers(R) ==
    LET failed  == First(R.stages, {"failed"})
        going   == First(R.stages, {"in_progress"})
        pending == First(R.stages, {"pending"})
        k       == IF going # 0 THEN going ELSE pending
    IN  CASE failed # 0 ->
               [R EXCEPT !.status = "failed", !.at = failed]
          [] failed = 0 /\ k = 0 ->
               [R EXCEPT !.status = "completed", !.at = Len(R.stages)]
          [] OTHER ->
               [R EXCEPT !.status = "active", !.at = k,
                         !.stages[k] = "in_progress"]

\* A failed stage decides; then the run is over when every stage is done or
\* skipped; otherwise its first stage in progress, or else its first pending
\* stage, is the current one.
Normalized(R) ==
    LET failed  == First(R.stages, {"failed"})
        going   == First(R.stages, {"in_progress"})
        pending == First(R.stages, {"pending"})
        k       == IF going # 0 THEN going ELSE pending
    IN  CASE failed # 0 ->
               [R EXCEPT !.status = "failed", !.at = failed,
                         !.stages = Demoted(@, failed)]
          [] failed = 0 /\ k = 0 ->
               [R EXCEPT !.status = "completed", !.at = Len(R.stages)]
          [] OTHER ->
               [R EXCEPT !.status = "active", !.at = k,
                         !.stages = Demoted([@ EXCEPT ![k] = "in_progress"],
                                            k)]

-----------------------------------------------------------------------------
(* Starting runs.                                                          *)

NewRun(t, i) ==
    LET names == templates[t].stages
    IN  [template |-> t, incident |-> i, names |-> names, status |-> "active",
         at |-> 1, stages |-> [k \in DOMAIN names |->
                                 IF k = 1 THEN "in_progress" ELSE "pending"]]

\* Faulty variant: trimmed before the new run is added.
TrimmedOneLate(rs) ==
    [r \in RunId |-> IF Cardinality({s \in Kept(rs) : s > r}) > MaxRuns
                     THEN NoRun ELSE rs[r]]

\* The oldest runs beyond the limit are forgotten, whatever their status.
Trimmed(rs) ==
    [r \in RunId |-> IF Cardinality({s \in Kept(rs) : s > r}) >= MaxRuns
                     THEN NoRun ELSE rs[r]]

\* An active run of the same template and task is returned as it is.  The
\* webhook trigger is one such request for each template that it matches.
StartRun(t, i) ==
    /\ t \in DOMAIN templates
    /\ requests < MaxRequests
    /\ requests' = requests + 1
    /\ IF \E r \in Active(runs) : runs[r].template = t /\ runs[r].incident = i
       THEN UNCHANGED <<runs, started>>
       ELSE /\ started < MaxStarted
            /\ started' = started + 1
            /\ runs' = Trimmed([runs EXCEPT ![started + 1] = NewRun(t, i)])
    /\ UNCHANGED <<templates, stored, incident, now, restarts>>

Due(t, time) ==
    /\ templates[t].every > 0
    /\ time - templates[t].last >= templates[t].every

Marked(due, time) ==
    [t \in DOMAIN templates |->
        IF t \in due THEN [templates[t] EXCEPT !.last = time]
        ELSE templates[t]]

\* A minute passes and _checkSchedules starts a run of every template that
\* is due.  Their task ids are all different, so none is a duplicate; the
\* mark of the start is kept in memory only.
SchedulerTick ==
    LET due == {t \in DOMAIN templates : Due(t, now + 1)}
    IN  /\ now < MaxTime
        /\ now' = now + 1
        /\ started + Cardinality(due) <= MaxStarted
        /\ started' = started + Cardinality(due)
        /\ \E id \in [due -> RunId] :
             /\ {id[t] : t \in due} = (started + 1)..started'
             /\ runs' = Trimmed([r \in RunId |->
                          IF \E t \in due : id[t] = r
                          THEN NewRun(CHOOSE t \in due : id[t] = r, NoIncident)
                          ELSE runs[r]])
        /\ templates' = Marked(due, now')
        /\ UNCHANGED <<stored, incident, requests, restarts>>

-----------------------------------------------------------------------------
(* Moving a run along.                                                     *)

OfRuns ==
    /\ requests < MaxRequests
    /\ requests' = requests + 1
    /\ UNCHANGED <<templates, stored, started, incident, now, restarts>>

OpensNext(stages, k, s) ==
    s = "done" /\ k < Len(stages) /\ stages[k + 1] = "pending"

\* The stage is found by name, and may be set to any status from any status,
\* in a run that has ended as well.
UpdateStage(r, name, s) ==
    LET R     == runs[r]
        k     == First(R.names, {name})
        next  == OpensNext(R.stages, k, s)
        moved == [j \in DOMAIN R.stages |->
                    CASE j = k            -> s
                      [] j = k + 1 /\ next -> "in_progress"
                      [] OTHER            -> R.stages[j]]
    IN  /\ R.status # "none"
        /\ k # 0
        /\ OfRuns
        /\ runs' = [runs EXCEPT ![r] = Normalized([R EXCEPT !.stages = moved])]

ReconcileRun(r) ==
    /\ runs[r].status # "none"
    /\ OfRuns
    /\ runs' = [runs EXCEPT ![r] = Normalized(runs[r])]

\* Faulty variant: a run whose incident is gone is kept.
VerdictIgnoringOrphans(R, old) ==
    CASE R.incident \notin Incident              -> "keep"
      [] incident[R.incident] = "resolved"       -> "completed"
      [] incident[R.incident] = "open" /\ old    -> "failed"
      [] OTHER                                   -> "keep"

\* What reconcileWorkflowBacklog makes of an active run from the status its
\* incident has at that moment, and from whether the run is old: past the
\* one-hour grace of an orphan, or past the two hours of a stale run.
Verdict(R, old) ==
    CASE R.incident \notin Incident              -> "keep"
      [] incident[R.incident] = "resolved"       -> "completed"
      [] incident[R.incident] # "resolved" /\ old -> "failed"
      [] OTHER                                   -> "keep"

\* Faulty variant: a run is never superseded.
NeverSuperseded(r) == FALSE

\* A newer active run of the same template and task exists.
Superseded(r) ==
    /\ runs[r].incident # NoIncident
    /\ \E s \in Active(runs) : /\ s > r
                              /\ runs[s].template = runs[r].template
                              /\ runs[s].incident = runs[r].incident

Terminated(R, verdict) ==
    IF verdict = "completed"
    THEN [R EXCEPT !.status = verdict, !.at = Len(R.stages),
                   !.stages = [k \in DOMAIN R.stages |->
                                 IF R.stages[k] = "done" THEN "done"
                                 ELSE "skipped"]]
    ELSE [R EXCEPT !.status = verdict, !.stages[R.at] = "failed"]

\* What a pass of recoverActiveRuns over all active runs leaves; old are those
\* that have not been updated for longer than the grace period.
Recovered(old) ==
    LET verdict(r) == IF Superseded(r) THEN "failed"
                      ELSE Verdict(runs[r], r \in old)
    IN  [r \in RunId |-> IF r \in Active(runs) /\ verdict(r) # "keep"
                         THEN Terminated(runs[r], verdict(r)) ELSE runs[r]]

RecoverActiveRuns(old) ==
    /\ runs' = Recovered(old)
    /\ UNCHANGED <<templates, stored, started, incident, now,
                   requests, restarts>>

-----------------------------------------------------------------------------
(* Templates.                                                              *)

OfTemplates ==
    /\ requests < MaxRequests
    /\ requests' = requests + 1
    /\ UNCHANGED <<runs, started, incident, now, restarts>>

CustomOf(ts) == [t \in DOMAIN ts \intersect Custom |-> ts[t]]

AddTemplate(t, stages) ==
    /\ t \in Custom \ DOMAIN templates
    /\ OfTemplates
    /\ templates' = [u \in DOMAIN templates \union {t} |->
                       IF u = t THEN Fresh(stages) ELSE templates[u]]
    /\ stored' = CustomOf(templates')

UpdateTemplate(t, stages) ==
    /\ t \in Custom \intersect DOMAIN templates
    /\ OfTemplates
    /\ templates' = [templates EXCEPT ![t].stages = stages]
    /\ stored' = CustomOf(templates')

DeleteTemplate(t) ==
    /\ t \in Custom \intersect DOMAIN templates
    /\ \A r \in Active(runs) : runs[r].template # t
    /\ OfTemplates
    /\ templates' = [u \in DOMAIN templates \ {t} |-> templates[u]]
    /\ stored' = CustomOf(templates')

\* The schedule is changed in memory only, and seeded when it is first set.
UpdateTemplateSchedule(t, every) ==
    /\ t \in DOMAIN templates
    /\ OfTemplates
    /\ templates' = [templates EXCEPT
                       ![t].every = every,
                       ![t].last = IF every > 0 /\ @ = 0 THEN now ELSE @]
    /\ UNCHANGED stored

-----------------------------------------------------------------------------
(* The incidents, which other components move, and the death of the        *)
(* process.                                                                *)

IncidentMoves(i, s) ==
    /\ requests < MaxRequests
    /\ requests' = requests + 1
    /\ incident[i] # "gone"
    /\ incident' = [incident EXCEPT ![i] = s]
    /\ UNCHANGED <<templates, stored, runs, started, now, restarts>>

\* The built-in templates come back without a schedule, the custom ones as
\* they were last written; startScheduler seeds those that have a schedule
\* and no mark.
Booted ==
    [t \in BuiltIn \union DOMAIN stored |->
        IF t \in BuiltIn THEN Fresh(BuiltInStages[t])
        ELSE [stored[t] EXCEPT !.last = IF stored[t].every > 0 /\ @ = 0
                                        THEN now ELSE @]]

Restart ==
    /\ restarts < MaxRestarts
    /\ restarts' = restarts + 1
    /\ templates' = Booted
    /\ UNCHANGED <<stored, runs, started, incident, now, requests>>

-----------------------------------------------------------------------------
Init ==
    /\ templates = [t \in BuiltIn |-> Fresh(BuiltInStages[t])]
    /\ stored = [t \in {} |-> Fresh(<<>>)]
    /\ runs = [r \in RunId |-> NoRun]
    /\ started = 0
    /\ incident = [i \in Incident |-> "open"]
    /\ now = 1
    /\ requests = 0
    /\ restarts = 0

StageNames == UNION {{l[k] : k \in DOMAIN l} : l \in StageLists}

Next ==
    \/ \E t \in Template, i \in Incident : StartRun(t, i)
    \/ SchedulerTick
    \/ \E r \in RunId, name \in StageNames, s \in StageStatus :
          UpdateStage(r, name, s)
    \/ \E r \in RunId : ReconcileRun(r)
    \/ \E old \in SUBSET Active(runs) : RecoverActiveRuns(old)
    \/ \E t \in Custom, l \in StageLists : AddTemplate(t, l)
    \/ \E t \in Custom, l \in StageLists : UpdateTemplate(t, l)
    \/ \E t \in Custom : DeleteTemplate(t)
    \/ \E t \in Template, every \in Intervals :
          UpdateTemplateSchedule(t, every)
    \/ \E i \in Incident, s \in {"open", "resolved", "gone"} :
          IncidentMoves(i, s)
    \/ Restart

Spec == Init /\ [][Next]_vars

\* The recovery timer keeps firing, and a run that nobody touches gets old.
Fairness == WF_vars(RecoverActiveRuns(Active(runs)))

FairSpec == Spec /\ Fairness

-----------------------------------------------------------------------------
(* Properties.                                                             *)

\* Every variable has its type, and no more runs are kept than the limit.
TypeOK ==
    /\ DOMAIN templates \subseteq Template
    /\ \A t \in DOMAIN templates : /\ templates[t].stages \in StageLists
                                  /\ templates[t].every \in Intervals \union {0}
                                  /\ templates[t].last \in 0..now
    /\ DOMAIN stored \subseteq Custom
    /\ \A r \in Kept(runs) : runs[r].at \in DOMAIN runs[r].stages
    /\ Cardinality(Kept(runs)) <= MaxRuns
    /\ started \in 0..MaxStarted

\* The status and the current stage of a run follow from its stages, so that
\* reconcileRun finds nothing to do, however its stages were set, out of
\* order or after its end, and whoever ended it.
StagesAgreeWithStatus ==
    \A r \in Kept(runs) :
        LET R     == runs[r]
            In(S) == {k \in DOMAIN R.stages : R.stages[k] \in S}
        IN  CASE R.status = "active" ->
                   In({"in_progress"}) = {R.at} /\ In({"failed"}) = {}
              [] R.status = "failed" ->
                   In({"in_progress"}) = {} /\ R.stages[R.at] = "failed"
              [] R.status = "completed" ->
                   In({"done", "skipped"}) = DOMAIN R.stages

\* An ended run that is reopened may leave two active runs of a template for
\* one incident, which startRun alone would never make; a recovery, whenever
\* it comes and whatever is old, leaves at most one of them.
RecoveryLeavesNoTwins ==
    \A old \in SUBSET Active(runs) :
        LET after == Recovered(old)
        IN  \A r, s \in Active(after) :
               /\ after[r].incident = after[s].incident
               /\ after[r].incident # NoIncident
               /\ after[r].template = after[s].template
               => r = s

\* The run of an incident does not stay active for ever: it ends when the
\* incident is resolved or gone, and at the latest when it is stale.
FallbackRunsEnd ==
    \A r \in RunId :
        LET Pending == r \in Active(runs) /\ runs[r].incident \in Incident
        IN  Pending ~> ~Pending

=============================================================================
