-------------------------- MODULE IncidentResponse --------------------------
(***************************************************************************)
(* The life of one incident: the row that IncidentManager keeps, the agent *)
(* that analyses it (AgentIncidentHandler), the recipe that is tried when  *)
(* the agent gives up (IncidentAutoRemediator), the verification of a      *)
(* resolution, and the escalation to people (EscalationPipeline).          *)
(*                                                                         *)
(* The row is the only thing they share, and all of them await: the agent, *)
(* the actions of a recipe and the verifier take minutes, in which         *)
(* operators, monitors, runbooks and the agent's own tools write the row.  *)
(* Incidents are coupled only by the tick of the pipeline, which goes      *)
(* through a list read at its start and waits for the alerts of other      *)
(* incidents on the way.                                                   *)
(*                                                                         *)
(* Agent assignment, notes, fallback workflows and new incidents for the   *)
(* same condition write nothing that is modelled here.                     *)
(***************************************************************************)
EXTENDS Integers, FiniteSets

CONSTANTS
    Critical,     \* the highest severity; 0 is the lowest
    MinSeverity,  \* the lowest severity that the pipeline handles
    PlanLength,   \* actions of a recipe
    MaxChecks,    \* bound: verifications in progress
    MaxDue        \* bound: rows that ticks still have to act on

ASSUME ConfigType ==
    /\ Critical \in Nat \ {0}
    /\ MinSeverity \in 0..Critical
    /\ PlanLength \in Nat \ {0}
    /\ MaxChecks \in Nat /\ MaxDue \in Nat

VARIABLES
    incident,   \* the row, and what the pipeline remembers of it
    loop,       \* the analysis in flight
    attempted,  \* whether a recipe was tried since the start of the process
    checks,     \* verifications that reopen, with what they read of the row
    due,        \* what ticks have read and not yet acted on
    dropped     \* history: since the last analysis began, it or a timer was lost

vars == <<incident, loop, attempted, checks, due, dropped>>

-----------------------------------------------------------------------------
(* The row.  aged tells, at level 3, that escalatedAt is l4TimeoutMs old.   *)
(* The timer of level 3 and notified (resolutionNotified) are in memory,    *)
(* and paged is history: people were alerted.                               *)

Severity == 0..Critical
Level == 0..4
Status == {"open", "investigating", "mitigating", "resolved", "closed"}

Incident == [status : Status \union {"none"}, severity : Severity,
             level : Level, aged : BOOLEAN,
             timer : BOOLEAN, notified : BOOLEAN, paged : BOOLEAN]

Absent == [status |-> "none", severity |-> 0, level |-> 0, aged |-> FALSE,
           timer |-> FALSE, notified |-> FALSE, paged |-> FALSE]

\* What a verification keeps of the row.
Snapshot == [severity : Severity, level : Level, aged : BOOLEAN]

Exists(i) == i.status # "none"
Finished(i) == i.status \in {"resolved", "closed"}
Open(i) == Exists(i) /\ ~Finished(i)

\* shouldHandle
Handled(severity) == severity >= MinSeverity

\* Faulty variant: the highest severity is raised as well.
EscalatedPastCritical(i) ==
    [i EXCEPT !.status = "investigating", !.severity = @ + 1]

\* escalate
Escalated(i) ==
    [i EXCEPT !.status = "investigating",
              !.severity = IF @ < Critical THEN @ + 1 ELSE @]

Resolved(i) == [i EXCEPT !.status = "resolved"]

\* setEscalation, which does nothing when the level is repeated.
AtLevel(i, n) ==
    IF i.level = n /\ n # 0 THEN i
    ELSE [i EXCEPT !.level = n, !.aged = FALSE]

\* recordLevel1 and recordLevel2
Recorded(i, severity, n) == IF Handled(severity) THEN AtLevel(i, n) ELSE i

\* recordResolution, and what tick does with a finished incident; people are
\* told if they were alerted, once.
WoundUp(i, tell) ==
    [AtLevel(i, 0) EXCEPT !.timer = FALSE, !.notified = @ \/ tell]

\* Faulty variant: an incident at level 2 is taken for one at level 3.
PagedBelowTwo(i) ==
    IF Finished(i) \/ ~Handled(i.severity) \/ i.level >= 2 THEN i
    ELSE [AtLevel(i, 3) EXCEPT !.paged = TRUE]

\* escalateToHuman
Paged(i) ==
    IF Finished(i) \/ ~Handled(i.severity) \/ i.level >= 3 THEN i
    ELSE [AtLevel(i, 3) EXCEPT !.paged = TRUE]

\* Faulty variant: a recipe that was tried is taken for a recipe that
\* worked.
HandedOffToRecipe(i, severity, recipe) ==
    IF ~Handled(severity) \/ Finished(i) THEN i
    ELSE IF recipe THEN Recorded(i, i.severity, 2)
    ELSE Paged(i)

\* handleFallback, after an analysis that began at the given severity; recipe
\* tells whether a recipe matched.
HandedOff(i, severity, recipe) ==
    IF ~Handled(severity) \/ Finished(i) THEN i
    ELSE IF recipe THEN [Recorded(i, i.severity, 2) EXCEPT !.timer = TRUE]
    ELSE Paged(i)

-----------------------------------------------------------------------------
(* The analysis in flight: what it awaits, the severity that the incident   *)
(* had when it began, the actions of the recipe that have not ended, and    *)
(* whether all others succeeded.                                            *)

Idle == [at |-> "idle", severity |-> 0, left |-> 0, good |-> FALSE]

Loop == [at : {"idle", "agent", "limit", "action", "recipe"},
         severity : Severity, left : 0..PlanLength, good : BOOLEAN]

Busy == loop.at # "idle"

\* The end of runInternal: a finished incident is wound up.
LoopEnds(i) ==
    /\ loop' = Idle
    /\ incident' = IF Finished(i) THEN WoundUp(i, i.level >= 3) ELSE i

\* The end of runFallback, when nothing else has helped.
HandOff(i, recipe) == LoopEnds(HandedOff(i, loop.severity, recipe))

\* runFor, called for the row i; a second analysis is not started.
RunFor(i) ==
    IF Busy THEN incident' = i /\ UNCHANGED <<loop, dropped>>
    ELSE /\ incident' = Recorded(i, i.severity, 1)
         /\ loop' = [Idle EXCEPT !.at = "agent", !.severity = i.severity]
         /\ dropped' = FALSE

\* dispatchIncidentToAgent, with or without a healthy agent.
Dispatched(i) ==
    \/ RunFor(i)
    \/ incident' = Escalated(i) /\ UNCHANGED <<loop, dropped>>

\* verifyResolution up to the call of the verifier, for the row i.
CheckBegins(i) ==
    /\ checks' = checks \union
          {[severity |-> i.severity, level |-> i.level, aged |-> i.aged]}
    /\ Cardinality(checks') <= MaxChecks

-----------------------------------------------------------------------------
(* Operators, monitors, runbooks and tools: any of them at any moment.      *)

\* create, when no active incident reports the same condition.
Create(severity) ==
    /\ ~Exists(incident)
    /\ Dispatched([Absent EXCEPT !.status = "open", !.severity = severity])
    /\ UNCHANGED <<attempted, checks, due>>

\* update, with a status or a severity; with both it does the same as two.
Update ==
    /\ Exists(incident)
    /\ \/ \E s \in Status : incident' = [incident EXCEPT !.status = s]
       \/ \E n \in Severity : incident' = [incident EXCEPT !.severity = n]
    /\ UNCHANGED <<loop, attempted, checks, due, dropped>>

\* The button of the operator: escalate, and analyse again.
EscalateAndDispatch ==
    /\ Exists(incident)
    /\ Dispatched(Escalated(incident))
    /\ UNCHANGED <<attempted, checks, due>>

\* A breached deadline, a runbook or a tool escalates.
Escalate ==
    /\ Exists(incident)
    /\ incident' = Escalated(incident)
    /\ UNCHANGED <<loop, attempted, checks, due, dropped>>

Resolve ==
    /\ Exists(incident)
    /\ incident' = Resolved(incident)
    /\ UNCHANGED <<loop, attempted, checks, due, dropped>>

\* The operator's resolve, followed by a verification.
ResolveAndVerify ==
    /\ Exists(incident)
    /\ incident' = Resolved(incident)
    /\ CheckBegins(incident)
    /\ UNCHANGED <<loop, attempted, due, dropped>>

\* resolveActiveByRef, when a monitor finds the condition gone, and
\* sweepStale, which does not verify.
ResolveActive ==
    /\ Open(incident)
    /\ incident' = Resolved(incident)
    /\ CheckBegins(incident) \/ UNCHANGED checks
    /\ UNCHANGED <<loop, attempted, due, dropped>>

Close ==
    /\ Exists(incident)
    /\ incident' = [incident EXCEPT !.status = "closed"]
    /\ UNCHANGED <<loop, attempted, checks, due, dropped>>

-----------------------------------------------------------------------------
(* Verifications.                                                           *)

CheckPasses(c) ==
    /\ c \in checks
    /\ checks' = checks \ {c}
    /\ UNCHANGED <<incident, loop, attempted, due, dropped>>

\* The row that was read is written back.
CheckFails(c) ==
    /\ c \in checks
    /\ checks' = checks \ {c}
    /\ incident' = [incident EXCEPT !.status = "investigating",
                                    !.severity = c.severity,
                                    !.level = c.level, !.aged = c.aged]
    /\ UNCHANGED <<loop, attempted, due, dropped>>

-----------------------------------------------------------------------------
(* The analysis and its fallbacks.                                          *)

\* runFallback up to the first action of the recipe, if one matches that was
\* not tried before; no action is begun for a finished incident.
Fallback(recipe) ==
    IF recipe /\ ~attempted
    THEN /\ attempted' = TRUE
         /\ IF Finished(incident) THEN HandOff(incident, TRUE)
            ELSE /\ loop' = [loop EXCEPT !.at = "action", !.left = PlanLength,
                                         !.good = TRUE]
                 /\ UNCHANGED incident
    ELSE HandOff(incident, recipe) /\ UNCHANGED attempted

\* executeTaskDetailed is over and the incident resolved: by a tool, by
\* somebody else, or by the handler because tools were used with success.
\* The row is verified before it is wound up.
AgentSucceeds ==
    /\ loop.at = "agent"
    /\ LoopEnds(IF Finished(incident) THEN incident ELSE Resolved(incident))
    /\ CheckBegins(incident)
    /\ UNCHANGED <<attempted, due, dropped>>

\* A limit was reached after tools were used with success.
AgentReachesLimit ==
    /\ loop.at = "agent" /\ ~Finished(incident)
    /\ loop' = [loop EXCEPT !.at = "limit"]
    /\ UNCHANGED <<incident, attempted, checks, due, dropped>>

\* The agent did nothing, or threw, which is not compared with the row.
AgentFails(recipe) ==
    /\ loop.at = "agent"
    /\ Fallback(recipe)
    /\ UNCHANGED <<checks, due, dropped>>

LimitChecked(ok, recipe) ==
    /\ loop.at = "limit"
    /\ IF ok THEN LoopEnds(Resolved(incident)) /\ UNCHANGED attempted
       ELSE Fallback(recipe)
    /\ UNCHANGED <<checks, due, dropped>>

\* After execute: only a recipe without a failure is worth a verification.
RecipeEnds(i, good) ==
    IF good
    THEN /\ incident' = i
         /\ loop' = [loop EXCEPT !.at = "recipe", !.left = 0, !.good = FALSE]
    ELSE HandOff(i, TRUE)

\* An action has ended.  After the last one the status is set; before any
\* other the row is looked at.
ActionEnds(ok) ==
    LET good == loop.good /\ ok
    IN  /\ loop.at = "action"
        /\ IF loop.left = 1
           THEN RecipeEnds([incident EXCEPT !.status = "mitigating"], good)
           ELSE IF Finished(incident) THEN RecipeEnds(incident, good)
           ELSE /\ loop' = [loop EXCEPT !.left = @ - 1, !.good = good]
                /\ UNCHANGED incident
        /\ UNCHANGED <<attempted, checks, due, dropped>>

RecipeChecked(ok) ==
    /\ loop.at = "recipe"
    /\ IF ok THEN LoopEnds(Resolved(incident)) ELSE HandOff(incident, TRUE)
    /\ UNCHANGED <<attempted, checks, due, dropped>>

-----------------------------------------------------------------------------
(* The timer of level 3 and the tick.                                       *)

TimerFires ==
    /\ incident.timer
    /\ incident' = Paged([incident EXCEPT !.timer = FALSE])
    /\ UNCHANGED <<loop, attempted, checks, due, dropped>>

\* Half an hour has passed, for the row and for what was read of it.
Age ==
    LET Aged(i) == [i EXCEPT !.aged = @ \/ i.level = 3]
    IN  /\ incident' = Aged(incident)
        /\ checks' = {Aged(c) : c \in checks}
        /\ UNCHANGED <<loop, attempted, due, dropped>>

Intent == {"reset", "reset and tell", "promote", "promote critical"}

\* Faulty variant: a recipe that takes too long counts as an alert that was
\* not heard.
IntentionsFromTwo(i) ==
    IF i.level = 0 THEN {}
    ELSE IF Finished(i)
    THEN {IF i.level >= 3 THEN "reset and tell" ELSE "reset"}
    ELSE IF i.level = 2 \/ (i.level = 3 /\ i.aged)
    THEN {IF i.severity = Critical THEN "promote critical" ELSE "promote"}
    ELSE {}

\* Faulty variant: the comparison of the level is one too high.
IntentionsAboveThree(i) ==
    IF i.level = 0 THEN {}
    ELSE IF Finished(i)
    THEN {IF i.level >= 3 THEN "reset and tell" ELSE "reset"}
    ELSE IF i.level > 3 /\ i.aged
    THEN {IF i.severity = Critical THEN "promote critical" ELSE "promote"}
    ELSE {}

\* What tick is going to do about a row that it has read.
Intentions(i) ==
    IF i.level = 0 THEN {}
    ELSE IF Finished(i)
    THEN {IF i.level >= 3 THEN "reset and tell" ELSE "reset"}
    ELSE IF i.level = 3 /\ i.aged
    THEN {IF i.severity = Critical THEN "promote critical" ELSE "promote"}
    ELSE {}

TickReads ==
    /\ Intentions(incident) \ due # {}
    /\ due' = due \union Intentions(incident)
    /\ Cardinality(due') <= MaxDue
    /\ UNCHANGED <<incident, loop, attempted, checks, dropped>>

\* Alerts of incidents further up in the list are awaited in between, so the
\* row may have changed.
TickActs(d) ==
    /\ d \in due
    /\ due' = due \ {d}
    /\ incident' = CASE d = "reset" -> WoundUp(incident, FALSE)
                     [] d = "reset and tell" -> WoundUp(incident, TRUE)
                     [] d = "promote" -> Escalated(AtLevel(incident, 4))
                     [] d = "promote critical" -> AtLevel(incident, 4)
    /\ dropped' = \/ dropped
                  \/ incident.timer /\ ~incident'.timer /\ Open(incident)
    /\ UNCHANGED <<loop, attempted, checks>>

-----------------------------------------------------------------------------
(* The process dies and is started again; nothing is resumed.               *)

Restart ==
    /\ incident' = [incident EXCEPT !.timer = FALSE, !.notified = FALSE]
    /\ loop' = Idle
    /\ attempted' = FALSE
    /\ checks' = {}
    /\ due' = {}
    /\ dropped' = \/ dropped
                  \/ Busy \/ incident.timer

-----------------------------------------------------------------------------
Init ==
    /\ incident = Absent
    /\ loop = Idle
    /\ attempted = FALSE
    /\ checks = {}
    /\ due = {}
    /\ dropped = FALSE

Others ==
    \/ \E n \in Severity : Create(n)
    \/ Update
    \/ EscalateAndDispatch \/ Escalate
    \/ Resolve \/ ResolveAndVerify \/ ResolveActive \/ Close

LoopStep ==
    \/ AgentSucceeds \/ AgentReachesLimit
    \/ \E recipe \in BOOLEAN :
          \/ AgentFails(recipe)
          \/ \E ok \in BOOLEAN : LimitChecked(ok, recipe)
    \/ \E ok \in BOOLEAN : ActionEnds(ok) \/ RecipeChecked(ok)

CheckEnds == \E c \in checks : CheckPasses(c) \/ CheckFails(c)

TickStep == TickReads \/ \E d \in due : TickActs(d)

Next == Others \/ LoopStep \/ CheckEnds \/ TimerFires \/ Age \/ TickStep
        \/ Restart

Spec == Init /\ [][Next]_vars

\* Agents, actions and their verification have time limits, timers fire, the tick
\* comes round, and the process is not restarted for ever.
Fairness ==
    /\ <>[][~Restart]_vars
    /\ WF_vars(LoopStep) /\ WF_vars(TimerFires) /\ WF_vars(Age)
    /\ WF_vars(TickReads) /\ WF_vars(\E d \in due : TickActs(d))

FairSpec == Spec /\ Fairness

-----------------------------------------------------------------------------
(* Properties.                                                              *)

\* Every variable has its type; the severity never passes critical.
TypeOK ==
    /\ incident \in Incident
    /\ loop \in Loop
    /\ attempted \in BOOLEAN
    /\ checks \subseteq Snapshot
    /\ due \subseteq Intent
    /\ dropped \in BOOLEAN

\* Nobody is told that an incident is over, and no incident reaches the
\* levels of an alert, before people were alerted: also not through a row
\* that was read earlier and is written back or acted on late.
PagesComeFirst ==
    incident.level >= 3 \/ incident.notified => incident.paged

\* An analysis that ends without the incident resolved leaves it with people
\* alerted or about to be, if its severity was in the range of the pipeline
\* when the analysis began and still is.
FailuresAreHandedOver ==
    [][ /\ Busy /\ loop' = Idle /\ ~dropped'
        /\ Handled(loop.severity) /\ Handled(incident'.severity)
        => \/ Finished(incident')
           \/ incident'.level >= 3 \/ incident'.timer ]_vars

\* As long as nothing is lost in a restart, or to a tick that acts late, an
\* incident under analysis is finished or reaches people, however the
\* analysis ends and whatever is done to the row meanwhile.
AnalysesAreHeard ==
    Busy /\ Handled(loop.severity) ~>
        \/ Finished(incident) \/ incident.level >= 3
        \/ ~Handled(incident.severity) \/ dropped

\* An alert does not just stand: whatever is done to the row meanwhile, it is
\* repeated as urgent while the incident is open, and the level is reset, to
\* start afresh, when it is finished.
AlertsDoNotStand == incident.level = 3 ~> incident.level # 3

-----------------------------------------------------------------------------
(* What the comments say and the code does otherwise.                       *)

\* An incident whose recipe has not helped reaches people although the
\* process was restarted before the timer fired: tick rescues it, says the
\* head of EscalationPipeline.
LostTimersAreRescued ==
    incident.level = 2 /\ incident.timer ~>
        \/ incident.level # 2 \/ Finished(incident)
        \/ ~Handled(incident.severity)

=============================================================================
