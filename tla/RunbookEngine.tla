--------------------------- MODULE RunbookEngine ----------------------------
(***************************************************************************)
(* RunbookEngine: runs of one runbook template, step by step, with the     *)
(* approval gates that pause a run until an operator decides.  A run and   *)
(* its approval rows are in SQLite; the loop that executes it              *)
(* (_executeSteps) is a promise of the process, and yields to other        *)
(* handlers only while the body of a step is being awaited.                *)
(*                                                                         *)
(* The body of a step either succeeds or fails.  A condition step is one   *)
(* whose outcome chooses between its two targets.  RunbookRunStore always  *)
(* holds what memory holds, because every handler that changes a run ends  *)
(* by persisting it, so the two are one variable here.                     *)
(***************************************************************************)
EXTENDS Integers, Sequences, FiniteSets

CONSTANTS
    Run,            \* the runs that may be started
    Version,        \* successive contents of the template
    Steps,          \* version -> its sequence of steps
    MaxSteps,       \* MAX_STEPS_PER_RUN (50 in the code)
    MaxRequests,    \* bound: operator requests per behaviour
    MaxRestarts     \* bound: process restarts per behaviour

ASSUME StepsType ==
    \A v \in Version :
        Steps[v] \in Seq([id : STRING, kind : {"approval", "body"},
                          guarded : BOOLEAN, onSuccess : STRING,
                          onFailure : STRING])
ASSUME BoundsAreNat ==
    MaxSteps \in Nat /\ MaxRequests \in Nat /\ MaxRestarts \in Nat

VARIABLES
    template,   \* the stored version, or Deleted
    run,        \* runs with their step results
    loop,       \* _executeSteps of each run: version captured, steps entered
    cached,     \* the runs in the engine's in-memory map
    rows,       \* the approval rows of each run, oldest first
    late,       \* MAX_RUN_DURATION_MS have passed since the run started
    requests,   \* operator requests so far
    restarts,   \* restarts so far
    edited      \* history: the template has been edited

vars == <<template, run, loop, cached, rows, late, requests, restarts, edited>>

-----------------------------------------------------------------------------
Deleted == "deleted"
ASSUME DeletedIsNoVersion == Deleted \notin Version

Active  == {"running", "waiting_approval"}

RunStatus  == Active \union {"none", "completed", "failed", "cancelled",
                             "rejected"}
StepStatus == {"pending", "running", "success", "failed",
               "waiting_approval", "rejected"}

NoRun  == [status |-> "none", at |-> 1, results |-> <<>>]
NoLoop == [alive |-> FALSE, version |-> CHOOSE v \in Version : TRUE,
           entered |-> 0]
NewRun(v) == [status |-> "running", at |-> 1,
              results |-> [i \in 1..Len(Steps[v]) |->
                             [status |-> "pending", approved |-> FALSE]]]

StepIds(v)     == {Steps[v][i].id : i \in 1..Len(Steps[v])}
IndexOf(v, id) == CHOOSE i \in 1..Len(Steps[v]) :
                     /\ Steps[v][i].id = id
                     /\ \A j \in 1..(i - 1) : Steps[v][j].id # id

\* An explicit approval step, the requiresApproval flag, or a command that
\* DestructiveGuard matches.
Gated(step) == step.kind = "approval" \/ step.guarded

-----------------------------------------------------------------------------
(* One turn of the while loop, from its head to the await of the step's    *)
(* body: run r, whose record is R and whose approval rows are q, is about  *)
(* to enter step i of version v, as the n-th step since it was resumed.    *)

Leaves(r, R, q, v) ==
    /\ run' = [run EXCEPT ![r] = R]
    /\ rows' = [rows EXCEPT ![r] = q]
    /\ loop' = [loop EXCEPT ![r] = [alive |-> FALSE, version |-> v,
                                    entered |-> 0]]

\* Faulty variant: the counter is compared before it is incremented.
OverrunsOneLate(r, n) == n - 1 > MaxSteps \/ late[r]

Overruns(r, n) == n > MaxSteps \/ late[r]

\* The run has been cancelled; or the template has grown since the run
\* started, and reading the missing step result throws.
Aborts(R, i) == R.status \in {"cancelled", "rejected"} \/ i > Len(R.results)

\* Faulty variant: explicit approval steps are not gated.
MustWaitIfGuarded(R, v, i) == Steps[v][i].guarded /\ ~R.results[i].approved

MustWait(R, v, i) == Gated(Steps[v][i]) /\ ~R.results[i].approved

\* Faulty variant: a run asks for approval once only.
PausesWithOneRow(r, R, q, v, i) ==
    Leaves(r, [R EXCEPT !.status = "waiting_approval", !.at = i,
                        !.results[i].status = "waiting_approval"],
           IF q # <<>> THEN q
           ELSE <<[step |-> Steps[v][i].id, shown |-> v,
                   status |-> "pending"]>>, v)

Pauses(r, R, q, v, i) ==
    Leaves(r, [R EXCEPT !.status = "waiting_approval", !.at = i,
                        !.results[i].status = "waiting_approval"],
           Append(q, [step |-> Steps[v][i].id, shown |-> v,
                      status |-> "pending"]), v)

\* Faulty variant: the counter is local to one turn of the loop.
StartsUncounted(r, R, q, v, i, n) ==
    /\ run' = [run EXCEPT ![r] = [R EXCEPT !.at = i,
                                     !.results[i].status = "running"]]
    /\ rows' = [rows EXCEPT ![r] = q]
    /\ loop' = [loop EXCEPT ![r] = [alive |-> TRUE, version |-> v,
                                    entered |-> 1]]

Starts(r, R, q, v, i, n) ==
    /\ run' = [run EXCEPT ![r] = [R EXCEPT !.at = i,
                                     !.results[i].status = "running"]]
    /\ rows' = [rows EXCEPT ![r] = q]
    /\ loop' = [loop EXCEPT ![r] = [alive |-> TRUE, version |-> v,
                                    entered |-> n]]

\* The loop condition comes first, then the two limits, then the status: a
\* run that is cancelled during its last step completes all the same.
Enter(r, R, q, v, i, n) ==
    \/ /\ i > Len(Steps[v])
       /\ Leaves(r, [R EXCEPT !.status = "completed"], q, v)
    \/ /\ i <= Len(Steps[v]) /\ Overruns(r, n)
       /\ Leaves(r, [R EXCEPT !.status = "failed"], q, v)
    \/ /\ i <= Len(Steps[v]) /\ ~Overruns(r, n) /\ Aborts(R, i)
       /\ Leaves(r, R, q, v)
    \/ /\ i <= Len(Steps[v]) /\ ~Overruns(r, n) /\ ~Aborts(R, i)
       /\ IF MustWait(R, v, i) THEN Pauses(r, R, q, v, i)
          ELSE Starts(r, R, q, v, i, n)

-----------------------------------------------------------------------------
Init ==
    /\ template \in Version
    /\ run = [r \in Run |-> NoRun]
    /\ loop = [r \in Run |-> NoLoop]
    /\ cached = {}
    /\ rows = [r \in Run |-> <<>>]
    /\ late = [r \in Run |-> FALSE]
    /\ requests = 0
    /\ restarts = 0
    /\ edited = FALSE

ExecuteRun(r) ==
    /\ run[r].status = "none"
    /\ template \in Version
    /\ Enter(r, NewRun(template), <<>>, template, 1, 1)
    /\ cached' = cached \union {r}
    /\ UNCHANGED <<template, edited, late, requests, restarts>>

\* The awaited body of a step is over: its result is recorded and routed.
StepEnds(r, ok) ==
    LET v    == loop[r].version
        i    == run[r].at
        R    == [run[r] EXCEPT !.results[i].status =
                                  IF ok THEN "success" ELSE "failed"]
        next == IF ok THEN Steps[v][i].onSuccess ELSE Steps[v][i].onFailure
        Stops(s)  == Leaves(r, [R EXCEPT !.status = s], rows[r], v)
        GoesTo(j) == Enter(r, R, rows[r], v, j, loop[r].entered + 1)
    IN  /\ loop[r].alive
        /\ Steps[v][i].kind = "approval" => ok
        /\ \/ next = "end" /\ Stops("completed")
           \/ next = "none" /\ ok /\ GoesTo(i + 1)
           \/ next = "none" /\ ~ok /\ Stops("failed")
           \/ next \in StepIds(v) /\ GoesTo(IndexOf(v, next))
           \/ next \notin StepIds(v) \union {"end", "none"} /\ Stops("failed")
        /\ UNCHANGED <<template, edited, cached, late, requests, restarts>>

-----------------------------------------------------------------------------
(* Requests of an operator.                                                *)

\* The newest pending row of the run and step is decided; there may be none.
PendingFor(r, id) == {k \in 1..Len(rows[r]) : /\ rows[r][k].step = id
                                              /\ rows[r][k].status = "pending"}
DecideRow(r, id, verdict) ==
    [k \in 1..Len(rows[r]) |->
        IF k \in PendingFor(r, id) /\ \A j \in PendingFor(r, id) : j <= k
        THEN [rows[r][k] EXCEPT !.status = verdict] ELSE rows[r][k]]

Request ==
    /\ requests < MaxRequests
    /\ requests' = requests + 1
    /\ UNCHANGED restarts

\* Faulty variant: a decision is taken in any active status.
CanDecideWhenActive(r) ==
    /\ r \in cached
    /\ run[r].status \in Active
    /\ template \in Version
    /\ run[r].at <= Len(Steps[template])

\* Both handlers read the step from the template as it is now.  When the
\* template has shrunk below the step, they throw.
CanDecide(r) ==
    /\ r \in cached
    /\ run[r].status = "waiting_approval"
    /\ template \in Version
    /\ run[r].at <= Len(Steps[template])

ApproveStep(r) ==
    LET i    == run[r].at
        step == Steps[template][i]
        q    == DecideRow(r, step.id, "approved")
        R(s) == [run[r] EXCEPT !.status = "running",
                               !.results[i] = [status |-> s,
                                               approved |-> TRUE]]
    IN  /\ CanDecide(r)
        /\ run[r].results[i].status = "waiting_approval"
        /\ Request
        /\ IF step.kind = "approval"
           THEN Enter(r, [R("success") EXCEPT !.at = i + 1], q, template,
                      i + 1, 1)
           ELSE Enter(r, R("pending"), q, template, i, 1)
        /\ UNCHANGED <<template, edited, cached, late>>

RejectStep(r) ==
    LET i    == run[r].at
        step == Steps[template][i]
        q    == DecideRow(r, step.id, "rejected")
        R    == [run[r] EXCEPT !.results[i].status = "rejected"]
    IN  /\ CanDecide(r)
        /\ Request
        /\ IF step.onFailure \in StepIds(template)
           THEN LET j == IndexOf(template, step.onFailure)
                IN  Enter(r, [R EXCEPT !.status = "running", !.at = j], q,
                          template, j, 1)
           ELSE /\ run' = [run EXCEPT ![r] = [R EXCEPT !.status = "rejected"]]
                /\ rows' = [rows EXCEPT ![r] = q]
                /\ UNCHANGED loop
        /\ UNCHANGED <<template, edited, cached, late>>

\* A rejected run is not among the statuses cancelRun takes for terminal.
CancelRun(r) ==
    /\ Request
    /\ r \in cached
    /\ run[r].status \in Active \union {"rejected"}
    /\ run' = [run EXCEPT ![r].status = "cancelled"]
    /\ UNCHANGED <<template, edited, loop, cached, rows, late>>

UpdateTemplate(v) ==
    /\ Request
    /\ template \in Version \ {v}
    /\ template' = v
    /\ edited' = TRUE
    /\ UNCHANGED <<run, loop, cached, rows, late>>

DeleteTemplate ==
    /\ Request
    /\ template \in Version
    /\ \A r \in cached : run[r].status \notin Active
    /\ template' = Deleted
    /\ UNCHANGED <<edited, run, loop, cached, rows, late>>

-----------------------------------------------------------------------------
(* Time, and the death of the process.                                     *)

\* The clock runs from startedAt, while the run waits for approval as well.
RunTimeElapses(r) ==
    /\ run[r].status \in Active \/ loop[r].alive
    /\ ~late[r]
    /\ late' = [late EXCEPT ![r] = TRUE]
    /\ UNCHANGED <<template, edited, run, loop, cached, rows, requests,
                   restarts>>

\* wireInfraDeps reads the active runs back; nothing executes them.
Restart ==
    /\ restarts < MaxRestarts
    /\ restarts' = restarts + 1
    /\ loop' = [r \in Run |-> [loop[r] EXCEPT !.alive = FALSE]]
    /\ cached' = {r \in Run : run[r].status \in Active}
    /\ UNCHANGED <<template, edited, run, rows, late, requests>>

-----------------------------------------------------------------------------
Next ==
    \/ \E r \in Run : ExecuteRun(r)
    \/ \E r \in Run, ok \in BOOLEAN : StepEnds(r, ok)
    \/ \E r \in Run : ApproveStep(r)
    \/ \E r \in Run : RejectStep(r)
    \/ \E r \in Run : CancelRun(r)
    \/ \E v \in Version : UpdateTemplate(v)
    \/ DeleteTemplate
    \/ \E r \in Run : RunTimeElapses(r)
    \/ Restart

Spec == Init /\ [][Next]_vars

\* The body of a step ends: commands and skills have timeouts of their own.
Fairness == \A r \in Run : WF_vars(\E ok \in BOOLEAN : StepEnds(r, ok))

FairSpec == Spec /\ Fairness

-----------------------------------------------------------------------------
(* Properties.                                                             *)

\* Every variable has its type; a loop that is alive is inside a step of the
\* version it captured for which the run has a result.
TypeOK ==
    /\ template \in Version \union {Deleted}
    /\ run \in [Run -> [status : RunStatus, at : Nat \ {0},
                        results : Seq([status : StepStatus,
                                       approved : BOOLEAN])]]
    /\ loop \in [Run -> [alive : BOOLEAN, version : Version,
                         entered : 0..MaxSteps]]
    /\ cached \subseteq Run
    /\ rows \in [Run -> Seq([step : STRING, shown : Version,
                             status : {"pending", "approved", "rejected"}])]
    /\ late \in [Run -> BOOLEAN]
    /\ requests \in Nat
    /\ restarts \in Nat
    /\ edited \in BOOLEAN

Executing(r) == {i \in 1..Len(run[r].results) :
                    run[r].results[i].status = "running"}

\* Whatever is approved, rejected, cancelled or edited meanwhile, a run has
\* one loop: it never executes two steps at once, and it executes none while
\* it waits for a decision or once it has ended on its own.
OneStepAtATime ==
    \A r \in Run :
        /\ Cardinality(Executing(r)) <= 1
        /\ loop[r].alive => /\ run[r].status \in {"running", "cancelled"}
                            /\ Executing(r) = {run[r].at}

\* The body of a step that is gated in the version being executed runs only
\* when that step of the run has been approved, whichever way the run came
\* to it: in order, by a branch, in a loop, after a rejection or a restart.
GatesHold ==
    \A r \in Run :
        loop[r].alive /\ Gated(Steps[loop[r].version][run[r].at])
            => run[r].results[run[r].at].approved

\* No run is lost from sight.  One is left running with nobody executing it
\* only by a restart or by a template that outgrew it; one that waits can be
\* found in the list of pending approvals, where its last row names the step it
\* stopped at; and as long as the template is not edited, no decision is lost:
\* a run has at most one pending row, and only one that waits or was cancelled.
NoRunIsLost ==
    \A r \in Run :
        LET last    == rows[r][Len(rows[r])]
            pending == {k \in 1..Len(rows[r]) : rows[r][k].status = "pending"}
        IN  /\ run[r].status = "running" /\ ~loop[r].alive
                 => \/ restarts > 0
                    \/ Len(Steps[loop[r].version]) > Len(run[r].results)
            /\ run[r].status = "waiting_approval" =>
                 /\ rows[r] # <<>>
                 /\ last.status = "pending"
                 /\ last.step = Steps[last.shown][run[r].at].id
            /\ ~edited =>
                 /\ Cardinality(pending) <= 1
                 /\ pending # {} => run[r].status \in {"waiting_approval",
                                                       "cancelled"}

\* A run that completed or failed stays as it is.
EndedRunsAreFinal ==
    [][\A r \in Run : run[r].status \in {"completed", "failed"}
                         => run'[r] = run[r]]_vars

\* However the branches of a template loop, a run comes to a stop: it ends,
\* or it waits for an operator.
RunsComeToAStop == \A r \in Run : loop[r].alive ~> ~loop[r].alive

\* "when a pattern matches the engine pauses for approval" and "the approver
\* knows what they're greenlighting" (DestructiveGuard.ts,
\* RunbookApprovalStore.ts): the gated step being executed is one that some
\* approver was shown and approved.
ApprovedIsWhatRuns ==
    \A r \in Run :
        loop[r].alive /\ Gated(Steps[loop[r].version][run[r].at]) =>
            \E k \in 1..Len(rows[r]) :
                /\ rows[r][k].status = "approved"
                /\ LET shown == Steps[rows[r][k].shown]
                   IN  shown[run[r].at] = Steps[loop[r].version][run[r].at]

=============================================================================
