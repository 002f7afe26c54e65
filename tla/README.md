# Formal models of RightAPI Forge

RightAPI Forge is a "governed AI operations platform": agents execute tasks,
incidents are handled by workflows, runbooks and remediators, schedules start
work, and operators approve, cancel and override all of it. It is one
single-threaded Node process. `src/src/web/server.ts` creates every component,
connects them by callbacks and exposes them over HTTP; timers (`setInterval`,
`node-cron`) drive the loops; state lives in memory and in SQLite or JSON files
(Postgres for some stores).

What makes it hard is the same everywhere: a handler runs alone until its first
`await`, and anything may happen before it continues. A late promise meets a
task that was cancelled, a template edited while a run waits for approval, a
stored lock that survives the process that took it. That is what these modules
are about.

Paths below are relative to `src/src/` unless they start with `docs/` or name a
`.md` file at the top of the repository.

## 1. Inventory

| Part | State it keeps | Operations | Hard because | Correct when |
|---|---|---|---|---|
| Task engine: `tasks/TaskManager.ts`, `orchestrator/OrchestratorService.ts`, `agents/Guardrails.ts` (limiter) | task map + SQLite rows; retry count and cooldown per task (memory only); reliability policy; executions in flight and slots per agent | create, dispatch (15 s), recover stuck (60 s), end of an execution, status change, cancel, drop, rollback, policy change, restart | executions outlive the status of their task; some handlers do not persist; recovery may re-run what is still alive | store follows memory, starts are bounded, limiter exact, quarantine and dependencies hold, nothing is left where nobody looks |
| Runbooks: `runbooks/RunbookEngine.ts`, `RunbookApprovalStore.ts`, `RunbookRunStore.ts` | templates, runs with step results, approval rows; one promise per executing run | start, step ends, approve, reject, cancel, edit or delete a template, restart | the template is read again after each pause; branches may loop; a cancel meets an awaited step | gated steps run approved, one step at a time, no run is lost from sight, loops stop |
| Schedules: `scheduling/ScheduleEngine.ts`, `persistence/ScheduledTaskStore.ts` | rows, each of a tenant, with a stored in-flight count used as a lock; cron jobs in memory | tick, run now, upsert, pause, resume, delete, boot with replay of missed runs, shutdown, crash, failing store call | the lock is persistent and the process is not; the row and the job are written on different sides of an await; requests name a tenant, the boot knows one | the count is accounted for, runs of a schedule do not overlap, enabled schedules have a job |
| Workflows: `workflows/WorkflowEngine.ts` | templates, runs with stages, JSON files; schedule of a template | start, set a stage, normalize, trim, recover, scheduled start, edit a template, restart | stages may be set in any order, also of ended runs; schedules are half in memory | status follows from the stages, no twins after a recovery, fallback runs end |
| Skill circuit breaker: `skills/CircuitBreaker.ts`, used by `SkillManager.ts`, `SkillPluginLoader.ts` | state, failures, time of opening and test slots per skill | call begins, succeeds, fails, throws; read by the dashboard; reset; unload and load | outcomes of calls from an earlier state arrive late; reading changes the state | an open circuit is quiet, no slot leaks, the skill heals |
| Incidents: `incidents/IncidentManager.ts`, `EscalationPipeline.ts`, `AgentIncidentHandler.ts`, `self-healing/IncidentAutoRemediator.ts` | incident rows with status, severity and escalation level; timers, notices, analyses in flight and recipes tried (memory only) | create with de-duplication, update, escalate, resolve, verify, assign, close; analyse; remediate | four actors write one record, some across an await | people are told before they are told it is over, every failed analysis reaches them, no alert just stands |
| Goal plans: `planner/PlanExecutor.ts`, `PlanStore.ts`, `web/plannerApi.ts` | the plan's rows in SQLite; per execution a Plan object of its own and a controller | create, attempt ends, back-off, poll, pause, delete, retry, restart | every save writes a whole object over the rows; a plan may be retried while it is executed | nodes start after what they depend on, verdict and rows fit, finished results are kept, executions end |
| Delegations and approval tokens: `tasks/DelegationManager.ts`, `security/ApprovalTokenLedger.ts`, `web/delegationsApi.ts`; roll-up and escalation timer in `web/server.ts` | delegations with a transition table; the policy; used and revoked tokens, trimmed; the statuses of a tree of tasks | create a subtask, propose, transition with or without a token, revoke, set the policy, set a task's status, timer, restart | one request writes the rows of a line of ancestors; token and transition are two steps; trimming forgets; lists are cut | a task's status follows from its subtasks and delegations, a token buys one step, late delegations are noticed |
| Maintenance jobs: `maintenance/MaintenanceScheduler.ts`, `MaintenanceStore.ts` | jobs with the time of their next run, a capped history, the set of running jobs (memory) | tick, run now, command ends, create, edit, delete, boot, crash | the next run is stored, the running set is not; edits and boots recompute it under a run | a window is run once, a due job runs, the job is given back |
| Agents: `agents/Agent.ts`, `AgentMessageBus.ts`, `RollbackRegistry.ts` | current task, message queues, checkpoints | execute, message, roll back | two tasks on one agent share fields | executions do not mix |
| Previews and releases: `builder/PreviewRuntime.ts`, `ToolReleaseManager.ts` | processes and ports; release with versions | start, stop, exit; publish, roll back | the exit of a process races a restart | one process per preview; a failed release restores the old one |
| Smaller machines: `workflows/WorkflowJsonExecutor.ts`, `a2a/A2ATaskRunner.ts`, `lifecycle/GracefulShutdown.ts`, `skills/SkillPluginLoader.ts` | a cursor and results; task status; hooks and counters; two maps | see the code | late results, overlapping ticks, timeouts | planned, see section 2 |
| Record stores, adapters and I/O: authentication, tenants, changes, knowledge, assets, backups, monitoring, chat, IRC, push, ticketing, webhooks, plugins, CI, development skills, AI providers, gateway, command line | records; outside services | one synchronous write, or one outside call | little happens between two steps | not modelled, with the reason per component in `PROJECT.json` |

How the parts meet:

- `server.ts` runs the dispatch loop and the sweep of the task engine, the
  minute tick of the workflow scheduler, and the recovery of workflow runs.
- An incident starts an agent analysis; when that gives up, a workflow run for
  `inc-<id>`; the recovery timer reads the incident back and ends the run.
- Task executions, workflow actions, runbook steps and schedules all end in
  `SkillManager.execute`, behind the circuit breaker.
- A change of a task's status, whoever makes it, is rolled up to its parent; so
  is every move of a delegation. The commands of an operator, rollbacks and
  delegations spend tokens of one ledger.
- A failed maintenance command opens an incident.
- Operators reach every part by HTTP at any moment between two handlers.

`PROJECT.json` lists the hazards of the modelled parts, each at its line, with
the properties that cover it, or why none does.

## 2. Plan

Done, in the order of importance:

1. `TaskOrchestrator` with `TaskOrchestratorProofs`
2. `RunbookEngine` with `RunbookEngineProofs`
3. `ScheduleEngine` with `ScheduleEngineProofs`
4. `WorkflowEngine` with `WorkflowEngineProofs`
5. `CircuitBreaker` with `CircuitBreakerProofs`
6. `IncidentResponse` with `IncidentResponseProofs`
7. `PlanExecutor`, shown to implement the abstract `PlanRuns`, with
   `PlanExecutorProofs`
8. `Delegations` with `ApprovalTokens` and `DelegationsProofs`: the tree of tasks
   that TaskOrchestrator knows one by one
9. `Maintenance`, whose theorems are in `ScheduleEngineProofs`

Next:

10. `IncidentWorkflow`, which composes `IncidentResponse` with `WorkflowEngine`
    and replaces the external `IncidentMoves` by the real moves.
11. `PreviewRuntime` and `ToolRelease`; `A2ATaskRunner`; `PluginLoader` (the two
    maps of the skill loader); `GracefulShutdown`.
12. `WorkflowJson` and `CronFields`: the cursor algorithm of the JSON executor
    and the matching of cron fields as functions, against a reference
    definition over bounded inputs.

Stated and shown implemented: `PlanRuns`, what the executions of a plan promise,
by `PlanExecutor`. Abstract specifications still worth stating:

- `TaskLifeCycle` (queued, running, settled, re-queued within a budget), by
  TaskOrchestrator with the number of starts as the mapped counter;
- `ApprovalGate` (asked, decided once, then acted on), by RunbookEngine with a
  run's gate at its current step;
- `BoundedCalls` (a counter of at most N that follows begins and ends), by the
  limiter of TaskOrchestrator and by the test slots of CircuitBreaker, of which
  `SlotsAreLoops` and `CountersFit` say the same as invariants.

Theorems still to prove: the refinements above. Every safety property of the runs
has its theorem; what is left to the model checker is listed in section 5.

Later components are to share a run where one question spans them (incident and
workflow, delegation and roll-up), so that the list of runs stays short.

## 3. What the modules model

Each module begins with the abstraction it makes. The `map` of `PROJECT.json`
gives the lines behind every definition. An operator whose comment begins with
"Faulty variant" is a plausible mistake in the definition below it, kept to
show that the properties notice it; it is not part of the specification.

### TaskOrchestrator

One step is one timer callback, one request or one promise continuation.

| Module | Code |
|---|---|
| `task`, `row` | `TaskManager.tasks` and its SQLite row (`upsert`) |
| `memo` | `retryAttemptsByTask`, `lastRecoveryAtByTask` (memory only) |
| `running`, `reporting` | executions awaited by `dispatchPendingTasks`: in the ReAct loop of `executeTaskDetailed`, and in the reflection and crystallization after it |
| `slots` | `ConcurrencyLimiter.active` |
| `leaked` | history: slots of executions that threw between `acquire` and the `try` |
| `Sweep`, `DispatchPendingTasks` | the 60 s and 15 s timers; both recover stuck tasks first |
| `LoopEnds`, `ExecutionCompletes`, `ExecutionFails` | the `finally` that releases the slot, and the `.then` and `.catch` of `agent.executeTask` |
| `UpdateTaskStatus`, `CancelTask`, `DropTask`, `RequestRollback`, `ApplyRollback`, `SetReliabilityPolicy` | the request handlers |
| `Restart` | the constructors, reading the rows back |

Wall-clock time is two flags per task, idle and cooling. Parents and their
roll-up are in `Delegations`. Left out: the usage gate, no agent available and
an inactive one, a director assigned by hand, the checkpoint guard of
`applyRollback`, a completion callback that throws, the chat path that executes
a task directly (`web/server.ts` 4312-4431), the executions that delegation
skills and the incident handler start on the same limiter
(`DelegationSkill.ts`, `AgentIncidentHandler.ts`; they take and release slots
by the same code), `ImprovementLoop` 346-390 writing statuses, and a crash
inside one synchronous handler.

Worth knowing: at the limiter's maximum an execution is refused by a *resolved*
promise with a text ("Refused: ...", `Agent.ts` 611-626), which the dispatcher
takes for success. The task is then `completed` without having run. The model
does the same (`Dispatched`). The slot itself is taken at `Agent.ts` 613 and
given back by a `finally` (923) whose `try` begins at 756; the agent's memory
is read in between (635-645), and a read that throws fails the task and keeps
the slot until the process restarts, although `Guardrails.ts` 226-236 says that
the agent decrements in a `finally`. `SlotsAreLoops` counts these slots apart
(`leaked`) and says that no other is lost; once all are, every task of the
agent is refused, and hence `completed`. And since the slot is released before
the reflection, an agent may have more unresolved executions than
`maxConcurrentTasks`. Also, `UNIFIED_SOLUTION_ARCHITECTURE.md` 54 says that a
status change writes the status, the operation and the audit, but `cancelTask`,
`dropTask` and the two rollback requests (`TaskManager.ts` 401-499) change the
status in memory only: a restart brings the old one back.
`StoreLagsOnlyOnMemoryOnly` says exactly which statuses may be missing in the
store. And the continuation of an execution (`OrchestratorService.ts` 697)
writes `completed` or `failed` whatever the task has become meanwhile, so a
cancelled or rolled-back task can complete later, although
`UNIFIED_SOLUTION_ARCHITECTURE.md` 65 lists those statuses as terminal
alternatives.

### RunbookEngine

The template is one of several versions, edited at any time. A run holds its
status, index and step results; `loop` is the promise of `_executeSteps`, with
the version it captured. `Enter` is one turn of its while loop, from the head to
the await of the body: limits, missing step, gate, pause, start. The body of the
ten step types is an outcome, ok or failed. Condition steps, which do not await
in the code, get an interleaving point; that only adds behaviours. Left out: a
failing SQLite insert, import and conversion of templates, run listing, the
metric cooldown.

Worth knowing: `RunbookTypes.ts` 31-32 says an approval auto-rejects after its
timeout, and nothing implements that (`RunbookEngine.ts` 841 discards the
constant), so a waiting run waits for ever; and the run-time limit counts the
time it waits, so an approval after ten minutes fails the run. When the approval row cannot be
inserted (`RunbookEngine.ts` 533) the run waits all the same, unlisted;
`NoRunIsLost` assumes that the insert succeeds. `cancelRun` only sets the
status: a run cancelled during its last or a failing step, or past its time
limit, ends `completed` or `failed` (`RunbookEngine.ts` 624, 816), although
`docs/API_REFERENCE.md` 1100 speaks of cancelling a running execution.

### ScheduleEngine

A behaviour begins with one of several deployments: the store, the schedules, the
tenants that requests name and the bounds on edits and faults. With SQLite calls are synchronous and no other
handler comes between two of them (`Settled`); with Postgres every await is an
interleaving point. `executeRun` is cut at its awaits (`Phase`); boot is a list,
then replays one after another, then the binding of jobs. A crash may come
between any two store calls, and a store call may throw. `lost` and `wiped`
record which counts belong to runs that are gone.

Every statement of the store names a schedule and a tenant (`Found`), so rows,
jobs, requests and runs carry one. Seeds and boot act for `SystemTenant`, because
`getCurrentTenantId` says `system` outside of a request; `POST /api/schedules`
names any tenant (`schedulesApi.ts` 47-52); pausing, deleting and running by hand
are modelled for callers of the schedule's own tenant, since others
are told that there is none (`schedulesApi.ts` 75-97) and nothing changes. A job calls back with the tenant it was bound with, and a
tick whose tenant is not the row's finds nothing. Left out: cron matching and
next-run computation, history rows other than "skipped: concurrent", the outcome
of the action.

Worth knowing: `POST /api/schedules` for an existing id writes a fresh count of
zero over the row (`ScheduledTaskStore.ts` 130), so a run in flight is forgotten
and the next tick starts a second one, although `ScheduleEngine.ts` 11-13 says
that such a tick is recorded as skipped; this is the `wiped` of
`LockIsAccountedFor`. On Postgres the count is checked two awaits before it is
incremented, so two runs overlap there even without an edit, and
an enabled schedule may lose its job to two requests whose rows and jobs are
written in opposite orders. `JobsFollowRows` and the second half of
`LockIsAccountedFor` therefore speak of SQLite only.

An enabled schedule can also be without a job, or with one that finds no row, for
three reasons that have to do with tenants. They are the history variable
`astray`, and `JobsFollowRows` excepts exactly those schedules, each until a
request of its own tenant binds it again:

- The boot lists the schedules of the system tenant (`ScheduleEngine.ts` 83 calls
  `list()` without a tenant, `ScheduledTaskStore.ts` 140-149), although the
  comment above `start` (76) says "schedule every enabled task". A schedule of
  another tenant has a job from its creation to the next restart, and then
  neither a replay nor a job.
- Replacing a schedule keeps the tenant of its row (`ON CONFLICT` does not set
  `tenant_id`, 107-137), but the job is bound with the tenant of the request.
- A schedule of the system tenant that is deleted and made anew by another one
  while the boot replays missed runs gets its job from the list read before.

### WorkflowEngine

Every handler is synchronous, and the run file equals memory. `Normalized` is
`normalizeRun`, applied after each stage update; `RecoverActiveRuns` is the
server's recovery pass with its three verdicts. Template schedules live in
memory and reach the disk only when a custom template is added, edited or
deleted. The webhook trigger is several `StartRun`. Incidents are external: only
what the recovery sees of them. Left out: the read-only drift sweep, owners and
notes, failing or torn file writes.

Worth knowing: `onStageActive` (`server.ts` 2131) is called before
normalization, so it may announce a stage that stays pending, and not announce
one that normalization starts; trimming forgets active runs; a reopened run can
become the twin of a newer one until the next recovery; and a mark
`lastScheduledAt` read back from disk may start a run at the first tick,
although the comment at 492-493 means to avoid a surprise run. When the write of
the run file throws (`WorkflowEngine.ts` 216), the run exists in memory and its
caller is told that it does not; failing writes are not modelled.

### CircuitBreaker

The breaker of one skill, with the callers that reach it: calls overlap, and
`probes` records which of those running took a test slot. `Advanced` is
`advanceCooldown`, also called by the dashboard's read (`Look`). `Unload` and
`Load` are the plugin loader's use of `unregister` and `register`; `Describe` is
a skill registered without executor, `ExecuteUnhandled` a call of one. Failures
and time saturate at the limits they are compared with, so no bound is needed.

Worth knowing: test calls of two half-open periods can overlap, so more than
`halfOpenMaxAttempts` may run at once; a late success of a call from before the
opening closes a half-open circuit; and calls that fail after `Unload` may leave
an entry open which the next `Load` does not clear, although the comment at
`SkillManager.ts` 208-209 wants a clean start. A handler that never returns
keeps its slot, and with it the circuit refuses until it is reset.

### IncidentResponse

One incident with everything that writes its row, and nothing else: incidents
meet only in the tick of the pipeline, which awaits the alerts of the others.

| Module | Code |
|---|---|
| `incident` | the row (`status`, `severity`, `level`, the age of `escalatedAt`), and in memory `l3Timers` and `resolutionNotified` |
| `loop` | `AgentIncidentHandler.inFlight`, what the analysis awaits, and the stale incident it holds |
| `attempted` | the recipes tried, in `IncidentAutoRemediator` |
| `checks` | `verifyResolution` between its read and its write |
| `due` | what `tick` will do about rows it has read |
| `Create` ... `Close` | `IncidentManager`, called by operators, monitors, runbooks and the tools of agents |
| `AgentSucceeds`, `AgentReachesLimit`, `AgentFails`, `LimitChecked`, `ActionEnds`, `RecipeChecked` | the continuations of `runInternal`, `runFallback` and `execute` |
| `CheckPasses`, `CheckFails`, `TimerFires`, `TickReads`, `TickActs`, `Restart` | the verifier, the timer of level 3, the sweep, the constructors |

`paged` (people were alerted) and `dropped` (a restart or a late tick lost an
analysis or a timer) are history. `Age` makes a level-3 alert old, and with it
the copies of the row that verifications hold. Left out: agent assignment and
workload, notes, the fallback workflow, the pipeline switched off, a zero delay
of level 3, exceptions inside the handler itself, and incidents filed again for
the same condition.

Worth knowing, each checked on the model:

- `IncidentAutoRemediator.ts` 339-341 and 393-395 say that the operator's status
  wins, but the status is read before each action and not after the last: a
  resolve or close during the last action becomes `mitigating`.
- A severity raised into the pipeline's range during the analysis is not seen by
  `handleFallback`, which gets the incident as it was; nobody is alerted,
  although `AgentIncidentHandler.ts` 381-384 promises an escalation at the end.
  `FailuresAreHandedOver` and `AnalysesAreHeard` therefore speak of the severity
  at the start.
- A failing verification writes back severity, level and age as they were, and
  reopens an incident that was closed meanwhile; nobody analyses it again.
- A tick that acts late can reset the level and cancel the timer of an incident
  reopened meanwhile, or promote, and thereby reopen, one that was finished.
- `resolutionNotified` is never cleared, so the second end of an incident that
  was reopened is not announced.
- A recipe stopped because the incident was closed counts as successful if the
  actions before were, and the verification after it turns `closed` into
  `resolved`.

### PlanExecutor and PlanRuns

`PlanRuns` is the promise: a node starts only when what it depends on is settled
well, a settled node is not touched again, an execution that was told to stop
starts nothing more, and none ends with a node under way. It knows no database.
`PlanExecutor` has it all:

| Module | Code |
|---|---|
| `stored` | the rows of `plans` and `plan_nodes`, as `PlanStore.get` reads them |
| `exec[e]` | one call of `execute`: its Plan object, its signal, and per node the attempt or back-off under way |
| `controller` | `runningPlans`, which has room for one controller per plan |
| `Turn` | one turn of the loop of `runDAG`, up to its next await |
| `AttemptSucceeds`, `AttemptFails`, `BackoffEnds`, `Poll` | the continuations of `runNode` and of the 500 ms poll |
| `Create`, `Retry`, `Pause`, `Delete`, `Restart` | the routes, and a process that dies |

`deps` is what the provider may answer. The last attempt of a batch, its
settling and the next turn are one step: no other macrotask comes between.
`seen` is history. Left out: progress figures, events, an empty plan, a save
that throws.

Worth knowing: a retry does not look at the plan's status, so a plan can be
executed twice at a time, each execution saving its own object over the rows;
results come and go then (`ResultsAreKept` excepts exactly this). The second
execution replaces the first one's controller, and the end of either removes
whatever is there, so a pause may reach the wrong execution or none; and one
that took a node over as running polls until it is paused, or for ever. An
execution that was paused still ends by writing `done` or `failed` over
`paused`. A plan deleted under an execution is written back by its next save.
A skipped dependency counts as satisfied, so after a pause and a retry a node
may run without what it needs.

### Delegations and ApprovalTokens

`ApprovalTokens` is the ledger as operators on a record, without variables;
`Delegations` holds the tree of tasks, the delegations, the policy and one
ledger.

| Module | Code |
|---|---|
| `task`, `row` | `TaskManager.tasks` and the SQLite row, statuses only |
| `deleg`, `recent` | `DelegationManager.delegations`, and the place of each in the order by `updatedAt` |
| `Desired`, `Rolled`, `RolledUp`, `RollUp` | `rollupParentTaskStatus`, and the listener on `task:status_changed` that carries it up |
| `Settles`, `DiesMidway` | the rows: `updateTaskStatus` announces a change before it persists it, so ancestors are written first; what it does not write, the status of a cancelled task for one, stays as it was in the row |
| `Propose`, `Transition`, `TransitionWith`, `SetPolicy`, `Revoke`, `CreateSubtask` | the routes |
| `SetStatus`, `Assign` | whatever TaskOrchestrator does to a task, as far as it changes the status |
| `Sweep`, `Overdue`, `Idles` | `processDelegationEscalations`, which rejects late delegations one after the other and rolls up each (`Fallen`), and the clock it compares with |

Tokens are minted, signed and expire elsewhere: one that exists here is valid.
`spent`, `withdrawn` and `forgot` are history. Left out: `linkChildTask`, which
no route calls, the trimming of delegations beyond 10000, the import of old
files, and a write of the ledger that throws.

Worth knowing: a token is consumed before the transition is tried, so one spent
on a step that is not allowed is gone. The ledger trims at 5000: a token that it
no longer knows is good again. `stalledEscalatedAt` is never cleared, so a
delegation is nudged once in its life, whatever states it goes through. The
timer asks `list` for 5000 delegations and gets 1000 (`web/server.ts` 5938,
`DelegationManager.ts` 167). A delegation counts for its `parentTaskId` and its
`childTaskId`, but only the first is rolled up when it moves. In `server.ts`
5442 the slot of a skill command is taken before the token is consumed (5506),
outside the `try` that releases it: a ledger that cannot be written leaks it.

### Maintenance

SQLite is synchronous, so a run is cut only at its remote commands. Time is
counted in minutes and a cron expression is a period; `next` is how many minutes
are left until `nextRunAt`.

| Module | Code |
|---|---|
| `jobs`, `rows` | `maintenance_jobs` and, per job, the statuses of `maintenance_runs` |
| `running` | `MaintenanceScheduler.running` and the loop of `runJob`: servers to go, outcomes so far |
| `alarms` | the incidents that `openFailureIncident` opens, de-duplicated by job and server |
| `Boot` | `seedDefaults`, then `start` with its immediate tick |
| `MaintenanceTick`, `Dispatches` | `tick` and the beginning of each `runJob` |
| `CommandEnds`, `RunJobNow`, `CreateJob`, `UpdateJob`, `DeleteJob`, `ProcessDies` | the continuation of a command, the routes, a process that dies |

`fresh` and `forgone` are history: a window has come since the tick last started
the job; the last step was a request that made the job not due. The second is
what `DueJobsRun` needs to say that a due job is really *started* by a tick, after
a run that is still on, or has failed for want of servers: the only other ends
are the death of the process and such a request, which is a run by hand, a
deletion, or any edit or creation, since those recompute the next window of every
job. A job that merely stops being due violates it. Nothing is bounded. The names say of which component they are because the
theorems are in one module with those of `ScheduleEngine`. Left out: cron
expressions that do not parse,
`MAINTENANCE_ENABLED=false`, outputs and durations.

Worth knowing, each checked on the model:

- `MaintenanceScheduler.ts` 144-145 says that a window missed during a restart is
  caught by the immediate tick. `seedDefaults` (`web/server.ts` 10163) has
  recomputed every `nextRunAt` just before, so no job is due then and the window
  is lost. For the same reason an edit or creation of any job pushes a job that
  is due to its next window.
- "Record one skipped row" (212) is one per minute: the skip leaves `nextRunAt`
  alone, so the job stays due, is skipped again at every tick and runs when the
  slow run is over. Enough skips push results out of the capped history.
- The default jobs are "seeded once on first boot" (52), but one that was
  deleted comes back at the next boot.
- A job deleted under a run and created again with the same id gets the rows and
  the summary of the old run.

## 4. What is checked

| Run | Instance | Shows |
|---|---|---|
| `task_runs` | 2 tasks, the second depending on the first; 1 agent, 2 slots; retry limit up to 1; 1 request; 1 restart | the store, the starts, the limiter, what is held back, and `EveryTaskSettles`, 413,154 states |
| `runbook_edits` | 1 run, 3 template versions (retry loop, longer, shorter with a dangling target), 5 steps, 4 requests, 1 restart | five properties under edits, decisions, cancels, limits and a restart, 24,606 states |
| `runbook_shown` | 2 versions, 3 requests | **violated**: after an edit the approval releases another step than the one shown |
| `schedule_runs` | 3 deployments: SQLite with 2 schedules and 1 edit; SQLite with 1 schedule, 2 tenants, 2 edits and 1 fault; Postgres with 1 schedule, 1 edit and 1 fault; 2 run slots and 1 crash each | lock accounting, no overlap unless wiped, jobs follow rows, the boot ends and locks open, 250,017 states |
| `schedule_crashed` | 1 schedule, 1 crash | **violated**: the count of a dead process blocks the schedule for ever |
| `workflow_runs` | 1 built-in and 1 custom template, lists of 3 and 1 stages, 3 runs of which 2 are kept, 1 incident, 4 requests, 1 restart, 5 minutes | four properties, recovery and fallback liveness included, 81,783 states |
| `incident_runs` | 3 severities, the lowest below the pipeline; recipe of 2 actions; 1 verification and 1 late tick at a time | the two invariants, the hand-over, and two liveness properties, 243,841 states |
| `incident_rescue` | same, recipe of 1 action | **violated**: an incident whose timer is lost in a restart is never escalated |
| `breaker_calls` | 4 calls, threshold 3, reset time 2, 2 test slots | four properties, healing included; no bounds, 898 states |
| `plan_runs` | 3 nodes; a join, a chain with a missing dependency, a circle; 2 executions, 3 attempts, 1 restart | the refinement of `PlanRuns`, verdicts, results kept, executions end, 19,780 states |
| `delegations_tree` | root, subtask, subtask of that; 2 delegations; 2 tokens, a ledger of 1 and lists of 1; 2 policies; 3 requests, 1 restart | roll-up through the tree, tokens, escalation, 84,526 states |
| `maintenance_runs` | 1 job, also a default one; 2 servers; periods of 1 and 2 minutes; history of 2 | no window twice, due jobs are started; no bounds, 291,792 states |

The bounds are chosen at the smallest size where the interesting cases meet:

- *Tasks*: a dependent and its dependency, and a duplicate execution after a
  recovery, with both slots taken and the third refused. One request is enough
  to put a task in any status at any moment; one restart, to lose the memory.
- *Runbooks*: four requests allow start, edit, decision and cancel in one
  behaviour; the versions differ in length, gates and targets. Five steps let
  the retry loop meet the step limit.
- *Schedules*: a run slot is an `executeRun` call, so two allow an overlap or a
  replay beside a tick. A second schedule is there for the boot, which replays
  one while another is edited. Two edits wipe a schedule and touch it again.
  They may also name a tenant other than the system's: one edit makes a schedule
  of it, which a crash and a boot then leave out; two delete a schedule of the
  system and make it anew. The deployments with one edit have the system tenant
  only.
- *Workflows*: three runs with two kept make trimming happen; four requests
  reopen a run after a twin was started and still edit a template.
- *Incidents*: three severities give one below the range, one that can be raised
  and the highest. A recipe of two actions has one that is not the last. One
  verification and one intent at a time can already be overtaken by everything
  else; restarts are unbounded.
- *Breaker*: four calls are two test calls and two from an earlier period.
- *Plans*: two executions are what a retry during an execution needs. Three
  nodes give a batch of two with a third that waits for both, and three attempts
  are the code's own number.
- *Delegations*: three levels make a roll-up of two rows, which a process can
  leave half written. A ledger and lists of one let the limits of 5000 and 1000
  be met by the second token and delegation. Behaviours begin with the root
  alone or with the whole tree under way, so three requests reach far. Tasks are
  set to a status that is persisted and ends the task, to one that is persisted
  or not, and to the two of a rollback, which never are.
- *Maintenance*: two servers make a run with a middle and an end, a period of one
  minute a run that is overtaken by its own schedule. Jobs meet only in
  `recomputeAllNextRuns`, where the edit of another job acts like an `UpdateJob`
  that changes nothing.

Deadlock is checked where the system never stops. `CHECK_DEADLOCK FALSE` is in
runs where requests are bounded and the process may have nothing left to do.

### Fairness

- Tasks: the heartbeat fires and time passes (`setInterval`). Nothing assumes
  that the dispatch loop fires or that an execution ends; a hung one counts as
  running, and a task that is never dispatched is recovered until it is blocked.
- Runbooks: only the body of a step ends. Waits and remote commands have a
  limit of their own; a skill or model call that hangs would keep its run in
  that step, and the property says nothing of it. Decisions are never assumed:
  waiting counts as a stop.
- Schedules: a started action ends, store calls resolve, and the boot goes on.
  `RunEnds` and `BootSteps` have the strong form: the end of an action waits its
  turn in the event queue, which is first in, first out, and the boot is only
  held up when both run slots of the instance are taken, a bound the code does
  not have. Nothing is asked of ticks, of requests or of the restart after a
  crash.
- Workflows: the recovery timer runs.
- Incidents: analyses, actions and their verifications end (all have time
  limits), the timer fires, time passes, the tick comes round and acts, and
  restarts stop eventually. Verifications of a resolution need not end, and
  nothing is asked of operators or monitors.
- Breaker: the clock advances and handlers end. Handlers have no common
  timeout, so this is an assumption about the skills (a test call that never
  returns, `SkillManager.ts` 382, keeps its slot and the circuit half open).
  `Heals` also assumes, in the formula itself, that the skill is used and has
  stopped failing.
- Plans: attempts settle, at the latest by their timeout, and back-offs and polls
  are over in time. Retries and pauses are never assumed.
- Delegations: the escalation timer fires.
- Maintenance: time passes, the tick comes, and commands end by their timeout. A
  dead process need not come back.

### Disagreements with the documentation

Three runs show what a document or comment of the repository says and the code
does otherwise; `PROJECT.json` quotes the lines under `findings`. Others, seen
while modelling, are under "Worth knowing" in section 3.

## 5. What is proved

The theorems hold for every value of the constants under the named assumptions
of the modules (finite task set, natural bounds, well-formed steps and the
like); TLC evaluates those assumptions in the runs. The bounds on requests, edits and
restarts are constants like the others, so the theorems hold for behaviours of
any length.

- `TaskOrchestratorProofs`: `TypeCorrect`, `StoreLag`
  (`StoreLagsOnlyOnMemoryOnly`), `LaunchesBounded` (`LaunchBudget`),
  `HeldStay` (`HeldTasksStay`) and `SlotsAlwaysLoops` (`SlotsAreLoops`). The
  launch budget is not inductive by itself: a queued task that had used it up
  could be dispatched once more. The strengthening `LaunchInv` says that a
  task that is queued, or not created yet, is at least one start below its
  budget; a dispatch uses that start, and a retry or a request pays for the
  next one. What is held stays so because recovery, with which a pass begins,
  completes nothing and leaves a task blocked whose attempts are used up. The
  limiter needs `SlotsInv`: the executions of an agent that are in their loop
  are pairs of a task and a number, finitely many of them (`LoopsInFlight`); a
  pass adds as many as it starts tasks (`StartedAreCounted`, by a bijection)
  and takes a slot for each and for each that throws, which are disjoint; an
  end removes one pair (`EndedIsCounted`), so there is a slot to release.
- `RunbookEngineProofs`: `TypeCorrect`, `GatesAlwaysHold`, `OneStepAlways`,
  `EndedRunsStay`, from `LoopInv`: types, and for each run that its loop *fits*
  its record (`LoopFits`): no step but the current one is running, a waiting run
  has no step running, and a live loop stands, in both the record and the
  version it captured, at a running step that is approved if it is gated. The
  lemmas about `Enter` follow the turns of the loop: leave, overrun, abort, pause,
  start.
  `RunsStayInSight` (`NoRunIsLost`) adds `SightInv`: a running run without a loop
  was cut off by a restart or outgrown by the template, and the last row of a
  waiting run is pending and of the step it stands at. While the template is not
  edited, at most one row of a run is pending, none while its loop lives, and all
  rows and loops are of the one version. That a deleted template is no version of
  one is the assumption `DeletedIsNoVersion`.
  `EndedRunsStay` states what no run checks: no step of the system writes a run
  that completed or failed (`EndedRunsAreFinal`).
- `WorkflowEngineProofs`: `TypeCorrect`, `StagesAgree`
  (`StagesAgreeWithStatus`), `ReconcileFindsNothing` (which no run checks) and
  `NoTwins` (`RecoveryLeavesNoTwins`), from `WorkflowInv`: types, the limit on
  runs, and that every kept run is *consistent* (`Consistent`), which says of its
  stages what `normalizeRun` makes of them: an active run is in progress at its
  current stage and nowhere else, a failed one stands at the first failed stage
  and nothing of it is in progress, a completed one has left every stage behind.
  The trimming of runs is why sets of runs must be finite, and with them the
  built-in templates (`BuiltInIsFinite`).
- `CircuitBreakerProofs`: `TypeCorrect`, `TripsInTime` and `SlotsNeverLeak`, which
  together are `CountersAlwaysFit` (`CountersFit`), and `OpenIsQuiet`
  (`QuietWhileOpen`), from `BreakerInv`: the two invariants and `HistoryFits`, which says that the
  history variable `quiet` shows the entry's own clock while the circuit is open
  and is up otherwise. Without it, a circuit that leaves the open state could
  not be shown to have been open for the reset time.
- `IncidentResponseProofs`: `TypeCorrect`, `PagesFirst` (`PagesComeFirst`) and
  `FailuresHandedOver` (`FailuresAreHandedOver`), from `AlertInv`. The invariant
  has to speak of what was read and not yet written back: a level that a
  verification holds, or that a tick is going to announce or promote, is one
  people were alerted about. `Keeps` says what every operation makes of a row,
  in any order of operations; each step is then a chain of operations that keep
  it. That the remaining actions are at least one while one is awaited
  (`ActionLeft`), and that nothing happens before the incident exists
  (`Unborn`), complete it.

- `PlanExecutorProofs`: `TypeCorrect`, `ExecutionsKeepPromise` (`KeepsPromise`,
  the refinement), `VerdictAlwaysFits` (`VerdictFits`) and `ResultsAreAlwaysKept`
  (`ResultsAreKept`). Each action is shown to be a step of `PlanRuns` or to
  change nothing that it sees, from types and `ControllerIsLive`. The verdict
  needs two more facts. A plan with pending nodes, none under way and none
  failed has a ready one: among the pending nodes one has the least rank of the
  circle-free order, and all it depends on is settled (`NothingLeft`). And
  without a pause nothing is ever skipped, which is what distinguishes a plan
  whose nodes are settled from one whose nodes are done. For the results,
  `WriterInv` says that until a plan is retried under an execution at most one
  execution is alive and the rows, unless deleted, are its object; and that there
  are no rows before the first execution.
- `DelegationsProofs`: `TokensAlwaysBuyOnce` (`TokensBuyOnce`), `TypeCorrect` and
  `DriftAlwaysHasAName` (`DriftHasAName`), from `DelegationInv`. Its part
  `TokenInv` says that the ledger knows every token that was consumed or revoked,
  or has dropped a record of it; no list of the ledger is longer than its limit,
  so that a write to one list trims nothing of the other, and the limit is not
  zero, so that the newest record is kept. Its part `TreeInv` says that the
  parent of a task that exists does, that delegations are about tasks that exist,
  and that a row differs from memory only in a status that is not persisted.

  The roll-up is a recursion along a line of ancestors. `ParentsLeadToTheRoot`
  (a finite tree without circles, which holds because a subtask is created under
  a task that exists) makes it end: `AncestorsOf` and `LineageIsLine` say that
  the line of ancestors is a sequence that repeats no task, and
  `RollUpHasSteps` that the roll-up is a sequence of `Rolled` steps along it;
  both by `Induct`, since a recursive function only stands for something once it
  is known to exist. `RollUpAgrees` is the heart: after a roll-up from a task
  every task agrees that did before, because the roll-up stops only where
  nothing changed, and who is further up depends on nothing that changed.
  `SweepHasFalls` does the same for a timer that rejects any finite number of
  delegations (`DelegationsAreFinite`), each roll-up seeing the ones before it.

- `ScheduleEngineProofs`: `TypeCorrect`, `LockAlwaysAccountedFor`
  (`LockIsAccountedFor`) and `JobsAlwaysFollowRows` (`JobsFollowRows`). What
  SQLite gives is stated once, in `SoloInv`: one run, one request or the boot is
  suspended at a store call at a time, and whatever needs the macrotask queue
  finds nothing suspended. From it, a count that a run has found at zero is still
  zero when the run increments it (`CountInv`), and a request finds its own
  rebinding the only one left (`JobInv`). The tenants need an invariant each: a
  run that is counted is of the tenant of its row, unless the row was replaced
  under it, so that its end finds the count it took (`CountInv`); and the request
  under way, or the list of the boot, has the tenant of the row, unless the
  schedule is astray (`JobInv`). Postgres keeps only the first half of
  `LockIsAccountedFor`.

  The module also has the theorems about `Maintenance`: `JobsTypeCorrect`
  (`MaintenanceTypeOK`) and `JobsRunOncePerWindow` (`NoWindowTwice`), from
  `JobsInv`. What makes it inductive is `Armed`: an enabled job waits for
  exactly the next window, as computed from the clock of the present minute,
  or its window has come and the tick has not started it since. That the wait
  shrinks by one with every minute, and over the wrap of the modelled clock,
  is arithmetic on remainders (`NextRemainder`, `ClockWraps`, `WaitShrinks`).

Only model-checked are the ten liveness properties (`EveryTaskSettles`,
`RunsComeToAStop`, `BootEndsAndLocksOpen`, `FallbackRunsEnd`, `Heals`,
`AnalysesAreHeard`, `AlertsDoNotStand`, `ExecutionsEnd`, `LateOnesAreNoticed`,
`DueJobsRun`) and the three that are violated: liveness under fairness and
enabledness are outside the prover's reach, and a violation needs no more than
its counterexample. Every invariant and every action property of a passing run
is proved.

## 6. Running it

    tlc -workers 2 -config TaskOrchestrator_runs.cfg MCTaskOrchestrator.tla
    tlapm TaskOrchestratorProofs.tla

and likewise for the others: `<Module>_<run>.cfg` belongs to `MC<Module>.tla`.
The longest run takes about three minutes, the proofs about twelve together.
