----------------------------- MODULE Delegations -----------------------------
(***************************************************************************)
(* Delegations and subtasks: a task is split into subtasks and handed on   *)
(* through delegations, its status is rolled up from theirs, some steps of *)
(* a delegation need a one-time approval token, and a timer escalates or   *)
(* rejects the delegations that are late.                                  *)
(*                                                                         *)
(* All of it runs in one process, in handlers without an await, so each    *)
(* handler is one step; but each writes several rows, and the process can  *)
(* die between two of them.  What agents, timers and operators do to a     *)
(* task (TaskOrchestrator) is here that its status changes.                *)
(***************************************************************************)
EXTENDS Integers, Sequences, FiniteSets, SequencesExt

CONSTANTS
    Task,           \* the tasks that may exist
    Root,           \* the task that is no subtask
    Beginnings,     \* what a behaviour may begin with: the tasks that
                    \* exist, the states of the delegations, and the
                    \* order of their last updates
    Parent,         \* subtask -> the task it is a subtask of
    Delegation,     \* the delegations that may be proposed
    Of,             \* delegation -> its parentTaskId
    ChildOf,        \* delegation -> its childTaskId, or NoTask
    Risk,           \* delegation -> its riskLevel, fixed when it is created
    Deadline,       \* the delegations that have one
    Token,          \* the approval tokens that are minted
    MaxRecords,     \* of the ledger, of each kind (5000 in the code)
    ListLimit,      \* the most that DelegationManager.list returns (1000)
    Policies,       \* the delegation policies that operators set
    NoTask,
    SetTo,          \* bound: the statuses that tasks are set to directly
    MaxOps,         \* bound: requests and task events per behaviour
    MaxRestarts     \* bound: process restarts per behaviour

Active   == {"pending", "assigned", "in_progress", "blocked", "rolling_back"}
Failed   == {"failed", "cancelled", "dropped"}
Good     == {"completed", "rolled_back"}
Terminal == Failed \union Good
Status   == Active \union Terminal

\* cancelTask, dropTask, requestRollback and applyRollback do not persist.
MemoryOnly == {"cancelled", "dropped", "rolling_back", "rolled_back"}

State    == {"proposed", "approved", "dispatched", "accepted",
             "rejected", "completed"}
RiskType == {"low", "medium", "high"}

\* The orders that the last updates of the delegations in S can be in.
Orders(S) == {p \in [S -> 1..Cardinality(S)] :
                \A d, e \in S : p[d] = p[e] => d = e}

ASSUME ConfigType ==
    /\ Root \in Task /\ NoTask \notin Task
    /\ Parent \in [Task \ {Root} -> Task]
    /\ \A b \in Beginnings :
          /\ Root \in b.born
          /\ \A t \in b.born \ {Root} : t \in Task /\ Parent[t] \in b.born
          /\ b.states \in [Delegation -> State \union {"none"}]
          /\ \A d \in Delegation : b.states[d] # "none" =>
                {Of[d], ChildOf[d]} \subseteq b.born \union {NoTask}
          /\ b.order \in Orders({d \in Delegation : b.states[d] # "none"})
    /\ Of \in [Delegation -> Task]
    /\ ChildOf \in [Delegation -> Task \union {NoTask}]
    /\ Risk \in [Delegation -> RiskType]
    /\ Deadline \subseteq Delegation
    /\ Policies \subseteq [gates : SUBSET (State \X RiskType),
                           stalls : SUBSET State,
                           overdue : {"escalate", "reject"}]
    /\ SetTo \subseteq Status
    /\ {ListLimit, MaxOps, MaxRestarts} \subseteq Nat

\* A subtask is created under a task that exists, so the tree has no cycle.
ASSUME ParentsLeadToTheRoot ==
    /\ IsFiniteSet(Task)
    /\ \E depth \in [Task -> 0..Cardinality(Task)] :
          \A t \in Task \ {Root} : depth[Parent[t]] < depth[t]

\* No more than 10000 delegations are kept.
ASSUME DelegationsAreFinite == IsFiniteSet(Delegation)

ASSUME LedgerKeepsSome == MaxRecords \in Nat \ {0}

\* list does not cut the delegations of one task short.
ASSUME ListsAreWhole ==
    \A t \in Task :
        Cardinality({d \in Delegation : t \in {Of[d], ChildOf[d]}}) <= ListLimit

VARIABLES
    task,       \* task -> status, "none" before it is created
    row,        \* task -> status in the database
    deleg,      \* delegation -> state and what the timer knows of it
    recent,     \* delegation -> its place, the one updated last being first
    policy,     \* the delegation policy
    ledger,     \* the ledger of approval tokens
    spent,      \* history: token -> how often it was consumed
    withdrawn,  \* history: the tokens that were revoked
    forgot,     \* history: the tokens of which the ledger dropped a record
    ops,        \* requests and task events so far
    restarts    \* restarts so far

vars == <<task, row, deleg, recent, policy, ledger, spent, withdrawn,
          forgot, ops, restarts>>

Tokens == INSTANCE ApprovalTokens

-----------------------------------------------------------------------------
(* Roll-up of a task's status from its subtasks and delegations.           *)

Open == {"proposed", "approved", "dispatched", "accepted"}

NoDelegation == [state |-> "none", overdue |-> FALSE, noted |-> FALSE,
                 idle |-> FALSE, nudged |-> FALSE]
Proposed     == [NoDelegation EXCEPT !.state = "proposed"]

Exists(s, t)   == s[t] # "none"
Children(s, t) == {c \in Task \ {Root} : Parent[c] = t /\ Exists(s, c)}
About(D, t)    == {d \in Delegation : D[d].state # "none"
                                      /\ t \in {Of[d], ChildOf[d]}}

\* The status that the subtasks and delegations D call for; the delegation
\* that a subtask itself came from is counted among its own.
Desired(s, D, t) ==
    LET kids == {s[c] : c \in Children(s, t)}
        dels == {D[d].state : d \in About(D, t)}
    IN  CASE kids \intersect Failed # {} \/ "rejected" \in dels -> "blocked"
          [] kids # {} /\ kids \subseteq Good /\ dels \subseteq {"completed"} -> "completed"
          [] kids \intersect Active # {} \/ dels \intersect Open # {} -> "in_progress"
          [] OTHER -> s[t]

RollsUp(s, D, t) == s[t] \notin Terminal /\ s[t] # Desired(s, D, t)

\* The parent of a task, its parent, and so on.
Ancestors[t \in Task] == IF t = Root THEN <<>>
                         ELSE <<Parent[t]>> \o Ancestors[Parent[t]]

\* rollupParentTaskStatus of task t, unless the one before it changed nothing:
\* a change of a task's status is announced, and the listener rolls up its
\* parent.
Rolled(before, D, t) ==
    IF before.on /\ RollsUp(before.s, D, t)
    THEN [before EXCEPT !.s[t] = Desired(before.s, D, t)]
    ELSE [before EXCEPT !.on = FALSE]

\* The statuses after rollupParentTaskStatus of the first task in q, which
\* is followed by its ancestors.
RolledUp(s, D, q) ==
    LET after[i \in 0..Len(q)] == IF i = 0 THEN [s |-> s, on |-> TRUE]
                                  ELSE Rolled(after[i - 1], D, q[i])
    IN  after[Len(q)].s

-----------------------------------------------------------------------------
(* The rows of a roll-up that turns the statuses s into r, and what else is *)
(* stored.  updateTaskStatus announces a change before it persists it, so   *)
(* the rows are written from the topmost ancestor down.                     *)

Changed(s, r) == {t \in Task : r[t] # s[t]}

\* Faulty variant: a rolled-up status is not persisted.
SettlesInMemory(s, r, stored) ==
    /\ task' = r
    /\ row' = [t \in Task |-> IF t \in stored THEN r[t] ELSE row[t]]
    /\ UNCHANGED restarts

Settles(s, r, stored) ==
    /\ task' = r
    /\ row' = [t \in Task |-> IF t \in stored \union Changed(s, r) THEN r[t] ELSE row[t]]
    /\ UNCHANGED restarts

\* The process dies when the rows from the ancestor number i on are
\* written, q being the ancestors, and starts again with what is stored.
DiesMidway(s, r, q) ==
    /\ restarts < MaxRestarts
    /\ restarts' = restarts + 1
    /\ \E i \in 1..(Len(q) + 1) :
          row' = [t \in Task |-> IF t \in Changed(s, r) /\ \E k \in i..Len(q) : q[k] = t
                                THEN r[t] ELSE row[t]]
    /\ task' = row'

RollUp(s, D, q, stored) ==
    \E r \in {RolledUp(s, D, q)} : Settles(s, r, stored) \/ DiesMidway(s, r, q)

Lineage(t) == <<t>> \o Ancestors[t]

Spends(t) ==
    /\ Tokens!Usable(ledger, t)
    /\ ledger' = Tokens!Consumed(ledger, t)
    /\ spent' = [spent EXCEPT ![t] = @ + 1]
    /\ forgot' = forgot \union (ToSet(ledger.used) \ ToSet(ledger'.used))
    /\ UNCHANGED withdrawn

LedgerUnchanged == UNCHANGED <<ledger, spent, withdrawn, forgot>>

Request == ops < MaxOps /\ ops' = ops + 1

Recorded(D) == {d \in Delegation : D[d].state # "none"}

\* The delegations are D, and those in S have been updated: they are the
\* most recent ones, and the others follow in the order they were in.
Touched(D, S) ==
    /\ deleg' = D
    /\ \E p \in Orders(Recorded(D)) :
          /\ \A e \in DOMAIN p \ S :
                /\ \A d \in S : p[d] < p[e]
                /\ \A d \in DOMAIN p \ S : recent[d] < recent[e] => p[d] < p[e]
          /\ recent' = p

-----------------------------------------------------------------------------
Init ==
    /\ \E b \in Beginnings :
          /\ task = [t \in Task |-> IF t \notin b.born THEN "none"
                                   ELSE IF \E c \in b.born \ {Root} : Parent[c] = t
                                   THEN "in_progress" ELSE "pending"]
          /\ deleg = [d \in Delegation |-> [NoDelegation EXCEPT !.state = b.states[d]]]
          /\ recent = b.order
    /\ row = task
    /\ policy \in Policies
    /\ ledger = Tokens!NoRecords
    /\ spent = [t \in Token |-> 0]
    /\ withdrawn = {} /\ forgot = {}
    /\ ops = 0 /\ restarts = 0

\* POST /tasks/:id/subtasks.  createTask persists the task and its parent.
CreateSubtask(t, status) ==
    /\ t # Root /\ ~Exists(task, t) /\ Exists(task, Parent[t])
    /\ status \in {"pending", "assigned"}
    /\ Request
    /\ LET s == [task EXCEPT ![t] = status]
       IN  \E r \in {RolledUp(s, deleg, Ancestors[t])} : Settles(s, r, {t, Parent[t]})
    /\ UNCHANGED <<deleg, recent, policy>> /\ LedgerUnchanged

\* updateTaskStatus and setTaskError persist, the handlers of MemoryOnly do
\* not; a task is cancelled in both ways.
StoredOrNot(status) == IF status = "cancelled" THEN BOOLEAN
                       ELSE {status \notin MemoryOnly}

\* An agent, a timer or an operator sets the status of a task.
SetStatus(t, status) ==
    /\ Exists(task, t) /\ status \in SetTo
    /\ Request
    /\ \E kept \in StoredOrNot(status) :
          RollUp([task EXCEPT ![t] = status], deleg, Ancestors[t],
                 IF kept THEN {t} ELSE {})
    /\ UNCHANGED <<deleg, recent, policy>> /\ LedgerUnchanged

\* assignAgentToTask announces task:assigned, which nobody rolls up.
Assign(t) ==
    /\ Exists(task, t) /\ task[t] # "assigned"
    /\ Request
    /\ task' = [task EXCEPT ![t] = "assigned"]
    /\ row' = [row EXCEPT ![t] = "assigned"]
    /\ UNCHANGED <<deleg, recent, policy, restarts>> /\ LedgerUnchanged

\* POST /delegations.  The id of a subtask is known once it exists.
Propose(d) ==
    /\ deleg[d] = NoDelegation /\ Exists(task, Of[d])
    /\ ChildOf[d] # NoTask => Exists(task, ChildOf[d])
    /\ Request
    /\ Touched([deleg EXCEPT ![d] = Proposed], {d})
    /\ RollUp(task, [deleg EXCEPT ![d] = Proposed], Lineage(Of[d]), {})
    /\ UNCHANGED policy /\ LedgerUnchanged

\* ALLOWED_TRANSITIONS
Allowed(from) == CASE from = "proposed"   -> {"approved", "rejected"}
                   [] from = "approved"   -> {"dispatched", "rejected"}
                   [] from = "dispatched" -> {"accepted", "rejected"}
                   [] from = "accepted"   -> {"completed", "rejected"}
                   [] OTHER               -> {}

Gated(d, next) == <<next, Risk[d]>> \in policy.gates

\* What the timer has noted of a delegation is of no use once it is closed.
Moved(D, next) == IF next \in Open THEN [D EXCEPT !.state = next, !.idle = FALSE]
                  ELSE [NoDelegation EXCEPT !.state = next]

\* Faulty variant: the roll-up is left out.
MovesQuietly(d, next) ==
    /\ Touched([deleg EXCEPT ![d] = Moved(deleg[d], next)], {d})
    /\ UNCHANGED <<task, row, restarts>>

Moves(d, next) ==
    LET D == [deleg EXCEPT ![d] = Moved(deleg[d], next)]
    IN  /\ Touched(D, {d})
        /\ RollUp(task, D, Lineage(Of[d]), {})

\* POST /delegations/:id/transition, without a token.
Transition(d, next) ==
    /\ next \in Allowed(deleg[d].state) /\ ~Gated(d, next)
    /\ Request
    /\ Moves(d, next)
    /\ UNCHANGED policy /\ LedgerUnchanged

\* With a token, which is consumed before the transition is tried: one that
\* is not allowed, or a process that dies in between, has used it up.
TransitionWith(d, next, t) ==
    /\ deleg[d].state # "none" /\ next \in State /\ Gated(d, next)
    /\ Request
    /\ Spends(t)
    /\ \/ next \in Allowed(deleg[d].state) /\ Moves(d, next)
       \/ /\ next \notin Allowed(deleg[d].state)
          /\ UNCHANGED <<task, row, deleg, recent, restarts>>
       \/ /\ restarts < MaxRestarts /\ restarts' = restarts + 1
          /\ task' = row
          /\ UNCHANGED <<row, deleg, recent>>
    /\ UNCHANGED policy

\* A token of the same ledger is used for another command.
SpendElsewhere(t) ==
    /\ Request
    /\ Spends(t)
    /\ UNCHANGED <<task, row, deleg, recent, policy, restarts>>

\* POST /approvals/revoke
Revoke(t) ==
    /\ ~Tokens!IsRevoked(ledger, t)
    /\ Request
    /\ ledger' = Tokens!Revoked(ledger, t)
    /\ withdrawn' = withdrawn \union {t}
    /\ forgot' = forgot \union (ToSet(ledger.revoked) \ ToSet(ledger'.revoked))
    /\ UNCHANGED <<task, row, deleg, recent, policy, spent, restarts>>

SetPolicy(p) ==
    /\ policy # p
    /\ Request
    /\ policy' = p
    /\ UNCHANGED <<task, row, deleg, recent, restarts>> /\ LedgerUnchanged

-----------------------------------------------------------------------------
(* processDelegationEscalations, once a minute.                             *)

Late(d)    == deleg[d].state \in Open /\ deleg[d].overdue
Rejects(d) == Late(d) /\ policy.overdue = "reject"
Notes(d)   == Late(d) /\ policy.overdue = "escalate" /\ ~deleg[d].noted
Nudges(d)  == /\ deleg[d].state \in Open \intersect policy.stalls
              /\ deleg[d].idle /\ ~deleg[d].nudged
              /\ ~Rejects(d) /\ ~Notes(d)
Due(d)     == Rejects(d) \/ Notes(d) \/ Nudges(d)

\* list sorts by the last update, and returns the first ListLimit.
Window == {d \in DOMAIN recent : recent[d] <= ListLimit}

\* Faulty variant: an escalation is not noted in the delegation.
SweptUnnoted(d) ==
    CASE Rejects(d) -> Moved(deleg[d], "rejected")
      [] Nudges(d)  -> [deleg[d] EXCEPT !.nudged = TRUE, !.idle = FALSE]
      [] OTHER      -> deleg[d]

Swept(d) ==
    CASE Rejects(d) -> Moved(deleg[d], "rejected")
      [] Notes(d)   -> [deleg[d] EXCEPT !.noted = TRUE, !.idle = FALSE]
      [] Nudges(d)  -> [deleg[d] EXCEPT !.nudged = TRUE, !.idle = FALSE]
      [] OTHER      -> deleg[d]

\* The delegations once the first n of gone are rejected.
Rejected(gone, n) ==
    [d \in Delegation |-> IF \E k \in 1..n : gone[k] = d
                          THEN Moved(deleg[d], "rejected") ELSE deleg[d]]

\* The statuses once the delegations gone are rejected, one after the other,
\* and each rejection is rolled up.
Fallen(gone) ==
    LET after[i \in 0..Len(gone)] ==
            IF i = 0 THEN task
            ELSE RolledUp(after[i - 1], Rejected(gone, i), Lineage(Of[gone[i]]))
    IN  after[Len(gone)]

\* Those that are changed become the most recent ones, in an order that
\* depends on the clock; the rejected ones go in the order of the list.
Sweep ==
    LET todo == {d \in Window : Due(d)}
        doomed == {d \in todo : Rejects(d)}
    IN  /\ todo # {}
        /\ Touched([d \in Delegation |-> IF d \in todo THEN Swept(d) ELSE deleg[d]],
                   todo)
        /\ \E gone \in [1..Cardinality(doomed) -> doomed] :
              /\ \A i, j \in DOMAIN gone : i < j => recent[gone[i]] < recent[gone[j]]
              /\ \E r \in {Fallen(gone)} : Settles(task, r, {})
        /\ UNCHANGED <<policy, ops>> /\ LedgerUnchanged

\* A deadline passes.
Overdue(d) ==
    /\ d \in Deadline /\ deleg[d].state \in Open /\ ~deleg[d].overdue
    /\ deleg' = [deleg EXCEPT ![d].overdue = TRUE]
    /\ UNCHANGED <<task, row, recent, policy, ops, restarts>> /\ LedgerUnchanged

\* Nothing has happened to a delegation for stalledHoursByState.
Idles(d) ==
    /\ deleg[d].state \in Open \intersect policy.stalls /\ ~deleg[d].idle
    /\ deleg' = [deleg EXCEPT ![d].idle = TRUE]
    /\ UNCHANGED <<task, row, recent, policy, ops, restarts>> /\ LedgerUnchanged

\* Delegations, policy and ledger are stored by every handler.
Restart ==
    /\ restarts < MaxRestarts
    /\ restarts' = restarts + 1
    /\ task' = row
    /\ UNCHANGED <<row, deleg, recent, policy, ops>> /\ LedgerUnchanged

Next ==
    \/ \E t \in Task : \/ \E s \in Status : CreateSubtask(t, s) \/ SetStatus(t, s)
                       \/ Assign(t)
    \/ \E d \in Delegation :
          \/ Propose(d) \/ Overdue(d) \/ Idles(d)
          \/ \E next \in State : \/ Transition(d, next)
                                \/ \E t \in Token : TransitionWith(d, next, t)
    \/ \E t \in Token : SpendElsewhere(t) \/ Revoke(t)
    \/ \E p \in Policies : SetPolicy(p)
    \/ Sweep \/ Restart

Spec == Init /\ [][Next]_vars

\* The sweep is an interval timer of the process.
FairSpec == Spec /\ WF_vars(Sweep)

-----------------------------------------------------------------------------
(* Types; what is stored of a task differs from memory only in a status    *)
(* whose handler does not persist it; and the order of the delegations     *)
(* lists each one once.                                                    *)
TypeOK ==
    /\ task \in [Task -> Status \union {"none"}]
    /\ row \in [Task -> Status \union {"none"}]
    /\ \A t \in Task : row[t] # task[t] => task[t] \in MemoryOnly
    /\ deleg \in [Delegation -> [state : State \union {"none"},
                                 overdue : BOOLEAN, noted : BOOLEAN,
                                 idle : BOOLEAN, nudged : BOOLEAN]]
    /\ recent \in Orders(Recorded(deleg))
    /\ policy \in Policies
    /\ ledger \in Tokens!Ledger
    /\ spent \in [Token -> Nat]
    /\ withdrawn \subseteq Token /\ forgot \subseteq Token
    /\ ops \in 0..MaxOps /\ restarts \in 0..MaxRestarts

(* The status of a task that has not ended follows from its subtasks and   *)
(* delegations, up the whole tree, and parts from them only for a reason   *)
(* that has a name: somebody set it, or assigned the task or one of its    *)
(* subtasks, directly; the delegation that the task itself came from moved *)
(* on, which only its parent is told of; or the process died.              *)
Agrees(t) == task[t] \in Terminal \union {"none"} \/ task[t] = Desired(task, deleg, t)

DriftHasAName ==
    [][\A t \in Task :
         Agrees(t) /\ ~Agrees(t)' =>
            \/ \E s \in Status : SetStatus(t, s)
            \/ Assign(t) \/ \E c \in Children(task, t) : Assign(c)
            \/ \E d \in Delegation : /\ ChildOf[d] = t
                                     /\ deleg'[d].state # deleg[d].state
            \/ restarts' # restarts]_vars

(* A step of a delegation that needs an approval costs a token, and a      *)
(* token buys one thing: it is consumed once, and never after it was       *)
(* revoked, unless the ledger has dropped a record of it.  Proposing costs *)
(* nothing, and the timer's rejections are its own.                        *)
TokensBuyOnce ==
    [][/\ \A t \in Token :
             spent'[t] # spent[t] => t \in forgot \/ (spent[t] = 0 /\ t \notin withdrawn)
       /\ \A d \in Delegation :
             /\ deleg[d].state \notin {"none", deleg'[d].state}
             /\ Gated(d, deleg'[d].state)
             /\ ~(Rejects(d) /\ deleg'[d].state = "rejected")
             => \E t \in Token : spent'[t] # spent[t]]_vars

(* A delegation that is overdue or has stalled is escalated or rejected,   *)
(* unless it is closed, the policy changes, or so many others have been    *)
(* updated since that it is no longer among the ListLimit that the timer   *)
(* looks at: the longer it has been left alone, the sooner it falls out.   *)
LateOnesAreNoticed ==
    \A d \in Delegation : Due(d) ~> ~Due(d) \/ d \notin Window

=============================================================================
