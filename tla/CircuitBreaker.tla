--------------------------- MODULE CircuitBreaker ---------------------------
(***************************************************************************)
(* The circuit breaker of one skill, as SkillManager.execute uses it: asked *)
(* before the handler of a command is called, told the outcome when the    *)
(* handler, which is awaited, has ended.  Any number of calls overlap, so  *)
(* the outcome of a call may arrive in another state of the breaker than   *)
(* the one that let the call in, or after the plugin that it belongs to    *)
(* was unloaded or replaced.                                               *)
(*                                                                         *)
(* Breakers of different skills share nothing.  They live in memory only.  *)
(***************************************************************************)
EXTENDS Integers, FiniteSets

CONSTANTS
    Call,              \* calls that may overlap
    FailureThreshold,  \* failures in a row that open the circuit
    ResetTime,         \* ticks of resetTimeMs
    HalfOpenMax        \* halfOpenMaxAttempts

ASSUME ConfigType ==
    /\ FailureThreshold \in Nat \ {0}
    /\ ResetTime \in Nat \ {0}
    /\ HalfOpenMax \in Nat \ {0}
    /\ IsFiniteSet(Call)

VARIABLES
    breaker,     \* the entry of the skill
    registered,  \* whether the skill is registered
    executor,    \* whether it has an executor
    running,     \* calls whose handler has not ended
    probes,      \* history: calls let in since the circuit last became half
                 \* open, while it is half open
    quiet        \* history: ticks since the circuit was last opened, or
                 \* ResetTime if that was cancelled by a reset

vars == <<breaker, registered, executor, running, probes, quiet>>

-----------------------------------------------------------------------------
(* The state of an entry.  since counts the ticks after openedAt, and       *)
(* failures is consecutiveFailures; each stops at the limit it is compared  *)
(* with.                                                                    *)

CircuitState == {"CLOSED", "OPEN", "HALF_OPEN"}

Entry == [state : CircuitState, failures : 0..FailureThreshold,
          since : 0..ResetTime, inFlight : 0..HalfOpenMax]

Healthy == [state |-> "CLOSED", failures |-> 0, since |-> 0, inFlight |-> 0]

AtMost(n, limit) == IF n > limit THEN limit ELSE n

\* advanceCooldown, which every look at an entry applies.
Advanced(b) ==
    IF b.state = "OPEN" /\ b.since >= ResetTime
    THEN [b EXCEPT !.state = "HALF_OPEN", !.inFlight = 0] ELSE b

Allows(b) ==
    \/ b.state = "CLOSED"
    \/ b.state = "HALF_OPEN" /\ b.inFlight < HalfOpenMax

\* Faulty variant: a test call takes no slot.
AdmittedUncounted(b) == b

\* canRun, for a call that is allowed.
Admitted(b) ==
    IF b.state = "HALF_OPEN" THEN [b EXCEPT !.inFlight = @ + 1] ELSE b

\* Faulty variant: the number of test calls is not kept from going negative.
SucceededBelowZero(b) ==
    IF b.state = "HALF_OPEN"
    THEN [b EXCEPT !.state = "CLOSED", !.failures = 0, !.since = 0,
                   !.inFlight = @ - 1]
    ELSE [b EXCEPT !.failures = 0]

\* Faulty variant: a success closes an open circuit as well.
SucceededFromOpen(b) ==
    IF b.state # "CLOSED" THEN Healthy ELSE [b EXCEPT !.failures = 0]

\* Faulty variant: a success is not taken as the end of the test.
SucceededStillTesting(b) ==
    IF b.state = "HALF_OPEN"
    THEN [b EXCEPT !.failures = 0,
                   !.inFlight = IF @ > 0 THEN @ - 1 ELSE 0]
    ELSE [b EXCEPT !.failures = 0]

\* recordSuccess
Succeeded(b) ==
    IF b.state = "HALF_OPEN"
    THEN [b EXCEPT !.state = "CLOSED", !.failures = 0, !.since = 0,
                   !.inFlight = IF @ > 0 THEN @ - 1 ELSE 0]
    ELSE [b EXCEPT !.failures = 0]

Tripped(b) == [b EXCEPT !.state = "OPEN", !.since = 0, !.inFlight = 0]

\* recordFailure
Failed(b) ==
    LET counted == [b EXCEPT !.failures = AtMost(@ + 1, FailureThreshold)]
    IN  IF \/ b.state = "HALF_OPEN"
           \/ b.state = "CLOSED" /\ counted.failures >= FailureThreshold
        THEN Tripped(counted) ELSE counted

\* The history that goes with a new entry b: test calls in flight count only
\* while the circuit stays half open, ticks from the moment it is opened.
Remembered(b, ps) ==
    /\ breaker' = b
    /\ probes' = IF b.state = "HALF_OPEN" THEN ps ELSE {}
    /\ quiet' = IF /\ b.state = "OPEN"
                   /\ breaker.state # "OPEN" \/ b.since = 0
                THEN 0 ELSE quiet

-----------------------------------------------------------------------------
(* Calls.                                                                   *)

\* execute, up to the call of the handler; a refused call changes nothing
\* but the state of a circuit whose cooldown has elapsed.
Execute(c) ==
    LET b == Advanced(breaker)
    IN  /\ registered /\ executor
        /\ c \notin running
        /\ IF Allows(b)
           THEN /\ Remembered(Admitted(b), probes \union {c})
                /\ running' = running \union {c}
           ELSE /\ Remembered(b, probes)
                /\ UNCHANGED running
        /\ UNCHANGED <<registered, executor>>

\* A call of a skill that was registered without an executor: if it is let
\* in, it is over at once.
ExecuteUnhandled ==
    LET b == Advanced(breaker)
    IN  /\ registered /\ ~executor
        /\ Remembered(IF Allows(b) THEN Failed(Admitted(b)) ELSE b, probes)
        /\ UNCHANGED <<registered, executor, running>>

\* The handler has returned a result that is ok, or prose.
CallSucceeds(c) ==
    /\ c \in running
    /\ Remembered(Succeeded(breaker), probes)
    /\ running' = running \ {c}
    /\ UNCHANGED <<registered, executor>>

\* The handler has returned a result that is not ok.
CallFails(c) ==
    /\ c \in running
    /\ Remembered(Failed(breaker), probes \ {c})
    /\ running' = running \ {c}
    /\ UNCHANGED <<registered, executor>>

\* The handler has thrown: the state is also read, for the log.
CallThrows(c) ==
    /\ c \in running
    /\ Remembered(Advanced(Failed(breaker)), probes \ {c})
    /\ running' = running \ {c}
    /\ UNCHANGED <<registered, executor>>

-----------------------------------------------------------------------------
(* Operators, plugins, and time.                                            *)

\* getState and listActive, behind the dashboard.
Look ==
    /\ Remembered(Advanced(breaker), probes)
    /\ UNCHANGED <<registered, executor, running>>

Cleared ==
    /\ breaker' = Healthy
    /\ probes' = {}
    /\ quiet' = ResetTime

\* The reset button of an operator.
Reset ==
    /\ Cleared
    /\ UNCHANGED <<registered, executor, running>>

\* The file of the plugin is gone.  Calls in flight go on.
Unload ==
    /\ executor
    /\ registered' = FALSE /\ executor' = FALSE
    /\ Cleared
    /\ UNCHANGED running

\* The file of the plugin is new or was edited.  The entry is cleared only
\* when a registration is replaced.
Load ==
    /\ registered' = TRUE /\ executor' = TRUE
    /\ IF registered THEN Cleared ELSE UNCHANGED <<breaker, probes, quiet>>
    /\ UNCHANGED running

\* handleCreateSkill: the description of a skill, with no executor.
Describe ==
    /\ registered' = TRUE
    /\ UNCHANGED <<breaker, executor, running, probes, quiet>>

Tick ==
    /\ breaker' = IF breaker.state = "OPEN"
                  THEN [breaker EXCEPT !.since = AtMost(@ + 1, ResetTime)]
                  ELSE breaker
    /\ quiet' = AtMost(quiet + 1, ResetTime)
    /\ UNCHANGED <<registered, executor, running, probes>>

-----------------------------------------------------------------------------
Init ==
    /\ breaker = Healthy
    /\ registered = TRUE
    /\ executor = TRUE
    /\ running = {}
    /\ probes = {}
    /\ quiet = ResetTime

Ends(c) == CallSucceeds(c) \/ CallFails(c) \/ CallThrows(c)

Next ==
    \/ \E c \in Call : Execute(c) \/ Ends(c)
    \/ ExecuteUnhandled
    \/ Look
    \/ Reset
    \/ Unload
    \/ Load
    \/ Describe
    \/ Tick

Spec == Init /\ [][Next]_vars

\* Time passes and every handler ends.
Fairness == /\ WF_vars(Tick)
            /\ \A c \in Call : WF_vars(Ends(c))

FairSpec == Spec /\ Fairness

-----------------------------------------------------------------------------
(* Properties.                                                              *)

\* Every variable has its type; in particular the number of test calls stays
\* between zero and the limit, whichever calls end in a half-open circuit.
TypeOK ==
    /\ breaker \in Entry
    /\ registered \in BOOLEAN /\ executor \in BOOLEAN
    /\ running \subseteq Call
    /\ probes \subseteq Call
    /\ quiet \in 0..ResetTime

\* A closed circuit has seen fewer failures in a row than the threshold,
\* those of calls that began before it was last opened included.
ClosedBelowThreshold ==
    breaker.state = "CLOSED" => breaker.failures < FailureThreshold

\* The slots taken in a half-open circuit are those of test calls that are
\* still running: no slot is leaked by a call that ended, by an older call
\* that ends meanwhile, or by a reset, so a refusal means that a test is on.
SlotsAreTests ==
    breaker.state = "HALF_OPEN" =>
        /\ probes \subseteq running
        /\ breaker.inFlight = Cardinality(probes)

\* The counters of the breaker fit its state.
CountersFit == ClosedBelowThreshold /\ SlotsAreTests

\* From the moment the circuit opens no call begins for the reset time,
\* whatever late outcomes arrive, unless an operator or a reload resets it.
QuietWhileOpen ==
    [][running' \subseteq running \/ quiet >= ResetTime]_vars

\* A skill that is in use and has stopped failing is closed in the end, from
\* whatever state its breaker was in, and then stays closed.
Heals ==
    /\ WF_vars(\E c \in Call : Execute(c))
    /\ <>[][~\/ ExecuteUnhandled
              \/ \E c \in Call : CallFails(c) \/ CallThrows(c)]_vars
    => <>[](executor => breaker.state = "CLOSED")

=============================================================================
