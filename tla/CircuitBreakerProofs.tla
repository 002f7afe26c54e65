------------------------ MODULE CircuitBreakerProofs ------------------------
(***************************************************************************)
(* The safety properties of the circuit breaker, for any number of calls   *)
(* and any configuration.                                                  *)
(*                                                                         *)
(* SlotsAreTests and ClosedBelowThreshold are inductive together with the  *)
(* types.  QuietWhileOpen needs to know that the clock of the entry and    *)
(* the clock of the history agree: since is reset only where the circuit   *)
(* is opened, and the circuit is left only when since is up or by a reset. *)
(***************************************************************************)
EXTENDS CircuitBreaker, FiniteSetTheorems, TLAPS

\* The history's clock shows what the entry's clock shows while the circuit
\* is open, and is up otherwise; test calls are remembered only in a half
\* open circuit.
HistoryFits ==
    /\ quiet = IF breaker.state = "OPEN" THEN breaker.since ELSE ResetTime
    /\ breaker.state # "HALF_OPEN" => probes = {}

BreakerInv == TypeOK /\ ClosedBelowThreshold /\ SlotsAreTests /\ HistoryFits

-----------------------------------------------------------------------------
(* What the operations of the registry make of an entry.                    *)

\* The values that the operations write to an entry.
LEMMA StatesAndZeros ==
    /\ "CLOSED" \in CircuitState /\ "OPEN" \in CircuitState
    /\ "HALF_OPEN" \in CircuitState
    /\ 0 \in 0..FailureThreshold /\ 0 \in 0..ResetTime
    /\ 0 \in 0..HalfOpenMax
  BY ConfigType DEF CircuitState

\* Looking at an entry leaves it as it is, or makes an open circuit half open
\* with all slots free once its time is up.
LEMMA AdvancedEntry ==
    ASSUME NEW b \in Entry
    PROVE  /\ Advanced(b) \in Entry
           /\ \/ Advanced(b) = b
              \/ /\ b.state = "OPEN" /\ b.since = ResetTime
                 /\ Advanced(b).state = "HALF_OPEN"
                 /\ Advanced(b).inFlight = 0
<1>1. CASE b.state = "OPEN" /\ b.since >= ResetTime
  <2> DEFINE a == [b EXCEPT !.state = "HALF_OPEN", !.inFlight = 0]
  <2>1. Advanced(b) = a
    BY <1>1 DEF Advanced
  <2>2. a \in Entry /\ a.state = "HALF_OPEN" /\ a.inFlight = 0
    BY ConfigType, StatesAndZeros DEF Entry
  <2>3. b.since = ResetTime
    BY <1>1, ConfigType DEF Entry
  <2>4. QED
    BY <1>1, <2>1, <2>2, <2>3
<1>2. CASE ~(b.state = "OPEN" /\ b.since >= ResetTime)
  BY <1>2 DEF Advanced
<1>3. QED
  BY <1>1, <1>2

\* A success leaves the circuit closed with no failures, or open.
LEMMA SucceededEntry ==
    ASSUME NEW b \in Entry
    PROVE  /\ Succeeded(b) \in Entry
           /\ Succeeded(b).failures = 0
           /\ \/ Succeeded(b).state = "CLOSED" /\ b.state # "OPEN"
              \/ /\ Succeeded(b).state = "OPEN" /\ b.state = "OPEN"
                 /\ Succeeded(b).since = b.since
<1>1. CASE b.state = "HALF_OPEN"
  <2> DEFINE n == IF b.inFlight > 0 THEN b.inFlight - 1 ELSE 0
             a == [b EXCEPT !.state = "CLOSED", !.failures = 0, !.since = 0,
                            !.inFlight = n]
  <2>1. Succeeded(b) = a
    BY <1>1 DEF Succeeded
  <2>2. n \in 0..HalfOpenMax
    BY ConfigType DEF Entry
  <2>3. a \in Entry /\ a.state = "CLOSED" /\ a.failures = 0
    <3> HIDE DEF n
    <3> QED BY <2>2, StatesAndZeros DEF Entry
  <2>4. QED
    BY <1>1, <2>1, <2>3
<1>2. CASE b.state # "HALF_OPEN"
  <2> DEFINE a == [b EXCEPT !.failures = 0]
  <2>1. Succeeded(b) = a
    BY <1>2 DEF Succeeded
  <2>2. /\ a \in Entry /\ a.failures = 0 /\ a.state = b.state
        /\ a.since = b.since
    BY ConfigType DEF Entry
  <2>3. b.state \in CircuitState
    BY DEF Entry
  <2>4. QED
    BY <1>2, <2>1, <2>2, <2>3 DEF CircuitState
<1>3. QED
  BY <1>1, <1>2

\* A failure leaves a closed circuit closed below the threshold, and an open
\* one as it is; otherwise it opens the circuit and starts its clock.
LEMMA FailedEntry ==
    ASSUME NEW b \in Entry
    PROVE  /\ Failed(b) \in Entry
           /\ \/ /\ Failed(b).state = "CLOSED" /\ b.state = "CLOSED"
                 /\ Failed(b).failures < FailureThreshold
              \/ /\ Failed(b).state = "OPEN" /\ b.state = "OPEN"
                 /\ Failed(b).since = b.since
              \/ /\ Failed(b).state = "OPEN" /\ b.state # "OPEN"
                 /\ Failed(b).since = 0
<1> DEFINE n == AtMost(b.failures + 1, FailureThreshold)
           a == [b EXCEPT !.failures = n]
<1>1. n \in 0..FailureThreshold
  BY ConfigType DEF AtMost, Entry
<1>2. /\ a \in Entry /\ a.failures = n /\ a.state = b.state
      /\ a.since = b.since
  <2> HIDE DEF n
  <2> QED BY <1>1 DEF Entry
<1>3. Failed(b) = IF \/ b.state = "HALF_OPEN"
                     \/ b.state = "CLOSED" /\ n >= FailureThreshold
                  THEN Tripped(a) ELSE a
  BY <1>2 DEF Failed
<1> HIDE DEF n, a
<1>4. /\ Tripped(a) \in Entry /\ Tripped(a).state = "OPEN"
      /\ Tripped(a).since = 0
  BY <1>2, StatesAndZeros DEF Tripped, Entry
<1>5. b.state \in CircuitState
  BY DEF Entry
<1>6. QED
  BY <1>1, <1>2, <1>3, <1>4, <1>5, ConfigType DEF CircuitState

\* A call is let in to a closed circuit, which does not change, or to a half
\* open one, which has one slot less.
LEMMA AdmittedEntry ==
    ASSUME NEW b \in Entry, Allows(b)
    PROVE  /\ Admitted(b) \in Entry
           /\ \/ Admitted(b) = b /\ b.state = "CLOSED"
              \/ /\ b.state = "HALF_OPEN"
                 /\ Admitted(b).state = "HALF_OPEN"
                 /\ Admitted(b).inFlight = b.inFlight + 1
  BY ConfigType DEF Admitted, Allows, Entry, CircuitState

-----------------------------------------------------------------------------
LEMMA BreakerInit == Init => BreakerInv
  BY ConfigType, FS_EmptySet
     DEF Init, BreakerInv, TypeOK, ClosedBelowThreshold, SlotsAreTests,
         HistoryFits, Healthy, Entry, CircuitState

LEMMA BreakerNext == BreakerInv /\ [Next]_vars => BreakerInv'
<1> SUFFICES ASSUME BreakerInv, [Next]_vars
             PROVE  BreakerInv'
  OBVIOUS
<1> DEFINE b == Advanced(breaker)
<1> USE ConfigType DEF BreakerInv, TypeOK
<1>1. /\ b \in Entry
      /\ \/ b = breaker
         \/ /\ breaker.state = "OPEN" /\ breaker.since = ResetTime
            /\ b.state = "HALF_OPEN" /\ b.inFlight = 0
  BY AdvancedEntry
<1>2. \* A look, and with it the refusal of a call.
      ASSUME Remembered(b, probes), running' = running,
             registered' = registered, executor' = executor
      PROVE  BreakerInv'
  BY <1>1, <1>2, FS_EmptySet
     DEF Remembered, ClosedBelowThreshold, SlotsAreTests, HistoryFits, Entry
<1>3. ASSUME Cleared, running' = running, registered' \in BOOLEAN,
             executor' \in BOOLEAN
      PROVE  BreakerInv'
  BY <1>3 DEF Cleared, Healthy, Entry, CircuitState, ClosedBelowThreshold,
              SlotsAreTests, HistoryFits
<1>4. ASSUME NEW c \in Call, Execute(c)
      PROVE  BreakerInv'
  <2>1. CASE ~Allows(b)
    BY <1>2, <1>4, <2>1 DEF Execute
  <2>2. CASE Allows(b)
    <3>1. /\ Remembered(Admitted(b), probes \union {c})
          /\ c \notin running
          /\ running' = running \union {c}
          /\ registered' = registered /\ executor' = executor
      BY <1>4, <2>2 DEF Execute
    <3>2. CASE b.state = "CLOSED"
      <4>1. Admitted(b) = b /\ b = breaker
        BY <1>1, <2>2, <3>2, AdmittedEntry
      <4>2. QED
        BY <3>1, <3>2, <4>1
           DEF Remembered, ClosedBelowThreshold, SlotsAreTests, HistoryFits
    <3>3. CASE b.state = "HALF_OPEN"
      <4>1. /\ Admitted(b) \in Entry /\ Admitted(b).state = "HALF_OPEN"
            /\ Admitted(b).inFlight = b.inFlight + 1
        BY <1>1, <2>2, <3>3, AdmittedEntry
      <4>2. quiet' = ResetTime /\ quiet = ResetTime
        BY <1>1, <3>1, <3>3, <4>1 DEF Remembered, HistoryFits
      <4>3. probes' = probes \union {c} /\ breaker' = Admitted(b)
        BY <3>1, <4>1 DEF Remembered
      <4>4. probes \subseteq running /\ b.inFlight = Cardinality(probes)
        BY <1>1, <3>3, FS_EmptySet DEF SlotsAreTests, HistoryFits
      <4>5. Cardinality(probes \union {c}) = Cardinality(probes) + 1
        BY <3>1, <4>4, FS_Subset, FS_AddElement
      <4>6. QED
        BY <3>1, <4>1, <4>2, <4>3, <4>4, <4>5
           DEF ClosedBelowThreshold, SlotsAreTests, HistoryFits
    <3>4. QED
      BY <2>2, <3>2, <3>3 DEF Allows
  <2>3. QED
    BY <2>1, <2>2
<1>5. ASSUME NEW c \in Call, CallSucceeds(c)
      PROVE  BreakerInv'
  <2>1. /\ Remembered(Succeeded(breaker), probes)
        /\ running' = running \ {c}
        /\ registered' = registered /\ executor' = executor
    BY <1>5 DEF CallSucceeds
  <2>2. QED
    BY <2>1, SucceededEntry
       DEF Remembered, ClosedBelowThreshold, SlotsAreTests, HistoryFits
<1>6. ASSUME NEW c \in Call, CallFails(c)
      PROVE  BreakerInv'
  <2>1. /\ Remembered(Failed(breaker), probes \ {c})
        /\ running' = running \ {c}
        /\ registered' = registered /\ executor' = executor
    BY <1>6 DEF CallFails
  <2>2. QED
    BY <2>1, FailedEntry
       DEF Remembered, ClosedBelowThreshold, SlotsAreTests, HistoryFits
<1>7. ASSUME NEW c \in Call, CallThrows(c)
      PROVE  BreakerInv'
  <2> DEFINE f == Failed(breaker)
             g == Advanced(f)
  <2>1. /\ Remembered(g, probes \ {c})
        /\ running' = running \ {c}
        /\ registered' = registered /\ executor' = executor
    BY <1>7 DEF CallThrows
  <2>2. f \in Entry /\ g \in Entry
    BY FailedEntry, AdvancedEntry
  <2>3. CASE g = f
    BY <2>1, <2>3, FailedEntry
       DEF Remembered, ClosedBelowThreshold, SlotsAreTests, HistoryFits
  <2>4. CASE g # f
    <3>1. /\ f.state = "OPEN" /\ f.since = ResetTime
          /\ g.state = "HALF_OPEN" /\ g.inFlight = 0
      BY <2>2, <2>4, AdvancedEntry
    <3>2. breaker.state = "OPEN" /\ breaker.since = ResetTime
      BY <3>1, FailedEntry
    <3>3. quiet' = ResetTime /\ breaker' = g /\ probes' = probes \ {c}
      BY <2>1, <3>1, <3>2 DEF Remembered, HistoryFits
    <3>4. probes' = {} /\ Cardinality({}) = 0
      BY <3>2, <3>3, FS_EmptySet DEF HistoryFits
    <3>5. QED
      BY <2>1, <2>2, <3>1, <3>3, <3>4
         DEF ClosedBelowThreshold, SlotsAreTests, HistoryFits
  <2>5. QED
    BY <2>3, <2>4
<1>8. CASE ExecuteUnhandled
  <2> DEFINE m == Admitted(b)
             f == Failed(m)
  <2>1. /\ running' = running
        /\ registered' = registered /\ executor' = executor
    BY <1>8 DEF ExecuteUnhandled
  <2>2. CASE ~Allows(b)
    BY <1>2, <1>8, <2>1, <2>2 DEF ExecuteUnhandled
  <2>3. CASE Allows(b)
    <3>1. m \in Entry /\ m.state = b.state /\ m.state # "OPEN"
      BY <1>1, <2>3, AdmittedEntry
    <3>2. /\ f \in Entry
          /\ \/ f.state = "CLOSED" /\ b.state = "CLOSED"
                /\ f.failures < FailureThreshold
             \/ f.state = "OPEN" /\ f.since = 0
      BY <3>1, FailedEntry
    <3>3. Remembered(f, probes)
      BY <1>8, <2>3 DEF ExecuteUnhandled
    <3>4. CASE f.state = "CLOSED"
      BY <1>1, <2>1, <3>2, <3>3, <3>4
         DEF Remembered, ClosedBelowThreshold, SlotsAreTests, HistoryFits
    <3>5. CASE f.state = "OPEN" /\ breaker.state # "OPEN"
      BY <2>1, <3>2, <3>3, <3>5
         DEF Remembered, ClosedBelowThreshold, SlotsAreTests, HistoryFits
    <3>6. CASE f.state = "OPEN" /\ breaker.state = "OPEN"
      BY <2>1, <3>2, <3>3, <3>6
         DEF Remembered, ClosedBelowThreshold, SlotsAreTests, HistoryFits
    <3>7. QED
      BY <3>2, <3>4, <3>5, <3>6
  <2>4. QED
    BY <2>2, <2>3
<1>9. CASE Look
  BY <1>2, <1>9 DEF Look
<1>10. CASE Reset
  BY <1>3, <1>10 DEF Reset
<1>11. CASE Unload
  BY <1>3, <1>11 DEF Unload
<1>12. CASE Load
  BY <1>3, <1>12
     DEF Load, ClosedBelowThreshold, SlotsAreTests, HistoryFits
<1>13. CASE Describe
  BY <1>13 DEF Describe, ClosedBelowThreshold, SlotsAreTests, HistoryFits
<1>14. CASE Tick
  BY <1>14 DEF Tick, AtMost, Entry, CircuitState, ClosedBelowThreshold,
               SlotsAreTests, HistoryFits
<1>15. CASE UNCHANGED vars
  BY <1>15 DEF vars, ClosedBelowThreshold, SlotsAreTests, HistoryFits
<1>16. QED
  BY <1>4, <1>5, <1>6, <1>7, <1>8, <1>9, <1>10, <1>11, <1>12, <1>13, <1>14,
     <1>15 DEF Next, Ends

LEMMA BreakerAlways == Spec => []BreakerInv
<1>1. QED
  BY BreakerInit, BreakerNext, PTL DEF Spec

-----------------------------------------------------------------------------
(* The theorems.                                                            *)

\* The types, with them the bounds on the number of test calls: it neither
\* goes below zero nor over halfOpenMaxAttempts, whatever calls end when.
THEOREM TypeCorrect == Spec => []TypeOK
<1>1. BreakerInv => TypeOK
  BY DEF BreakerInv
<1>2. QED
  BY <1>1, BreakerAlways, PTL

\* recordFailure opens the circuit in time, also when the failures belong to
\* calls that began before the circuit was last closed.
THEOREM TripsInTime == Spec => []ClosedBelowThreshold
<1>1. BreakerInv => ClosedBelowThreshold
  BY DEF BreakerInv
<1>2. QED
  BY <1>1, BreakerAlways, PTL

\* No slot of a half-open circuit is leaked or given away twice within one
\* test: halfOpenInFlight counts exactly the test calls still running.
THEOREM SlotsNeverLeak == Spec => []SlotsAreTests
<1>1. BreakerInv => SlotsAreTests
  BY DEF BreakerInv
<1>2. QED
  BY <1>1, BreakerAlways, PTL

\* Both together, whatever calls, resets, reloads and clock do.
THEOREM CountersAlwaysFit == Spec => []CountersFit
<1>1. BreakerInv => CountersFit
  BY DEF BreakerInv, CountersFit
<1>2. QED
  BY <1>1, BreakerAlways, PTL

\* canRun lets no call begin within the reset time after the circuit was
\* opened, unless the breaker was reset since.
THEOREM OpenIsQuiet == Spec => QuietWhileOpen
<1>1. BreakerInv /\ [Next]_vars
        => [running' \subseteq running \/ quiet >= ResetTime]_vars
  <2> SUFFICES ASSUME BreakerInv, [Next]_vars
               PROVE  running' \subseteq running \/ quiet >= ResetTime
    OBVIOUS
  <2>1. ASSUME NEW c \in Call, Execute(c)
        PROVE  running' \subseteq running \/ quiet >= ResetTime
    <3> DEFINE b == Advanced(breaker)
    <3>1. CASE ~Allows(b)
      BY <2>1, <3>1 DEF Execute
    <3>2. CASE Allows(b)
      <4>1. breaker.state # "OPEN" \/ breaker.since = ResetTime
        BY <3>2, AdvancedEntry DEF Allows, BreakerInv, TypeOK
      <4>2. quiet = ResetTime
        BY <4>1 DEF BreakerInv, HistoryFits
      <4>3. QED
        BY <4>2, ConfigType
    <3>3. QED
      BY <3>1, <3>2
  <2>2. QED
    BY <2>1 DEF Next, Ends, CallSucceeds, CallFails, CallThrows,
                ExecuteUnhandled, Look, Reset, Unload, Load, Describe, Tick,
                vars
<1>2. QED
  BY <1>1, BreakerAlways, PTL DEF Spec, QuietWhileOpen

=============================================================================
