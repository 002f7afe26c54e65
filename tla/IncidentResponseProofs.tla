----------------------- MODULE IncidentResponseProofs -----------------------
(***************************************************************************)
(* The safety properties of the incident, for every number of severities,  *)
(* threshold of the pipeline, length of recipe and number of verifications *)
(* and late ticks.                                                         *)
(*                                                                         *)
(* PagesComeFirst is not inductive: a verification may write back, and a   *)
(* tick act on, a level that was read earlier.  AlertInv says the same of  *)
(* everything that was read, and that nothing has happened to an incident  *)
(* that is not there yet.  Every operation on the row then only has to     *)
(* keep what Keeps says of the row before and the row after it.            *)
(***************************************************************************)
EXTENDS IncidentResponse, TLAPS

\* A row at the level of an alert, or that people were told is over, is one
\* they were alerted about.
PagedRow(i) == i.level >= 3 \/ i.notified => i.paged

\* What people have to be alerted about before a tick intends it.
Telling == {"reset and tell", "promote", "promote critical"}

ReadingsPaged ==
    /\ \A c \in checks : c.level >= 3 => incident.paged
    /\ \A d \in due \intersect Telling : incident.paged

Unborn == ~Exists(incident) => ~Busy /\ ~incident.paged /\ ~incident.timer

\* While an action of the recipe is awaited, it is one of those left.
ActionLeft(l) == l.at = "action" => l.left >= 1

AlertInv ==
    /\ TypeOK /\ ActionLeft(loop)
    /\ PagedRow(incident) /\ ReadingsPaged /\ Unborn

\* What every operation makes of a row i that satisfies PagedRow.
Keeps(i, j) ==
    /\ j \in Incident /\ PagedRow(j)
    /\ i.paged => j.paged
    /\ Exists(i) => Exists(j)

-----------------------------------------------------------------------------
(* The operations on a row.                                                 *)

LEMMA EscalatedKeeps ==
    ASSUME NEW i \in Incident, PagedRow(i)
    PROVE  Keeps(i, Escalated(i)) /\ Exists(Escalated(i))
<1> DEFINE n == IF i.severity < Critical THEN i.severity + 1 ELSE i.severity
           j == [i EXCEPT !.status = "investigating", !.severity = n]
<1>1. Escalated(i) = j
  BY DEF Escalated, Incident
<1>2. n \in Severity
  BY ConfigType DEF Incident, Severity
<1>3. j \in Incident /\ j.status = "investigating"
  BY <1>2 DEF Incident, Status
<1>4. j.level = i.level /\ j.notified = i.notified /\ j.paged = i.paged
  BY DEF Incident
<1>5. QED
  BY <1>1, <1>3, <1>4 DEF Keeps, PagedRow, Exists

\* Writing a status that is one of the five keeps all else.
LEMMA StatusKeeps ==
    ASSUME NEW i \in Incident, PagedRow(i), NEW s \in Status
    PROVE  Keeps(i, [i EXCEPT !.status = s])
  BY DEF Keeps, PagedRow, Exists, Incident, Status

LEMMA SeverityKeeps ==
    ASSUME NEW i \in Incident, PagedRow(i), NEW n \in Severity
    PROVE  Keeps(i, [i EXCEPT !.severity = n])
  BY DEF Keeps, PagedRow, Exists, Incident

\* A level below that of an alert is written freely, the others only after
\* an alert.
LEMMA LevelKeeps ==
    ASSUME NEW i \in Incident, PagedRow(i), NEW n \in Level,
           n >= 3 => i.paged
    PROVE  Keeps(i, AtLevel(i, n))
  BY DEF AtLevel, Keeps, PagedRow, Exists, Incident, Level

LEMMA RecordedKeeps ==
    ASSUME NEW i \in Incident, PagedRow(i), NEW severity, NEW n \in {1, 2}
    PROVE  Keeps(i, Recorded(i, severity, n))
<1>1. n \in Level /\ ~(n >= 3)
  BY DEF Level
<1>2. Keeps(i, AtLevel(i, n))
  BY <1>1, LevelKeeps
<1>3. QED
  BY <1>2 DEF Recorded, Keeps

\* The flags of a row.
LEMMA WindingUp ==
    ASSUME NEW i \in Incident, NEW n \in BOOLEAN
    PROVE  LET j == [i EXCEPT !.timer = FALSE, !.notified = n]
           IN  /\ j \in Incident /\ j.notified = n /\ j.timer = FALSE
               /\ j.status = i.status /\ j.level = i.level
               /\ j.paged = i.paged
  BY DEF Incident

LEMMA Alerted ==
    ASSUME NEW i \in Incident
    PROVE  LET j == [i EXCEPT !.paged = TRUE]
           IN  /\ j \in Incident /\ j.paged = TRUE
               /\ j.status = i.status /\ j.level = i.level
               /\ j.severity = i.severity
  BY DEF Incident

LEMMA LevelFields ==
    ASSUME NEW i \in Incident, NEW n \in Level
    PROVE  LET j == AtLevel(i, n)
           IN  /\ j \in Incident /\ j.level = n
               /\ j.status = i.status /\ j.severity = i.severity
               /\ j.notified = i.notified /\ j.paged = i.paged
  BY DEF AtLevel, Incident, Level

LEMMA WoundUpKeeps ==
    ASSUME NEW i \in Incident, PagedRow(i), NEW tell \in BOOLEAN,
           tell => i.paged
    PROVE  /\ Keeps(i, WoundUp(i, tell))
           /\ WoundUp(i, tell).status = i.status
           /\ WoundUp(i, tell).paged = i.paged
           /\ WoundUp(i, tell).timer = FALSE
<1> DEFINE r == AtLevel(i, 0)
           told == r.notified \/ tell
           j == [r EXCEPT !.timer = FALSE, !.notified = told]
<1>1. WoundUp(i, tell) = j
  BY DEF WoundUp
<1>2. /\ r \in Incident /\ r.level = 0 /\ r.status = i.status
      /\ r.notified = i.notified /\ r.paged = i.paged
  BY LevelFields, 0 \in Level DEF Level
<1>3. told \in BOOLEAN
  OBVIOUS
<1> HIDE DEF r
<1>4. /\ j \in Incident /\ j.notified = told /\ j.timer = FALSE
      /\ j.status = r.status /\ j.level = r.level /\ j.paged = r.paged
  BY <1>2, <1>3, WindingUp
<1> HIDE DEF j
<1>5. PagedRow(j)
  BY <1>2, <1>4 DEF PagedRow
<1>6. QED
  BY <1>1, <1>2, <1>4, <1>5 DEF Keeps, Exists

LEMMA PagedKeeps ==
    ASSUME NEW i \in Incident, PagedRow(i)
    PROVE  /\ Keeps(i, Paged(i))
           /\ Paged(i).severity = i.severity
           /\ Paged(i).status = i.status
           /\ ~Finished(i) /\ Handled(i.severity) => Paged(i).level >= 3
<1> DEFINE r == AtLevel(i, 3)
           j == [r EXCEPT !.paged = TRUE]
<1>1. /\ r \in Incident /\ r.level = 3 /\ r.status = i.status
      /\ r.severity = i.severity
  BY LevelFields DEF Level
<1> HIDE DEF r
<1>2. /\ j \in Incident /\ j.paged = TRUE /\ j.level = 3
      /\ j.status = i.status /\ j.severity = i.severity
  BY <1>1, Alerted
<1>3. Paged(i) = IF Finished(i) \/ ~Handled(i.severity) \/ i.level >= 3
                 THEN i ELSE j
  BY DEF Paged, r
<1> HIDE DEF j
<1>4. CASE Finished(i) \/ ~Handled(i.severity) \/ i.level >= 3
  BY <1>3, <1>4 DEF Keeps
<1>5. CASE ~(Finished(i) \/ ~Handled(i.severity) \/ i.level >= 3)
  BY <1>2, <1>3, <1>5 DEF Keeps, PagedRow, Exists
<1>6. QED
  BY <1>4, <1>5

\* An analysis that is handed off leaves a row that is finished, out of the
\* range of the pipeline, with people alerted, or with a timer.
LEMMA HandedOffKeeps ==
    ASSUME NEW i \in Incident, PagedRow(i),
           NEW severity, NEW recipe \in BOOLEAN
    PROVE  LET j == HandedOff(i, severity, recipe)
           IN  /\ Keeps(i, j)
               /\ Handled(severity) /\ Handled(j.severity) /\ ~Finished(j)
                  => j.level >= 3 \/ j.timer
<1> DEFINE j == HandedOff(i, severity, recipe)
<1>1. CASE ~Handled(severity) \/ Finished(i)
  BY <1>1 DEF HandedOff, Keeps
<1>2. CASE Handled(severity) /\ ~Finished(i) /\ recipe
  <2> DEFINE r == Recorded(i, i.severity, 2)
  <2>1. Keeps(i, r)
    BY RecordedKeeps
  <2>2. j = [r EXCEPT !.timer = TRUE]
    BY <1>2 DEF HandedOff
  <2> HIDE DEF r
  <2>3. Keeps(i, j) /\ j.timer
    <3> HIDE DEF j
    <3> QED BY <2>1, <2>2 DEF Keeps, PagedRow, Exists, Incident
  <2>4. QED
    BY <2>3
<1>3. CASE Handled(severity) /\ ~Finished(i) /\ ~recipe
  <2>1. j = Paged(i)
    BY <1>3 DEF HandedOff
  <2>2. QED
    BY <1>3, <2>1, PagedKeeps
<1>4. QED
  BY <1>1, <1>2, <1>3

LEMMA KeepsBoth ==
    ASSUME NEW i, NEW j, NEW k, Keeps(i, j), Keeps(j, k)
    PROVE  Keeps(i, k)
  BY DEF Keeps

-----------------------------------------------------------------------------
(* The analysis.                                                            *)

\* What FailuresAreHandedOver asks of the end of an analysis.
HandedOver ==
    Handled(loop.severity) /\ Handled(incident'.severity)
    => Finished(incident') \/ incident'.level >= 3 \/ incident'.timer

LEMMA LoopEndsKeeps ==
    ASSUME NEW i \in Incident, PagedRow(i), LoopEnds(i)
    PROVE  /\ Keeps(i, incident') /\ loop' = Idle
           /\ IF Finished(i) THEN Finished(incident') ELSE incident' = i
<1> DEFINE tell == i.level >= 3
<1>1. CASE Finished(i)
  <2>1. incident' = WoundUp(i, tell)
    BY <1>1 DEF LoopEnds
  <2>2. tell \in BOOLEAN /\ (tell => i.paged)
    BY DEF PagedRow
  <2> HIDE DEF tell
  <2>3. Keeps(i, incident') /\ incident'.status = i.status
    BY <2>1, <2>2, WoundUpKeeps
  <2>4. QED
    BY <1>1, <2>3 DEF Finished, LoopEnds
<1>2. CASE ~Finished(i)
  BY <1>2 DEF LoopEnds, Keeps
<1>3. QED
  BY <1>1, <1>2

LEMMA HandOffKeeps ==
    ASSUME NEW i \in Incident, PagedRow(i), NEW recipe \in BOOLEAN,
           HandOff(i, recipe)
    PROVE  Keeps(i, incident') /\ loop' = Idle /\ HandedOver
<1> DEFINE j == HandedOff(i, loop.severity, recipe)
<1>1. /\ Keeps(i, j)
      /\ Handled(loop.severity) /\ Handled(j.severity) /\ ~Finished(j)
         => j.level >= 3 \/ j.timer
  BY HandedOffKeeps
<1>2. LoopEnds(j)
  BY DEF HandOff
<1> HIDE DEF j
<1>3. j \in Incident /\ PagedRow(j)
  BY <1>1 DEF Keeps
<1>4. /\ Keeps(j, incident') /\ loop' = Idle
      /\ IF Finished(j) THEN Finished(incident') ELSE incident' = j
  BY <1>2, <1>3, LoopEndsKeeps
<1>5. HandedOver
  BY <1>1, <1>4 DEF HandedOver
<1>6. QED
  BY <1>1, <1>4, <1>5, KeepsBoth

\* Resolving in the end of an analysis.
LEMMA ResolvedEndKeeps ==
    ASSUME NEW i \in Incident, PagedRow(i), LoopEnds(Resolved(i))
    PROVE  Keeps(i, incident') /\ loop' = Idle /\ Finished(incident')
<1> DEFINE j == Resolved(i)
<1>1. Keeps(i, j)
  <2>1. "resolved" \in Status
    BY DEF Status
  <2>2. QED
    BY <2>1, StatusKeeps DEF Resolved
<1>2. Finished(j)
  BY DEF Resolved, Finished, Incident
<1> HIDE DEF j
<1>3. Keeps(j, incident') /\ loop' = Idle /\ Finished(incident')
  <2>1. LoopEnds(j)
    BY DEF j
  <2>2. QED
    BY <1>1, <1>2, <2>1, LoopEndsKeeps DEF Keeps
<1>4. QED
  BY <1>1, <1>3, KeepsBoth

LEMMA IdleType == Idle \in Loop /\ ActionLeft(Idle)
  BY ConfigType DEF Idle, Loop, Severity, ActionLeft

LEMMA FallbackKeeps ==
    ASSUME AlertInv, NEW recipe \in BOOLEAN, Fallback(recipe)
    PROVE  /\ Keeps(incident, incident')
           /\ loop' \in Loop /\ ActionLeft(loop') /\ attempted' \in BOOLEAN
           /\ loop' = Idle => HandedOver
<1> USE DEF AlertInv, TypeOK
<1>1. CASE ~(recipe /\ ~attempted)
  <2>1. HandOff(incident, recipe) /\ UNCHANGED attempted
    BY <1>1 DEF Fallback
  <2>2. QED
    BY <2>1, HandOffKeeps, IdleType
<1>2. CASE recipe /\ ~attempted /\ Finished(incident)
  <2>1. HandOff(incident, TRUE) /\ attempted' = TRUE
    BY <1>2 DEF Fallback
  <2>2. QED
    BY <2>1, HandOffKeeps, IdleType
<1>3. CASE recipe /\ ~attempted /\ ~Finished(incident)
  <2>1. /\ loop' = [loop EXCEPT !.at = "action", !.left = PlanLength,
                                !.good = TRUE]
        /\ incident' = incident /\ attempted' = TRUE
    BY <1>3 DEF Fallback
  <2>2. loop' \in Loop /\ ActionLeft(loop') /\ loop' # Idle
    <3>1. PlanLength \in 0..PlanLength /\ PlanLength >= 1
      BY ConfigType
    <3>2. loop' \in Loop /\ loop'.at = "action" /\ loop'.left = PlanLength
      BY <2>1, <3>1 DEF Loop
    <3>3. QED
      BY <3>1, <3>2 DEF Idle, ActionLeft
  <2>3. QED
    BY <2>1, <2>2 DEF Keeps
<1>4. QED
  BY <1>1, <1>2, <1>3

\* What a step of the analysis does.  All but AgentSucceeds leave the
\* verifications alone; none touches what the ticks have read.
Analyses ==
    /\ Busy /\ Keeps(incident, incident')
    /\ loop' \in Loop /\ ActionLeft(loop') /\ attempted' \in BOOLEAN
    /\ loop' = Idle => HandedOver
    /\ checks' = checks \/ CheckBegins(incident)
    /\ UNCHANGED <<due, dropped>>

LEMMA RecipeEndsKeeps ==
    ASSUME AlertInv, Busy, NEW i \in Incident, PagedRow(i),
           Keeps(incident, i), NEW good \in BOOLEAN, RecipeEnds(i, good),
           UNCHANGED <<attempted, checks, due, dropped>>
    PROVE  Analyses
<1> USE DEF AlertInv, TypeOK
<1>1. CASE good
  <2>1. /\ loop' = [loop EXCEPT !.at = "recipe", !.left = 0, !.good = FALSE]
        /\ incident' = i
    BY <1>1 DEF RecipeEnds
  <2>2. 0 \in 0..PlanLength
    BY ConfigType
  <2>3. loop' \in Loop /\ loop'.at = "recipe"
    BY <2>1, <2>2 DEF Loop
  <2>4. QED
    BY <2>1, <2>3 DEF Analyses, Idle, ActionLeft
<1>2. CASE ~good
  <2>1. Keeps(i, incident') /\ loop' = Idle /\ HandedOver
    BY <1>2, HandOffKeeps DEF RecipeEnds
  <2>2. QED
    BY <2>1, KeepsBoth, IdleType DEF Analyses
<1>3. QED
  BY <1>1, <1>2

LEMMA LoopStepKeeps ==
    ASSUME AlertInv, LoopStep
    PROVE  Analyses
<1> USE DEF AlertInv, TypeOK
<1>1. CASE AgentSucceeds
  <2>1. CASE Finished(incident)
    <3>1. LoopEnds(incident)
      BY <1>1, <2>1 DEF AgentSucceeds
    <3>2. Keeps(incident, incident') /\ loop' = Idle /\ Finished(incident')
      BY <2>1, <3>1, LoopEndsKeeps
    <3>3. QED
      BY <1>1, <3>2, IdleType DEF AgentSucceeds, Busy, HandedOver, Analyses
  <2>2. CASE ~Finished(incident)
    <3>1. LoopEnds(Resolved(incident))
      BY <1>1, <2>2 DEF AgentSucceeds
    <3>2. Keeps(incident, incident') /\ loop' = Idle /\ Finished(incident')
      BY <3>1, ResolvedEndKeeps
    <3>3. QED
      BY <1>1, <3>2, IdleType DEF AgentSucceeds, Busy, HandedOver, Analyses
  <2>3. QED
    BY <2>1, <2>2
<1>2. CASE AgentReachesLimit
  <2>1. loop' \in Loop /\ loop'.at = "limit"
    BY <1>2 DEF AgentReachesLimit, Loop
  <2>2. QED
    BY <1>2, <2>1 DEF AgentReachesLimit, Busy, Keeps, Idle, Analyses, ActionLeft
<1>3. ASSUME NEW recipe \in BOOLEAN, AgentFails(recipe)
      PROVE  Analyses
  BY <1>3, FallbackKeeps DEF AgentFails, Busy, Analyses
<1>4. ASSUME NEW ok \in BOOLEAN, NEW recipe \in BOOLEAN,
             LimitChecked(ok, recipe)
      PROVE  Analyses
  <2>1. CASE ok
    <3>1. LoopEnds(Resolved(incident)) /\ UNCHANGED attempted
      BY <1>4, <2>1 DEF LimitChecked
    <3>2. QED
      BY <1>4, <3>1, ResolvedEndKeeps, IdleType
         DEF LimitChecked, Busy, HandedOver, Analyses
  <2>2. CASE ~ok
    BY <1>4, <2>2, FallbackKeeps DEF LimitChecked, Busy, Analyses
  <2>3. QED
    BY <2>1, <2>2
<1>5. ASSUME NEW ok \in BOOLEAN, ActionEnds(ok)
      PROVE  Analyses
  <2> DEFINE good == loop.good /\ ok
             row == [incident EXCEPT !.status = "mitigating"]
  <2>1. Busy /\ UNCHANGED <<attempted, checks, due, dropped>>
    BY <1>5 DEF ActionEnds, Busy
  <2>2. CASE loop.left = 1
    <3>1. RecipeEnds(row, good)
      BY <1>5, <2>2 DEF ActionEnds
    <3>2. Keeps(incident, row)
      BY StatusKeeps DEF Status
    <3>3. good \in BOOLEAN
      OBVIOUS
    <3> HIDE DEF row, good
    <3>4. row \in Incident /\ PagedRow(row)
      BY <3>2 DEF Keeps
    <3>5. QED
      BY <2>1, <3>1, <3>2, <3>3, <3>4, RecipeEndsKeeps
  <2>3. CASE loop.left # 1 /\ Finished(incident)
    <3>1. RecipeEnds(incident, good)
      BY <1>5, <2>3 DEF ActionEnds
    <3>2. Keeps(incident, incident) /\ good \in BOOLEAN
      BY DEF Keeps
    <3> HIDE DEF good
    <3>3. QED
      BY <2>1, <3>1, <3>2, RecipeEndsKeeps
  <2>4. CASE loop.left # 1 /\ ~Finished(incident)
    <3>1. /\ loop' = [loop EXCEPT !.left = @ - 1, !.good = good]
          /\ incident' = incident
      BY <1>5, <2>4 DEF ActionEnds
    <3>2. loop.at = "action" /\ loop.left \in 0..PlanLength
          /\ good \in BOOLEAN
      BY <1>5 DEF ActionEnds, Loop
    <3>3. loop.left - 1 \in 0..PlanLength /\ loop.left - 1 >= 1
      BY <2>4, <3>2, ConfigType DEF ActionLeft
    <3> HIDE DEF good
    <3>4. loop' \in Loop /\ loop'.at = "action" /\ loop'.left >= 1
      BY <3>1, <3>2, <3>3 DEF Loop
    <3>5. QED
      BY <2>1, <3>1, <3>4 DEF Analyses, Keeps, Idle, ActionLeft
  <2>5. QED
    BY <2>2, <2>3, <2>4
<1>6. ASSUME NEW ok \in BOOLEAN, RecipeChecked(ok)
      PROVE  Analyses
  <2>1. CASE ok
    <3>1. LoopEnds(Resolved(incident))
      BY <1>6, <2>1 DEF RecipeChecked
    <3>2. QED
      BY <1>6, <3>1, ResolvedEndKeeps, IdleType
         DEF RecipeChecked, Busy, HandedOver, Analyses
  <2>2. CASE ~ok
    <3>1. HandOff(incident, TRUE)
      BY <1>6, <2>2 DEF RecipeChecked
    <3>2. Keeps(incident, incident') /\ loop' = Idle /\ HandedOver
      BY <3>1, HandOffKeeps
    <3>3. QED
      BY <1>6, <3>2, IdleType DEF RecipeChecked, Busy, Analyses
  <2>3. QED
    BY <2>1, <2>2
<1>7. QED
  BY <1>1, <1>2, <1>3, <1>4, <1>5, <1>6 DEF LoopStep

-----------------------------------------------------------------------------
(* The invariant.                                                           *)

\* A verification begins with a row that satisfies the invariant.
LEMMA ChecksPaged ==
    ASSUME AlertInv, incident.paged => incident'.paged,
           checks' \subseteq checks \/ CheckBegins(incident)
    PROVE  /\ checks' \subseteq Snapshot
           /\ \A c \in checks' : c.level >= 3 => incident'.paged
<1> USE DEF AlertInv, TypeOK
<1> DEFINE c0 == [severity |-> incident.severity, level |-> incident.level,
                  aged |-> incident.aged]
<1>1. c0 \in Snapshot /\ (c0.level >= 3 => incident.paged)
  BY DEF Incident, Snapshot, PagedRow
<1>2. checks' \subseteq checks \union {c0}
  BY DEF CheckBegins
<1> HIDE DEF c0
<1>3. QED
  BY <1>1, <1>2 DEF ReadingsPaged

\* The conjuncts of the invariant when the row is written in one of the ways
\* above, and a tick intends nothing new.
LEMMA RowWritten ==
    ASSUME AlertInv, Keeps(incident, incident'), Exists(incident),
           checks' \subseteq checks \/ CheckBegins(incident),
           due' \subseteq due, dropped' \in BOOLEAN, attempted' \in BOOLEAN,
           loop' \in Loop, ActionLeft(loop')
    PROVE  AlertInv'
<1> USE DEF AlertInv, TypeOK
<1>1. incident' \in Incident /\ PagedRow(incident') /\ Exists(incident')
      /\ (incident.paged => incident'.paged)
  BY DEF Keeps
<1>2. /\ checks' \subseteq Snapshot
      /\ \A c \in checks' : c.level >= 3 => incident'.paged
  BY <1>1, ChecksPaged
<1>3. due' \subseteq Intent /\ \A d \in due' \intersect Telling : incident'.paged
  BY <1>1 DEF ReadingsPaged
<1>4. TypeOK'
  BY <1>1, <1>2, <1>3
<1>5. ReadingsPaged' /\ Unborn'
  BY <1>1, <1>2, <1>3 DEF ReadingsPaged, Unborn
<1>6. PagedRow(incident)' /\ ActionLeft(loop)'
  BY <1>1 DEF PagedRow, ActionLeft
<1>7. QED
  BY <1>4, <1>5, <1>6

\* The dispatch of a row that was just created or escalated.
LEMMA DispatchedKeeps ==
    ASSUME AlertInv, NEW i \in Incident, PagedRow(i), Dispatched(i)
    PROVE  /\ Keeps(i, incident')
           /\ loop' \in Loop /\ ActionLeft(loop') /\ dropped' \in BOOLEAN
           /\ Busy => loop' = loop
<1> USE DEF AlertInv, TypeOK
<1>1. CASE RunFor(i) /\ Busy
  BY <1>1 DEF RunFor, Keeps
<1>2. CASE RunFor(i) /\ ~Busy
  <2>1. Keeps(i, incident')
    BY <1>2, RecordedKeeps DEF RunFor
  <2>2. loop' \in Loop /\ loop'.at = "agent"
    BY <1>2, IdleType DEF RunFor, Loop, Incident
  <2>3. QED
    BY <1>2, <2>1, <2>2 DEF RunFor, ActionLeft
<1>3. CASE incident' = Escalated(i) /\ UNCHANGED <<loop, dropped>>
  BY <1>3, EscalatedKeeps
<1>4. QED
  BY <1>1, <1>2, <1>3 DEF Dispatched

LEMMA OthersPreserve ==
    ASSUME AlertInv, Others
    PROVE  AlertInv' /\ (Busy => loop' = loop)
<1> USE DEF AlertInv, TypeOK
<1>1. ASSUME NEW n \in Severity, Create(n)
      PROVE  AlertInv' /\ (Busy => loop' = loop)
  <2> DEFINE i == [Absent EXCEPT !.status = "open", !.severity = n]
  <2>1. /\ i \in Incident /\ i.status = "open"
        /\ i.level = 0 /\ i.notified = FALSE
    <3>1. Absent \in Incident /\ Absent.level = 0 /\ Absent.notified = FALSE
      BY ConfigType DEF Absent, Incident, Severity, Level
    <3> QED
      BY <3>1 DEF Incident, Status
  <2>2. Dispatched(i) /\ UNCHANGED <<attempted, checks, due>>
        /\ ~Exists(incident)
    BY <1>1 DEF Create
  <2> HIDE DEF i
  <2>3. PagedRow(i) /\ Exists(i)
    BY <2>1 DEF PagedRow, Exists
  <2>4. /\ Keeps(i, incident')
        /\ loop' \in Loop /\ ActionLeft(loop') /\ dropped' \in BOOLEAN
        /\ Busy => loop' = loop
    BY <2>1, <2>2, <2>3, DispatchedKeeps
  <2>5. incident' \in Incident /\ PagedRow(incident') /\ Exists(incident')
    BY <2>3, <2>4 DEF Keeps
  <2>6. ~incident.paged
    BY <2>2 DEF Unborn
  <2>7. ReadingsPaged'
    BY <2>2, <2>6 DEF ReadingsPaged
  <2>8. QED
    BY <2>2, <2>4, <2>5, <2>7 DEF Unborn, ActionLeft, PagedRow
<1>2. CASE Update
  <2>1. Keeps(incident, incident')
    BY <1>2, StatusKeeps, SeverityKeeps DEF Update
  <2>2. QED
    BY <1>2, <2>1, RowWritten DEF Update
<1>3. CASE EscalateAndDispatch
  <2> DEFINE i == Escalated(incident)
  <2>1. Keeps(incident, i)
    BY EscalatedKeeps
  <2>2. /\ Dispatched(i) /\ UNCHANGED <<attempted, checks, due>>
        /\ Exists(incident)
    BY <1>3 DEF EscalateAndDispatch
  <2> HIDE DEF i
  <2>3. i \in Incident /\ PagedRow(i)
    BY <2>1 DEF Keeps
  <2>4. /\ Keeps(i, incident')
        /\ loop' \in Loop /\ ActionLeft(loop') /\ dropped' \in BOOLEAN
        /\ Busy => loop' = loop
    BY <2>2, <2>3, DispatchedKeeps
  <2>5. Keeps(incident, incident')
    BY <2>1, <2>4, KeepsBoth
  <2>6. QED
    BY <2>2, <2>4, <2>5, RowWritten
<1>4. CASE Escalate
  BY <1>4, EscalatedKeeps, RowWritten DEF Escalate
<1>5. "resolved" \in Status /\ "closed" \in Status
  BY DEF Status
<1>6. CASE Resolve \/ ResolveAndVerify \/ ResolveActive
  <2>1. Exists(incident) /\ incident' = Resolved(incident)
    BY <1>6 DEF Resolve, ResolveAndVerify, ResolveActive, Open
  <2>2. Keeps(incident, incident')
    BY <1>5, <2>1, StatusKeeps DEF Resolved
  <2>3. /\ checks' \subseteq checks \/ CheckBegins(incident)
        /\ UNCHANGED <<loop, attempted, due, dropped>>
    BY <1>6 DEF Resolve, ResolveAndVerify, ResolveActive
  <2>4. QED
    BY <2>1, <2>2, <2>3, RowWritten
<1>7. CASE Close
  <2>1. Keeps(incident, incident')
    BY <1>5, <1>7, StatusKeeps DEF Close
  <2>2. QED
    BY <1>7, <2>1, RowWritten DEF Close
<1>8. QED
  BY <1>1, <1>2, <1>3, <1>4, <1>6, <1>7 DEF Others

LEMMA CheckEndsPreserve ==
    ASSUME AlertInv, CheckEnds
    PROVE  AlertInv' /\ loop' = loop
<1> USE DEF AlertInv, TypeOK
<1>1. ASSUME NEW c \in checks, CheckPasses(c)
      PROVE  AlertInv' /\ loop' = loop
  BY <1>1 DEF CheckPasses, ReadingsPaged, Unborn, PagedRow, ActionLeft, Exists, Busy
<1>2. ASSUME NEW c \in checks, CheckFails(c)
      PROVE  AlertInv' /\ loop' = loop
  <2>1. c \in Snapshot /\ (c.level >= 3 => incident.paged)
    BY DEF ReadingsPaged
  <2>2. incident' = [incident EXCEPT !.status = "investigating",
                                     !.severity = c.severity,
                                     !.level = c.level, !.aged = c.aged]
    BY <1>2 DEF CheckFails
  <2>3. /\ incident' \in Incident /\ incident'.status = "investigating"
        /\ incident'.level = c.level /\ incident'.notified = incident.notified
        /\ incident'.paged = incident.paged
    BY <2>1, <2>2 DEF Incident, Snapshot, Status
  <2>4. PagedRow(incident') /\ Exists(incident')
    BY <2>1, <2>3 DEF PagedRow, Exists
  <2>5. checks' \subseteq checks /\ UNCHANGED <<loop, attempted, due, dropped>>
    BY <1>2 DEF CheckFails
  <2>6. ReadingsPaged'
    BY <2>3, <2>5 DEF ReadingsPaged
  <2>7. QED
    BY <2>3, <2>4, <2>5, <2>6 DEF Unborn, PagedRow, ActionLeft, Exists
<1>3. QED
  BY <1>1, <1>2 DEF CheckEnds

LEMMA TimerPreserves ==
    ASSUME AlertInv, TimerFires
    PROVE  AlertInv' /\ loop' = loop
<1> USE DEF AlertInv, TypeOK
<1> DEFINE i == [incident EXCEPT !.timer = FALSE]
<1>1. /\ incident.timer /\ incident' = Paged(i)
      /\ UNCHANGED <<loop, attempted, checks, due, dropped>>
  BY DEF TimerFires
<1>2. Keeps(incident, i)
  BY DEF Keeps, PagedRow, Exists, Incident
<1>3. Exists(incident)
  BY <1>1 DEF Unborn
<1> HIDE DEF i
<1>4. Keeps(i, incident')
  BY <1>1, <1>2, PagedKeeps DEF Keeps
<1>5. QED
  BY <1>1, <1>2, <1>3, <1>4, KeepsBoth, RowWritten

LEMMA AgePreserves ==
    ASSUME AlertInv, Age
    PROVE  AlertInv' /\ loop' = loop
<1> USE DEF AlertInv, TypeOK
<1> DEFINE Aged(i) == [i EXCEPT !.aged = @ \/ i.level = 3]
<1>1. /\ incident' = Aged(incident) /\ checks' = {Aged(c) : c \in checks}
      /\ UNCHANGED <<loop, attempted, due, dropped>>
  BY DEF Age
<1>2. /\ incident' \in Incident /\ incident'.level = incident.level
      /\ incident'.status = incident.status /\ incident'.timer = incident.timer
      /\ incident'.notified = incident.notified
      /\ incident'.paged = incident.paged
  <2> DEFINE a == incident.aged \/ incident.level = 3
  <2>1. incident' = [incident EXCEPT !.aged = a] /\ a \in BOOLEAN
    BY <1>1
  <2> HIDE DEF a
  <2>2. QED
    BY <2>1 DEF Incident
<1>3. ASSUME NEW c \in checks
      PROVE  Aged(c) \in Snapshot /\ Aged(c).level = c.level
  <2> DEFINE a == c.aged \/ c.level = 3
  <2>1. Aged(c) = [c EXCEPT !.aged = a] /\ a \in BOOLEAN /\ c \in Snapshot
    OBVIOUS
  <2> HIDE DEF a, Aged
  <2>2. QED
    BY <2>1 DEF Snapshot
<1> HIDE DEF Aged
<1>4. /\ checks' \subseteq Snapshot
      /\ \A c \in checks' : c.level >= 3 => incident'.paged
  BY <1>1, <1>2, <1>3 DEF ReadingsPaged
<1>5. PagedRow(incident') /\ (Exists(incident') <=> Exists(incident))
  BY <1>2 DEF PagedRow, Exists
<1>6. ReadingsPaged'
  BY <1>1, <1>2, <1>4 DEF ReadingsPaged
<1>7. QED
  BY <1>1, <1>2, <1>4, <1>5, <1>6 DEF Unborn, PagedRow, ActionLeft, Busy

LEMMA TickPreserves ==
    ASSUME AlertInv, TickStep
    PROVE  AlertInv' /\ loop' = loop
<1> USE DEF AlertInv, TypeOK
<1>1. CASE TickReads
  <2>1. /\ due' = due \union Intentions(incident)
        /\ UNCHANGED <<incident, loop, attempted, checks, dropped>>
    BY <1>1 DEF TickReads
  <2>2. \A d \in Intentions(incident) :
           d \in Intent /\ (d \in Telling => incident.paged)
    <3>1. CASE incident.level >= 3
      <4>1. incident.paged
        BY <3>1 DEF PagedRow
      <4>2. Intentions(incident) \subseteq Intent
        BY DEF Intentions, Intent
      <4>3. QED
        BY <4>1, <4>2
    <3>2. CASE ~(incident.level >= 3)
      <4>1. incident.level # 3
        BY <3>2
      <4>2. Intentions(incident) \subseteq {"reset"}
        BY <3>2, <4>1 DEF Intentions
      <4>3. QED
        BY <4>2 DEF Intent, Telling
    <3>3. QED
      BY <3>1, <3>2
  <2>3. due' \subseteq Intent /\ \A d \in due' \intersect Telling : incident.paged
    BY <2>1, <2>2 DEF ReadingsPaged
  <2>4. QED
    BY <2>1, <2>3 DEF ReadingsPaged, PagedRow, ActionLeft, Unborn, Exists, Busy
<1>2. ASSUME NEW d \in due, TickActs(d)
      PROVE  AlertInv' /\ loop' = loop
  <2>1. /\ due' \subseteq due /\ dropped' \in BOOLEAN
        /\ UNCHANGED <<loop, attempted, checks>>
    BY <1>2 DEF TickActs
  <2>2. d \in Intent /\ (d # "reset" => incident.paged)
    BY DEF ReadingsPaged, Telling, Intent
  <2>3. Keeps(incident, AtLevel(incident, 4)) \/ ~incident.paged
    BY LevelKeeps DEF Level
  <2>4. Keeps(incident, incident')
    <3>1. CASE d = "reset"
      BY <1>2, <3>1, WoundUpKeeps DEF TickActs
    <3>2. CASE d = "reset and tell"
      BY <1>2, <2>2, <3>2, WoundUpKeeps DEF TickActs
    <3>3. CASE d = "promote"
      <4> DEFINE i == AtLevel(incident, 4)
      <4>1. Keeps(incident, i) /\ incident' = Escalated(i)
        BY <1>2, <2>2, <2>3, <3>3 DEF TickActs
      <4> HIDE DEF i
      <4>2. Keeps(i, incident')
        BY <4>1, EscalatedKeeps DEF Keeps
      <4>3. QED
        BY <4>1, <4>2, KeepsBoth
    <3>4. CASE d = "promote critical"
      BY <1>2, <2>2, <2>3, <3>4 DEF TickActs
    <3>5. QED
      BY <2>2, <3>1, <3>2, <3>3, <3>4 DEF Intent
  <2>5. CASE Exists(incident)
    BY <2>1, <2>4, <2>5, RowWritten
  <2>6. CASE ~Exists(incident)
    <3>1. d = "reset"
      BY <2>2, <2>6 DEF Unborn
    <3>2. incident' = WoundUp(incident, FALSE)
      BY <1>2, <3>1 DEF TickActs
    <3>3. /\ Keeps(incident, incident')
          /\ incident'.paged = incident.paged /\ incident'.timer = FALSE
      BY <3>2, WoundUpKeeps
    <3>4. incident' \in Incident /\ PagedRow(incident')
      BY <3>3 DEF Keeps
    <3>5. TypeOK' /\ ReadingsPaged'
      BY <2>1, <3>3, <3>4 DEF ReadingsPaged
    <3>6. Unborn'
      BY <2>1, <2>6, <3>3 DEF Unborn, Busy
    <3>7. QED
      BY <2>1, <3>4, <3>5, <3>6 DEF PagedRow, ActionLeft
  <2>7. QED
    BY <2>5, <2>6
<1>3. QED
  BY <1>1, <1>2 DEF TickStep

LEMMA RestartPreserves ==
    ASSUME AlertInv, Restart
    PROVE  AlertInv' /\ (Busy => dropped')
<1> USE DEF AlertInv, TypeOK
<1>1. /\ incident' = [incident EXCEPT !.timer = FALSE, !.notified = FALSE]
      /\ loop' = Idle /\ attempted' = FALSE /\ checks' = {} /\ due' = {}
      /\ dropped' = \/ dropped
                    \/ Busy \/ incident.timer
  BY DEF Restart
<1>2. /\ incident' \in Incident /\ incident'.timer = FALSE
      /\ incident'.status = incident.status /\ incident'.level = incident.level
      /\ incident'.paged = incident.paged /\ incident'.notified = FALSE
  BY <1>1 DEF Incident
<1>3. PagedRow(incident') /\ (Exists(incident') <=> Exists(incident))
  BY <1>2 DEF PagedRow, Exists
<1>4. ReadingsPaged'
  BY <1>1 DEF ReadingsPaged
<1>5. ~Busy'
  BY <1>1 DEF Busy, Idle
<1>6. Unborn'
  BY <1>2, <1>3, <1>5 DEF Unborn
<1>7. TypeOK' /\ ActionLeft(loop)'
  BY <1>1, <1>2, IdleType DEF ActionLeft
<1>8. QED
  BY <1>1, <1>3, <1>4, <1>6, <1>7 DEF PagedRow

LEMMA InvInit == Init => AlertInv
<1> SUFFICES ASSUME Init PROVE AlertInv
  OBVIOUS
<1>1. incident \in Incident /\ incident.status = "none"
  BY ConfigType DEF Init, Absent, Incident, Severity, Level
<1>2. TypeOK /\ ActionLeft(loop)
  BY <1>1, IdleType DEF Init, TypeOK
<1>3. PagedRow(incident) /\ ReadingsPaged /\ Unborn
  BY DEF Init, Absent, PagedRow, ReadingsPaged, Unborn, Busy, Idle
<1>4. QED
  BY <1>2, <1>3 DEF AlertInv

LEMMA LoopPreserves ==
    ASSUME AlertInv, LoopStep
    PROVE  AlertInv' /\ (loop' = Idle => HandedOver)
<1>1. Analyses
  BY LoopStepKeeps
<1>2. Exists(incident)
  BY <1>1 DEF Analyses, AlertInv, Unborn
<1>3. QED
  BY <1>1, <1>2, RowWritten DEF Analyses, AlertInv, TypeOK

\* What FailuresAreHandedOver says of a step.
LEMMA InvStep ==
    ASSUME AlertInv, [Next]_vars
    PROVE  /\ AlertInv'
           /\ Busy /\ loop' = Idle /\ ~dropped' => HandedOver
<1>1. CASE Others \/ CheckEnds \/ TimerFires \/ Age \/ TickStep
  <2>1. AlertInv' /\ (Busy => loop' = loop)
    BY <1>1, OthersPreserve, CheckEndsPreserve, TimerPreserves, AgePreserves,
       TickPreserves
  <2>2. QED
    BY <2>1 DEF Busy, Idle
<1>2. CASE LoopStep
  BY <1>2, LoopPreserves
<1>3. CASE Restart
  BY <1>3, RestartPreserves
<1>4. CASE UNCHANGED vars
  BY <1>4 DEF vars, AlertInv, TypeOK, ActionLeft, PagedRow, ReadingsPaged,
              Unborn, Exists, Busy, Idle
<1>5. QED
  BY <1>1, <1>2, <1>3, <1>4 DEF Next

LEMMA InvAlways == Spec => []AlertInv
  BY InvInit, InvStep, PTL DEF Spec

-----------------------------------------------------------------------------
(* The theorems.                                                            *)

\* The variables have their types in every execution: no row that was read
\* before others wrote it brings a value that the row may not have, and the
\* severity stays in its range however often the incident is escalated.
THEOREM TypeCorrect == Spec => []TypeOK
<1>1. AlertInv => TypeOK
  BY DEF AlertInv
<1>2. QED
  BY <1>1, InvAlways, PTL

\* Nobody is told that an incident is over, and no incident reaches the
\* levels of an alert, before people were alerted.
THEOREM PagesFirst == Spec => []PagesComeFirst
<1>1. AlertInv => PagesComeFirst
  BY DEF AlertInv, PagedRow, PagesComeFirst
<1>2. QED
  BY <1>1, InvAlways, PTL

\* An analysis that ends without the incident resolved leaves people alerted
\* or about to be, for every step of every execution.
THEOREM FailuresHandedOver == Spec => FailuresAreHandedOver
<1>1. AlertInv /\ [Next]_vars
      => [/\ Busy /\ loop' = Idle /\ ~dropped'
          /\ Handled(loop.severity) /\ Handled(incident'.severity)
          => \/ Finished(incident')
             \/ incident'.level >= 3 \/ incident'.timer]_vars
  BY InvStep DEF HandedOver
<1>2. QED
  BY <1>1, InvAlways, PTL DEF Spec, FailuresAreHandedOver

=============================================================================
