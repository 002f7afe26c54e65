------------------------ MODULE WorkflowEngineProofs -------------------------
(***************************************************************************)
(* Invariance proofs for WorkflowEngine: for every set of templates and    *)
(* stage lists, every limit and any number of requests, ticks and          *)
(* restarts, the status of a kept run follows from its stages, no more     *)
(* runs are kept than the limit, and a recovery leaves no twins.           *)
(***************************************************************************)
EXTENDS WorkflowEngine, FiniteSetTheorems, WellFoundedInduction, TLAPS

RunStatus == {"active", "completed", "failed"}

\* The runs of a template whose stages have the names l.
RunOf(l) == [template : Template, incident : Incident \union {NoIncident},
             names : {l}, status : RunStatus, at : 1..Len(l),
             stages : [1..Len(l) -> StageStatus]]
RunRec   == UNION {RunOf(l) : l \in StageLists}
TemplateRec(time) ==
    [stages : StageLists, every : Intervals \union {0}, last : 0..time]

\* What the status and the current stage of a run say of its stages.
Consistent(R) ==
    /\ R.status = "active" =>
          \A k \in DOMAIN R.stages : /\ R.stages[k] # "failed"
                                     /\ R.stages[k] = "in_progress" <=> k = R.at
    /\ R.status = "failed" =>
          /\ R.at = First(R.stages, {"failed"})
          /\ \A k \in DOMAIN R.stages : R.stages[k] # "in_progress"
    /\ R.status = "completed" =>
          /\ R.at = Len(R.stages)
          /\ \A k \in DOMAIN R.stages : R.stages[k] \in {"done", "skipped"}

TemplatesTyped ==
    /\ templates \in [DOMAIN templates -> TemplateRec(now)]
    /\ DOMAIN templates \subseteq Template
    /\ IsFiniteSet(DOMAIN templates)
    /\ stored \in [DOMAIN stored -> TemplateRec(now)]
    /\ DOMAIN stored \subseteq Custom
    /\ IsFiniteSet(DOMAIN stored)
    /\ now \in Nat

RunsTyped ==
    /\ runs \in [RunId -> RunRec \union {NoRun}]
    /\ started \in 0..MaxStarted

RunsConsistent == \A r \in Kept(runs) : Consistent(runs[r])
WithinLimit    == Cardinality(Kept(runs)) <= MaxRuns

\* The inductive invariant.
WorkflowInv ==
    /\ TemplatesTyped
    /\ RunsTyped
    /\ RunsConsistent
    /\ WithinLimit

-----------------------------------------------------------------------------
(* Lemmas about stage lists.                                               *)

\* A non-empty set of naturals has a least element.
LEMMA LeastElement ==
    ASSUME NEW T \in SUBSET Nat, T # {}
    PROVE  \E x \in T : \A y \in T : x <= y
<1>1. PICK x \in T : \A y \in T : ~(<<y, x>> \in OpToRel(<, Nat))
  BY WFMin, NatLessThanWellFounded, Zenon
<1>2. \A y \in T : <<y, x>> \in Nat \X Nat
  OBVIOUS
<1>3. \A y \in T : ~(y < x)
  BY <1>1, <1>2 DEF OpToRel
<1>4. QED
  BY <1>3

\* First returns the least index of a hit, and 0 when there is none.
LEMMA FirstHit ==
    ASSUME NEW n \in Nat, NEW list, DOMAIN list = 1..n, NEW S
    PROVE  /\ First(list, S) \in 0..n
           /\ First(list, S) = 0 <=> \A j \in 1..n : list[j] \notin S
           /\ First(list, S) # 0 =>
                 /\ list[First(list, S)] \in S
                 /\ \A j \in 1..n : list[j] \in S => First(list, S) <= j
<1> DEFINE hits == {i \in DOMAIN list : list[i] \in S}
<1>1. CASE hits = {}
  BY <1>1 DEF First
<1>2. CASE hits # {}
  <2>1. hits \in SUBSET Nat
    OBVIOUS
  <2>2. \E i \in hits : \A j \in hits : i <= j
    BY <1>2, <2>1, LeastElement
  <2>3. First(list, S) = CHOOSE i \in hits : \A j \in hits : i <= j
    BY <1>2 DEF First
  <2>4. /\ First(list, S) \in hits
        /\ \A j \in hits : First(list, S) <= j
    BY <2>2, <2>3
  <2>5. QED
    BY <2>4
<1>3. QED
  BY <1>1, <1>2

\* The length and the domain of a list of stages.
LEMMA LengthOfStages ==
    ASSUME NEW n \in Nat, NEW S, NEW f \in [1..n -> S]
    PROVE  Len(f) = n /\ DOMAIN f = 1..n
  OBVIOUS

\* Stage lists are not empty.
LEMMA ListFacts ==
    ASSUME NEW l \in StageLists
    PROVE  Len(l) \in Nat \ {0} /\ DOMAIN l = 1..Len(l)
  BY ListsType

\* A kept run is a run of some stage list.
LEMMA KeptRun ==
    ASSUME RunsTyped, NEW r \in Kept(runs)
    PROVE  \E l \in StageLists : runs[r] \in RunOf(l)
  BY DEF RunsTyped, Kept, RunRec, NoRun

\* Putting the other stages back keeps the list, its failed stages, and
\* leaves at most the k-th stage in progress.
LEMMA DemotedStages ==
    ASSUME NEW n \in Nat, NEW f \in [1..n -> StageStatus], NEW k \in 1..n
    PROVE  /\ Demoted(f, k) \in [1..n -> StageStatus]
           /\ \A i \in 1..n :
                 /\ Demoted(f, k)[i] = "failed" <=> f[i] = "failed"
                 /\ Demoted(f, k)[i] = "in_progress" <=>
                       i = k /\ f[i] = "in_progress"
  BY DEF Demoted, StageStatus

-----------------------------------------------------------------------------
(* Lemmas about one run.                                                   *)

\* Normalizing a run of any stages keeps its list, its template and its
\* incident, and makes status and current stage consistent with the stages.
LEMMA NormalizedRun ==
    ASSUME NEW l \in StageLists, NEW R \in RunOf(l)
    PROVE  /\ Normalized(R) \in RunOf(l)
           /\ Consistent(Normalized(R))
           /\ Normalized(R).template = R.template
           /\ Normalized(R).incident = R.incident
<1> DEFINE n == Len(l)
           failed  == First(R.stages, {"failed"})
           going   == First(R.stages, {"in_progress"})
           pending == First(R.stages, {"pending"})
           k       == IF going # 0 THEN going ELSE pending
<1>1. n \in Nat \ {0}
  BY ListFacts
<1>2. R.stages \in [1..n -> StageStatus] /\ DOMAIN R.stages = 1..n
  BY DEF RunOf
<1>3. Len(R.stages) = n /\ Len(R.stages) \in 1..Len(l)
  BY <1>1, <1>2, LengthOfStages
<1>4. /\ failed \in 0..n
      /\ failed = 0 <=> \A j \in 1..n : R.stages[j] # "failed"
      /\ failed # 0 =>
            /\ R.stages[failed] = "failed"
            /\ \A j \in 1..n : R.stages[j] = "failed" => failed <= j
  <2>1. /\ failed \in 0..n
        /\ failed = 0 <=> \A j \in 1..n : R.stages[j] \notin {"failed"}
        /\ failed # 0 =>
              /\ R.stages[failed] \in {"failed"}
              /\ \A j \in 1..n : R.stages[j] \in {"failed"} => failed <= j
    BY <1>1, <1>2, FirstHit
  <2>2. QED
    BY <2>1
<1>5. /\ going \in 0..n
      /\ going = 0 <=> \A j \in 1..n : R.stages[j] # "in_progress"
  <2>1. /\ going \in 0..n
        /\ going = 0 <=> \A j \in 1..n : R.stages[j] \notin {"in_progress"}
    BY <1>1, <1>2, FirstHit
  <2>2. QED
    BY <2>1
<1>6. /\ pending \in 0..n
      /\ pending = 0 <=> \A j \in 1..n : R.stages[j] # "pending"
  <2>1. /\ pending \in 0..n
        /\ pending = 0 <=> \A j \in 1..n : R.stages[j] \notin {"pending"}
    BY <1>1, <1>2, FirstHit
  <2>2. QED
    BY <2>1
<1>7. CASE failed # 0
  <2>1. Normalized(R) = [R EXCEPT !.status = "failed", !.at = failed,
                                  !.stages = Demoted(R.stages, failed)]
    BY <1>7 DEF Normalized
  <2> DEFINE N == [R EXCEPT !.status = "failed", !.at = failed,
                            !.stages = Demoted(R.stages, failed)]
  <2>2. failed \in 1..n
    BY <1>4, <1>7, <1>1
  <2>3. /\ Demoted(R.stages, failed) \in [1..n -> StageStatus]
        /\ \A i \in 1..n :
              /\ Demoted(R.stages, failed)[i] = "failed"
                    <=> R.stages[i] = "failed"
              /\ Demoted(R.stages, failed)[i] # "in_progress"
    BY <1>1, <1>2, <1>4, <1>7, <2>2, DemotedStages
  <2>4. /\ N \in RunOf(l)
        /\ N.status = "failed" /\ N.at = failed
        /\ N.stages = Demoted(R.stages, failed)
        /\ N.template = R.template /\ N.incident = R.incident
    BY <2>2, <2>3 DEF RunOf, RunStatus
  <2>5. First(N.stages, {"failed"}) = failed
    <3> DEFINE f == First(N.stages, {"failed"})
    <3>1. /\ f \in 0..n
          /\ f = 0 <=> \A j \in 1..n : N.stages[j] \notin {"failed"}
          /\ f # 0 => /\ N.stages[f] \in {"failed"}
                      /\ \A j \in 1..n : N.stages[j] \in {"failed"} => f <= j
      BY <1>1, <2>3, <2>4, FirstHit
    <3>2. N.stages[failed] = "failed"
      BY <1>4, <1>7, <2>2, <2>3, <2>4
    <3>3. f # 0 /\ f <= failed
      BY <3>1, <3>2, <2>2
    <3>4. R.stages[f] = "failed"
      BY <3>1, <3>3, <2>3, <2>4
    <3>5. failed <= f
      BY <1>4, <1>7, <3>1, <3>3, <3>4, <1>1
    <3>6. QED
      BY <3>1, <3>3, <3>5, <2>2, <1>1
  <2>6. DOMAIN N.stages = 1..n
    BY <2>3, <2>4
  <2>7. QED
    BY <2>1, <2>3, <2>4, <2>5, <2>6 DEF Consistent
<1>8. CASE failed = 0 /\ k = 0
  <2> DEFINE N == [R EXCEPT !.status = "completed", !.at = Len(R.stages)]
  <2>1. Normalized(R) = N
    BY <1>8 DEF Normalized
  <2>2. N \in RunOf(l)
    BY <1>3 DEF RunOf, RunStatus
  <2>3. N.status = "completed" /\ N.at = n /\ N.stages = R.stages
    BY <1>3 DEF RunOf
  <2>4. \A j \in 1..n : R.stages[j] \in {"done", "skipped"}
    BY <1>2, <1>4, <1>5, <1>6, <1>8 DEF StageStatus
  <2>5. Consistent(N)
    BY <1>2, <1>3, <2>3, <2>4 DEF Consistent
  <2>6. N.template = R.template /\ N.incident = R.incident
    BY DEF RunOf
  <2>7. QED
    BY <2>1, <2>2, <2>5, <2>6
<1>9. CASE failed = 0 /\ k # 0
  <2> DEFINE G == [R.stages EXCEPT ![k] = "in_progress"]
             N == [R EXCEPT !.status = "active", !.at = k,
                            !.stages = Demoted(G, k)]
  <2>1. Normalized(R) = N
    BY <1>9 DEF Normalized
  <2>2. k \in 1..n
    BY <1>5, <1>6, <1>9, <1>1
  <2>3. /\ G \in [1..n -> StageStatus]
        /\ G[k] = "in_progress"
        /\ \A i \in 1..n : G[i] # "failed"
    BY <1>2, <1>4, <1>9, <2>2 DEF StageStatus
  <2>4. /\ Demoted(G, k) \in [1..n -> StageStatus]
        /\ \A i \in 1..n :
              /\ Demoted(G, k)[i] # "failed"
              /\ Demoted(G, k)[i] = "in_progress" <=> i = k
    <3> HIDE DEF G, k
    <3>1. QED
      BY <1>1, <2>2, <2>3, DemotedStages
  <2>5. /\ N \in RunOf(l)
        /\ N.status = "active" /\ N.at = k
        /\ N.stages = Demoted(G, k)
        /\ N.template = R.template /\ N.incident = R.incident
    <3> HIDE DEF G, k
    <3>1. QED
      BY <2>2, <2>4 DEF RunOf, RunStatus
  <2>6. DOMAIN N.stages = 1..n
    BY <2>4, <2>5
  <2>7. Consistent(N)
    <3> HIDE DEF N, G, k
    <3>1. QED
      BY <2>4, <2>5, <2>6 DEF Consistent
  <2>8. QED
    BY <2>1, <2>5, <2>7
<1>10. QED
  BY <1>7, <1>8, <1>9

\* A new run starts at its first stage.
LEMMA NewRunFits ==
    ASSUME TemplatesTyped, NEW t \in DOMAIN templates,
           NEW i \in Incident \union {NoIncident}
    PROVE  /\ NewRun(t, i) \in RunRec
           /\ Consistent(NewRun(t, i))
<1> DEFINE l == templates[t].stages
           st == [k \in DOMAIN l |-> IF k = 1 THEN "in_progress" ELSE "pending"]
<1>1. l \in StageLists
  BY DEF TemplatesTyped, TemplateRec
<1>2. Len(l) \in Nat \ {0} /\ DOMAIN l = 1..Len(l)
  BY <1>1, ListFacts
<1>3. NewRun(t, i) = [template |-> t, incident |-> i, names |-> l,
                      status |-> "active", at |-> 1, stages |-> st]
  BY DEF NewRun
<1>4. st \in [1..Len(l) -> StageStatus]
  BY <1>2 DEF StageStatus
<1>5. 1 \in 1..Len(l) /\ t \in Template
  BY <1>2 DEF TemplatesTyped
<1>6. NewRun(t, i) \in RunOf(l)
  <2> HIDE DEF l, st
  <2>1. QED
    BY <1>3, <1>4, <1>5 DEF RunOf, RunStatus
<1>7. Consistent(NewRun(t, i))
  BY <1>3 DEF Consistent
<1>8. QED
  BY <1>1, <1>6, <1>7 DEF RunRec

\* Ending an active run, either way, leaves it consistent.
LEMMA TerminatedRun ==
    ASSUME NEW l \in StageLists, NEW R \in RunOf(l), Consistent(R),
           R.status = "active", NEW v \in {"completed", "failed"}
    PROVE  /\ Terminated(R, v) \in RunOf(l)
           /\ Consistent(Terminated(R, v))
           /\ Terminated(R, v).status = v
<1> DEFINE n == Len(l)
<1>1. n \in Nat \ {0}
  BY ListFacts
<1>2. R.stages \in [1..n -> StageStatus] /\ R.at \in 1..n
  BY DEF RunOf
<1>3. /\ Len(R.stages) = n /\ DOMAIN R.stages = 1..n
      /\ Len(R.stages) \in 1..Len(l)
  BY <1>1, <1>2, LengthOfStages
<1>4. \A k \in 1..n : /\ R.stages[k] # "failed"
                      /\ R.stages[k] = "in_progress" <=> k = R.at
  BY <1>3 DEF Consistent
<1>5. CASE v = "completed"
  <2> DEFINE S == [k \in DOMAIN R.stages |->
                     IF R.stages[k] = "done" THEN "done" ELSE "skipped"]
             N == [R EXCEPT !.status = v, !.at = Len(R.stages), !.stages = S]
  <2>1. Terminated(R, v) = N
    BY <1>5 DEF Terminated
  <2>2. S \in [1..n -> StageStatus]
    BY <1>3 DEF StageStatus
  <2>3. \A k \in 1..n : S[k] \in {"done", "skipped"}
    BY <1>3
  <2>4. Len(S) = n /\ DOMAIN S = 1..n
    BY <1>1, <2>2, LengthOfStages
  <2>5. N \in RunOf(l) /\ N.status = v /\ N.at = n /\ N.stages = S
    <3> HIDE DEF S
    <3>1. QED
      BY <1>3, <2>2 DEF RunOf, RunStatus
  <2>6. Consistent(N)
    <3> HIDE DEF S, N
    <3>1. QED
      BY <1>5, <2>3, <2>4, <2>5 DEF Consistent
  <2>7. QED
    BY <2>1, <2>5, <2>6
<1>6. CASE v = "failed"
  <2> DEFINE S == [R.stages EXCEPT ![R.at] = "failed"]
             N == [R EXCEPT !.status = v, !.stages = S]
  <2>1. Terminated(R, v) = N
    BY <1>6 DEF Terminated, RunOf
  <2>2. S \in [1..n -> StageStatus]
    BY <1>2 DEF StageStatus
  <2>3. \A k \in 1..n : /\ S[k] = "failed" <=> k = R.at
                        /\ S[k] # "in_progress"
    BY <1>2, <1>4
  <2>4. N \in RunOf(l) /\ N.status = v /\ N.at = R.at /\ N.stages = S
    <3> HIDE DEF S
    <3>1. QED
      BY <2>2 DEF RunOf, RunStatus
  <2>5. First(S, {"failed"}) = R.at
    <3> DEFINE f == First(S, {"failed"})
    <3>1. DOMAIN S = 1..n
      BY <2>2
    <3>2. /\ f \in 0..n
          /\ f = 0 <=> \A j \in 1..n : S[j] \notin {"failed"}
          /\ f # 0 => S[f] \in {"failed"}
      <4> HIDE DEF S
      <4>1. QED
        BY <1>1, <3>1, FirstHit
    <3>3. f # 0
      BY <1>2, <2>3, <3>2
    <3>4. QED
      BY <1>1, <2>3, <3>2, <3>3
  <2>6. Consistent(N)
    <3>1. DOMAIN S = 1..n
      BY <2>2
    <3> HIDE DEF S, N
    <3>2. QED
      BY <1>6, <2>3, <2>4, <2>5, <3>1 DEF Consistent
  <2>7. QED
    BY <2>1, <2>4, <2>6
<1>7. QED
  BY <1>5, <1>6

-----------------------------------------------------------------------------
(* Lemmas about all the runs.                                              *)

\* Trimming keeps a run or forgets it.
LEMMA TrimmedRuns ==
    ASSUME NEW rs
    PROVE  /\ DOMAIN Trimmed(rs) = RunId
           /\ \A r \in RunId : Trimmed(rs)[r] \in {rs[r], NoRun}
  BY DEF Trimmed

\* Trimming leaves no more runs than the limit: below the oldest kept run
\* are none, and above it fewer than the limit.
LEMMA TrimmedWithinLimit ==
    ASSUME NEW rs
    PROVE  Cardinality(Kept(Trimmed(rs))) <= MaxRuns
<1> DEFINE K     == Kept(rs)
           T     == Kept(Trimmed(rs))
           Up(r) == {s \in K : s > r}
<1>1. IsFiniteSet(RunId) /\ RunId \subseteq Nat
  BY BoundsAreNat, FS_Interval DEF RunId
<1>2. IsFiniteSet(K) /\ IsFiniteSet(T)
  BY <1>1, FS_Subset DEF Kept
<1>3. \A r \in T : r \in K /\ ~(Cardinality(Up(r)) >= MaxRuns)
  BY DEF Kept, Trimmed, NoRun
<1>4. CASE T = {}
  BY <1>4, FS_EmptySet, BoundsAreNat
<1>5. CASE T # {}
  <2>1. T \in SUBSET Nat
    BY <1>1 DEF Kept
  <2>2. PICK r \in T : \A s \in T : r <= s
    BY <1>5, <2>1, LeastElement
  <2>3. T \ {r} \in SUBSET Up(r)
    <3>1. ASSUME NEW s \in T \ {r}
          PROVE  s \in K /\ s > r
      <4>1. s \in Nat /\ r \in Nat /\ r <= s /\ s # r
        BY <2>1, <2>2
      <4>2. s \in K
        BY <1>3
      <4>3. s > r
        BY <4>1
      <4>4. QED
        BY <4>2, <4>3
    <3>2. QED
      BY <3>1
  <2>4. IsFiniteSet(Up(r))
    BY <1>2, FS_Subset
  <2>5. /\ Cardinality(T \ {r}) <= Cardinality(Up(r))
        /\ Cardinality(T \ {r}) = Cardinality(T) - 1
    <3>1. Cardinality(T \ {r}) <= Cardinality(Up(r))
      BY <2>3, <2>4, FS_Subset
    <3>2. Cardinality(T \ {r}) = Cardinality(T) - 1
      BY <1>2, <2>2, FS_RemoveElement
    <3>3. QED
      BY <3>1, <3>2
  <2>6. Cardinality(Up(r)) \in Nat /\ Cardinality(T) \in Nat
    BY <1>2, <2>4, FS_CardinalityType
  <2>7. Cardinality(Up(r)) < MaxRuns
    BY <1>3, <2>2, <2>6, BoundsAreNat
  <2>8. QED
    BY <2>5, <2>6, <2>7, BoundsAreNat
<1>6. QED
  BY <1>4, <1>5

\* Runs that are all well formed stay so when they are trimmed.
LEMMA TrimmedFits ==
    ASSUME NEW rs,
           \A r \in RunId : \/ rs[r] = NoRun
                            \/ rs[r] \in RunRec /\ Consistent(rs[r])
    PROVE  /\ Trimmed(rs) \in [RunId -> RunRec \union {NoRun}]
           /\ \A r \in Kept(Trimmed(rs)) : Consistent(Trimmed(rs)[r])
<1>1. Trimmed(rs) = [r \in RunId |-> Trimmed(rs)[r]]
  BY DEF Trimmed
<1>2. \A r \in RunId : Trimmed(rs)[r] = NoRun \/ Trimmed(rs)[r] = rs[r]
  BY TrimmedRuns
<1>3. \A r \in RunId : Trimmed(rs)[r] \in RunRec \union {NoRun}
  BY <1>2
<1>4. ASSUME NEW r \in Kept(Trimmed(rs))
      PROVE  Consistent(Trimmed(rs)[r])
  <2>1. r \in RunId /\ Trimmed(rs)[r] # NoRun
    BY DEF Kept, NoRun
  <2>2. QED
    BY <1>2, <2>1
<1>5. QED
  BY <1>1, <1>3, <1>4

\* In a good state every run is well formed, or there is none.
LEMMA EveryRunFits ==
    ASSUME RunsTyped, RunsConsistent, NEW r \in RunId
    PROVE  \/ runs[r] = NoRun
           \/ runs[r] \in RunRec /\ Consistent(runs[r])
<1>1. runs[r] \in RunRec \union {NoRun}
  BY DEF RunsTyped
<1>2. ASSUME runs[r] \in RunRec
      PROVE  runs[r].status # "none"
  BY <1>2 DEF RunRec, RunOf, RunStatus
<1>3. ASSUME runs[r] \in RunRec
      PROVE  Consistent(runs[r])
  <2>1. r \in Kept(runs)
    BY <1>2, <1>3 DEF Kept
  <2>2. QED
    BY <2>1 DEF RunsConsistent
<1>4. QED
  BY <1>1, <1>3

\* Rewriting one kept run consistently keeps the runs well formed, and keeps
\* the same ones.
LEMMA RunRewritten ==
    ASSUME RunsTyped, RunsConsistent, WithinLimit, NEW r \in Kept(runs),
           NEW R \in RunRec, Consistent(R), runs' = [runs EXCEPT ![r] = R],
           UNCHANGED started
    PROVE  RunsTyped' /\ RunsConsistent' /\ WithinLimit'
<1>1. r \in RunId /\ runs \in [RunId -> RunRec \union {NoRun}]
  BY DEF Kept, RunsTyped
<1>2. RunsTyped'
  BY <1>1 DEF RunsTyped
<1>3. R.status # "none"
  BY DEF RunRec, RunOf, RunStatus
<1>4. \A s \in RunId : runs'[s] = IF s = r THEN R ELSE runs[s]
  BY <1>1
<1>5. Kept(runs') = Kept(runs)
  BY <1>1, <1>3, <1>4 DEF Kept
<1>6. RunsConsistent'
  <2>1. \A s \in Kept(runs) : Consistent(runs'[s])
    BY <1>4 DEF RunsConsistent, Kept
  <2>2. QED
    BY <1>5, <2>1 DEF RunsConsistent
<1>7. WithinLimit'
  BY <1>5 DEF WithinLimit
<1>8. QED
  BY <1>2, <1>6, <1>7

-----------------------------------------------------------------------------
(* The templates stay well typed.                                          *)

\* The custom templates that are written are well typed.
LEMMA CustomTyped ==
    ASSUME NEW T, NEW D, IsFiniteSet(D), NEW ts \in [D -> T]
    PROVE  /\ CustomOf(ts) \in [DOMAIN CustomOf(ts) -> T]
           /\ DOMAIN CustomOf(ts) \subseteq Custom
           /\ IsFiniteSet(DOMAIN CustomOf(ts))
<1>1. DOMAIN CustomOf(ts) = D \intersect Custom
  BY DEF CustomOf
<1>2. IsFiniteSet(D \intersect Custom)
  BY FS_Subset
<1>3. CustomOf(ts) \in [DOMAIN CustomOf(ts) -> T]
  BY <1>1 DEF CustomOf
<1>4. QED
  BY <1>1, <1>2, <1>3

\* Editing the templates and writing the custom ones.
LEMMA TemplatesEdited ==
    ASSUME TemplatesTyped, UNCHANGED now,
           templates' \in [DOMAIN templates' -> TemplateRec(now)],
           DOMAIN templates' \subseteq Template,
           IsFiniteSet(DOMAIN templates'),
           stored' = CustomOf(templates') \/ UNCHANGED stored
    PROVE  TemplatesTyped'
<1>1. CASE UNCHANGED stored
  BY <1>1 DEF TemplatesTyped, TemplateRec
<1>2. CASE stored' = CustomOf(templates')
  <2>1. /\ stored' \in [DOMAIN stored' -> TemplateRec(now)]
        /\ DOMAIN stored' \subseteq Custom
        /\ IsFiniteSet(DOMAIN stored')
    <3>1. PICK ts : ts = templates'
      OBVIOUS
    <3>2. ts \in [DOMAIN ts -> TemplateRec(now)] /\ IsFiniteSet(DOMAIN ts)
      BY <3>1
    <3>3. /\ CustomOf(ts) \in [DOMAIN CustomOf(ts) -> TemplateRec(now)]
          /\ DOMAIN CustomOf(ts) \subseteq Custom
          /\ IsFiniteSet(DOMAIN CustomOf(ts))
      BY <3>2, CustomTyped
    <3>4. QED
      BY <1>2, <3>1, <3>3
  <2>2. QED
    BY <2>1 DEF TemplatesTyped, TemplateRec
<1>3. QED
  BY <1>1, <1>2

\* What is well typed at a time is well typed later.
LEMMA TypedLater ==
    ASSUME NEW m \in Nat, NEW n \in Nat, m <= n
    PROVE  TemplateRec(m) \subseteq TemplateRec(n)
  BY DEF TemplateRec

\* Every step keeps the templates well typed.
LEMMA TemplatesStep ==
    ASSUME TemplatesTyped, [Next]_vars
    PROVE  TemplatesTyped'
<1>1. CASE UNCHANGED <<templates, stored, now>>
  BY <1>1 DEF TemplatesTyped, TemplateRec
<1>2. CASE SchedulerTick
  <2> DEFINE due == {t \in DOMAIN templates : Due(t, now + 1)}
  <2>1. /\ now' = now + 1 /\ templates' = Marked(due, now')
        /\ UNCHANGED stored
    BY <1>2 DEF SchedulerTick
  <2>2. now \in Nat /\ now' \in Nat /\ now' \in 0..now'
    BY <2>1 DEF TemplatesTyped
  <2>3. TemplateRec(now) \subseteq TemplateRec(now')
    BY <2>1, <2>2, TypedLater
  <2>4. DOMAIN templates' = DOMAIN templates
    BY <2>1 DEF Marked
  <2>5. ASSUME NEW t \in DOMAIN templates
        PROVE  templates'[t] \in TemplateRec(now')
    <3>1. templates[t] \in TemplateRec(now')
      BY <2>3 DEF TemplatesTyped
    <3>2. [templates[t] EXCEPT !.last = now'] \in TemplateRec(now')
      BY <2>2, <3>1 DEF TemplateRec
    <3>3. QED
      BY <2>1, <3>1, <3>2 DEF Marked
  <2>6. templates' = [t \in DOMAIN templates' |-> templates'[t]]
    BY <2>1 DEF Marked
  <2>7. templates' \in [DOMAIN templates' -> TemplateRec(now')]
    BY <2>4, <2>5, <2>6
  <2>8. stored' \in [DOMAIN stored' -> TemplateRec(now')]
    BY <2>1, <2>3 DEF TemplatesTyped
  <2>9. QED
    BY <2>1, <2>2, <2>4, <2>7, <2>8 DEF TemplatesTyped, TemplateRec
<1>3. ASSUME NEW t \in Custom, NEW l \in StageLists, AddTemplate(t, l)
      PROVE  TemplatesTyped'
  <2>1. /\ templates' = [u \in DOMAIN templates \union {t} |->
                            IF u = t THEN Fresh(l) ELSE templates[u]]
        /\ stored' = CustomOf(templates') /\ UNCHANGED now
    BY <1>3 DEF AddTemplate, OfTemplates
  <2>2. Fresh(l) \in TemplateRec(now)
    BY DEF Fresh, TemplateRec, TemplatesTyped
  <2>3. templates' \in [DOMAIN templates \union {t} -> TemplateRec(now)]
    BY <2>1, <2>2 DEF TemplatesTyped
  <2>4. IsFiniteSet(DOMAIN templates \union {t})
    BY FS_AddElement DEF TemplatesTyped
  <2>5. DOMAIN templates \union {t} \subseteq Template
    BY DEF TemplatesTyped, Template
  <2>6. DOMAIN templates' = DOMAIN templates \union {t}
    BY <2>1
  <2>7. QED
    BY <2>1, <2>3, <2>4, <2>5, <2>6, TemplatesEdited
<1>4. ASSUME NEW t \in Custom, NEW l \in StageLists, UpdateTemplate(t, l)
      PROVE  TemplatesTyped'
  <2>1. /\ templates' = [templates EXCEPT ![t].stages = l]
        /\ stored' = CustomOf(templates') /\ UNCHANGED now
        /\ t \in DOMAIN templates
    BY <1>4 DEF UpdateTemplate, OfTemplates
  <2>2. [templates[t] EXCEPT !.stages = l] \in TemplateRec(now)
    BY <2>1 DEF TemplateRec, TemplatesTyped
  <2>3. templates' = [templates EXCEPT
                        ![t] = [templates[t] EXCEPT !.stages = l]]
    BY <2>1
  <2>4. /\ templates' \in [DOMAIN templates -> TemplateRec(now)]
        /\ DOMAIN templates' = DOMAIN templates
    BY <2>1, <2>2, <2>3 DEF TemplatesTyped
  <2>5. DOMAIN templates \subseteq Template /\ IsFiniteSet(DOMAIN templates)
    BY DEF TemplatesTyped
  <2>6. QED
    BY <2>1, <2>4, <2>5, TemplatesEdited
<1>5. ASSUME NEW t \in Custom, DeleteTemplate(t)
      PROVE  TemplatesTyped'
  <2>1. /\ templates' = [u \in DOMAIN templates \ {t} |-> templates[u]]
        /\ stored' = CustomOf(templates') /\ UNCHANGED now
    BY <1>5 DEF DeleteTemplate, OfTemplates
  <2>2. /\ templates' \in [DOMAIN templates \ {t} -> TemplateRec(now)]
        /\ DOMAIN templates' = DOMAIN templates \ {t}
    BY <2>1 DEF TemplatesTyped
  <2>3. IsFiniteSet(DOMAIN templates \ {t})
    BY FS_RemoveElement DEF TemplatesTyped
  <2>4. DOMAIN templates \ {t} \subseteq Template
    BY DEF TemplatesTyped
  <2>5. QED
    BY <2>1, <2>2, <2>3, <2>4, TemplatesEdited
<1>6. ASSUME NEW t \in Template, NEW e \in Intervals,
             UpdateTemplateSchedule(t, e)
      PROVE  TemplatesTyped'
  <2> DEFINE last == IF e > 0 /\ templates[t].last = 0 THEN now
                     ELSE templates[t].last
             T    == [templates[t] EXCEPT !.every = e, !.last = last]
  <2>1. /\ templates' = [templates EXCEPT ![t] = T]
        /\ UNCHANGED <<stored, now>> /\ t \in DOMAIN templates
    BY <1>6 DEF UpdateTemplateSchedule, OfTemplates
  <2>2. templates[t] \in TemplateRec(now) /\ now \in 0..now
    BY <2>1 DEF TemplatesTyped
  <2>3. T \in TemplateRec(now)
    BY <2>2 DEF TemplateRec
  <2>4. /\ templates' \in [DOMAIN templates -> TemplateRec(now)]
        /\ DOMAIN templates' = DOMAIN templates
    <3> HIDE DEF T
    <3>1. QED
      BY <2>1, <2>3 DEF TemplatesTyped
  <2>5. DOMAIN templates \subseteq Template /\ IsFiniteSet(DOMAIN templates)
    BY DEF TemplatesTyped
  <2>6. QED
    BY <2>1, <2>4, <2>5, TemplatesEdited
<1>7. CASE Restart
  <2>1. templates' = Booted /\ UNCHANGED <<stored, now>>
    BY <1>7 DEF Restart
  <2>2. DOMAIN Booted = BuiltIn \union DOMAIN stored
    BY DEF Booted
  <2>3. IsFiniteSet(BuiltIn \union DOMAIN stored)
    BY BuiltInIsFinite, FS_Union DEF TemplatesTyped
  <2>4. ASSUME NEW t \in BuiltIn \union DOMAIN stored
        PROVE  Booted[t] \in TemplateRec(now)
    <3>1. CASE t \in BuiltIn
      <4>1. BuiltInStages[t] \in StageLists
        BY <3>1, ListsType
      <4>2. QED
        BY <3>1, <4>1 DEF Booted, Fresh, TemplateRec, TemplatesTyped
    <3>2. CASE t \notin BuiltIn
      <4> DEFINE last == IF stored[t].every > 0 /\ stored[t].last = 0
                         THEN now ELSE stored[t].last
      <4>1. stored[t] \in TemplateRec(now) /\ now \in 0..now
        BY <3>2 DEF TemplatesTyped
      <4>2. Booted[t] = [stored[t] EXCEPT !.last = last]
        BY <3>2 DEF Booted
      <4>3. last \in 0..now
        BY <4>1 DEF TemplateRec
      <4>4. QED
        <5> HIDE DEF last
        <5>1. QED
          BY <4>1, <4>2, <4>3 DEF TemplateRec
    <3>3. QED
      BY <3>1, <3>2
  <2>5. templates' \in [DOMAIN templates' -> TemplateRec(now)]
    BY <2>1, <2>2, <2>4 DEF Booted
  <2>6. DOMAIN templates' \subseteq Template
    BY <2>1, <2>2 DEF TemplatesTyped, Template
  <2>7. IsFiniteSet(DOMAIN templates')
    BY <2>1, <2>2, <2>3
  <2>8. QED
    BY <2>1, <2>5, <2>6, <2>7, TemplatesEdited
<1>8. QED
  BY <1>1, <1>2, <1>3, <1>4, <1>5, <1>6, <1>7
  DEF Next, vars, StartRun, UpdateStage, ReconcileRun, OfRuns,
      RecoverActiveRuns, IncidentMoves

-----------------------------------------------------------------------------
(* The runs stay well typed, consistent and within the limit.              *)

RunsGood == RunsTyped /\ RunsConsistent /\ WithinLimit

\* Runs that are trimmed are good, whatever was added to them before.
LEMMA RunsTrimmed ==
    ASSUME NEW rs, runs' = Trimmed(rs), started' \in 0..MaxStarted,
           \A r \in RunId : \/ rs[r] = NoRun
                            \/ rs[r] \in RunRec /\ Consistent(rs[r])
    PROVE  RunsGood'
<1>1. /\ Trimmed(rs) \in [RunId -> RunRec \union {NoRun}]
      /\ \A r \in Kept(Trimmed(rs)) : Consistent(Trimmed(rs)[r])
  BY TrimmedFits
<1>2. Cardinality(Kept(Trimmed(rs))) <= MaxRuns
  BY TrimmedWithinLimit
<1>3. QED
  BY <1>1, <1>2 DEF RunsGood, RunsTyped, RunsConsistent, WithinLimit

\* A run that is started is well formed.
LEMMA StartRunStep ==
    ASSUME TemplatesTyped, RunsGood,
           NEW t \in Template, NEW i \in Incident, StartRun(t, i)
    PROVE  RunsGood'
<1>1. CASE UNCHANGED <<runs, started>>
  BY <1>1 DEF RunsGood, RunsTyped, RunsConsistent, WithinLimit
<1>2. CASE /\ started < MaxStarted /\ started' = started + 1
           /\ runs' = Trimmed([runs EXCEPT ![started + 1] = NewRun(t, i)])
  <2> DEFINE rs == [runs EXCEPT ![started + 1] = NewRun(t, i)]
  <2>1. started' \in 0..MaxStarted
    BY <1>2, BoundsAreNat DEF RunsGood, RunsTyped
  <2>2. t \in DOMAIN templates
    BY DEF StartRun
  <2>3. NewRun(t, i) \in RunRec /\ Consistent(NewRun(t, i))
    BY <2>2, NewRunFits
  <2>4. DOMAIN runs = RunId
    BY DEF RunsGood, RunsTyped
  <2>5. ASSUME NEW r \in RunId
        PROVE  \/ rs[r] = NoRun
               \/ rs[r] \in RunRec /\ Consistent(rs[r])
    <3>1. CASE r = started + 1
      BY <2>3, <2>4, <3>1
    <3>2. CASE r # started + 1
      <4>1. rs[r] = runs[r]
        BY <2>4, <3>2
      <4>2. QED
        BY <4>1, EveryRunFits DEF RunsGood
    <3>3. QED
      BY <3>1, <3>2
  <2>6. runs' = Trimmed(rs)
    BY <1>2
  <2> HIDE DEF rs
  <2>7. QED
    BY <2>1, <2>5, <2>6, RunsTrimmed
<1>3. QED
  BY <1>1, <1>2 DEF StartRun

\* So are the runs that a tick starts.
LEMMA SchedulerTickStep ==
    ASSUME TemplatesTyped, RunsGood, SchedulerTick
    PROVE  RunsGood'
<1> DEFINE due == {t \in DOMAIN templates : Due(t, now + 1)}
<1>1. /\ started + Cardinality(due) <= MaxStarted
      /\ started' = started + Cardinality(due)
  BY DEF SchedulerTick
<1>2. PICK id \in [due -> RunId] :
          runs' = Trimmed([r \in RunId |->
                     IF \E t \in due : id[t] = r
                     THEN NewRun(CHOOSE t \in due : id[t] = r, NoIncident)
                     ELSE runs[r]])
  BY DEF SchedulerTick
<1> DEFINE rs == [r \in RunId |->
                     IF \E t \in due : id[t] = r
                     THEN NewRun(CHOOSE t \in due : id[t] = r, NoIncident)
                     ELSE runs[r]]
<1>3. IsFiniteSet(due)
  BY FS_Subset DEF TemplatesTyped
<1>4. Cardinality(due) \in Nat
  BY <1>3, FS_CardinalityType
<1>5. started' \in 0..MaxStarted
  BY <1>1, <1>4, BoundsAreNat DEF RunsGood, RunsTyped
<1>6. ASSUME NEW r \in RunId
      PROVE  \/ rs[r] = NoRun
             \/ rs[r] \in RunRec /\ Consistent(rs[r])
  <2>1. CASE \E t \in due : id[t] = r
    <3>1. PICK t \in DOMAIN templates : rs[r] = NewRun(t, NoIncident)
      <4> DEFINE c == CHOOSE t \in due : id[t] = r
      <4>1. c \in due
        BY <2>1
      <4>2. rs[r] = NewRun(c, NoIncident)
        BY <2>1
      <4>3. QED
        BY <4>1, <4>2
    <3>2. NewRun(t, NoIncident) \in RunRec /\ Consistent(NewRun(t, NoIncident))
      BY NewRunFits
    <3>3. QED
      BY <3>1, <3>2
  <2>2. CASE ~ \E t \in due : id[t] = r
    <3>1. rs[r] = runs[r]
      BY <2>2
    <3>2. QED
      BY <3>1, EveryRunFits DEF RunsGood
  <2>3. QED
    BY <2>1, <2>2
<1>7. runs' = Trimmed(rs)
  BY <1>2
<1> HIDE DEF rs
<1>8. QED
  BY <1>5, <1>6, <1>7, RunsTrimmed

\* Setting a stage, in any order and after the end of the run as well, and
\* reconciling a run both normalize it.
LEMMA NormalizedStep ==
    ASSUME RunsGood, NEW r \in Kept(runs), NEW l \in StageLists,
           NEW R \in RunOf(l), runs' = [runs EXCEPT ![r] = Normalized(R)],
           UNCHANGED started
    PROVE  RunsGood'
<1>1. Normalized(R) \in RunRec /\ Consistent(Normalized(R))
  BY NormalizedRun DEF RunRec
<1>2. QED
  BY <1>1, RunRewritten DEF RunsGood

LEMMA UpdateStageStep ==
    ASSUME RunsGood, NEW r \in RunId, NEW name, NEW s \in StageStatus,
           UpdateStage(r, name, s)
    PROVE  RunsGood'
<1> DEFINE R     == runs[r]
           k     == First(R.names, {name})
           next  == OpensNext(R.stages, k, s)
           moved == [j \in DOMAIN R.stages |->
                       CASE j = k            -> s
                         [] j = k + 1 /\ next -> "in_progress"
                         [] OTHER            -> R.stages[j]]
<1>1. /\ R.status # "none" /\ UNCHANGED started
      /\ runs' = [runs EXCEPT ![r] = Normalized([R EXCEPT !.stages = moved])]
  BY DEF UpdateStage, OfRuns
<1>2. r \in Kept(runs)
  BY <1>1 DEF Kept
<1>3. PICK l \in StageLists : R \in RunOf(l)
  BY <1>2, KeptRun DEF RunsGood
<1>4. Len(l) \in Nat
  BY ListFacts
<1>5. R.stages \in [1..Len(l) -> StageStatus]
  BY <1>3 DEF RunOf
<1>6. k \in Nat
  <2>1. R.names = l /\ DOMAIN l = 1..Len(l)
    BY <1>3, ListFacts DEF RunOf
  <2>2. k \in 0..Len(l)
    BY <1>4, <2>1, FirstHit
  <2>3. QED
    BY <1>4, <2>2
<1>7. moved \in [1..Len(l) -> StageStatus]
  <2>1. DOMAIN moved = 1..Len(l)
    BY <1>5
  <2>2. ASSUME NEW j \in 1..Len(l)
        PROVE  moved[j] \in StageStatus
    <3>1. CASE j = k
      BY <1>5, <1>6, <3>1
    <3>2. CASE j # k /\ j = k + 1 /\ next
      <4>1. moved[j] = "in_progress"
        BY <1>5, <3>2
      <4>2. QED
        BY <4>1 DEF StageStatus
    <3>3. CASE j # k /\ ~(j = k + 1 /\ next)
      <4>1. moved[j] = R.stages[j]
        BY <1>5, <3>3
      <4>2. QED
        BY <1>5, <4>1
    <3>4. QED
      BY <3>1, <3>2, <3>3
  <2>3. QED
    BY <2>1, <2>2
<1>8. [R EXCEPT !.stages = moved] \in RunOf(l)
  <2> HIDE DEF moved
  <2>1. QED
    BY <1>3, <1>7 DEF RunOf
<1>9. QED
  <2> HIDE DEF moved
  <2>1. QED
    BY <1>1, <1>2, <1>8, NormalizedStep

LEMMA ReconcileRunStep ==
    ASSUME RunsGood, NEW r \in RunId, ReconcileRun(r)
    PROVE  RunsGood'
<1>1. /\ r \in Kept(runs) /\ UNCHANGED started
      /\ runs' = [runs EXCEPT ![r] = Normalized(runs[r])]
  BY DEF ReconcileRun, OfRuns, Kept
<1>2. PICK l \in StageLists : runs[r] \in RunOf(l)
  BY <1>1, KeptRun DEF RunsGood
<1>3. QED
  BY <1>1, <1>2, NormalizedStep

-----------------------------------------------------------------------------
(* Recovery.                                                               *)

\* A recovery leaves a run alone or ends it, which only happens to an active
\* run, and always to a superseded one.
LEMMA RecoveredRun ==
    ASSUME NEW old, NEW r \in RunId
    PROVE  /\ \/ Recovered(old)[r] = runs[r]
              \/ /\ r \in Active(runs)
                 /\ \E v \in {"completed", "failed"} :
                       Recovered(old)[r] = Terminated(runs[r], v)
           /\ r \in Active(runs) /\ Superseded(r) =>
                 Recovered(old)[r] = Terminated(runs[r], "failed")
<1>1. Verdict(runs[r], r \in old) \in {"keep", "completed", "failed"}
  BY DEF Verdict
<1>2. QED
  BY <1>1 DEF Recovered

\* After a recovery every run is as it was, or was active and has ended.
LEMMA RecoveredFits ==
    ASSUME RunsGood, NEW old, NEW r \in RunId
    PROVE  LET R == Recovered(old)[r]
           IN  \/ R = runs[r]
               \/ /\ r \in Active(runs)
                  /\ R \in RunRec /\ Consistent(R)
                  /\ R.status \in {"completed", "failed"}
<1>1. CASE Recovered(old)[r] = runs[r]
  BY <1>1
<1>2. CASE Recovered(old)[r] # runs[r]
  <2>1. PICK v \in {"completed", "failed"} :
            Recovered(old)[r] = Terminated(runs[r], v)
    BY <1>2, RecoveredRun
  <2>2. r \in Active(runs) /\ r \in Kept(runs) /\ runs[r].status = "active"
    BY <1>2, RecoveredRun DEF Active, Kept
  <2>3. PICK l \in StageLists : runs[r] \in RunOf(l)
    BY <2>2, KeptRun DEF RunsGood
  <2>4. Consistent(runs[r])
    BY <2>2 DEF RunsGood, RunsConsistent
  <2>5. /\ Terminated(runs[r], v) \in RunOf(l)
        /\ Consistent(Terminated(runs[r], v))
        /\ Terminated(runs[r], v).status = v
    BY <2>2, <2>3, <2>4, TerminatedRun
  <2>6. QED
    BY <2>1, <2>2, <2>5 DEF RunRec
<1>3. QED
  BY <1>1, <1>2

\* A recovery keeps all the runs, and keeps them good.
LEMMA RecoverStep ==
    ASSUME RunsGood, NEW old, RecoverActiveRuns(old)
    PROVE  RunsGood'
<1>1. runs' = Recovered(old) /\ UNCHANGED started
  BY DEF RecoverActiveRuns
<1>2. \A r \in RunId :
         \/ runs'[r] = runs[r]
         \/ /\ r \in Active(runs)
            /\ runs'[r] \in RunRec /\ Consistent(runs'[r])
            /\ runs'[r].status # "none"
  BY <1>1, RecoveredFits
<1>3. runs' = [r \in RunId |-> runs'[r]]
  BY <1>1 DEF Recovered
<1>4. \A r \in RunId : runs[r] \in RunRec \union {NoRun}
  BY DEF RunsGood, RunsTyped
<1>5. RunsTyped'
  <2>1. \A r \in RunId : runs'[r] \in RunRec \union {NoRun}
    BY <1>2, <1>4
  <2>2. runs' \in [RunId -> RunRec \union {NoRun}]
    BY <1>3, <2>1
  <2>3. QED
    BY <1>1, <2>2 DEF RunsGood, RunsTyped
<1>6. Kept(runs') = Kept(runs)
  BY <1>2 DEF Kept, Active
<1>7. RunsConsistent'
  <2>1. ASSUME NEW r \in Kept(runs)
        PROVE  Consistent(runs'[r])
    <3>1. r \in RunId /\ Consistent(runs[r])
      BY DEF Kept, RunsGood, RunsConsistent
    <3>2. CASE runs'[r] = runs[r]
      BY <3>1, <3>2
    <3>3. CASE runs'[r] # runs[r]
      BY <1>2, <3>1, <3>3
    <3>4. QED
      BY <3>2, <3>3
  <2>2. QED
    BY <1>6, <2>1 DEF RunsConsistent
<1>8. WithinLimit'
  BY <1>6 DEF RunsGood, WithinLimit
<1>9. QED
  BY <1>5, <1>7, <1>8 DEF RunsGood

-----------------------------------------------------------------------------
(* The theorems.                                                           *)

\* The invariant holds at the start.
LEMMA InitInv == Init => WorkflowInv
<1> SUFFICES ASSUME Init PROVE WorkflowInv
  OBVIOUS
<1>1. TemplatesTyped
  <2>1. templates \in [BuiltIn -> TemplateRec(1)]
    <3>1. \A t \in BuiltIn : Fresh(BuiltInStages[t]) \in TemplateRec(1)
      BY ListsType DEF Fresh, TemplateRec
    <3>2. QED
      BY <3>1 DEF Init
  <2>2. DOMAIN templates = BuiltIn /\ DOMAIN stored = {} /\ now = 1
    BY DEF Init
  <2>3. stored \in [{} -> TemplateRec(1)]
    BY DEF Init
  <2>4. QED
    BY <2>1, <2>2, <2>3, BuiltInIsFinite, FS_EmptySet
    DEF TemplatesTyped, Template
<1>2. Kept(runs) = {}
  BY DEF Init, Kept, NoRun
<1>3. RunsTyped
  BY BoundsAreNat DEF Init, RunsTyped
<1>4. RunsConsistent /\ WithinLimit
  BY <1>2, FS_EmptySet, BoundsAreNat DEF RunsConsistent, WithinLimit
<1>5. QED
  BY <1>1, <1>3, <1>4 DEF WorkflowInv

\* Every step keeps the invariant.
LEMMA NextInv == WorkflowInv /\ [Next]_vars => WorkflowInv'
<1> SUFFICES ASSUME WorkflowInv, [Next]_vars PROVE WorkflowInv'
  OBVIOUS
<1>1. TemplatesTyped /\ RunsGood
  BY DEF WorkflowInv, RunsGood
<1>2. TemplatesTyped'
  BY <1>1, TemplatesStep
<1>3. RunsGood'
  <2>1. CASE UNCHANGED <<runs, started>>
    BY <1>1, <2>1 DEF RunsGood, RunsTyped, RunsConsistent, WithinLimit
  <2>2. CASE \E t \in Template, i \in Incident : StartRun(t, i)
    BY <1>1, <2>2, StartRunStep
  <2>3. CASE SchedulerTick
    BY <1>1, <2>3, SchedulerTickStep
  <2>4. CASE \E r \in RunId, name \in StageNames, s \in StageStatus :
                UpdateStage(r, name, s)
    BY <1>1, <2>4, UpdateStageStep
  <2>5. CASE \E r \in RunId : ReconcileRun(r)
    BY <1>1, <2>5, ReconcileRunStep
  <2>6. CASE \E old \in SUBSET Active(runs) : RecoverActiveRuns(old)
    BY <1>1, <2>6, RecoverStep
  <2>7. QED
    BY <2>1, <2>2, <2>3, <2>4, <2>5, <2>6
    DEF Next, vars, AddTemplate, UpdateTemplate, DeleteTemplate,
        OfTemplates, UpdateTemplateSchedule, IncidentMoves, Restart
<1>4. QED
  BY <1>2, <1>3 DEF WorkflowInv, RunsGood

LEMMA Invariance == Spec => []WorkflowInv
  BY InitInv, NextInv, PTL DEF Spec

\* A consistent run is left as it is by another normalization.
LEMMA NormalizedAgain ==
    ASSUME NEW l \in StageLists, NEW R \in RunOf(l), Consistent(R)
    PROVE  Normalized(R) = R
<1> DEFINE n == Len(l)
           failed  == First(R.stages, {"failed"})
           going   == First(R.stages, {"in_progress"})
           pending == First(R.stages, {"pending"})
           k       == IF going # 0 THEN going ELSE pending
<1>1. n \in Nat \ {0}
  BY ListFacts
<1>2. /\ R.stages \in [1..n -> StageStatus] /\ DOMAIN R.stages = 1..n
      /\ R.at \in 1..n /\ R.status \in RunStatus
  BY DEF RunOf
<1>3. Len(R.stages) = n
  BY <1>1, <1>2, LengthOfStages
<1>4. /\ failed \in 0..n
      /\ failed = 0 <=> \A j \in 1..n : R.stages[j] \notin {"failed"}
      /\ failed # 0 => R.stages[failed] \in {"failed"}
  BY <1>1, <1>2, FirstHit
<1>5. /\ going \in 0..n
      /\ going = 0 <=> \A j \in 1..n : R.stages[j] \notin {"in_progress"}
      /\ going # 0 => R.stages[going] \in {"in_progress"}
  BY <1>1, <1>2, FirstHit
<1>6. /\ pending \in 0..n
      /\ pending = 0 <=> \A j \in 1..n : R.stages[j] \notin {"pending"}
  BY <1>1, <1>2, FirstHit
<1>7. CASE R.status = "active"
  <2>1. \A j \in 1..n : /\ R.stages[j] # "failed"
                        /\ R.stages[j] = "in_progress" <=> j = R.at
    BY <1>2, <1>7 DEF Consistent
  <2>2. failed = 0 /\ going = R.at /\ k = R.at /\ k # 0
    BY <1>1, <1>2, <1>4, <1>5, <2>1
  <2>3. Normalized(R) =
           [R EXCEPT !.status = "active", !.at = k,
                     !.stages = Demoted([R.stages EXCEPT
                                           ![k] = "in_progress"], k)]
    BY <2>2 DEF Normalized
  <2>4. [R.stages EXCEPT ![k] = "in_progress"] = R.stages
    BY <1>2, <2>1, <2>2
  <2>5. Demoted(R.stages, k) = R.stages
    BY <1>2, <2>1, <2>2 DEF Demoted
  <2>6. Normalized(R) = [R EXCEPT !.status = "active", !.at = R.at,
                                  !.stages = R.stages]
    BY <2>2, <2>3, <2>4, <2>5
  <2>7. QED
    BY <1>7, <2>6 DEF RunOf
<1>8. CASE R.status = "failed"
  <2>1. R.at = failed /\ \A j \in 1..n : R.stages[j] # "in_progress"
    BY <1>2, <1>8 DEF Consistent
  <2>2. failed # 0
    BY <1>1, <1>2, <2>1
  <2>3. Normalized(R) = [R EXCEPT !.status = "failed", !.at = failed,
                                  !.stages = Demoted(R.stages, failed)]
    BY <2>2 DEF Normalized
  <2>4. Demoted(R.stages, failed) = R.stages
    BY <1>2, <2>1 DEF Demoted
  <2>5. Normalized(R) = [R EXCEPT !.status = "failed", !.at = R.at,
                                  !.stages = R.stages]
    BY <2>1, <2>3, <2>4
  <2>6. QED
    BY <1>8, <2>5 DEF RunOf
<1>9. CASE R.status = "completed"
  <2>1. /\ R.at = Len(R.stages)
        /\ \A j \in 1..n : R.stages[j] \in {"done", "skipped"}
    BY <1>2, <1>9 DEF Consistent
  <2>2. failed = 0 /\ k = 0
    BY <1>4, <1>5, <1>6, <2>1
  <2>3. Normalized(R) =
           [R EXCEPT !.status = "completed", !.at = Len(R.stages)]
    BY <2>2 DEF Normalized
  <2>4. Normalized(R) = [R EXCEPT !.status = "completed", !.at = R.at]
    BY <2>1, <2>3
  <2>5. QED
    BY <1>9, <2>4 DEF RunOf
<1>10. QED
  BY <1>2, <1>7, <1>8, <1>9 DEF RunStatus

\* Every variable has its type, and no more runs are kept than
\* WORKFLOW_MAX_RUNS, whatever starts them.
THEOREM TypeCorrect == Spec => []TypeOK
<1>1. WorkflowInv => TypeOK
  <2> SUFFICES ASSUME WorkflowInv PROVE TypeOK
    OBVIOUS
  <2>1. \A t \in DOMAIN templates : templates[t] \in TemplateRec(now)
    BY DEF WorkflowInv, TemplatesTyped
  <2>2. ASSUME NEW r \in Kept(runs)
        PROVE  runs[r].at \in DOMAIN runs[r].stages
    <3>1. PICK l \in StageLists : runs[r] \in RunOf(l)
      BY KeptRun DEF WorkflowInv
    <3>2. QED
      BY <3>1 DEF RunOf
  <2>3. QED
    BY <2>1, <2>2
    DEF WorkflowInv, TemplatesTyped, TemplateRec, RunsTyped, WithinLimit,
        TypeOK
<1>2. QED
  BY <1>1, Invariance, PTL

\* The status and the current stage of a run follow from its stages, however
\* updateStage set them and whoever ended the run.
THEOREM StagesAgree == Spec => []StagesAgreeWithStatus
<1>1. WorkflowInv => StagesAgreeWithStatus
  <2> SUFFICES ASSUME WorkflowInv PROVE StagesAgreeWithStatus
    OBVIOUS
  <2> DEFINE In(R, S) == {k \in DOMAIN R.stages : R.stages[k] \in S}
  <2>1. ASSUME NEW r \in Kept(runs)
        PROVE  LET R == runs[r]
               IN  CASE R.status = "active" ->
                          /\ In(R, {"in_progress"}) = {R.at}
                          /\ In(R, {"failed"}) = {}
                     [] R.status = "failed" ->
                          /\ In(R, {"in_progress"}) = {}
                          /\ R.stages[R.at] = "failed"
                     [] R.status = "completed" ->
                          In(R, {"done", "skipped"}) = DOMAIN R.stages
    <3>1. PICK l \in StageLists : runs[r] \in RunOf(l)
      BY KeptRun DEF WorkflowInv
    <3>2. PICK R \in RunOf(l) : R = runs[r]
      BY <3>1
    <3>3. Consistent(R)
      BY <3>2 DEF WorkflowInv, RunsConsistent
    <3>4. /\ DOMAIN R.stages = 1..Len(l) /\ R.at \in 1..Len(l)
          /\ R.status \in RunStatus
      BY DEF RunOf
    <3>5. CASE R.status = "active"
      <4>1. In(R, {"in_progress"}) = {R.at} /\ In(R, {"failed"}) = {}
        BY <3>3, <3>4, <3>5 DEF Consistent
      <4>2. QED
        BY <3>2, <3>5, <4>1
    <3>6. CASE R.status = "failed"
      <4>1. In(R, {"in_progress"}) = {} /\ R.at = First(R.stages, {"failed"})
        BY <3>3, <3>6 DEF Consistent
      <4>2. First(R.stages, {"failed"}) # 0 =>
               R.stages[First(R.stages, {"failed"})] \in {"failed"}
        BY <3>4, ListFacts, FirstHit
      <4>3. R.at # 0
        BY <3>4, ListFacts
      <4>4. R.stages[R.at] = "failed"
        BY <4>1, <4>2, <4>3
      <4>5. QED
        BY <3>2, <3>6, <4>1, <4>4
    <3>7. CASE R.status = "completed"
      <4>1. In(R, {"done", "skipped"}) = DOMAIN R.stages
        BY <3>3, <3>7 DEF Consistent
      <4>2. QED
        BY <3>2, <3>7, <4>1
    <3>8. QED
      BY <3>4, <3>5, <3>6, <3>7 DEF RunStatus
  <2>2. QED
    BY <2>1 DEF StagesAgreeWithStatus
<1>2. QED
  BY <1>1, Invariance, PTL

\* reconcileRun finds nothing to do in any run, at any time: whatever set the
\* stages of a run has left it as normalizing it again would.
THEOREM ReconcileFindsNothing ==
    Spec => [](\A r \in Kept(runs) : Normalized(runs[r]) = runs[r])
<1>1. WorkflowInv => \A r \in Kept(runs) : Normalized(runs[r]) = runs[r]
  <2> SUFFICES ASSUME WorkflowInv, NEW r \in Kept(runs)
               PROVE  Normalized(runs[r]) = runs[r]
    OBVIOUS
  <2>1. PICK l \in StageLists : runs[r] \in RunOf(l)
    BY KeptRun DEF WorkflowInv
  <2>2. Consistent(runs[r])
    BY DEF WorkflowInv, RunsConsistent
  <2>3. QED
    BY <2>1, <2>2, NormalizedAgain
<1>2. QED
  BY <1>1, Invariance, PTL

\* A recovery, whenever it comes and whatever is old, leaves at most one
\* active run of a template for one incident: of two, the older one is
\* superseded, and a superseded run is ended.
THEOREM NoTwins == Spec => []RecoveryLeavesNoTwins
<1>1. WorkflowInv => RecoveryLeavesNoTwins
  <2> SUFFICES ASSUME WorkflowInv,
                      NEW old \in SUBSET Active(runs),
                      NEW r \in Active(Recovered(old)),
                      NEW s \in Active(Recovered(old)),
                      Recovered(old)[r].incident = Recovered(old)[s].incident,
                      Recovered(old)[r].incident # NoIncident,
                      Recovered(old)[r].template = Recovered(old)[s].template
               PROVE  r = s
    BY DEF RecoveryLeavesNoTwins
  <2>1. RunsGood
    BY DEF WorkflowInv, RunsGood
  <2>2. ASSUME NEW q \in Active(Recovered(old))
        PROVE  /\ q \in RunId /\ Recovered(old)[q] = runs[q]
               /\ q \in Active(runs) /\ ~Superseded(q)
    <3>1. q \in RunId /\ Recovered(old)[q].status = "active"
      BY DEF Active
    <3>2. Recovered(old)[q] = runs[q]
      BY <2>1, <3>1, RecoveredFits
    <3>3. q \in Active(runs)
      BY <3>1, <3>2 DEF Active
    <3>4. ~Superseded(q)
      <4>1. PICK l \in StageLists : runs[q] \in RunOf(l)
        BY <2>1, <3>3, KeptRun DEF RunsGood, Active, Kept
      <4>2. Consistent(runs[q]) /\ runs[q].status = "active"
        BY <2>1, <3>3 DEF RunsGood, RunsConsistent, Active, Kept
      <4>3. Terminated(runs[q], "failed").status = "failed"
        BY <4>1, <4>2, TerminatedRun
      <4>4. QED
        BY <3>1, <3>3, <4>3, RecoveredRun
    <3>5. QED
      BY <3>1, <3>2, <3>3, <3>4
  <2>3. /\ ~Superseded(r) /\ ~Superseded(s)
        /\ r \in Active(runs) /\ s \in Active(runs)
        /\ runs[r].incident = runs[s].incident
        /\ runs[r].incident # NoIncident
        /\ runs[r].template = runs[s].template
    BY <2>2
  <2>4. ~(s > r) /\ ~(r > s)
    BY <2>3 DEF Superseded
  <2>5. r \in Int /\ s \in Int
    BY <2>2 DEF RunId
  <2>6. QED
    BY <2>4, <2>5
<1>2. QED
  BY <1>1, Invariance, PTL

=============================================================================
