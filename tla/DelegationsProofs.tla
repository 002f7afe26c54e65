--------------------------- MODULE DelegationsProofs -------------------------
(***************************************************************************)
(* For every tree of tasks, every number of delegations and tokens, and    *)
(* every size of the ledger: approval tokens buy one step; a task parts    *)
(* from its subtasks and delegations only for a reason that has a name;    *)
(* and the database lacks only what no handler stored.                     *)
(*                                                                         *)
(* The roll-up is a recursive function along the line of ancestors.  That  *)
(* the function exists, and what its steps do, is shown by Induct.         *)
(***************************************************************************)
EXTENDS Delegations, SequenceTheorems, FiniteSetTheorems, WellFoundedInduction,
        TLAPS

-----------------------------------------------------------------------------
(* The ledger.                                                             *)

\* Full or not, no list of the ledger is longer than it may be.
Bounded(L) == Len(L.used) <= MaxRecords /\ Len(L.revoked) <= MaxRecords

\* What is kept of a list is a list, of at most MaxRecords records.
LEMMA NewestType ==
    ASSUME NEW q \in Seq(Token)
    PROVE  Tokens!Newest(q) \in Seq(Token) /\ Len(Tokens!Newest(q)) <= MaxRecords
<1>1. CASE Len(q) <= MaxRecords
  BY <1>1 DEF Tokens!Newest
<1>2. CASE ~(Len(q) <= MaxRecords)
  <2>1. /\ Len(q) \in Nat /\ MaxRecords \in Nat \ {0}
        /\ Len(q) - MaxRecords + 1 \in 1..(Len(q) + 1)
    BY <1>2, LedgerKeepsSome
  <2>2. /\ SubSeq(q, Len(q) - MaxRecords + 1, Len(q)) \in Seq(Token)
        /\ Len(SubSeq(q, Len(q) - MaxRecords + 1, Len(q))) = MaxRecords
    BY <2>1, <1>2, SubSeqProperties
  <2>3. QED
    BY <2>1, <2>2, <1>2 DEF Tokens!Newest
<1>3. QED
  BY <1>1, <1>2

\* The newest record is kept.
LEMMA NewestKeepsTheLast ==
    ASSUME NEW q \in Seq(Token), NEW t \in Token
    PROVE  t \in ToSet(Tokens!Newest(Append(q, t)))
<1> DEFINE r == Append(q, t)
<1>1. r \in Seq(Token) /\ Len(r) = Len(q) + 1 /\ r[Len(r)] = t /\ Len(q) \in Nat
  OBVIOUS
<1>2. CASE Len(r) <= MaxRecords
  <2>1. Tokens!Newest(r) = r /\ Len(r) \in DOMAIN r
    BY <1>1, <1>2 DEF Tokens!Newest
  <2>2. QED
    BY <1>1, <2>1 DEF ToSet
<1>3. CASE ~(Len(r) <= MaxRecords)
  <2> DEFINE s == SubSeq(r, Len(r) - MaxRecords + 1, Len(r))
  <2>1. /\ Len(r) \in Nat /\ MaxRecords \in Nat \ {0}
        /\ Len(r) - MaxRecords + 1 \in 1..(Len(r) + 1)
    BY <1>1, <1>3, LedgerKeepsSome
  <2>2. s \in Seq(Token) /\ Len(s) = MaxRecords
    BY <1>1, <2>1, <1>3, SubSeqProperties
  <2>3. s[MaxRecords] = r[Len(r) - MaxRecords + 1 + MaxRecords - 1]
    BY <1>1, <2>1, <1>3, SubSeqProperties
  <2>4. s[MaxRecords] = t /\ MaxRecords \in DOMAIN s
    BY <1>1, <2>1, <2>2, <2>3
  <2>5. Tokens!Newest(r) = s
    BY <1>3, <2>1 DEF Tokens!Newest
  <2>6. QED
    BY <2>4, <2>5 DEF ToSet
<1>4. QED
  BY <1>2, <1>3

\* A list that is not full loses nothing.
LEMMA NewestOfShort ==
    ASSUME NEW q, Len(q) <= MaxRecords
    PROVE  Tokens!Newest(q) = q
BY DEF Tokens!Newest

\* A token that is appended, or was in the list, is in what is kept of the
\* list, or the ledger dropped its record.
LEMMA NothingVanishes ==
    ASSUME NEW q \in Seq(Token), NEW t \in Token, NEW u \in Token,
           u \in ToSet(q) \/ u = t
    PROVE  LET after == Tokens!Newest(Append(q, t))
           IN  u \in ToSet(after) \/ u \in ToSet(q) \ ToSet(after)
BY NewestKeepsTheLast

\* Using a token changes the list of the used ones only.
LEMMA ConsumedLedger ==
    ASSUME NEW L \in Tokens!Ledger, Bounded(L), NEW t \in Token
    PROVE  /\ Tokens!Consumed(L, t) \in Tokens!Ledger
           /\ Bounded(Tokens!Consumed(L, t))
           /\ Tokens!Consumed(L, t).used = Tokens!Newest(Append(L.used, t))
           /\ Tokens!Consumed(L, t).revoked = L.revoked
<1>1. /\ L.used \in Seq(Token) /\ L.revoked \in Seq(Token)
      /\ Append(L.used, t) \in Seq(Token)
  BY DEF Tokens!Ledger
<1>2. /\ [L EXCEPT !.used = Append(@, t)].used = Append(L.used, t)
      /\ [L EXCEPT !.used = Append(@, t)].revoked = L.revoked
  BY DEF Tokens!Ledger
<1>3. Tokens!Newest(L.revoked) = L.revoked
  BY NewestOfShort DEF Bounded
<1>4. Tokens!Consumed(L, t) = [used    |-> Tokens!Newest(Append(L.used, t)),
                               revoked |-> L.revoked]
  BY <1>2, <1>3 DEF Tokens!Consumed, Tokens!Trimmed
<1>5. /\ Tokens!Newest(Append(L.used, t)) \in Seq(Token)
      /\ Len(Tokens!Newest(Append(L.used, t))) <= MaxRecords
  BY <1>1, NewestType
<1>6. QED
  BY <1>1, <1>4, <1>5 DEF Tokens!Ledger, Bounded

\* Revoking a token that is not revoked changes the list of the revoked
\* ones only.
LEMMA RevokedLedger ==
    ASSUME NEW L \in Tokens!Ledger, Bounded(L), NEW t \in Token,
           ~Tokens!IsRevoked(L, t)
    PROVE  /\ Tokens!Revoked(L, t) \in Tokens!Ledger
           /\ Bounded(Tokens!Revoked(L, t))
           /\ Tokens!Revoked(L, t).used = L.used
           /\ Tokens!Revoked(L, t).revoked = Tokens!Newest(Append(L.revoked, t))
<1>1. /\ L.used \in Seq(Token) /\ L.revoked \in Seq(Token)
      /\ Append(L.revoked, t) \in Seq(Token)
  BY DEF Tokens!Ledger
<1>2. /\ [L EXCEPT !.revoked = Append(@, t)].revoked = Append(L.revoked, t)
      /\ [L EXCEPT !.revoked = Append(@, t)].used = L.used
  BY DEF Tokens!Ledger
<1>3. Tokens!Newest(L.used) = L.used
  BY NewestOfShort DEF Bounded
<1>4. Tokens!Revoked(L, t) = [used    |-> L.used,
                              revoked |-> Tokens!Newest(Append(L.revoked, t))]
  BY <1>2, <1>3 DEF Tokens!Revoked, Tokens!Trimmed
<1>5. /\ Tokens!Newest(Append(L.revoked, t)) \in Seq(Token)
      /\ Len(Tokens!Newest(Append(L.revoked, t))) <= MaxRecords
  BY <1>1, NewestType
<1>6. QED
  BY <1>1, <1>4, <1>5 DEF Tokens!Ledger, Bounded

-----------------------------------------------------------------------------
(* The inductive invariant: the ledger knows every token that was consumed *)
(* or revoked, or has dropped a record of it.                              *)

TokenInv ==
    /\ ledger \in Tokens!Ledger
    /\ Bounded(ledger)
    /\ spent \in [Token -> Nat]
    /\ withdrawn \subseteq Token
    /\ \A t \in Token : spent[t] # 0 => t \in ToSet(ledger.used) \union forgot
    /\ \A t \in withdrawn : t \in ToSet(ledger.revoked) \union forgot

LEMMA InitTokens == Init => TokenInv
<1> SUFFICES ASSUME Init PROVE TokenInv
  OBVIOUS
<1>1. ledger = [used |-> <<>>, revoked |-> <<>>]
  BY DEF Init, Tokens!NoRecords
<1>2. ledger \in Tokens!Ledger /\ Bounded(ledger)
  BY <1>1, LedgerKeepsSome DEF Tokens!Ledger, Bounded
<1>3. QED
  BY <1>2 DEF Init, TokenInv

LEMMA QuietTokens == TokenInv /\ LedgerUnchanged => TokenInv'
BY DEF TokenInv, LedgerUnchanged

LEMMA SpendingTokens ==
    ASSUME TokenInv, NEW t \in Token, Spends(t) PROVE TokenInv'
<1>1. /\ ledger' = Tokens!Consumed(ledger, t)
      /\ spent' = [spent EXCEPT ![t] = @ + 1]
      /\ forgot' = forgot \union (ToSet(ledger.used) \ ToSet(ledger'.used))
      /\ withdrawn' = withdrawn
  BY DEF Spends
<1>2. /\ ledger' \in Tokens!Ledger /\ Bounded(ledger')
      /\ ledger'.used = Tokens!Newest(Append(ledger.used, t))
      /\ ledger'.revoked = ledger.revoked
  BY <1>1, ConsumedLedger DEF TokenInv
<1>3. ledger.used \in Seq(Token)
  BY DEF TokenInv, Tokens!Ledger
<1>4. ASSUME NEW u \in Token, spent'[u] # 0
      PROVE  u \in ToSet(ledger'.used) \union forgot'
  <2>1. u = t \/ u \in ToSet(ledger.used) \union forgot
    BY <1>1, <1>4 DEF TokenInv
  <2>2. CASE u \in forgot
    BY <2>2, <1>1
  <2>3. CASE u \in ToSet(ledger.used) \/ u = t
    BY <2>3, <1>1, <1>2, <1>3, NewestKeepsTheLast
  <2>4. QED
    BY <2>1, <2>2, <2>3
<1>5. spent' \in [Token -> Nat]
  BY <1>1 DEF TokenInv
<1>6. \A u \in withdrawn' : u \in ToSet(ledger'.revoked) \union forgot'
  BY <1>1, <1>2 DEF TokenInv
<1>7. Bounded(ledger)'
  BY <1>2 DEF Bounded
<1>8. withdrawn' \subseteq Token
  BY <1>1 DEF TokenInv
<1>9. QED
  BY <1>2, <1>4, <1>5, <1>6, <1>7, <1>8 DEF TokenInv, Tokens!Ledger

LEMMA RevokingTokens ==
    ASSUME TokenInv, NEW t \in Token, Revoke(t) PROVE TokenInv'
<1>1. /\ ~Tokens!IsRevoked(ledger, t)
      /\ ledger' = Tokens!Revoked(ledger, t)
      /\ withdrawn' = withdrawn \union {t}
      /\ forgot' = forgot \union (ToSet(ledger.revoked) \ ToSet(ledger'.revoked))
      /\ spent' = spent
  BY DEF Revoke
<1>2. /\ ledger' \in Tokens!Ledger /\ Bounded(ledger')
      /\ ledger'.used = ledger.used
      /\ ledger'.revoked = Tokens!Newest(Append(ledger.revoked, t))
  BY <1>1, RevokedLedger DEF TokenInv
<1>3. ledger.revoked \in Seq(Token)
  BY DEF TokenInv, Tokens!Ledger
<1>4. ASSUME NEW u \in withdrawn'
      PROVE  u \in ToSet(ledger'.revoked) \union forgot'
  <2>1. u = t \/ u \in ToSet(ledger.revoked) \union forgot
    BY <1>1, <1>4 DEF TokenInv
  <2>2. CASE u \in forgot
    BY <2>2, <1>1
  <2>3. CASE u \in ToSet(ledger.revoked) \/ u = t
    BY <2>3, <1>1, <1>2, <1>3, NewestKeepsTheLast
  <2>4. QED
    BY <2>1, <2>2, <2>3
<1>5. \A u \in Token : spent'[u] # 0 => u \in ToSet(ledger'.used) \union forgot'
  BY <1>1, <1>2 DEF TokenInv
<1>6. Bounded(ledger)'
  BY <1>2 DEF Bounded
<1>7. spent' \in [Token -> Nat] /\ withdrawn' \subseteq Token
  BY <1>1 DEF TokenInv
<1>8. QED
  BY <1>2, <1>4, <1>5, <1>6, <1>7 DEF TokenInv, Tokens!Ledger

\* Every step leaves the ledger alone, spends a token or revokes one.
LEMMA LedgerSteps ==
    ASSUME [Next]_vars
    PROVE  \/ LedgerUnchanged
           \/ \E t \in Token : Spends(t) \/ Revoke(t)
<1>1. CASE UNCHANGED vars
  BY <1>1 DEF vars, LedgerUnchanged
<1>2. ASSUME NEW t \in Task, NEW s \in Status, CreateSubtask(t, s) \/ SetStatus(t, s)
      PROVE  LedgerUnchanged
  BY <1>2 DEF CreateSubtask, SetStatus
<1>3. ASSUME NEW t \in Task, Assign(t) PROVE LedgerUnchanged
  BY <1>3 DEF Assign
<1>4. ASSUME NEW d \in Delegation, Propose(d) \/ Overdue(d) \/ Idles(d)
      PROVE  LedgerUnchanged
  BY <1>4 DEF Propose, Overdue, Idles
<1>5. ASSUME NEW d \in Delegation, NEW next \in State, Transition(d, next)
      PROVE  LedgerUnchanged
  BY <1>5 DEF Transition
<1>6. ASSUME NEW d \in Delegation, NEW next \in State, NEW t \in Token,
             TransitionWith(d, next, t)
      PROVE  Spends(t)
  BY <1>6 DEF TransitionWith
<1>7. ASSUME NEW t \in Token, SpendElsewhere(t) PROVE Spends(t)
  BY <1>7 DEF SpendElsewhere
<1>8. ASSUME NEW p \in Policies, SetPolicy(p) PROVE LedgerUnchanged
  BY <1>8 DEF SetPolicy
<1>9. CASE Sweep
  BY <1>9 DEF Sweep
<1>10. CASE Restart
  BY <1>10 DEF Restart
<1>11. QED
  BY <1>1, <1>2, <1>3, <1>4, <1>5, <1>6, <1>7, <1>8, <1>9, <1>10 DEF Next

LEMMA NextTokens == TokenInv /\ [Next]_vars => TokenInv'
BY LedgerSteps, QuietTokens, SpendingTokens, RevokingTokens

-----------------------------------------------------------------------------
(* The delegations.                                                        *)

Known     == [state : State \union {"none"}, overdue : BOOLEAN, noted : BOOLEAN,
              idle : BOOLEAN, nudged : BOOLEAN]
DelegType == deleg \in [Delegation -> Known]

LEMMA MovedType ==
    ASSUME NEW D \in Known, NEW next \in State
    PROVE  Moved(D, next) \in Known /\ Moved(D, next).state = next
BY DEF Moved, NoDelegation, Known

LEMMA SweptType ==
    ASSUME DelegType, NEW d \in Delegation
    PROVE  Swept(d) \in Known
<1>1. Moved(deleg[d], "rejected") \in Known
  BY MovedType DEF DelegType, State
<1>2. /\ [deleg[d] EXCEPT !.noted = TRUE, !.idle = FALSE] \in Known
      /\ [deleg[d] EXCEPT !.nudged = TRUE, !.idle = FALSE] \in Known
  BY DEF DelegType, Known
<1>3. QED
  BY <1>1, <1>2 DEF Swept, DelegType

LEMMA InitDelegType == Init => DelegType
<1> SUFFICES ASSUME Init PROVE DelegType
  OBVIOUS
<1>1. PICK b \in Beginnings :
        deleg = [d \in Delegation |-> [NoDelegation EXCEPT !.state = b.states[d]]]
  BY DEF Init
<1>2. b.states \in [Delegation -> State \union {"none"}]
  BY ConfigType
<1>3. QED
  BY <1>1, <1>2 DEF DelegType, Known, NoDelegation

\* Every step leaves the delegations alone, or is one of theirs.
LEMMA DelegationSteps ==
    ASSUME [Next]_vars
    PROVE  \/ UNCHANGED deleg
           \/ \E d \in Delegation : Propose(d) \/ Overdue(d) \/ Idles(d)
           \/ \E d \in Delegation, next \in State : Transition(d, next)
           \/ \E d \in Delegation, next \in State, t \in Token :
                 TransitionWith(d, next, t)
           \/ Sweep
<1>1. CASE UNCHANGED vars
  BY <1>1 DEF vars
<1>2. ASSUME NEW t \in Task, NEW s \in Status, CreateSubtask(t, s) \/ SetStatus(t, s)
      PROVE  UNCHANGED deleg
  BY <1>2 DEF CreateSubtask, SetStatus
<1>3. ASSUME NEW t \in Task, Assign(t) PROVE UNCHANGED deleg
  BY <1>3 DEF Assign
<1>4. ASSUME NEW t \in Token, SpendElsewhere(t) \/ Revoke(t) PROVE UNCHANGED deleg
  BY <1>4 DEF SpendElsewhere, Revoke
<1>5. ASSUME NEW p \in Policies, SetPolicy(p) PROVE UNCHANGED deleg
  BY <1>5 DEF SetPolicy
<1>6. CASE Restart
  BY <1>6 DEF Restart
<1>7. QED
  BY <1>1, <1>2, <1>3, <1>4, <1>5, <1>6 DEF Next

LEMMA NextDelegType == DelegType /\ [Next]_vars => DelegType'
<1> SUFFICES ASSUME DelegType, [Next]_vars PROVE DelegType'
  OBVIOUS
<1>1. ASSUME UNCHANGED deleg PROVE DelegType'
  BY <1>1 DEF DelegType
<1>2. ASSUME NEW d \in Delegation, Propose(d) PROVE DelegType'
  <2>1. Proposed \in Known
    BY DEF Proposed, NoDelegation, Known, State
  <2>2. QED
    BY <1>2, <2>1 DEF Propose, Touched, DelegType
<1>3. ASSUME NEW d \in Delegation, Overdue(d) \/ Idles(d) PROVE DelegType'
  <2>1. /\ [deleg[d] EXCEPT !.overdue = TRUE] \in Known
        /\ [deleg[d] EXCEPT !.idle = TRUE] \in Known
    BY DEF DelegType, Known
  <2>2. \/ deleg' = [deleg EXCEPT ![d] = [deleg[d] EXCEPT !.overdue = TRUE]]
        \/ deleg' = [deleg EXCEPT ![d] = [deleg[d] EXCEPT !.idle = TRUE]]
    BY <1>3 DEF Overdue, Idles
  <2>3. QED
    BY <2>1, <2>2 DEF DelegType
<1>4. ASSUME NEW d \in Delegation, NEW next \in State, Moves(d, next)
      PROVE  DelegType'
  <2>1. deleg' = [deleg EXCEPT ![d] = Moved(deleg[d], next)]
    BY <1>4 DEF Moves, Touched
  <2>2. Moved(deleg[d], next) \in Known
    BY MovedType DEF DelegType
  <2>3. QED
    BY <2>1, <2>2 DEF DelegType
<1>5. ASSUME NEW d \in Delegation, NEW next \in State, NEW t \in Token,
             TransitionWith(d, next, t)
      PROVE  Moves(d, next) \/ UNCHANGED deleg
  BY <1>5 DEF TransitionWith
<1>6. ASSUME NEW d \in Delegation, NEW next \in State, Transition(d, next)
      PROVE  Moves(d, next)
  BY <1>6 DEF Transition
<1>7. CASE Sweep
  <2>1. PICK todo \in SUBSET Delegation :
          deleg' = [d \in Delegation |-> IF d \in todo THEN Swept(d) ELSE deleg[d]]
    <3>1. /\ {d \in Window : Due(d)} \intersect Delegation \in SUBSET Delegation
          /\ deleg' = [d \in Delegation |->
                         IF d \in {e \in Window : Due(e)} \intersect Delegation
                         THEN Swept(d) ELSE deleg[d]]
      BY <1>7 DEF Sweep, Touched
    <3>2. QED
      BY <3>1
  <2>2. QED
    BY <2>1, SweptType DEF DelegType
<1>8. QED
  BY <1>1, <1>2, <1>3, <1>4, <1>5, <1>6, <1>7, DelegationSteps

-----------------------------------------------------------------------------
(* The tree of the tasks.                                                  *)

\* A set of numbers that a number less than n never leads out of.
LEMMA Induct ==
    ASSUME NEW n \in Nat, NEW S, 0 \in S,
           \A i \in 0..(n - 1) : i \in S => i + 1 \in S
    PROVE  \A i \in 0..n : i \in S
<1> DEFINE T == {i \in 0..n : i \notin S}
<1> SUFFICES ASSUME T # {} PROVE FALSE
  OBVIOUS
<1>1. T \in SUBSET Nat
  OBVIOUS
<1>2. PICK x \in T : \A y \in T : ~(<<y, x>> \in OpToRel(<, Nat))
  <2> HIDE DEF T
  <2> QED
    BY <1>1, WFMin, NatLessThanWellFounded, Zenon
<1>3. x # 0 /\ x - 1 \in 0..(n - 1)
  OBVIOUS
<1>4. x - 1 \notin T
  <2>1. <<x - 1, x>> \in Nat \X Nat /\ x - 1 < x
    BY <1>3
  <2>2. QED
    BY <1>2, <2>1 DEF OpToRel
<1>5. x - 1 \in S /\ (x - 1) + 1 = x
  BY <1>3, <1>4
<1>6. QED
  BY <1>3, <1>5

\* The distance of a task from the root, which the tree has.
IsDepth(depth) ==
    /\ depth \in [Task -> 0..Cardinality(Task)]
    /\ \A t \in Task \ {Root} : depth[Parent[t]] < depth[t]

LEMMA DepthExists ==
    /\ Cardinality(Task) \in Nat
    /\ \E depth : IsDepth(depth)
BY ParentsLeadToTheRoot, FS_CardinalityType DEF IsDepth

LEMMA NoTaskIsItsParent ==
    ASSUME NEW t \in Task \ {Root} PROVE Parent[t] \in Task /\ Parent[t] # t
<1>1. PICK depth : IsDepth(depth)
  BY DepthExists
<1>2. depth[Parent[t]] < depth[t] /\ depth[t] \in 0..Cardinality(Task)
  BY <1>1 DEF IsDepth
<1>3. QED
  BY <1>2, DepthExists, ConfigType

\* The ancestors of a task are its parent and the ancestors of that.
LEMMA AncestorsOf ==
    ASSUME NEW t \in Task
    PROVE  Ancestors[t] = IF t = Root THEN <<>>
                          ELSE <<Parent[t]>> \o Ancestors[Parent[t]]
<1> DEFINE Body(f, u) == IF u = Root THEN <<>> ELSE <<Parent[u]>> \o f[Parent[u]]
<1>1. PICK depth : IsDepth(depth)
  BY DepthExists
<1> DEFINE Near(k) == {u \in Task : depth[u] <= k}
           S == {k \in Nat : \E f : f = [u \in Near(k) |-> Body(f, u)]}
<1>2. \A u \in Task : depth[u] \in 0..Cardinality(Task)
  BY <1>1 DEF IsDepth
<1>3. \A u \in Task \ {Root} : Parent[u] \in Task /\ depth[Parent[u]] < depth[u]
  BY <1>1, ConfigType DEF IsDepth
<1>4. 0 \in S
  <2> DEFINE f == [u \in Near(0) |-> <<>>]
  <2>1. \A u \in Near(0) : u = Root
    BY <1>2, <1>3, DepthExists
  <2>2. f = [u \in Near(0) |-> Body(f, u)]
    BY <2>1
  <2>3. QED
    BY <2>2
<1>5. ASSUME NEW k \in 0..(Cardinality(Task) - 1), k \in S
      PROVE  k + 1 \in S
  <2>1. PICK f : f = [u \in Near(k) |-> Body(f, u)]
    BY <1>5
  <2> DEFINE g == [u \in Near(k + 1) |-> Body(f, u)]
  <2>2. ASSUME NEW u \in Near(k + 1) PROVE Body(f, u) = Body(g, u)
    <3>1. CASE u = Root
      BY <3>1
    <3>2. CASE u # Root
      <4>1. Parent[u] \in Near(k) /\ Parent[u] \in Near(k + 1)
        BY <3>2, <1>2, <1>3, DepthExists
      <4>2. f[Parent[u]] = Body(f, Parent[u])
        BY <2>1, <4>1
      <4>3. g[Parent[u]] = Body(f, Parent[u])
        BY <4>1
      <4>4. QED
        BY <3>2, <4>2, <4>3
    <3>3. QED
      BY <3>1, <3>2
  <2>3. g = [u \in Near(k + 1) |-> Body(g, u)]
    BY <2>2
  <2>4. k + 1 \in Nat
    BY DepthExists
  <2>5. \E h : h = [u \in Near(k + 1) |-> Body(h, u)]
    BY <2>3
  <2>6. QED
    BY <2>4, <2>5
<1>6. Cardinality(Task) \in S
  <2> HIDE DEF S
  <2>1. Cardinality(Task) \in 0..Cardinality(Task)
    BY DepthExists
  <2>2. QED
    BY <1>4, <1>5, <2>1, Induct, DepthExists
<1>7. Near(Cardinality(Task)) = Task
  BY <1>2, DepthExists
<1>8. \E f : f = [u \in Task |-> Body(f, u)]
  BY <1>6, <1>7
<1>9. Ancestors = [u \in Task |-> Body(Ancestors, u)]
  BY <1>8 DEF Ancestors
<1>10. QED
  BY <1>9

\* A task and its ancestors are a line of tasks that ends at the root.
IsLine(q, t) ==
    /\ q \in Seq(Task) /\ Len(q) > 0
    /\ q[1] = t /\ q[Len(q)] = Root
    /\ \A i \in 1..(Len(q) - 1) : q[i] # Root /\ q[i + 1] = Parent[q[i]]

LEMMA LineageIsLine ==
    ASSUME NEW t \in Task PROVE IsLine(Lineage(t), t)
<1>1. PICK depth : IsDepth(depth)
  BY DepthExists
<1> DEFINE S == {k \in Nat : \A u \in Task : depth[u] <= k => IsLine(Lineage(u), u)}
<1>2. \A u \in Task : depth[u] \in 0..Cardinality(Task)
  BY <1>1 DEF IsDepth
<1>3. \A u \in Task \ {Root} : Parent[u] \in Task /\ depth[Parent[u]] < depth[u]
  BY <1>1, ConfigType DEF IsDepth
<1>4. IsLine(Lineage(Root), Root)
  <2>1. Root \in Task
    BY ConfigType
  <2>2. Lineage(Root) = <<Root>>
    <3>1. Ancestors[Root] = <<>>
      BY <2>1, AncestorsOf
    <3>2. <<Root>> \o <<>> = <<Root>>
      OBVIOUS
    <3>3. QED
      BY <3>1, <3>2 DEF Lineage
  <2>3. QED
    BY <2>1, <2>2 DEF IsLine
<1>5. ASSUME NEW u \in Task \ {Root}, IsLine(Lineage(Parent[u]), Parent[u])
      PROVE  IsLine(Lineage(u), u)
  <2> DEFINE p == Lineage(Parent[u])
             q == Lineage(u)
  <2>1. Ancestors[u] = p
    BY <1>3, AncestorsOf DEF Lineage
  <2>2. q = <<u>> \o p
    BY <2>1 DEF Lineage
  <2>3. p \in Seq(Task) /\ Len(p) \in Nat
    BY <1>5 DEF IsLine
  <2>4. /\ q \in Seq(Task) /\ Len(q) = Len(p) + 1 /\ q[1] = u
        /\ \A i \in 1..Len(p) : q[i + 1] = p[i]
    BY <2>2, <2>3
  <2>5. ASSUME NEW i \in 1..(Len(q) - 1)
        PROVE  q[i] # Root /\ q[i + 1] = Parent[q[i]]
    <3>1. CASE i = 1
      BY <3>1, <2>3, <2>4, <1>5 DEF IsLine
    <3>2. CASE i # 1
      <4>1. i - 1 \in 1..(Len(p) - 1) /\ (i - 1) + 1 = i /\ i \in 1..Len(p)
        BY <3>2, <2>3, <2>4
      <4>2. q[i] = p[i - 1] /\ q[i + 1] = p[i]
        <5>1. i - 1 \in 1..Len(p)
          BY <4>1, <2>3
        <5>2. QED
          BY <4>1, <5>1, <2>4
      <4>3. p[i - 1] # Root /\ p[i] = Parent[p[i - 1]]
        BY <4>1, <1>5 DEF IsLine
      <4>4. QED
        BY <4>2, <4>3
    <3>3. QED
      BY <3>1, <3>2
  <2>6. q[Len(q)] = Root
    BY <2>3, <2>4, <1>5 DEF IsLine
  <2>7. QED
    BY <2>3, <2>4, <2>5, <2>6 DEF IsLine
<1>6. 0 \in S
  <2>1. \A u \in Task : depth[u] <= 0 => u = Root
    BY <1>2, <1>3, DepthExists
  <2>2. QED
    BY <2>1, <1>4
<1>7. ASSUME NEW k \in 0..(Cardinality(Task) - 1), k \in S PROVE k + 1 \in S
  <2>1. ASSUME NEW u \in Task \ {Root}, depth[u] <= k + 1
        PROVE  IsLine(Lineage(u), u)
    <3>1. Parent[u] \in Task /\ depth[Parent[u]] <= k
      BY <2>1, <1>2, <1>3, DepthExists
    <3>2. QED
      BY <3>1, <1>5, <1>7
  <2>2. \A u \in Task : depth[u] <= k + 1 => IsLine(Lineage(u), u)
    BY <2>1, <1>4
  <2>3. QED
    BY <2>2, DepthExists
<1>8. Cardinality(Task) \in S
  <2> HIDE DEF S
  <2>1. Cardinality(Task) \in 0..Cardinality(Task)
    BY DepthExists
  <2>2. QED
    BY <1>6, <1>7, <2>1, Induct, DepthExists
<1>9. QED
  BY <1>2, <1>8, DepthExists

-----------------------------------------------------------------------------
(* Roll-ups.                                                               *)

Statuses == [Task -> Status \union {"none"}]

\* What a roll-up looks at, and what it makes of it.
Kids(s, t) == {s[c] : c \in Children(s, t)}
Dels(D, t) == {D[d].state : d \in About(D, t)}
Call(kids, dels, own) ==
    CASE kids \intersect Failed # {} \/ "rejected" \in dels -> "blocked"
      [] kids # {} /\ kids \subseteq Good /\ dels \subseteq {"completed"} -> "completed"
      [] kids \intersect Active # {} \/ dels \intersect Open # {} -> "in_progress"
      [] OTHER -> own

\* A task's own status decides only when its parts call for nothing.
LEMMA CallsFor ==
    ASSUME NEW kids, NEW dels, NEW own
    PROVE  \/ Call(kids, dels, own) = own
           \/ /\ Call(kids, dels, own) \in {"blocked", "completed", "in_progress"}
              /\ \A other : Call(kids, dels, other) = Call(kids, dels, own)
<1>1. CASE kids \intersect Failed # {} \/ "rejected" \in dels
  <2>1. kids \intersect Failed # {} => ~(kids \subseteq Good)
    BY DEF Failed, Good
  <2>2. "rejected" \in dels => ~(dels \subseteq {"completed"})
    OBVIOUS
  <2>3. CASE kids \intersect Active # {} \/ dels \intersect Open # {}
    BY <1>1 DEF Call
  <2>4. QED
    BY <1>1 DEF Call
<1>2. CASE ~(kids \intersect Failed # {} \/ "rejected" \in dels)
  <2>1. CASE kids # {} /\ kids \subseteq Good /\ dels \subseteq {"completed"}
    BY <1>2, <2>1 DEF Call
  <2>2. CASE ~(kids # {} /\ kids \subseteq Good /\ dels \subseteq {"completed"})
    <3>1. CASE kids \intersect Active # {} \/ dels \intersect Open # {}
      BY <1>2, <2>2, <3>1 DEF Call
    <3>2. CASE ~(kids \intersect Active # {} \/ dels \intersect Open # {})
      BY <1>2, <2>2, <3>2 DEF Call
    <3>3. QED
      BY <3>1, <3>2
  <2>3. QED
    BY <2>1, <2>2
<1>3. QED
  BY <1>1, <1>2

LEMMA DesiredIsCall ==
    ASSUME NEW s, NEW D, NEW t
    PROVE  Desired(s, D, t) = Call(Kids(s, t), Dels(D, t), s[t])
BY DEF Desired, Call, Kids, Dels

LEMMA DesiredType ==
    ASSUME NEW s \in Statuses, NEW D, NEW t \in Task
    PROVE  /\ Desired(s, D, t) \in Status \union {"none"}
           /\ Desired(s, D, t) # s[t] => Desired(s, D, t) # "none"
<1>1. /\ {"blocked", "completed", "in_progress"} \subseteq Status
      /\ "none" \notin {"blocked", "completed", "in_progress"}
  BY DEF Status, Active, Terminal, Good
<1>2. s[t] \in Status \union {"none"}
  BY DEF Statuses
<1>3. QED
  BY <1>1, <1>2, DesiredIsCall, CallsFor

\* One step of a roll-up and the next.
Rolling == [s : Statuses, on : BOOLEAN]

LEMMA RolledType ==
    ASSUME NEW b \in Rolling, NEW D, NEW t \in Task
    PROVE  /\ Rolled(b, D, t) \in Rolling
           /\ Rolled(b, D, t).on <=> b.on /\ RollsUp(b.s, D, t)
           /\ Rolled(b, D, t).s = IF b.on /\ RollsUp(b.s, D, t)
                                  THEN [b.s EXCEPT ![t] = Desired(b.s, D, t)]
                                  ELSE b.s
<1>1. CASE b.on /\ RollsUp(b.s, D, t)
  <2> DEFINE r == [b.s EXCEPT ![t] = Desired(b.s, D, t)]
  <2>1. b.s \in Statuses
    BY DEF Rolling
  <2>2. Desired(b.s, D, t) \in Status \union {"none"}
    BY <2>1, DesiredType
  <2>3. r \in Statuses
    BY <2>1, <2>2 DEF Statuses
  <2>4. Rolled(b, D, t) = [b EXCEPT !.s = r]
    BY <1>1 DEF Rolled
  <2> HIDE DEF r
  <2>5. [b EXCEPT !.s = r] \in Rolling /\ [b EXCEPT !.s = r].s = r
        /\ [b EXCEPT !.s = r].on = b.on
    BY <2>3 DEF Rolling
  <2>6. QED
    BY <1>1, <2>4, <2>5 DEF r
<1>2. CASE ~(b.on /\ RollsUp(b.s, D, t))
  <2>1. Rolled(b, D, t) = [b EXCEPT !.on = FALSE]
    BY <1>2 DEF Rolled
  <2>2. QED
    BY <1>2, <2>1 DEF Rolling
<1>3. QED
  BY <1>1, <1>2

\* The steps of a roll-up along the tasks of q.
AreSteps(after, s, D, q) ==
    /\ after[0] = [s |-> s, on |-> TRUE]
    /\ \A i \in 1..Len(q) : after[i] = Rolled(after[i - 1], D, q[i])
    /\ \A i \in 0..Len(q) : after[i] \in Rolling
    /\ RolledUp(s, D, q) = after[Len(q)].s

LEMMA RollUpHasSteps ==
    ASSUME NEW s \in Statuses, NEW D, NEW q \in Seq(Task)
    PROVE  \E after : AreSteps(after, s, D, q)
<1> DEFINE n == Len(q)
           Body(f, i) == IF i = 0 THEN [s |-> s, on |-> TRUE]
                         ELSE Rolled(f[i - 1], D, q[i])
           S == {k \in Nat : \E f : f = [i \in 0..k |-> Body(f, i)]}
<1>1. n \in Nat /\ \A i \in 1..n : q[i] \in Task
  OBVIOUS
<1>2. 0 \in S
  <2> DEFINE f == [i \in 0..0 |-> [s |-> s, on |-> TRUE]]
  <2>1. f = [i \in 0..0 |-> Body(f, i)]
    OBVIOUS
  <2>2. QED
    BY <2>1
<1>3. ASSUME NEW k \in 0..(n - 1), k \in S PROVE k + 1 \in S
  <2>1. PICK f : f = [i \in 0..k |-> Body(f, i)]
    BY <1>3
  <2> DEFINE g == [i \in 0..(k + 1) |-> Body(f, i)]
  <2>2. ASSUME NEW i \in 0..k PROVE f[i] = g[i]
    <3>1. i \in 0..(k + 1)
      BY <1>1
    <3>2. f[i] = Body(f, i)
      BY <2>1
    <3>3. g[i] = Body(f, i)
      BY <3>1
    <3>4. QED
      BY <3>2, <3>3
  <2>3. ASSUME NEW i \in 0..(k + 1) PROVE Body(f, i) = Body(g, i)
    <3>1. i # 0 => i - 1 \in 0..k
      BY <1>1
    <3>2. QED
      BY <2>2, <3>1
  <2>4. g = [i \in 0..(k + 1) |-> Body(g, i)]
    BY <2>3
  <2>5. \E h : h = [i \in 0..(k + 1) |-> Body(h, i)]
    BY <2>4
  <2>6. QED
    BY <2>5, <1>1
<1>4. n \in S
  <2> HIDE DEF S
  <2>1. n \in 0..n
    BY <1>1
  <2>2. QED
    BY <1>1, <1>2, <1>3, <2>1, Induct
<1> DEFINE after == CHOOSE f : f = [i \in 0..n |-> Body(f, i)]
<1>5. after = [i \in 0..n |-> Body(after, i)]
  <2>1. \E f : f = [i \in 0..n |-> Body(f, i)]
    BY <1>4
  <2>2. QED
    BY <2>1
<1>6. RolledUp(s, D, q) = after[n].s
  BY DEF RolledUp
<1> HIDE DEF after
<1>7. after[0] = [s |-> s, on |-> TRUE]
  <2>1. 0 \in 0..n
    BY <1>1
  <2>2. after[0] = Body(after, 0)
    BY <1>5, <2>1
  <2>3. QED
    BY <2>2
<1>8. ASSUME NEW i \in 1..n PROVE after[i] = Rolled(after[i - 1], D, q[i])
  <2>1. i \in 0..n /\ i # 0
    BY <1>1
  <2>2. after[i] = Body(after, i)
    BY <1>5, <2>1
  <2>3. QED
    BY <2>1, <2>2
<1>9. \A i \in 0..n : after[i] \in Rolling
  <2> DEFINE T == {i \in 0..n : after[i] \in Rolling}
  <2>1. 0 \in T
    <3>1. [s |-> s, on |-> TRUE] \in Rolling
      BY DEF Rolling
    <3>2. QED
      BY <1>1, <1>7, <3>1
  <2>2. ASSUME NEW i \in 0..(n - 1), i \in T PROVE i + 1 \in T
    <3>1. i + 1 \in 1..n /\ (i + 1) - 1 = i
      BY <1>1
    <3>2. after[i + 1] = Rolled(after[i], D, q[i + 1])
      BY <3>1, <1>8
    <3>3. after[i + 1] \in Rolling
      <4>1. after[i] \in Rolling /\ q[i + 1] \in Task
        BY <3>1, <2>2, <1>1
      <4>2. Rolled(after[i], D, q[i + 1]) \in Rolling
        BY <4>1, RolledType
      <4>3. QED
        BY <3>2, <4>2
    <3>4. QED
      BY <3>1, <3>3
  <2> HIDE DEF T
  <2>3. \A i \in 0..n : i \in T
    BY <1>1, <2>1, <2>2, Induct
  <2>4. QED
    BY <2>3 DEF T
<1>10. QED
  BY <1>6, <1>7, <1>8, <1>9 DEF AreSteps

LEMMA RollUpType ==
    ASSUME NEW s \in Statuses, NEW D, NEW q \in Seq(Task)
    PROVE  RolledUp(s, D, q) \in Statuses
<1>1. PICK after : AreSteps(after, s, D, q)
  BY RollUpHasSteps
<1>2. Len(q) \in 0..Len(q)
  OBVIOUS
<1>3. QED
  BY <1>1, <1>2 DEF AreSteps, Rolling

\* A roll-up along tasks that exist creates none and removes none.
LEMMA RollUpKeepsTasks ==
    ASSUME NEW s \in Statuses, NEW D, NEW q \in Seq(Task),
           \A i \in 1..Len(q) : Exists(s, q[i]), NEW t \in Task
    PROVE  Exists(RolledUp(s, D, q), t) <=> Exists(s, t)
<1>1. PICK after : AreSteps(after, s, D, q)
  BY RollUpHasSteps
<1> DEFINE n == Len(q)
           S == {i \in 0..n : \A u \in Task : Exists(after[i].s, u) <=> Exists(s, u)}
<1>2. n \in Nat /\ \A i \in 1..n : q[i] \in Task
  OBVIOUS
<1>3. 0 \in S
  BY <1>1, <1>2 DEF AreSteps
<1>4. ASSUME NEW i \in 0..(n - 1), i \in S PROVE i + 1 \in S
  <2>1. i \in 0..n /\ i + 1 \in 1..n /\ (i + 1) - 1 = i
    BY <1>2
  <2>v. PICK v \in Task : v = q[i + 1] /\ Exists(s, v)
    BY <2>1, <1>2
  <2>b. PICK b \in Rolling : b = after[i]
    BY <2>1, <1>1 DEF AreSteps
  <2>2. b.s \in Statuses
    BY DEF Rolling
  <2>3. after[i + 1] = Rolled(b, D, v)
    BY <2>1, <2>v, <2>b, <1>1 DEF AreSteps
  <2>4. \A u \in Task : Exists(b.s, u) <=> Exists(s, u)
    BY <1>4, <2>b
  <2>5. CASE b.on /\ RollsUp(b.s, D, v)
    <3>1. after[i + 1].s = [b.s EXCEPT ![v] = Desired(b.s, D, v)]
      <4>1. Rolled(b, D, v) = [b EXCEPT !.s = [b.s EXCEPT ![v] = Desired(b.s, D, v)]]
        BY <2>5 DEF Rolled
      <4>2. QED
        BY <2>3, <4>1 DEF Rolling
    <3>2. Desired(b.s, D, v) # "none"
      BY <2>2, <2>5, DesiredType DEF RollsUp
    <3>3. \A u \in Task : Exists(after[i + 1].s, u) <=> Exists(s, u)
      BY <2>2, <2>4, <2>v, <3>1, <3>2 DEF Exists, Statuses
    <3>4. QED
      BY <2>1, <3>3
  <2>6. CASE ~(b.on /\ RollsUp(b.s, D, v))
    <3>1. after[i + 1].s = b.s
      BY <2>2, <2>3, <2>6, RolledType
    <3>2. QED
      BY <2>1, <2>4, <3>1
  <2>7. QED
    BY <2>5, <2>6
<1>5. \A i \in 0..n : i \in S
  <2> HIDE DEF S
  <2>1. QED
    BY <1>2, <1>3, <1>4, Induct
<1>6. QED
  BY <1>1, <1>2, <1>5 DEF AreSteps

\* A task agrees with its parts, by the statuses s and the delegations D.
AgreesIn(s, D, t) == s[t] \in Terminal \union {"none"} \/ s[t] = Desired(s, D, t)

\* Whether it does depends on its own status, those of its subtasks, and the
\* states of its delegations.
LEMMA LookAlike ==
    ASSUME NEW s, NEW r, NEW D, NEW E, NEW t \in Task,
           s[t] = r[t],
           \A c \in Task \ {Root} : Parent[c] = t => s[c] = r[c],
           \A d \in Delegation : t \in {Of[d], ChildOf[d]} => D[d].state = E[d].state
    PROVE  AgreesIn(s, D, t) <=> AgreesIn(r, E, t)
<1>1. Kids(s, t) = Kids(r, t)
  BY DEF Kids, Children, Exists
<1>2. Dels(D, t) = Dels(E, t)
  BY DEF Dels, About
<1>3. Desired(s, D, t) = Desired(r, E, t)
  BY <1>1, <1>2, DesiredIsCall
<1>4. QED
  BY <1>3 DEF AgreesIn

\* A task that is rolled up agrees; its parent may not any more.
LEMMA RolledAgrees ==
    ASSUME NEW s \in Statuses, NEW D, NEW t \in Task, NEW u \in Task,
           RollsUp(s, D, t),
           u = t \/ (AgreesIn(s, D, u) /\ (t = Root \/ u # Parent[t]))
    PROVE  AgreesIn([s EXCEPT ![t] = Desired(s, D, t)], D, u)
<1> DEFINE new == Desired(s, D, t)
           r == [s EXCEPT ![t] = new]
<1>1. r[t] = new /\ \A c \in Task : c # t => r[c] = s[c]
  BY DEF Statuses
<1>2. CASE u = t
  <2>1. Kids(r, t) = Kids(s, t)
    BY <1>1, NoTaskIsItsParent DEF Kids, Children, Exists
  <2>2. new # s[t]
    BY DEF RollsUp
  <2> HIDE DEF r, new
  <2>3. Desired(r, D, t) = Call(Kids(s, t), Dels(D, t), r[t])
    BY <2>1, DesiredIsCall
  <2>4. new = Call(Kids(s, t), Dels(D, t), s[t])
    BY DesiredIsCall DEF new
  <2>5. Call(Kids(s, t), Dels(D, t), r[t]) = Call(Kids(s, t), Dels(D, t), s[t])
    BY <2>2, <2>4, CallsFor
  <2>6. r[t] = Desired(r, D, t)
    BY <1>1, <2>3, <2>4, <2>5
  <2>7. AgreesIn(r, D, t)
    BY <2>6 DEF AgreesIn
  <2>8. QED
    BY <1>2, <2>7 DEF r, new
<1>3. CASE u # t
  <2>1. AgreesIn(s, D, u) /\ (t = Root \/ u # Parent[t])
    BY <1>3
  <2>2. \A c \in Task \ {Root} : Parent[c] = u => s[c] = r[c]
    BY <1>1, <2>1
  <2>3. s[u] = r[u]
    BY <1>1, <1>3
  <2> HIDE DEF r
  <2>4. AgreesIn(r, D, u)
    BY <2>1, <2>2, <2>3, LookAlike
  <2>5. QED
    BY <2>4 DEF r
<1>4. QED
  BY <1>2, <1>3

\* After a roll-up from x every task agrees that did before, and x does.
LEMMA RollUpAgrees ==
    ASSUME NEW s \in Statuses, NEW D, NEW x \in Task, NEW u \in Task,
           u = x \/ AgreesIn(s, D, u)
    PROVE  AgreesIn(RolledUp(s, D, Lineage(x)), D, u)
<1>1. PICK q : q = Lineage(x) /\ IsLine(q, x)
  BY LineageIsLine
<1>2. q \in Seq(Task)
  BY <1>1 DEF IsLine
<1>3. PICK after : AreSteps(after, s, D, q)
  BY <1>2, RollUpHasSteps
<1> DEFINE n == Len(q)
           S == {i \in 0..n : \/ AgreesIn(after[i].s, D, u)
                              \/ after[i].on /\ i < n /\ u = q[i + 1]}
<1>4. n \in Nat /\ n > 0 /\ \A i \in 1..n : q[i] \in Task
  BY <1>1 DEF IsLine
<1>5. 0 \in S
  <2>1. after[0].s = s /\ after[0].on /\ q[0 + 1] = x
    BY <1>1, <1>3 DEF AreSteps, IsLine
  <2>2. QED
    BY <1>4, <2>1
<1>6. ASSUME NEW i \in 0..(n - 1), i \in S PROVE i + 1 \in S
  <2>1. i \in 0..n /\ i + 1 \in 1..n /\ (i + 1) - 1 = i /\ i + 1 \in 0..n
    BY <1>4
  <2>2. PICK v \in Task : v = q[i + 1]
    BY <2>1, <1>4
  <2>3. PICK b \in Rolling : b = after[i]
    BY <2>1, <1>3 DEF AreSteps
  <2>4. after[i + 1] = Rolled(b, D, v) /\ b.s \in Statuses
    BY <2>1, <2>2, <2>3, <1>3 DEF AreSteps, Rolling
  <2>5. AgreesIn(b.s, D, u) \/ (b.on /\ u = v)
    BY <1>6, <2>2, <2>3
  <2>6. CASE b.on /\ RollsUp(b.s, D, v)
    <3>1. /\ after[i + 1].s = [b.s EXCEPT ![v] = Desired(b.s, D, v)]
          /\ after[i + 1].on
      BY <2>4, <2>6, RolledType
    <3>2. CASE u = v \/ (AgreesIn(b.s, D, u) /\ (v = Root \/ u # Parent[v]))
      <4>1. PICK w \in Statuses : w = b.s
        BY <2>4
      <4>2. AgreesIn([w EXCEPT ![v] = Desired(w, D, v)], D, u)
        BY <2>6, <3>2, <4>1, RolledAgrees
      <4>3. AgreesIn(after[i + 1].s, D, u)
        BY <3>1, <4>1, <4>2
      <4>4. QED
        BY <2>1, <4>3
    <3>3. CASE u # v /\ v # Root /\ u = Parent[v]
      <4>1. i + 1 # n
        BY <1>1, <2>2, <3>3 DEF IsLine
      <4>2. i + 1 \in 1..(n - 1) /\ i + 1 < n
        BY <2>1, <4>1, <1>4
      <4>3. u = q[(i + 1) + 1]
        BY <4>2, <1>1, <2>2, <3>3 DEF IsLine
      <4>4. QED
        BY <2>1, <3>1, <4>2, <4>3
    <3>4. QED
      BY <2>5, <3>2, <3>3
  <2>7. CASE ~(b.on /\ RollsUp(b.s, D, v))
    <3>1. after[i + 1].s = b.s
      BY <2>4, <2>7, RolledType
    <3>2. AgreesIn(b.s, D, u)
      BY <2>5, <2>7 DEF RollsUp, AgreesIn
    <3>3. QED
      BY <2>1, <3>1, <3>2
  <2>8. QED
    BY <2>6, <2>7
<1>7. n \in S
  <2> HIDE DEF S
  <2>1. n \in 0..n
    BY <1>4
  <2>2. QED
    BY <1>4, <1>5, <1>6, <2>1, Induct
<1>8. QED
  BY <1>1, <1>3, <1>4, <1>7 DEF AreSteps

-----------------------------------------------------------------------------
(* The order of the last updates.                                          *)

InOrder == recent \in Orders(Recorded(deleg))

LEMMA InitInOrder == Init => InOrder
<1> SUFFICES ASSUME Init PROVE InOrder
  OBVIOUS
<1>1. PICK b \in Beginnings :
        /\ deleg = [d \in Delegation |-> [NoDelegation EXCEPT !.state = b.states[d]]]
        /\ recent = b.order
  BY DEF Init
<1>2. Recorded(deleg) = {d \in Delegation : b.states[d] # "none"}
  BY <1>1 DEF Recorded, NoDelegation
<1>3. QED
  BY <1>1, <1>2, ConfigType DEF InOrder

LEMMA NextInOrder == InOrder /\ DelegType /\ [Next]_vars => InOrder'
<1> SUFFICES ASSUME InOrder, DelegType, [Next]_vars PROVE InOrder'
  OBVIOUS
<1>1. ASSUME NEW D, NEW S, Touched(D, S) PROVE InOrder'
  BY <1>1 DEF Touched, InOrder
<1>2. ASSUME UNCHANGED recent, Recorded(deleg)' = Recorded(deleg) PROVE InOrder'
  BY <1>2 DEF InOrder
<1>3. CASE UNCHANGED vars
  BY <1>2, <1>3 DEF vars, Recorded
<1>4. ASSUME NEW t \in Task, NEW s \in Status, CreateSubtask(t, s) \/ SetStatus(t, s)
      PROVE  InOrder'
  BY <1>2, <1>4 DEF CreateSubtask, SetStatus, Recorded
<1>5. ASSUME NEW t \in Task, Assign(t) PROVE InOrder'
  BY <1>2, <1>5 DEF Assign, Recorded
<1>6. ASSUME NEW d \in Delegation, Propose(d) PROVE InOrder'
  BY <1>1, <1>6 DEF Propose
<1>7. ASSUME NEW d \in Delegation, Overdue(d) \/ Idles(d) PROVE InOrder'
  <2>1. \A e \in Delegation : deleg'[e].state = deleg[e].state
    BY <1>7 DEF Overdue, Idles, DelegType, Known
  <2>2. UNCHANGED recent
    BY <1>7 DEF Overdue, Idles
  <2>3. QED
    BY <1>2, <2>1, <2>2 DEF Recorded
<1>8. ASSUME NEW d \in Delegation, NEW next \in State, Transition(d, next)
      PROVE  InOrder'
  BY <1>1, <1>8 DEF Transition, Moves
<1>9. ASSUME NEW d \in Delegation, NEW next \in State, NEW t \in Token,
             TransitionWith(d, next, t)
      PROVE  InOrder'
  <2>1. Moves(d, next) \/ UNCHANGED <<deleg, recent>>
    BY <1>9 DEF TransitionWith
  <2>2. QED
    BY <1>1, <1>2, <2>1 DEF Moves, Recorded
<1>10. ASSUME NEW t \in Token, SpendElsewhere(t) \/ Revoke(t) PROVE InOrder'
  BY <1>2, <1>10 DEF SpendElsewhere, Revoke, Recorded
<1>11. ASSUME NEW p \in Policies, SetPolicy(p) PROVE InOrder'
  BY <1>2, <1>11 DEF SetPolicy, Recorded
<1>12. CASE Sweep
  BY <1>1, <1>12 DEF Sweep
<1>13. CASE Restart
  BY <1>2, <1>13 DEF Restart, Recorded
<1>14. QED
  BY <1>3, <1>4, <1>5, <1>6, <1>7, <1>8, <1>9, <1>10, <1>11, <1>12, <1>13 DEF Next

\* What the timer rejects.
Doomed == {d \in {e \in Window : Due(e)} : Rejects(d)}

\* It rejects every one of those, each once, and nothing else.
LEMMA SweepRejects ==
    ASSUME InOrder, Sweep
    PROVE  \E gone \in Seq(Delegation) :
              /\ \A d \in Delegation :
                    d \in Doomed <=> \E k \in 1..Len(gone) : gone[k] = d
              /\ Settles(task, Fallen(gone), {})
<1> DEFINE c == Cardinality(Doomed)
<1>1. PICK gone \in [1..c -> Doomed] :
        /\ \A i, j \in DOMAIN gone : i < j => recent[gone[i]] < recent[gone[j]]
        /\ Settles(task, Fallen(gone), {})
  BY DEF Sweep, Doomed
<1>2. Doomed \subseteq Delegation /\ IsFiniteSet(Doomed) /\ c \in Nat
  <2>1. Doomed \in SUBSET Delegation
    BY DEF Doomed, Window, InOrder, Orders, Recorded
  <2>2. QED
    BY <2>1, DelegationsAreFinite, FS_Subset, FS_CardinalityType
<1>3. gone \in Seq(Delegation) /\ Len(gone) = c
  <2>1. gone \in [1..c -> Delegation]
    BY <1>2
  <2>2. QED
    BY <1>2, <2>1
<1>4. \A d \in Doomed : recent[d] \in Int
  BY DEF Doomed, Window, InOrder, Orders
<1>5. ASSUME NEW d \in Doomed, \A k \in 1..c : gone[k] # d PROVE FALSE
  <2> DEFINE rest == Doomed \ {d}
  <2>1. IsFiniteSet(rest) /\ Cardinality(rest) = c - 1
    BY <1>2, FS_RemoveElement
  <2>2. IsFiniteSet(1..c) /\ Cardinality(1..c) = c
    <3>1. 1 \in Int /\ c \in Int
      BY <1>2
    <3>2. /\ IsFiniteSet(1..c)
          /\ Cardinality(1..c) = IF 1 > c THEN 0 ELSE c - 1 + 1
      BY <3>1, FS_Interval
    <3>3. QED
      BY <1>2, <3>2
  <2>3. gone \in [1..c -> rest]
    BY <1>5
  <2>4. Cardinality(rest) < Cardinality(1..c)
    BY <1>2, <2>1, <2>2
  <2> HIDE DEF rest, c
  <2>5. PICK i, j \in 1..c : i # j /\ gone[i] = gone[j]
    BY <2>1, <2>2, <2>3, <2>4, FS_PigeonHole
  <2>6. /\ recent[gone[i]] \in Int /\ i \in DOMAIN gone /\ j \in DOMAIN gone
        /\ i \in Int /\ j \in Int
    BY <1>2, <1>4, <2>5
  <2>7. QED
    BY <1>1, <2>5, <2>6
<1>6. \A d \in Delegation : d \in Doomed <=> \E k \in 1..Len(gone) : gone[k] = d
  BY <1>3, <1>5
<1>7. QED
  BY <1>1, <1>3, <1>6

-----------------------------------------------------------------------------
(* The tasks in memory and in the database.                                *)

SameTasks(s, r) == \A t \in Task : Exists(s, t) <=> Exists(r, t)

\* What is stored differs only in a status whose handler does not persist.
Rows ==
    /\ task \in Statuses /\ row \in Statuses
    /\ \A t \in Task : row[t] # task[t] => task[t] \in MemoryOnly
    /\ SameTasks(row, task)

\* A task that exists has its parent, a delegation the tasks it names.
ParentsExist(s) ==
    /\ Exists(s, Root)
    /\ \A t \in Task \ {Root} : Exists(s, t) => Exists(s, Parent[t])
Concern(D, s) ==
    \A d \in Delegation : D[d].state # "none" =>
        Exists(s, Of[d]) /\ (ChildOf[d] # NoTask => Exists(s, ChildOf[d]))

TreeInv == Rows /\ ParentsExist(task) /\ Concern(deleg, task)

LEMMA StatusFacts ==
    /\ "none" \notin Status /\ MemoryOnly \subseteq Status
    /\ \A x \in MemoryOnly : x # "none"
BY DEF Status, Active, Terminal, Failed, Good, MemoryOnly

LEMMA LineExists ==
    ASSUME NEW s, ParentsExist(s), NEW t \in Task, Exists(s, t)
    PROVE  /\ Lineage(t) \in Seq(Task)
           /\ \A i \in 1..Len(Lineage(t)) : Exists(s, Lineage(t)[i])
<1>1. PICK q : q = Lineage(t) /\ IsLine(q, t)
  BY LineageIsLine
<1>2. q \in Seq(Task) /\ Len(q) \in Nat /\ \A i \in 1..Len(q) : q[i] \in Task
  BY <1>1 DEF IsLine
<1> DEFINE S == {i \in Nat : i < Len(q) => Exists(s, q[i + 1])}
<1>3. 0 \in S
  BY <1>1 DEF IsLine
<1>4. ASSUME NEW i \in 0..(Len(q) - 1), i \in S PROVE i + 1 \in S
  <2>1. CASE i + 1 < Len(q)
    <3>1. i + 1 \in 1..(Len(q) - 1) /\ i + 1 \in 1..Len(q) /\ i < Len(q)
      BY <1>2, <2>1
    <3>2. q[i + 1] # Root /\ q[(i + 1) + 1] = Parent[q[i + 1]]
      BY <1>1, <3>1 DEF IsLine
    <3>3. Exists(s, q[i + 1]) /\ q[i + 1] \in Task
      BY <1>2, <1>4, <3>1
    <3>4. Exists(s, q[(i + 1) + 1])
      BY <3>2, <3>3 DEF ParentsExist
    <3>5. QED
      BY <1>2, <3>4
  <2>2. CASE ~(i + 1 < Len(q))
    BY <1>2, <2>2
  <2>3. QED
    BY <2>1, <2>2
<1>5. \A i \in 0..Len(q) : i \in S
  <2> HIDE DEF S
  <2>1. QED
    BY <1>2, <1>3, <1>4, Induct
<1>6. ASSUME NEW i \in 1..Len(q) PROVE Exists(s, q[i])
  <2>1. i - 1 \in 0..Len(q) /\ i - 1 < Len(q) /\ (i - 1) + 1 = i
    BY <1>2
  <2>2. i - 1 \in S
    BY <1>5, <2>1
  <2>3. QED
    BY <2>1, <2>2
<1>7. QED
  BY <1>1, <1>2, <1>6

LEMMA AncestorsExist ==
    ASSUME NEW s, ParentsExist(s), NEW t \in Task, Exists(s, t)
    PROVE  /\ Ancestors[t] \in Seq(Task)
           /\ \A i \in 1..Len(Ancestors[t]) : Exists(s, Ancestors[t][i])
           /\ Ancestors[t] = IF t = Root THEN <<>> ELSE Lineage(Parent[t])
<1>1. Ancestors[t] = IF t = Root THEN <<>> ELSE Lineage(Parent[t])
  BY AncestorsOf DEF Lineage
<1>2. CASE t = Root
  <2> DEFINE none == <<>>
  <2>1. none \in Seq(Task) /\ Len(none) = 0
    OBVIOUS
  <2>2. Ancestors[t] = none
    BY <1>1, <1>2
  <2> HIDE DEF none
  <2>3. \A i \in 1..Len(none) : FALSE
    BY <2>1
  <2>4. QED
    BY <1>1, <2>1, <2>2, <2>3
<1>3. CASE t # Root
  <2>1. Parent[t] \in Task /\ Exists(s, Parent[t])
    BY <1>3, ConfigType DEF ParentsExist
  <2>2. QED
    BY <1>1, <1>3, <2>1, LineExists
<1>4. QED
  BY <1>2, <1>3

LEMMA SettlesRows ==
    ASSUME Rows, NEW s \in Statuses, NEW r \in Statuses, SameTasks(s, r),
           NEW stored, Settles(s, r, stored),
           \A t \in Task : \/ s[t] = task[t]
                           \/ t \in stored
                           \/ s[t] \in MemoryOnly /\ Exists(task, t)
    PROVE  Rows' /\ task' = r
<1>1. /\ task' = r
      /\ row' = [t \in Task |-> IF t \in stored \union Changed(s, r) THEN r[t] ELSE row[t]]
  BY DEF Settles
<1>2. ASSUME NEW t \in Task, t \notin stored \union Changed(s, r)
      PROVE  /\ row[t] # r[t] => r[t] \in MemoryOnly
             /\ row[t] # "none" <=> r[t] # "none"
  <2>1. r[t] = s[t] /\ t \notin stored
    BY <1>2 DEF Changed
  <2>2. QED
    BY <2>1, StatusFacts DEF Rows, SameTasks, Exists
<1>3. row' \in Statuses
  BY <1>1 DEF Rows, Statuses
<1>4. ASSUME NEW t \in Task
      PROVE  /\ row'[t] # task'[t] => task'[t] \in MemoryOnly
             /\ Exists(row', t) <=> Exists(task', t)
  BY <1>1, <1>2 DEF Exists
<1>5. QED
  BY <1>1, <1>3, <1>4 DEF Rows, SameTasks

LEMMA DiesRows ==
    ASSUME Rows, NEW s \in Statuses, NEW r \in Statuses, SameTasks(s, r),
           SameTasks(s, task), NEW q, DiesMidway(s, r, q)
    PROVE  Rows' /\ SameTasks(task, task')
<1>1. PICK S : row' = [t \in Task |-> IF t \in S THEN r[t] ELSE row[t]]
  <2>1. PICK i \in 1..(Len(q) + 1) :
          row' = [t \in Task |-> IF t \in Changed(s, r) /\ \E k \in i..Len(q) : q[k] = t
                                THEN r[t] ELSE row[t]]
    BY DEF DiesMidway
  <2> DEFINE T == {t \in Changed(s, r) : \E k \in i..Len(q) : q[k] = t}
  <2>2. row' = [t \in Task |-> IF t \in T THEN r[t] ELSE row[t]]
    BY <2>1
  <2>3. QED
    BY <2>2
<1>2. task' = row'
  BY DEF DiesMidway
<1>3. row' \in Statuses
  BY <1>1 DEF Rows, Statuses
<1>4. ASSUME NEW t \in Task PROVE Exists(row', t) <=> Exists(task, t)
  BY <1>1 DEF Rows, SameTasks, Exists
<1>5. QED
  BY <1>2, <1>3, <1>4 DEF Rows, SameTasks

LEMMA RollUpRows ==
    ASSUME Rows, NEW s \in Statuses, SameTasks(s, task), NEW D,
           NEW q \in Seq(Task), \A i \in 1..Len(q) : Exists(s, q[i]),
           NEW stored, RollUp(s, D, q, stored),
           \A t \in Task : \/ s[t] = task[t]
                           \/ t \in stored
                           \/ s[t] \in MemoryOnly /\ Exists(task, t)
    PROVE  Rows' /\ SameTasks(task, task')
<1> DEFINE r == RolledUp(s, D, q)
<1>1. r \in Statuses
  BY RollUpType
<1>2. SameTasks(s, r)
  BY RollUpKeepsTasks DEF SameTasks
<1>3. Settles(s, r, stored) \/ DiesMidway(s, r, q)
  BY DEF RollUp
<1> HIDE DEF r
<1>4. CASE Settles(s, r, stored)
  <2>1. Rows' /\ task' = r
    BY <1>1, <1>2, <1>4, SettlesRows
  <2>2. QED
    BY <1>2, <2>1 DEF SameTasks
<1>5. CASE DiesMidway(s, r, q)
  BY <1>1, <1>2, <1>5, DiesRows
<1>6. QED
  BY <1>3, <1>4, <1>5

\* Whether parents exist depends on what tasks there are.
LEMMA SameParents ==
    ASSUME NEW s, NEW r, SameTasks(s, r), ParentsExist(s) PROVE ParentsExist(r)
BY ConfigType DEF SameTasks, ParentsExist

LEMMA SameConcern ==
    ASSUME NEW s, NEW r, SameTasks(s, r), NEW D, Concern(D, s) PROVE Concern(D, r)
BY ConfigType DEF SameTasks, Concern

\* The steps of the rejections of one sweep.
AreFalls(after, gone) ==
    /\ after[0] = task
    /\ \A i \in 1..Len(gone) :
          after[i] = RolledUp(after[i - 1], Rejected(gone, i), Lineage(Of[gone[i]]))
    /\ \A i \in 0..Len(gone) : after[i] \in Statuses /\ SameTasks(task, after[i])
    /\ Fallen(gone) = after[Len(gone)]

LEMMA SweepHasFalls ==
    ASSUME Rows, ParentsExist(task), NEW gone \in Seq(Delegation),
           \A i \in 1..Len(gone) : Exists(task, Of[gone[i]])
    PROVE  \E after : AreFalls(after, gone)
<1> DEFINE n == Len(gone)
           Body(f, i) == IF i = 0 THEN task
                         ELSE RolledUp(f[i - 1], Rejected(gone, i),
                                       Lineage(Of[gone[i]]))
           S == {k \in Nat : \E f : f = [i \in 0..k |-> Body(f, i)]}
<1>1. n \in Nat /\ \A i \in 1..n : gone[i] \in Delegation /\ Of[gone[i]] \in Task
  BY ConfigType
<1>2. 0 \in S
  <2> DEFINE f == [i \in 0..0 |-> task]
  <2>1. f = [i \in 0..0 |-> Body(f, i)]
    OBVIOUS
  <2>2. QED
    BY <2>1
<1>3. ASSUME NEW k \in 0..(n - 1), k \in S PROVE k + 1 \in S
  <2>1. PICK f : f = [i \in 0..k |-> Body(f, i)]
    BY <1>3
  <2> DEFINE g == [i \in 0..(k + 1) |-> Body(f, i)]
  <2>2. ASSUME NEW i \in 0..k PROVE f[i] = g[i]
    <3>1. i \in 0..(k + 1)
      BY <1>1
    <3>2. f[i] = Body(f, i)
      BY <2>1
    <3>3. g[i] = Body(f, i)
      BY <3>1
    <3>4. QED
      BY <3>2, <3>3
  <2>3. ASSUME NEW i \in 0..(k + 1) PROVE Body(f, i) = Body(g, i)
    <3>1. i # 0 => i - 1 \in 0..k
      BY <1>1
    <3>2. QED
      BY <2>2, <3>1
  <2>4. g = [i \in 0..(k + 1) |-> Body(g, i)]
    BY <2>3
  <2>5. \E h : h = [i \in 0..(k + 1) |-> Body(h, i)]
    BY <2>4
  <2>6. QED
    BY <2>5, <1>1
<1>4. n \in S
  <2> HIDE DEF S
  <2>1. n \in 0..n
    BY <1>1
  <2>2. QED
    BY <1>1, <1>2, <1>3, <2>1, Induct
<1> DEFINE after == CHOOSE f : f = [i \in 0..n |-> Body(f, i)]
<1>5. after = [i \in 0..n |-> Body(after, i)]
  <2>1. \E f : f = [i \in 0..n |-> Body(f, i)]
    BY <1>4
  <2>2. QED
    BY <2>1
<1>6. Fallen(gone) = after[n]
  BY DEF Fallen
<1> HIDE DEF after
<1>7. after[0] = task
  <2>1. 0 \in 0..n
    BY <1>1
  <2>2. after[0] = Body(after, 0)
    BY <1>5, <2>1
  <2>3. QED
    BY <2>2
<1>8. ASSUME NEW i \in 1..n
      PROVE  after[i] = RolledUp(after[i - 1], Rejected(gone, i), Lineage(Of[gone[i]]))
  <2>1. i \in 0..n /\ i # 0
    BY <1>1
  <2>2. after[i] = Body(after, i)
    BY <1>5, <2>1
  <2>3. QED
    BY <2>1, <2>2
<1> DEFINE T == {i \in 0..n : after[i] \in Statuses /\ SameTasks(task, after[i])}
<1>9. 0 \in T
  BY <1>1, <1>7 DEF Rows, SameTasks
<1>10. ASSUME NEW i \in 0..(n - 1), i \in T PROVE i + 1 \in T
  <2>1. i + 1 \in 1..n /\ (i + 1) - 1 = i
    BY <1>1
  <2>2. PICK x \in Task : x = Of[gone[i + 1]]
    BY <2>1, <1>1
  <2>3. PICK b \in Statuses : b = after[i] /\ SameTasks(task, b)
    BY <1>10
  <2>4. PICK D : D = Rejected(gone, i + 1)
    OBVIOUS
  <2>5. after[i + 1] = RolledUp(b, D, Lineage(x))
    BY <2>1, <2>2, <2>3, <2>4, <1>8
  <2>6. ParentsExist(b) /\ Exists(b, x)
    BY <2>1, <2>2, <2>3, SameParents DEF SameTasks
  <2>7. /\ Lineage(x) \in Seq(Task)
        /\ \A k \in 1..Len(Lineage(x)) : Exists(b, Lineage(x)[k])
    BY <2>6, LineExists
  <2>8. RolledUp(b, D, Lineage(x)) \in Statuses
    BY <2>7, RollUpType
  <2>9. SameTasks(b, RolledUp(b, D, Lineage(x)))
    BY <2>7, RollUpKeepsTasks DEF SameTasks
  <2>10. SameTasks(task, after[i + 1])
    BY <2>3, <2>5, <2>9 DEF SameTasks
  <2>11. QED
    BY <2>1, <2>5, <2>8, <2>10
<1>11. \A i \in 0..n : i \in T
  <2> HIDE DEF T
  <2>1. QED
    BY <1>1, <1>9, <1>10, Induct
<1>12. QED
  BY <1>6, <1>7, <1>8, <1>11 DEF AreFalls

-----------------------------------------------------------------------------
(* What a step does to the tasks.                                          *)

\* The state that a delegation is moved to is not the one it was in.
LEMMA AllowedMoves ==
    ASSUME NEW from, NEW next \in Allowed(from)
    PROVE  from \in Open /\ next # from
BY DEF Allowed, Open

\* A delegation is proposed by Propose only.
LEMMA ConcernStep ==
    ASSUME DelegType, [Next]_vars, ParentsExist(task), Concern(deleg, task)
    PROVE  Concern(deleg', task)
<1>1. ASSUME NEW d \in Delegation, deleg[d].state = "none", deleg'[d].state # "none"
      PROVE  Propose(d)
  <2>1. ASSUME NEW e \in Delegation, Propose(e) PROVE Propose(d)
    BY <1>1, <2>1 DEF Propose, Touched, DelegType
  <2>2. ASSUME NEW e \in Delegation, Overdue(e) \/ Idles(e) PROVE FALSE
    BY <1>1, <2>2 DEF Overdue, Idles, DelegType, Known
  <2>3. ASSUME NEW e \in Delegation, NEW next \in State, Moves(e, next),
               next \in Allowed(deleg[e].state)
        PROVE  FALSE
    <3>1. deleg' = [deleg EXCEPT ![e] = Moved(deleg[e], next)]
      BY <2>3 DEF Moves, Touched
    <3>2. e = d
      BY <1>1, <3>1 DEF DelegType
    <3>3. QED
      BY <1>1, <2>3, <3>2, AllowedMoves DEF Open
  <2>4. ASSUME NEW e \in Delegation, NEW next \in State, Transition(e, next)
        PROVE  FALSE
    BY <2>3, <2>4 DEF Transition
  <2>5. ASSUME NEW e \in Delegation, NEW next \in State, NEW t \in Token,
               TransitionWith(e, next, t)
        PROVE  FALSE
    <3>1. UNCHANGED deleg \/ (Moves(e, next) /\ next \in Allowed(deleg[e].state))
      BY <2>5 DEF TransitionWith
    <3>2. QED
      BY <1>1, <2>3, <3>1
  <2>6. CASE Sweep
    <3>1. deleg'[d] = deleg[d] \/ (Due(d) /\ deleg'[d] = Swept(d))
      BY <2>6 DEF Sweep, Touched
    <3>2. Due(d) => deleg[d].state \in Open
      BY DEF Due, Rejects, Notes, Nudges, Late
    <3>3. QED
      BY <1>1, <3>1, <3>2 DEF Open
  <2>7. QED
    BY <1>1, <2>1, <2>2, <2>4, <2>5, <2>6, DelegationSteps
<1>2. ASSUME NEW d \in Delegation, deleg'[d].state # "none"
      PROVE  Exists(task, Of[d]) /\ (ChildOf[d] # NoTask => Exists(task, ChildOf[d]))
  BY <1>1, <1>2 DEF Concern, Propose
<1>3. QED
  BY <1>2 DEF Concern

\* A step that moves a delegation rolls up from the task it belongs to.
RollsUpFrom(d) == Exists(task, Of[d]) /\ RollUp(task, deleg', Lineage(Of[d]), {})

\* Every step leaves the tasks alone, is one of theirs, or a roll-up.
LEMMA TaskSteps ==
    ASSUME DelegType, [Next]_vars, Concern(deleg, task)
    PROVE  \/ UNCHANGED <<task, row>>
           \/ task' = row /\ row' = row
           \/ \E t \in Task, s \in Status : CreateSubtask(t, s) \/ SetStatus(t, s)
           \/ \E t \in Task : Assign(t)
           \/ \E d \in Delegation : RollsUpFrom(d)
           \/ Sweep
<1>1. CASE UNCHANGED vars
  BY <1>1 DEF vars
<1>2. ASSUME NEW d \in Delegation, Propose(d) PROVE RollsUpFrom(d)
  BY <1>2 DEF Propose, Touched, RollsUpFrom
<1>3. ASSUME NEW d \in Delegation, NEW next \in State, Moves(d, next),
             deleg[d].state # "none"
      PROVE  RollsUpFrom(d)
  BY <1>3 DEF Moves, Touched, RollsUpFrom, Concern
<1>4. ASSUME NEW d \in Delegation, Overdue(d) \/ Idles(d)
      PROVE  UNCHANGED <<task, row>>
  BY <1>4 DEF Overdue, Idles
<1>5. ASSUME NEW d \in Delegation, NEW next \in State, Transition(d, next)
      PROVE  RollsUpFrom(d)
  <2>1. Moves(d, next) /\ next \in Allowed(deleg[d].state)
    BY <1>5 DEF Transition
  <2>2. QED
    BY <2>1, <1>3, AllowedMoves DEF Open
<1>6. ASSUME NEW d \in Delegation, NEW next \in State, NEW t \in Token,
             TransitionWith(d, next, t)
      PROVE  \/ UNCHANGED <<task, row>>
             \/ task' = row /\ row' = row
             \/ RollsUpFrom(d)
  BY <1>3, <1>6 DEF TransitionWith
<1>7. ASSUME NEW t \in Token, SpendElsewhere(t) \/ Revoke(t)
      PROVE  UNCHANGED <<task, row>>
  BY <1>7 DEF SpendElsewhere, Revoke
<1>8. ASSUME NEW p \in Policies, SetPolicy(p) PROVE UNCHANGED <<task, row>>
  BY <1>8 DEF SetPolicy
<1>9. CASE Restart
  BY <1>9 DEF Restart
<1>10. QED
  BY <1>1, <1>2, <1>4, <1>5, <1>6, <1>7, <1>8, <1>9 DEF Next

\* A subtask that is created has no parts yet.
LEMMA CreatedSubtask ==
    ASSUME TreeInv, NEW t \in Task, NEW status \in Status, CreateSubtask(t, status),
           NEW s, s = [task EXCEPT ![t] = status]
    PROVE  /\ s \in Statuses /\ Exists(s, t)
           /\ ParentsExist(s)
           /\ \A u \in Task : Exists(task, u) => Exists(s, u)
           /\ t # Root /\ Parent[t] \in Task
           /\ Ancestors[t] = Lineage(Parent[t])
           /\ Lineage(Parent[t]) \in Seq(Task)
           /\ \A i \in 1..Len(Lineage(Parent[t])) : Exists(s, Lineage(Parent[t])[i])
           /\ Settles(s, RolledUp(s, deleg, Lineage(Parent[t])), {t, Parent[t]})
<1>1. /\ task \in Statuses /\ ParentsExist(task)
      /\ t # Root /\ ~Exists(task, t) /\ Exists(task, Parent[t])
  BY DEF TreeInv, Rows, CreateSubtask
<1>2. s \in Statuses
  BY <1>1 DEF Statuses
<1>3. Exists(s, t) /\ \A u \in Task : Exists(task, u) => Exists(s, u)
  BY <1>1, StatusFacts DEF Statuses, Exists
<1>4. ParentsExist(s)
  <2>1. ASSUME NEW u \in Task \ {Root}, Exists(s, u) PROVE Exists(s, Parent[u])
    <3>1. Parent[u] \in Task
      BY ConfigType
    <3>2. Exists(task, Parent[u])
      BY <1>1, <2>1 DEF Statuses, Exists, ParentsExist
    <3>3. QED
      BY <1>3, <3>1, <3>2
  <2>2. QED
    BY <1>1, <1>3, <2>1, ConfigType DEF ParentsExist
<1>5. Ancestors[t] = Lineage(Parent[t]) /\ Parent[t] \in Task
  BY <1>1, <1>3, <1>4, AncestorsExist, ConfigType
<1>6. Exists(s, Parent[t])
  BY <1>1, <1>3, <1>5
<1>7. Settles(s, RolledUp(s, deleg, Lineage(Parent[t])), {t, Parent[t]})
  BY <1>5 DEF CreateSubtask
<1>8. QED
  BY <1>1, <1>2, <1>3, <1>4, <1>5, <1>6, <1>7, LineExists

LEMMA NextTree == TreeInv /\ DelegType /\ InOrder /\ [Next]_vars => TreeInv'
<1> SUFFICES ASSUME TreeInv, DelegType, InOrder, [Next]_vars PROVE TreeInv'
  OBVIOUS
<1>1. Rows /\ ParentsExist(task) /\ Concern(deleg, task) /\ Concern(deleg', task)
  BY ConcernStep DEF TreeInv
<1>2. ASSUME Rows', SameTasks(task, task') PROVE TreeInv'
  <2>1. ParentsExist(task') /\ Concern(deleg', task')
    BY <1>1, <1>2, SameParents, SameConcern
  <2>2. QED
    BY <1>2, <2>1 DEF TreeInv, ParentsExist, Concern
<1>3. CASE UNCHANGED <<task, row>>
  BY <1>1, <1>2, <1>3 DEF Rows, SameTasks
<1>4. CASE task' = row /\ row' = row
  BY <1>1, <1>2, <1>4 DEF Rows, SameTasks
<1>5. ASSUME NEW t \in Task, NEW status \in Status, CreateSubtask(t, status)
      PROVE  TreeInv'
  <2>1. PICK s : s = [task EXCEPT ![t] = status]
    OBVIOUS
  <2>2. /\ s \in Statuses /\ ParentsExist(s)
        /\ \A u \in Task : Exists(task, u) => Exists(s, u)
        /\ Parent[t] \in Task
    BY <1>5, <2>1, CreatedSubtask
  <2>3. PICK q \in Seq(Task) :
          /\ \A i \in 1..Len(q) : Exists(s, q[i])
          /\ Settles(s, RolledUp(s, deleg, q), {t, Parent[t]})
    BY <1>5, <2>1, CreatedSubtask
  <2>4. PICK r : r = RolledUp(s, deleg, q)
    OBVIOUS
  <2>5. r \in Statuses /\ SameTasks(s, r)
    BY <2>2, <2>3, <2>4, RollUpType, RollUpKeepsTasks DEF SameTasks
  <2>6. \A u \in Task : s[u] = task[u] \/ u \in {t, Parent[t]}
    BY <1>1, <2>1 DEF Rows, Statuses
  <2>7. Rows' /\ task' = r
    BY <1>1, <2>2, <2>3, <2>4, <2>5, <2>6, SettlesRows
  <2>8. ParentsExist(task')
    BY <2>2, <2>5, <2>7, SameParents
  <2>9. \A u \in Task : Exists(task, u) => Exists(task', u)
    BY <2>2, <2>5, <2>7 DEF SameTasks
  <2>10. Concern(deleg', task')
    BY <1>1, <2>9, ConfigType DEF Concern
  <2>11. QED
    BY <2>7, <2>8, <2>10 DEF TreeInv, ParentsExist, Concern
<1>6. ASSUME NEW t \in Task, NEW status \in Status, SetStatus(t, status)
      PROVE  TreeInv'
  <2>1. PICK kept \in StoredOrNot(status) :
          RollUp([task EXCEPT ![t] = status], deleg, Ancestors[t],
                 IF kept THEN {t} ELSE {})
    BY <1>6 DEF SetStatus
  <2>2. PICK s : s = [task EXCEPT ![t] = status]
    OBVIOUS
  <2>3. PICK stored : stored = IF kept THEN {t} ELSE {}
    OBVIOUS
  <2>4. s \in Statuses /\ SameTasks(s, task) /\ Exists(task, t)
    BY <1>1, <1>6, <2>2, StatusFacts
       DEF Rows, Statuses, SameTasks, Exists, SetStatus
  <2>5. /\ Ancestors[t] \in Seq(Task)
        /\ \A i \in 1..Len(Ancestors[t]) : Exists(s, Ancestors[t][i])
    <3>1. ParentsExist(s) /\ Exists(s, t)
      BY <1>1, <2>4, SameParents DEF SameTasks
    <3>2. QED
      BY <3>1, AncestorsExist
  <2>6. t \in stored \/ status \in MemoryOnly
    BY <2>1, <2>3 DEF StoredOrNot, MemoryOnly
  <2>7. \A u \in Task : \/ s[u] = task[u] \/ u \in stored
                        \/ s[u] \in MemoryOnly /\ Exists(task, u)
    BY <1>1, <2>2, <2>4, <2>6 DEF Rows, Statuses
  <2>8. RollUp(s, deleg, Ancestors[t], stored)
    BY <2>1, <2>2, <2>3
  <2>9. Rows' /\ SameTasks(task, task')
    BY <1>1, <2>4, <2>5, <2>7, <2>8, RollUpRows
  <2>10. QED
    BY <1>2, <2>9
<1>7. ASSUME NEW t \in Task, Assign(t) PROVE TreeInv'
  <2>1. /\ Exists(task, t)
        /\ task' = [task EXCEPT ![t] = "assigned"]
        /\ row' = [row EXCEPT ![t] = "assigned"]
    BY <1>7 DEF Assign
  <2>2. "assigned" \in Status
    BY DEF Status, Active
  <2>3. Rows' /\ SameTasks(task, task')
    BY <1>1, <2>1, <2>2 DEF Rows, SameTasks, Statuses, Exists
  <2>4. QED
    BY <1>2, <2>3
<1>8. ASSUME NEW d \in Delegation, RollsUpFrom(d) PROVE TreeInv'
  <2>1. Exists(task, Of[d]) /\ RollUp(task, deleg', Lineage(Of[d]), {}) /\ Of[d] \in Task
    BY <1>8, ConfigType DEF RollsUpFrom
  <2>2. PICK q \in Seq(Task) : /\ q = Lineage(Of[d])
                               /\ \A i \in 1..Len(q) : Exists(task, q[i])
    BY <1>1, <2>1, LineExists
  <2>3. PICK D, none : D = deleg' /\ none = {}
    OBVIOUS
  <2>4. RollUp(task, D, q, none)
    BY <2>1, <2>2, <2>3
  <2>5. Rows' /\ SameTasks(task, task')
    <3>1. task \in Statuses /\ SameTasks(task, task)
      BY <1>1 DEF Rows, SameTasks
    <3>2. QED
      BY <1>1, <2>2, <2>4, <3>1, RollUpRows
  <2>6. QED
    BY <1>2, <2>5
<1>9. CASE Sweep
  <2>1. PICK gone \in Seq(Delegation) :
          /\ \A d \in Delegation :
                d \in Doomed <=> \E k \in 1..Len(gone) : gone[k] = d
          /\ Settles(task, Fallen(gone), {})
    BY <1>9, SweepRejects
  <2>2. ASSUME NEW i \in 1..Len(gone) PROVE Exists(task, Of[gone[i]])
    <3>1. gone[i] \in Delegation /\ gone[i] \in Doomed
      BY <2>1
    <3>2. deleg[gone[i]].state \in Open
      BY <3>1 DEF Doomed, Rejects, Late
    <3>3. QED
      BY <1>1, <3>1, <3>2 DEF Concern, Open
  <2>3. PICK after : AreFalls(after, gone)
    BY <1>1, <2>2, SweepHasFalls
  <2>4. PICK r : r = Fallen(gone)
    OBVIOUS
  <2>5. r \in Statuses /\ SameTasks(task, r)
    <3>1. Len(gone) \in 0..Len(gone)
      BY <2>1
    <3>2. QED
      BY <2>3, <2>4, <3>1 DEF AreFalls
  <2>6. PICK none : none = {}
    OBVIOUS
  <2>7. task \in Statuses /\ Settles(task, r, none)
    BY <1>1, <2>1, <2>4, <2>6 DEF Rows
  <2>8. Rows' /\ task' = r
    BY <1>1, <2>5, <2>7, SettlesRows
  <2>9. QED
    BY <1>2, <2>5, <2>8
<1>10. QED
  BY <1>1, <1>3, <1>4, <1>5, <1>6, <1>7, <1>8, <1>9, TaskSteps

LEMMA InitTree == Init => TreeInv
<1> SUFFICES ASSUME Init PROVE TreeInv
  OBVIOUS
<1>1. PICK b \in Beginnings :
        /\ task = [t \in Task |-> IF t \notin b.born THEN "none"
                                 ELSE IF \E c \in b.born \ {Root} : Parent[c] = t
                                 THEN "in_progress" ELSE "pending"]
        /\ deleg = [d \in Delegation |-> [NoDelegation EXCEPT !.state = b.states[d]]]
  BY DEF Init
<1>2. row = task
  BY DEF Init
<1>3. /\ Root \in b.born /\ Root \in Task
      /\ \A t \in b.born \ {Root} : t \in Task /\ Parent[t] \in b.born
      /\ \A d \in Delegation : b.states[d] # "none" =>
            {Of[d], ChildOf[d]} \subseteq b.born \union {NoTask}
      /\ \A d \in Delegation : Of[d] \in Task /\ ChildOf[d] \in Task \union {NoTask}
      /\ NoTask \notin Task
  BY ConfigType
<1>4. {"pending", "in_progress"} \subseteq Status
  BY DEF Status, Active
<1>5. task \in Statuses
  BY <1>1, <1>4 DEF Statuses
<1>6. \A t \in Task : Exists(task, t) <=> t \in b.born
  BY <1>1 DEF Exists
<1>7. Rows
  BY <1>2, <1>5 DEF Rows, SameTasks
<1>8. ParentsExist(task)
  <2>1. ASSUME NEW t \in Task \ {Root}, Exists(task, t) PROVE Exists(task, Parent[t])
    BY <2>1, <1>3, <1>6, NoTaskIsItsParent
  <2>2. QED
    BY <2>1, <1>3, <1>6 DEF ParentsExist
<1>9. Concern(deleg, task)
  <2>1. \A d \in Delegation : deleg[d].state = b.states[d]
    BY <1>1 DEF NoDelegation
  <2>2. QED
    BY <1>3, <1>6, <2>1 DEF Concern
<1>10. QED
  BY <1>7, <1>8, <1>9 DEF TreeInv

-----------------------------------------------------------------------------
(* Types.                                                                  *)

Counters ==
    /\ policy \in Policies
    /\ forgot \subseteq Token
    /\ ops \in 0..MaxOps /\ restarts \in 0..MaxRestarts

LEMMA InitCounters == Init => Counters
BY ConfigType DEF Init, Counters

LEMMA NextCounters == Counters /\ TokenInv /\ [Next]_vars => Counters'
<1> SUFFICES ASSUME Counters, TokenInv, [Next]_vars PROVE Counters'
  OBVIOUS
<1>1. MaxOps \in Nat /\ MaxRestarts \in Nat
  BY ConfigType
<1>2. ops' = ops \/ Request => ops' \in 0..MaxOps
  BY <1>1 DEF Counters, Request
<1>3. restarts' = restarts \/ (restarts < MaxRestarts /\ restarts' = restarts + 1)
        => restarts' \in 0..MaxRestarts
  BY <1>1 DEF Counters
<1>4. forgot' \subseteq Token
  <2>1. ToSet(ledger.used) \subseteq Token /\ ToSet(ledger.revoked) \subseteq Token
    BY DEF TokenInv, Tokens!Ledger, ToSet
  <2>2. CASE LedgerUnchanged
    BY <2>2 DEF LedgerUnchanged, Counters
  <2>3. ASSUME NEW t \in Token, Spends(t) \/ Revoke(t) PROVE forgot' \subseteq Token
    BY <2>1, <2>3 DEF Spends, Revoke, Counters
  <2>4. QED
    BY <2>2, <2>3, LedgerSteps
<1>5. ASSUME NEW s, NEW r, NEW stored, Settles(s, r, stored)
      PROVE  restarts' = restarts
  BY <1>5 DEF Settles
<1>6. ASSUME NEW s, NEW D, NEW q, NEW stored, RollUp(s, D, q, stored)
      PROVE  restarts' = restarts \/ (restarts < MaxRestarts /\ restarts' = restarts + 1)
  BY <1>6 DEF RollUp, Settles, DiesMidway
<1>7. CASE UNCHANGED vars
  BY <1>2, <1>3, <1>4, <1>7 DEF vars, Counters
<1>8. ASSUME NEW t \in Task, NEW s \in Status, CreateSubtask(t, s)
      PROVE  Counters'
  BY <1>2, <1>3, <1>4, <1>5, <1>8 DEF CreateSubtask, Counters
<1>9. ASSUME NEW t \in Task, NEW s \in Status, SetStatus(t, s)
      PROVE  Counters'
  BY <1>2, <1>3, <1>4, <1>6, <1>9 DEF SetStatus, Counters
<1>10. ASSUME NEW t \in Task, Assign(t) PROVE Counters'
  BY <1>2, <1>3, <1>4, <1>10 DEF Assign, Counters
<1>11. ASSUME NEW d \in Delegation, Propose(d) PROVE Counters'
  BY <1>2, <1>3, <1>4, <1>6, <1>11 DEF Propose, Counters
<1>12. ASSUME NEW d \in Delegation, Overdue(d) \/ Idles(d) PROVE Counters'
  BY <1>2, <1>3, <1>4, <1>12 DEF Overdue, Idles, Counters
<1>13. ASSUME NEW d \in Delegation, NEW next \in State, Transition(d, next)
      PROVE  Counters'
  BY <1>2, <1>3, <1>4, <1>6, <1>13 DEF Transition, Moves, Counters
<1>14. ASSUME NEW d \in Delegation, NEW next \in State, NEW t \in Token,
             TransitionWith(d, next, t)
      PROVE  Counters'
  <2>1. restarts' = restarts \/ (restarts < MaxRestarts /\ restarts' = restarts + 1)
    BY <1>6, <1>14 DEF TransitionWith, Moves
  <2>2. QED
    BY <1>2, <1>3, <1>4, <1>14, <2>1 DEF TransitionWith, Counters
<1>15. ASSUME NEW t \in Token, SpendElsewhere(t) \/ Revoke(t) PROVE Counters'
  BY <1>2, <1>3, <1>4, <1>15 DEF SpendElsewhere, Revoke, Counters
<1>16. ASSUME NEW p \in Policies, SetPolicy(p) PROVE Counters'
  BY <1>2, <1>3, <1>4, <1>16 DEF SetPolicy, Counters
<1>17. CASE Sweep
  BY <1>2, <1>3, <1>4, <1>5, <1>17 DEF Sweep, Counters
<1>18. CASE Restart
  BY <1>2, <1>3, <1>4, <1>18 DEF Restart, Counters
<1>19. QED
  BY <1>7, <1>8, <1>9, <1>10, <1>11, <1>12, <1>13, <1>14, <1>15, <1>16, <1>17, <1>18
     DEF Next

DelegationInv == TokenInv /\ DelegType /\ InOrder /\ TreeInv /\ Counters

LEMMA InitDelegations == Init => DelegationInv
BY InitTokens, InitDelegType, InitInOrder, InitTree, InitCounters DEF DelegationInv

LEMMA NextDelegations == DelegationInv /\ [Next]_vars => DelegationInv'
BY NextTokens, NextDelegType, NextInOrder, NextTree, NextCounters DEF DelegationInv

(* Types, and what the database may lack: the row of a task differs from   *)
(* the status in memory only after a handler that does not persist it      *)
(* (TaskManager.cancelTask, dropTask, requestRollback, applyRollback), in  *)
(* every tree, with any roll-ups and a death between any two rows.         *)
THEOREM TypeCorrect == Spec => []TypeOK
<1>1. DelegationInv => TypeOK
  BY DEF DelegationInv, TokenInv, DelegType, Known, InOrder, TreeInv, Rows, Statuses,
         Counters, TypeOK
<1>2. QED
  BY <1>1, InitDelegations, NextDelegations, PTL DEF Spec

-----------------------------------------------------------------------------
(* A task parts from its parts only for a reason that has a name.          *)

LEMMA AgreesHere == \A t : Agrees(t) <=> AgreesIn(task, deleg, t)
BY DEF Agrees, AgreesIn

\* The delegation that the task itself came from moved on.
OwnMoves(t) == \E d \in Delegation : ChildOf[d] = t /\ deleg'[d].state # deleg[d].state

\* Only Propose, Transition, TransitionWith and the timer's rejections move
\* a delegation, and one at a time but for the timer.
OnlyMoves(d) == \A e \in Delegation \ {d} : deleg'[e].state = deleg[e].state

\* A roll-up along a line leaves in agreement what agreed, however its rows
\* are stored, unless the process dies.
LEMMA RollUpDrift ==
    ASSUME NEW s \in Statuses, NEW D, NEW x \in Task, NEW stored,
           RollUp(s, D, Lineage(x), stored), restarts' = restarts,
           restarts \in Nat,
           NEW u \in Task, u = x \/ AgreesIn(s, D, u)
    PROVE  AgreesIn(task', D, u)
<1>1. task' = RolledUp(s, D, Lineage(x))
  BY DEF RollUp, Settles, DiesMidway
<1>2. QED
  BY <1>1, RollUpAgrees

\* The delegations of another task do not count.
LEMMA MoveDrift ==
    ASSUME DelegationInv, NEW d \in Delegation, OnlyMoves(d), RollsUpFrom(d),
           restarts' = restarts, NEW u \in Task, Agrees(u), ~OwnMoves(u)
    PROVE  Agrees(u)'
<1>1. PICK D : D = deleg'
  OBVIOUS
<1>2. task \in Statuses /\ Of[d] \in Task /\ restarts \in Nat
  BY ConfigType DEF DelegationInv, TreeInv, Rows, Counters
<1>3. u = Of[d] \/ AgreesIn(task, D, u)
  <2>1. CASE u # Of[d]
    <3>1. \A e \in Delegation : u \in {Of[e], ChildOf[e]} => deleg[e].state = D[e].state
      BY <1>1, <2>1 DEF OnlyMoves, OwnMoves
    <3>2. QED
      BY <3>1, AgreesHere, LookAlike
  <2>2. QED
    BY <2>1
<1>4. PICK none : none = {}
  OBVIOUS
<1>5. RollUp(task, D, Lineage(Of[d]), none)
  BY <1>1, <1>4 DEF RollsUpFrom
<1>6. AgreesIn(task', D, u)
  BY <1>2, <1>3, <1>5, RollUpDrift
<1>7. QED
  BY <1>1, <1>6 DEF Agrees, AgreesIn

\* The subtask that is created, and its line, agree.
LEMMA CreateDrift ==
    ASSUME DelegationInv, NEW t \in Task, NEW status \in Status,
           CreateSubtask(t, status), NEW u \in Task, Agrees(u)
    PROVE  Agrees(u)'
<1>1. PICK s : s = [task EXCEPT ![t] = status]
  OBVIOUS
<1>2. /\ s \in Statuses /\ t # Root /\ Parent[t] \in Task
      /\ Settles(s, RolledUp(s, deleg, Lineage(Parent[t])), {t, Parent[t]})
  BY <1>1, CreatedSubtask DEF DelegationInv
<1>3. /\ task \in Statuses /\ ~Exists(task, t) /\ UNCHANGED deleg
      /\ ParentsExist(task) /\ Concern(deleg, task)
  BY DEF CreateSubtask, DelegationInv, TreeInv, Rows
<1>4. u = Parent[t] \/ AgreesIn(s, deleg, u)
  <2>1. CASE u = t
    <3>1. Kids(s, t) = {}
      <4>1. ASSUME NEW c \in Task \ {Root}, Parent[c] = t, Exists(s, c) PROVE FALSE
        <5>1. c # t
          BY <4>1, NoTaskIsItsParent
        <5>2. Exists(task, c)
          BY <1>1, <1>3, <4>1, <5>1 DEF Exists, Statuses
        <5>3. QED
          BY <1>3, <4>1, <5>2 DEF ParentsExist
      <4>2. QED
        BY <4>1 DEF Kids, Children
    <3>2. Dels(deleg, t) = {}
      <4>1. \A d \in Delegation : t \in {Of[d], ChildOf[d]} => deleg[d].state = "none"
        BY <1>3, ConfigType DEF Concern
      <4>2. QED
        BY <4>1 DEF Dels, About
    <3>3. Call({}, {}, s[t]) = s[t]
      BY DEF Call
    <3>4. s[t] = Desired(s, deleg, t)
      BY <3>1, <3>2, <3>3, DesiredIsCall
    <3>5. QED
      BY <2>1, <3>4 DEF AgreesIn
  <2>2. CASE u # t /\ u # Parent[t]
    <3>1. /\ s[u] = task[u]
          /\ \A c \in Task \ {Root} : Parent[c] = u => s[c] = task[c]
      BY <1>1, <1>3, <2>2 DEF Statuses
    <3>2. QED
      BY <3>1, AgreesHere, LookAlike
  <2>3. QED
    BY <2>1, <2>2
<1>5. PICK x \in Task : x = Parent[t]
  BY <1>2
<1>6. AgreesIn(RolledUp(s, deleg, Lineage(x)), deleg, u)
  BY <1>2, <1>4, <1>5, RollUpAgrees
<1>7. task' = RolledUp(s, deleg, Lineage(x))
  BY <1>2, <1>5 DEF Settles
<1>8. QED
  BY <1>3, <1>6, <1>7 DEF Agrees, AgreesIn

\* So does the line of a task whose status is set.
LEMMA SetDrift ==
    ASSUME DelegationInv, NEW t \in Task, NEW status \in Status,
           SetStatus(t, status), restarts' = restarts,
           NEW u \in Task, Agrees(u), u # t
    PROVE  Agrees(u)'
<1>1. PICK s : s = [task EXCEPT ![t] = status]
  OBVIOUS
<1>2. PICK stored : RollUp(s, deleg, Ancestors[t], stored)
  BY <1>1 DEF SetStatus
<1>3. /\ task \in Statuses /\ UNCHANGED deleg /\ restarts \in Nat
      /\ ParentsExist(task) /\ Exists(task, t)
  BY ConfigType DEF SetStatus, DelegationInv, TreeInv, Rows, Counters
<1>4. s \in Statuses
  BY <1>1, <1>3 DEF Statuses
<1>5. s[u] = task[u]
  BY <1>1, <1>3 DEF Statuses
<1>6. CASE t = Root
  <2>1. Ancestors[t] = <<>>
    BY <1>6, AncestorsOf
  <2> DEFINE none == <<>>
  <2>2. none \in Seq(Task) /\ Len(none) = 0 /\ none = Ancestors[t]
    BY <2>1
  <2> HIDE DEF none
  <2>3. RollUp(s, deleg, none, stored)
    BY <1>2, <2>1, <2>2
  <2>4. task' = RolledUp(s, deleg, none)
    BY <1>3, <2>3 DEF RollUp, Settles, DiesMidway
  <2>5. PICK after : AreSteps(after, s, deleg, none)
    BY <1>4, <2>2, RollUpHasSteps
  <2>6. RolledUp(s, deleg, none) = s
    BY <2>2, <2>5 DEF AreSteps
  <2>7. \A c \in Task \ {Root} : Parent[c] = u => s[c] = task[c]
    BY <1>1, <1>3, <1>6 DEF Statuses
  <2>8. AgreesIn(s, deleg, u)
    BY <1>5, <2>7, AgreesHere, LookAlike
  <2>9. QED
    BY <1>3, <2>4, <2>6, <2>8 DEF Agrees, AgreesIn
<1>7. CASE t # Root
  <2>1. PICK x \in Task : x = Parent[t] /\ Ancestors[t] = Lineage(x)
    BY <1>3, <1>7, AncestorsExist, ConfigType
  <2>2. u = x \/ AgreesIn(s, deleg, u)
    <3>1. CASE u # x
      <4>1. \A c \in Task \ {Root} : Parent[c] = u => s[c] = task[c]
        BY <1>1, <1>3, <2>1, <3>1 DEF Statuses
      <4>2. QED
        BY <1>5, <4>1, AgreesHere, LookAlike
    <3>2. QED
      BY <3>1
  <2>3. RollUp(s, deleg, Lineage(x), stored)
    BY <1>2, <2>1
  <2>4. AgreesIn(task', deleg, u)
    BY <1>3, <1>4, <2>2, <2>3, RollUpDrift
  <2>5. QED
    BY <1>3, <2>4 DEF Agrees, AgreesIn
<1>8. QED
  BY <1>6, <1>7

\* Assigning a task leaves the others alone, unless they are its parent.
LEMMA AssignDrift ==
    ASSUME DelegationInv, NEW t \in Task, Assign(t),
           NEW u \in Task, Agrees(u), u # t, t \notin Children(task, u)
    PROVE  Agrees(u)'
<1>1. /\ task \in Statuses /\ UNCHANGED deleg /\ Exists(task, t)
      /\ task' = [task EXCEPT ![t] = "assigned"]
  BY DEF Assign, DelegationInv, TreeInv, Rows
<1>2. PICK s : s = task'
  OBVIOUS
<1>3. /\ s[u] = task[u]
      /\ \A c \in Task \ {Root} : Parent[c] = u => s[c] = task[c]
  BY <1>1, <1>2 DEF Statuses, Children
<1>4. AgreesIn(s, deleg, u)
  BY <1>3, AgreesHere, LookAlike
<1>5. QED
  BY <1>1, <1>2, <1>4 DEF Agrees, AgreesIn

\* The sweep changes the states of those it rejects, and no others.
LEMMA SweptStates ==
    ASSUME DelegType, Sweep, NEW e \in Delegation
    PROVE  /\ e \in Doomed => deleg'[e].state = "rejected" /\ deleg[e].state \in Open
           /\ e \notin Doomed => deleg'[e].state = deleg[e].state
<1>1. deleg'[e] = IF e \in Window /\ Due(e) THEN Swept(e) ELSE deleg[e]
  BY DEF Sweep, Touched
<1>2. CASE e \in Doomed
  <2>1. e \in Window /\ Due(e) /\ Rejects(e) /\ ~Notes(e) /\ ~Nudges(e)
    BY <1>2 DEF Doomed, Rejects, Notes, Nudges
  <2>2. Swept(e) = Moved(deleg[e], "rejected")
    BY <2>1 DEF Swept
  <2>3. Moved(deleg[e], "rejected").state = "rejected"
    BY MovedType DEF DelegType, State
  <2>4. QED
    BY <1>1, <1>2, <2>1, <2>2, <2>3 DEF Rejects, Late
<1>3. CASE e \notin Doomed
  <2>1. e \in Window /\ Due(e) => ~Rejects(e)
    BY <1>3 DEF Doomed
  <2>2. ~Rejects(e) => Swept(e).state = deleg[e].state
    BY DEF Swept, DelegType, Known
  <2>3. QED
    BY <1>1, <1>3, <2>1, <2>2
<1>4. QED
  BY <1>2, <1>3

LEMMA SweepDrift ==
    ASSUME DelegationInv, Sweep, NEW u \in Task, Agrees(u), ~OwnMoves(u)
    PROVE  Agrees(u)'
<1>1. /\ DelegType /\ InOrder /\ Rows /\ ParentsExist(task) /\ Concern(deleg, task)
  BY DEF DelegationInv, TreeInv
<1>2. PICK gone \in Seq(Delegation) :
        /\ \A d \in Delegation :
              d \in Doomed <=> \E k \in 1..Len(gone) : gone[k] = d
        /\ Settles(task, Fallen(gone), {})
  BY <1>1, SweepRejects
<1> DEFINE n == Len(gone)
<1>3. n \in Nat /\ \A i \in 1..n : gone[i] \in Delegation /\ gone[i] \in Doomed
  BY <1>2
<1>4. \A i \in 1..n : Exists(task, Of[gone[i]]) /\ Of[gone[i]] \in Task
  BY <1>1, <1>3, SweptStates, ConfigType DEF Concern, Open
<1>5. PICK after : AreFalls(after, gone)
  BY <1>1, <1>4, SweepHasFalls
<1>6. ASSUME NEW i \in Nat, NEW e \in Delegation
      PROVE  Rejected(gone, i)[e].state = IF \E k \in 1..i : gone[k] = e
                                          THEN "rejected" ELSE deleg[e].state
  <2>1. Moved(deleg[e], "rejected").state = "rejected"
    BY <1>1, MovedType DEF DelegType, State
  <2>2. QED
    BY <2>1 DEF Rejected
<1> DEFINE S == {i \in 0..n : AgreesIn(after[i], Rejected(gone, i), u)}
<1>7. 0 \in S
  <2>1. after[0] = task
    BY <1>5 DEF AreFalls
  <2>2. PICK D : D = Rejected(gone, 0)
    OBVIOUS
  <2>3. \A e \in Delegation : deleg[e].state = D[e].state
    BY <1>6, <2>2
  <2>4. AgreesIn(task, D, u)
    BY <2>3, AgreesHere, LookAlike
  <2>5. QED
    BY <1>3, <2>1, <2>2, <2>4
<1>8. ASSUME NEW i \in 0..(n - 1), i \in S PROVE i + 1 \in S
  <2>1. i \in Nat /\ i + 1 \in Nat /\ i \in 0..n /\ i + 1 \in 1..n /\ (i + 1) - 1 = i
    BY <1>3
  <2>2. PICK d \in Delegation : d = gone[i + 1] /\ d \in Doomed
    BY <2>1, <1>3
  <2>3. PICK x \in Task : x = Of[d]
    BY ConfigType
  <2>4. PICK b \in Statuses : b = after[i]
    BY <2>1, <1>5 DEF AreFalls
  <2>5. PICK D, E : D = Rejected(gone, i) /\ E = Rejected(gone, i + 1)
    OBVIOUS
  <2>6. AgreesIn(b, D, u)
    BY <1>8, <2>4, <2>5
  <2>7. u = x \/ AgreesIn(b, E, u)
    <3>1. CASE u # x
      <4>1. ChildOf[d] # u
        <5>1. deleg'[d].state # deleg[d].state
          BY <1>1, <2>2, SweptStates DEF Open
        <5>2. QED
          BY <5>1 DEF OwnMoves
      <4>2. ASSUME NEW e \in Delegation, u \in {Of[e], ChildOf[e]}
            PROVE  D[e].state = E[e].state
        <5>1. e # d
          BY <3>1, <4>1, <4>2, <2>3
        <5>2. (\E k \in 1..i : gone[k] = e) <=> (\E k \in 1..(i + 1) : gone[k] = e)
          <6>1. ASSUME NEW k \in 1..(i + 1), gone[k] = e PROVE k \in 1..i
            <7>1. k # i + 1
              BY <5>1, <6>1, <2>2
            <7>2. QED
              BY <7>1, <2>1
          <6>2. \A k \in 1..i : k \in 1..(i + 1)
            BY <2>1
          <6>3. QED
            BY <6>1, <6>2
        <5>3. QED
          <6>1. D[e].state = IF \E k \in 1..i : gone[k] = e
                             THEN "rejected" ELSE deleg[e].state
            BY <1>6, <2>1, <2>5
          <6>2. E[e].state = IF \E k \in 1..(i + 1) : gone[k] = e
                             THEN "rejected" ELSE deleg[e].state
            BY <1>6, <2>1, <2>5
          <6>3. QED
            BY <5>2, <6>1, <6>2
      <4>3. QED
        BY <2>6, <4>2, LookAlike
    <3>2. QED
      BY <3>1
  <2>8. AgreesIn(RolledUp(b, E, Lineage(x)), E, u)
    BY <2>7, RollUpAgrees
  <2>9. after[i + 1] = RolledUp(b, E, Lineage(x))
    BY <2>1, <2>2, <2>3, <2>4, <2>5, <1>5 DEF AreFalls
  <2>10. QED
    BY <2>1, <2>5, <2>8, <2>9
<1>9. n \in S
  <2> HIDE DEF S
  <2>1. n \in 0..n
    BY <1>3
  <2>2. QED
    BY <1>3, <1>7, <1>8, <2>1, Induct
<1>10. PICK r, D : r = Fallen(gone) /\ D = Rejected(gone, n) /\ AgreesIn(r, D, u)
  BY <1>5, <1>9 DEF AreFalls
<1>11. task' = r
  BY <1>2, <1>10 DEF Settles
<1>12. PICK E : E = deleg'
  OBVIOUS
<1>13. \A e \in Delegation : D[e].state = E[e].state
  <2>1. TAKE e \in Delegation
  <2>2. D[e].state = IF e \in Doomed THEN "rejected" ELSE deleg[e].state
    BY <1>2, <1>3, <1>6, <1>10
  <2>3. QED
    BY <1>1, <1>12, <2>2, SweptStates
<1>14. AgreesIn(r, E, u)
  BY <1>10, <1>13, LookAlike
<1>15. QED
  BY <1>11, <1>12, <1>14 DEF Agrees, AgreesIn

\* Moving a delegation is no other's business.
LEMMA MovesOnly ==
    ASSUME DelegType, NEW d \in Delegation, NEW D, NEW S,
           Touched([deleg EXCEPT ![d] = D], S)
    PROVE  OnlyMoves(d)
BY DEF Touched, OnlyMoves, DelegType

LEMMA DriftStep ==
    ASSUME DelegationInv, [Next]_vars, restarts' = restarts,
           NEW u \in Task, Agrees(u), ~OwnMoves(u),
           \A s \in Status : ~SetStatus(u, s),
           ~Assign(u), \A c \in Children(task, u) : ~Assign(c)
    PROVE  Agrees(u)'
<1>1. DelegType /\ Concern(deleg, task) /\ restarts \in Nat
  BY ConfigType DEF DelegationInv, TreeInv, Counters
<1>2. CASE UNCHANGED <<task, deleg>>
  BY <1>2 DEF Agrees, Desired, Children, About, Exists
<1>3. CASE UNCHANGED vars
  BY <1>2, <1>3 DEF vars
<1>4. ASSUME NEW t \in Task, NEW s \in Status, CreateSubtask(t, s) \/ SetStatus(t, s)
      PROVE  Agrees(u)'
  BY <1>4, CreateDrift, SetDrift
<1>5. ASSUME NEW t \in Task, Assign(t) PROVE Agrees(u)'
  BY <1>5, AssignDrift
<1>6. ASSUME NEW d \in Delegation, Propose(d) PROVE Agrees(u)'
  <2>1. OnlyMoves(d) /\ RollsUpFrom(d)
    BY <1>1, <1>6, MovesOnly DEF Propose, RollsUpFrom, Touched
  <2>2. QED
    BY <2>1, MoveDrift
<1>7. ASSUME NEW d \in Delegation, Overdue(d) \/ Idles(d) PROVE Agrees(u)'
  <2>1. UNCHANGED task /\ \A e \in Delegation : deleg'[e].state = deleg[e].state
    BY <1>1, <1>7 DEF Overdue, Idles, DelegType, Known
  <2>2. PICK E : E = deleg'
    OBVIOUS
  <2>3. AgreesIn(task, E, u)
    BY <2>1, <2>2, AgreesHere, LookAlike
  <2>4. QED
    BY <2>1, <2>2, <2>3 DEF Agrees, AgreesIn
<1>8. ASSUME NEW d \in Delegation, NEW next \in State, Moves(d, next),
             next \in Allowed(deleg[d].state)
      PROVE  Agrees(u)'
  <2>1. OnlyMoves(d)
    BY <1>1, <1>8, MovesOnly DEF Moves
  <2>2. RollsUpFrom(d)
    BY <1>1, <1>8, AllowedMoves DEF Moves, Touched, RollsUpFrom, Concern, Open
  <2>3. QED
    BY <2>1, <2>2, MoveDrift
<1>9. ASSUME NEW d \in Delegation, NEW next \in State, Transition(d, next)
      PROVE  Agrees(u)'
  BY <1>8, <1>9 DEF Transition
<1>10. ASSUME NEW d \in Delegation, NEW next \in State, NEW t \in Token,
              TransitionWith(d, next, t)
      PROVE  Agrees(u)'
  <2>1. \/ Moves(d, next) /\ next \in Allowed(deleg[d].state)
        \/ UNCHANGED <<task, deleg>>
    BY <1>1, <1>10 DEF TransitionWith
  <2>2. QED
    BY <1>2, <1>8, <2>1
<1>11. ASSUME NEW t \in Token, SpendElsewhere(t) \/ Revoke(t) PROVE Agrees(u)'
  BY <1>2, <1>11 DEF SpendElsewhere, Revoke
<1>12. ASSUME NEW p \in Policies, SetPolicy(p) PROVE Agrees(u)'
  BY <1>2, <1>12 DEF SetPolicy
<1>13. CASE Sweep
  BY <1>13, SweepDrift
<1>14. CASE Restart
  BY <1>1, <1>14 DEF Restart
<1>15. QED
  BY <1>3, <1>4, <1>5, <1>6, <1>7, <1>9, <1>10, <1>11, <1>12, <1>13, <1>14 DEF Next

(* The status of a task follows from its subtasks and delegations, up the  *)
(* whole tree, and parts from them only when somebody sets it or assigns   *)
(* it or a subtask, when the delegation it came from moves, or when the    *)
(* process dies: the roll-up that follows every change of a task           *)
(* (rollupParentTaskStatus) misses no other case, in a tree of any size.   *)
THEOREM DriftAlwaysHasAName == Spec => DriftHasAName
<1>1. DelegationInv /\ [Next]_vars =>
        [\A t \in Task :
           Agrees(t) /\ ~Agrees(t)' =>
              \/ \E s \in Status : SetStatus(t, s)
              \/ Assign(t) \/ \E c \in Children(task, t) : Assign(c)
              \/ \E d \in Delegation : /\ ChildOf[d] = t
                                       /\ deleg'[d].state # deleg[d].state
              \/ restarts' # restarts]_vars
  BY DriftStep DEF OwnMoves
<1>2. QED
  BY <1>1, InitDelegations, NextDelegations, PTL DEF Spec, DriftHasAName

-----------------------------------------------------------------------------
(* What a token buys.                                                      *)

\* A token that is consumed is new to the ledger: it was never consumed nor
\* revoked, or the ledger has dropped a record of it.
LEMMA OnceOnly ==
    ASSUME TokenInv, [Next]_vars, NEW t \in Token, spent'[t] # spent[t]
    PROVE  t \in forgot \/ (spent[t] = 0 /\ t \notin withdrawn)
<1>1. PICK u \in Token : Spends(u)
  BY LedgerSteps DEF LedgerUnchanged, Revoke
<1>2. u = t
  BY <1>1 DEF Spends, TokenInv
<1>3. t \notin ToSet(ledger.used) /\ t \notin ToSet(ledger.revoked)
  <2>1. Tokens!Usable(ledger, t)
    BY <1>1, <1>2 DEF Spends
  <2>2. QED
    BY <2>1 DEF Tokens!Usable, Tokens!IsUsed, Tokens!IsRevoked, Tokens!ToSet, ToSet
<1>4. QED
  BY <1>3 DEF TokenInv

\* A delegation takes a step that needs an approval only while a token is
\* consumed, by the timer's own rejection, or by being proposed.
LEMMA StepsArePaid ==
    ASSUME TokenInv, DelegType, [Next]_vars, NEW d \in Delegation,
           deleg[d].state \notin {"none", deleg'[d].state},
           Gated(d, deleg'[d].state),
           ~(Rejects(d) /\ deleg'[d].state = "rejected")
    PROVE  \E t \in Token : spent'[t] # spent[t]
<1>1. ASSUME NEW t \in Token, Spends(t) PROVE spent'[t] # spent[t]
  BY <1>1 DEF Spends, TokenInv
<1>2. ASSUME UNCHANGED deleg PROVE FALSE
  BY <1>2
<1>3. ASSUME NEW e \in Delegation, Propose(e) PROVE FALSE
  BY <1>3 DEF Propose, Touched, NoDelegation, Proposed, DelegType
<1>4. ASSUME NEW e \in Delegation, NEW next \in State, Transition(e, next)
      PROVE  FALSE
  <2>1. /\ deleg' = [deleg EXCEPT ![e] = Moved(deleg[e], next)]
        /\ ~Gated(e, next)
    BY <1>4 DEF Transition, Moves, Touched
  <2>2. Moved(deleg[e], next).state = next
    BY MovedType DEF DelegType
  <2>3. QED
    BY <2>1, <2>2 DEF DelegType
<1>5. ASSUME NEW e \in Delegation, Overdue(e) \/ Idles(e) PROVE FALSE
  BY <1>5 DEF Overdue, Idles, DelegType, Known
<1>6. CASE Sweep
  <2>1. \/ deleg'[d] = deleg[d]
        \/ Due(d) /\ deleg'[d] = Swept(d)
    BY <1>6 DEF Sweep, Touched
  <2>2. CASE Rejects(d)
    <3>1. Swept(d) = Moved(deleg[d], "rejected")
      <4>1. ~Notes(d) /\ ~Nudges(d)
        BY <2>2 DEF Rejects, Notes, Nudges
      <4>2. QED
        BY <2>2, <4>1 DEF Swept
    <3>2. Swept(d).state = "rejected"
      BY <3>1, MovedType DEF DelegType, State
    <3>3. QED
      BY <2>1, <2>2, <3>2
  <2>3. CASE ~Rejects(d)
    BY <2>1, <2>3 DEF Swept, DelegType, Known
  <2>4. QED
    BY <2>2, <2>3
<1>7. ASSUME NEW e \in Delegation, NEW next \in State, NEW t \in Token,
             TransitionWith(e, next, t)
      PROVE  Spends(t)
  BY <1>7 DEF TransitionWith
<1>8. QED
  BY <1>1, <1>2, <1>3, <1>4, <1>5, <1>6, <1>7, DelegationSteps

(* A step of a delegation that needs an approval costs a token, and a      *)
(* token that is consumed was never consumed or revoked before, unless the *)
(* ledger dropped a record of it: ApprovalTokenLedger and the routes.      *)
THEOREM TokensAlwaysBuyOnce == Spec => TokensBuyOnce
<1>1. TokenInv /\ DelegType /\ [Next]_vars =>
        [/\ \A t \in Token :
               spent'[t] # spent[t] => t \in forgot \/ (spent[t] = 0 /\ t \notin withdrawn)
         /\ \A d \in Delegation :
               /\ deleg[d].state \notin {"none", deleg'[d].state}
               /\ Gated(d, deleg'[d].state)
               /\ ~(Rejects(d) /\ deleg'[d].state = "rejected")
               => \E t \in Token : spent'[t] # spent[t]]_vars
  BY OnceOnly, StepsArePaid
<1>2. QED
  BY <1>1, InitTokens, NextTokens, InitDelegType, NextDelegType, PTL
     DEF Spec, TokensBuyOnce

=============================================================================
