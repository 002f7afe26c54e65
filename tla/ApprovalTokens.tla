--------------------------- MODULE ApprovalTokens ----------------------------
(***************************************************************************)
(* ApprovalTokenLedger: which one-time approval tokens have been used and  *)
(* which are revoked.  The ledger is a file that every change rewrites, so *)
(* that file and memory are one record here; it keeps the newest           *)
(* MaxRecords entries of each kind, and what it no longer keeps it no      *)
(* longer knows.                                                           *)
(***************************************************************************)
EXTENDS Integers, Sequences, SequencesExt

CONSTANTS Token, MaxRecords

NoRecords == [used |-> <<>>, revoked |-> <<>>]

Ledger == [used : Seq(Token), revoked : Seq(Token)]

IsUsed(L, t)    == t \in ToSet(L.used)
IsRevoked(L, t) == t \in ToSet(L.revoked)

\* The newest MaxRecords records.
Newest(q) == IF Len(q) <= MaxRecords THEN q
             ELSE SubSeq(q, Len(q) - MaxRecords + 1, Len(q))

Trimmed(L) == [used |-> Newest(L.used), revoked |-> Newest(L.revoked)]

\* Faulty variant: a token that was used is good for another step.
UsableAgain(L, t) == ~IsRevoked(L, t)

Usable(L, t)   == ~IsUsed(L, t) /\ ~IsRevoked(L, t)
Consumed(L, t) == Trimmed([L EXCEPT !.used = Append(@, t)])
Revoked(L, t)  == IF IsRevoked(L, t) THEN L
                  ELSE Trimmed([L EXCEPT !.revoked = Append(@, t)])

=============================================================================
