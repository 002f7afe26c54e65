--------------------------- MODULE MCDelegations -----------------------------
(***************************************************************************)
(* A root, its subtask, and a subtask of that.  d1 belongs to the root and *)
(* is of high risk; d2 hands the lowest task on and has a deadline.        *)
(***************************************************************************)
EXTENDS Delegations

CONSTANTS root, sub, leaf, d1, d2

MCParent  == [t \in {sub, leaf} |-> IF t = sub THEN root ELSE sub]
MCOf      == [d \in Delegation |-> IF d = d1 THEN root ELSE sub]
MCChildOf == [d \in Delegation |-> IF d = d1 THEN NoTask ELSE leaf]
MCRisk    == [d \in Delegation |-> IF d = d1 THEN "high" ELSE "low"]

\* A root on its own, and a whole tree with d2 nearly done.
MCBeginnings ==
    {[born |-> {root}, states |-> [d \in Delegation |-> "none"],
      order |-> <<>>],
     [born |-> Task,
      states |-> [d \in Delegation |-> IF d = d1 THEN "proposed" ELSE "accepted"],
      order |-> [d \in Delegation |-> IF d = d1 THEN 1 ELSE 2]]}

Gates == {<<"approved", "high">>, <<"dispatched", "medium">>, <<"dispatched", "high">>}

MCPolicies == {[gates |-> Gates, stalls |-> {"approved", "dispatched", "accepted"},
                overdue |-> o] : o \in {"escalate", "reject"}}

=============================================================================
