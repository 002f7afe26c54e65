-------------------------- MODULE MCRunbookEngine ---------------------------
(***************************************************************************)
(* Three versions of a template.  v1 retries its first step, guards the    *)
(* second, and ends in an approval step that is sent back to the start     *)
(* when rejected; v2 replaces the guarded step and is longer; v3 is        *)
(* shorter, and names a step that does not exist.                          *)
(***************************************************************************)
EXTENDS RunbookEngine

CONSTANTS v1, v2, v3

Body(id, guarded, ok, bad) ==
    [id |-> id, kind |-> "body", guarded |-> guarded,
     onSuccess |-> ok, onFailure |-> bad]

Approval(id, ok, bad) ==
    [id |-> id, kind |-> "approval", guarded |-> FALSE,
     onSuccess |-> ok, onFailure |-> bad]

Looping == <<Body("s1", FALSE, "none", "s1"),
             Body("s2", TRUE, "none", "none"),
             Approval("s3", "none", "s1")>>
Longer  == <<Body("s1", FALSE, "none", "s3"),
             Body("x2", TRUE, "none", "end"),
             Body("s3", TRUE, "none", "s1"),
             Body("s4", FALSE, "end", "none")>>
Shorter == <<Body("s1", FALSE, "none", "gone"),
             Approval("s2", "s1", "end")>>

MCSteps == [v \in Version |-> CASE v = v1 -> Looping
                                [] v = v2 -> Longer
                                [] OTHER  -> Shorter]

=============================================================================
