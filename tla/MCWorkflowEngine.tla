------------------------- MODULE MCWorkflowEngine --------------------------
(***************************************************************************)
(* One built-in template of three stages, and a custom one that is given   *)
(* two stages or one.                                                      *)
(***************************************************************************)
EXTENDS WorkflowEngine

CONSTANTS b1, c1

MCStageLists    == {<<"plan", "do", "check">>, <<"do">>}
MCBuiltInStages == [t \in {b1} |-> <<"plan", "do", "check">>]

=============================================================================
