-------------------------- MODULE MCCircuitBreaker --------------------------
(***************************************************************************)
(* Four calls of one skill, and two test calls: enough for a call from     *)
(* before the circuit opened to end while a test is on, and for two tests  *)
(* to end differently.                                                     *)
(***************************************************************************)
EXTENDS CircuitBreaker

=============================================================================
