------------------------- MODULE MCIncidentResponse -------------------------
(***************************************************************************)
(* One incident with three severities, the lowest below the range of the   *)
(* pipeline, and a recipe of two actions.                                  *)
(***************************************************************************)
EXTENDS IncidentResponse

=============================================================================
