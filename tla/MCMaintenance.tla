---------------------------- MODULE MCMaintenance ----------------------------
(***************************************************************************)
(* Jobs that run every minute or every other minute, on one server or on   *)
(* all of them.                                                            *)
(***************************************************************************)
EXTENDS Maintenance

CONSTANTS a, b

MCTargets == {{}, {a}}

=============================================================================
