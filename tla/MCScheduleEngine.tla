-------------------------- MODULE MCScheduleEngine --------------------------
(***************************************************************************)
(* Three deployments: two schedules on SQLite, of which one is edited; one *)
(* schedule on SQLite that is edited twice, by two tenants, and one on     *)
(* Postgres, both with a store that may throw.                             *)
(***************************************************************************)
EXTENDS ScheduleEngine

CONSTANTS s1, s2, system, acme

MCDeployments ==
    {[store |-> "sqlite",   schedules |-> {s1, s2}, tenants |-> {system},
      maxEdits |-> 1, maxFaults |-> 0],
     [store |-> "sqlite",   schedules |-> {s1},     tenants |-> {system, acme},
      maxEdits |-> 2, maxFaults |-> 1],
     [store |-> "postgres", schedules |-> {s1},     tenants |-> {system},
      maxEdits |-> 1, maxFaults |-> 1]}

\* One schedule on SQLite, for the run that refutes SkippedForARun.
MCSmallDeployment ==
    {[store |-> "sqlite", schedules |-> {s1}, tenants |-> {system},
      maxEdits |-> 0, maxFaults |-> 0]}

=============================================================================
