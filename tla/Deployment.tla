------------------------------ MODULE Deployment ------------------------------
(***************************************************************************)
(* The processes the alerting components run in, and the faults they share.*)
(***************************************************************************)
EXTENDS Integers

CONSTANTS
  Processes,    \* web servers and workers
  MaxFaults     \* bound on failed calls and restarts

ASSUME DeploymentAssumption == MaxFaults \in Nat

VARIABLE faults   \* faults so far

Fault == faults < MaxFaults /\ faults' = faults + 1
NoFault == UNCHANGED faults

=============================================================================
