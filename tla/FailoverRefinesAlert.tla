------------------------ MODULE FailoverRefinesAlert ------------------------
(***************************************************************************)
(* FailoverEvents keeps the promise of IncidentAlert: for any one event,   *)
(* Watched, the refinement mapping reads the alert's phase off             *)
(* processing_status, its tries off dispatch_attempt_count.                *)
(***************************************************************************)
EXTENDS FailoverEvents

CONSTANT Watched

ASSUME WatchedAssumption == Watched \in Events

Phase == [absent |-> "absent", received |-> "pending", queued |-> "pending",
          dispatching |-> "attempting", quarantined |-> "unknown",
          processed |-> "alerted", ignored |-> "dropped", failed |-> "dropped"]

Alert == INSTANCE IncidentAlert WITH
  phase <- Phase[status[Watched]], tries <- attempts[Watched],
  accepted <- acked[Watched], recorded <- log[Watched]

\* The rows, the workers and the SQL functions together implement the alert's
\* abstract life: no interleaving, crash or lost reply produces a step that the
\* specification of one alert does not allow.
ImplementsAlert == Alert!Spec

=============================================================================
