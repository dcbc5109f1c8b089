---------------------------- MODULE OperatorAlerts ----------------------------
(***************************************************************************)
(* The alerts sent to the operators: one attempt on each of two channels,  *)
(* a webhook and a Telegram chat, and silence for 15 minutes about an      *)
(* incident that one of them took.  The silence is kept in the memory of   *)
(* each process.                                                           *)
(***************************************************************************)
EXTENDS Deployment

CONSTANTS
  OpsAlerts,      \* calls of dispatch_incident
  Fingerprints    \* what tells incidents apart: the fingerprint or alert_id

VARIABLES
  ops,            \* the calls: step, process, incident, taken by a channel
  opsQuiet        \* _INCIDENT_COOLDOWNS of each process: incidents silenced

opsVars == <<ops, opsQuiet>>

OpsSteps == {"new", "webhook", "telegram", "closing", "suppressed", "done", "lost"}

OpsInit ==
  /\ ops = [o \in OpsAlerts |->
              [step |-> "new", host |-> "none", incident |-> "none", dispatched |-> FALSE]]
  /\ opsQuiet = [p \in Processes |-> {}]

\* The check, up to the first await.
OpsDispatch(o, p, f) ==
  /\ ops[o].step = "new"
  /\ ops' = [ops EXCEPT ![o] =
       [step |-> IF f \in opsQuiet[p] THEN "suppressed" ELSE "webhook",
        host |-> p, incident |-> f, dispatched |-> FALSE]]
  /\ UNCHANGED opsQuiet

\* A channel takes the alert or does not; an error of a channel is swallowed.
OpsPost(o, taken) ==
  /\ \E step \in {<<"webhook", "telegram">>, <<"telegram", "closing">>} :
       /\ ops[o].step = step[1]
       /\ ops' = [ops EXCEPT ![o].step = step[2], ![o].dispatched = @ \/ taken]
  /\ UNCHANGED opsQuiet

OpsFinishAnyway(o) ==
  /\ ops[o].step = "closing"
  /\ ops' = [ops EXCEPT ![o].step = "done"]
  /\ opsQuiet' = [opsQuiet EXCEPT ![ops[o].host] = @ \cup {ops[o].incident}]
OpsFinish(o) ==
  /\ ops[o].step = "closing"
  /\ ops' = [ops EXCEPT ![o].step = "done"]
  /\ opsQuiet' = IF ops[o].dispatched
                 THEN [opsQuiet EXCEPT ![ops[o].host] = @ \cup {ops[o].incident}]
                 ELSE opsQuiet

\* COOLDOWN_WINDOW_SECONDS have passed.
OpsQuietEnds(p, f) ==
  /\ f \in opsQuiet[p]
  /\ opsQuiet' = [opsQuiet EXCEPT ![p] = @ \ {f}]
  /\ UNCHANGED ops

OpsForget(p) ==
  /\ opsQuiet' = [opsQuiet EXCEPT ![p] = {}]
  /\ ops' = [o \in OpsAlerts |->
       IF ops[o].host = p /\ ops[o].step \in {"webhook", "telegram", "closing"}
       THEN [ops[o] EXCEPT !.step = "lost"] ELSE ops[o]]

=============================================================================
