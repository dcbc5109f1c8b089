------------------------------- MODULE Alerting -------------------------------
(***************************************************************************)
(* The alerts of a merchant, the alerts to the operators and the limit on  *)
(* the audits a merchant asks for, in the same processes.                  *)
(***************************************************************************)
EXTENDS MerchantAlerts, RateLimiter, OperatorAlerts, FiniteSets

CONSTANT
  Scenarios    \* bounds: how many requests to save, alerts, operators' alerts
               \* and requests for an audit a behavior has

VARIABLE left  \* what the scenario has left

vars == <<merchantVars, limiterVars, opsVars, faults, left>>

ScenarioTypes == [saves : Nat, alerts : Nat, ops : Nat, requests : Nat]

ASSUME AlertingAssumption == IsFiniteSet(Processes) /\ Scenarios \subseteq ScenarioTypes

Init ==
  /\ MerchantInit /\ LimiterInit /\ OpsInit
  /\ faults = 0
  /\ left \in Scenarios

\* Requests and alerts are numbered; the next is the one with number `left`.
Uses(kind, number) ==
  left[kind] = number /\ number > 0 /\ left' = [left EXCEPT ![kind] = @ - 1]

MerchantOnly == UNCHANGED <<limiterVars, opsVars>>

Save(s, p) ==
  /\ Uses("saves", s)
  /\ \E key \in Keys \cup {"none"}, chat \in BOOLEAN :
       \/ SaveSettings(s, p, key, chat)
       \/ \E on \in {"on", "off"} : SaveFailover(s, p, key, chat, on)
  /\ MerchantOnly

Saved(s) ==
  /\ ReadExisting(s) \/ SaveRow(s) \/ Sync(s) \/ Enable(s) \/ Rewrite(s)
  /\ MerchantOnly /\ UNCHANGED left

Alert(a, p) ==
  /\ Uses("alerts", a)
  /\ \/ Evaluate(a, p) \/ DispatchAlert(a, p) \/ PingStored(a, p)
     \/ \E key \in Keys : PingEntered(a, p, key)
  /\ MerchantOnly

Alerted(a) == Post(a) /\ MerchantOnly /\ UNCHANGED left

AlertsResume(p) == QuietEnds(p) /\ MerchantOnly /\ UNCHANGED left

\* POST /dns/audit: what the audit of an admitted request finds may be the start
\* of an alert; audits by workers are not limited.
RequestAudit(p) ==
  /\ Uses("requests", left.requests)
  /\ \E through \in BOOLEAN : Consume(through) \/ FallBack(p, through)
  /\ UNCHANGED <<merchantVars, opsVars, faults>>

NextWindow == WindowEnds /\ UNCHANGED <<merchantVars, opsVars, faults, left>>

OpsAlert(o, p) ==
  /\ Uses("ops", o)
  /\ \E f \in Fingerprints : OpsDispatch(o, p, f)
  /\ UNCHANGED <<merchantVars, limiterVars, faults>>

OpsAlerted(o) ==
  /\ \/ OpsPost(o, TRUE) /\ NoFault
     \/ OpsPost(o, FALSE) /\ Fault
     \/ OpsFinish(o) /\ NoFault
  /\ UNCHANGED <<merchantVars, limiterVars, left>>

OpsResume(p) ==
  /\ \E f \in Fingerprints : OpsQuietEnds(p, f)
  /\ UNCHANGED <<merchantVars, limiterVars, faults, left>>

Restart(p) == Forget(p) /\ ForgetCount(p) /\ OpsForget(p) /\ UNCHANGED left

Next ==
  \/ \E p \in Processes :
       \/ \E s \in Saves : Save(s, p)
       \/ \E a \in Alerts : Alert(a, p)
       \/ \E o \in OpsAlerts : OpsAlert(o, p)
       \/ RequestAudit(p) \/ AlertsResume(p) \/ OpsResume(p) \/ Restart(p)
  \/ \E s \in Saves : Saved(s)
  \/ \E a \in Alerts : Alerted(a)
  \/ \E o \in OpsAlerts : OpsAlerted(o)
  \/ NextWindow

Spec == Init /\ [][Next]_vars

-----------------------------------------------------------------------------
(* Properties.                                                             *)

Tokens == [key : Keys \cup {"none", "platform"}, layers : Nat]

\* Every variable has its type.
TypeOK ==
  /\ config \in [exists : BOOLEAN, token : Tokens, chat : BOOLEAN]
  /\ engine \in {"none", "on", "off"}
  /\ cache \in [Processes -> Tokens]
  /\ saves \in [Saves -> [step : SaveSteps, host : Processes \cup {"none"},
                          key : Keys \cup {"none"}, chat : BOOLEAN, on : {"on", "off"},
                          token : Tokens]]
  /\ alerts \in [Alerts -> [step : AlertSteps, host : Processes \cup {"none"},
                            about : {"none", "degradation", "incident", "ping"},
                            token : Tokens, send : Sends]]
  /\ quiet \in [Processes -> BOOLEAN]
  /\ latest \in Keys \cup {"none"} /\ overlapped \in BOOLEAN
  /\ counted \in Nat /\ admitted \in Nat /\ ownCounted \in [Processes -> Nat]
  /\ ops \in [OpsAlerts -> [step : OpsSteps, host : Processes \cup {"none"},
                            incident : Fingerprints \cup {"none"}, dispatched : BOOLEAN]]
  /\ opsQuiet \in [Processes -> SUBSET Fingerprints]
  /\ faults \in 0..MaxFaults /\ left \in ScenarioTypes

\* Whichever endpoint of whichever process saves the settings, with a token or
\* keeping the one there is, the stored token is the one the merchant entered
\* last, and never in the clear: as long as no call fails and no two requests
\* overlap.
CredentialKept ==
  (faults = 0 /\ ~overlapped /\ \A s \in Saves : ~Saving(s)) =>
    /\ config.token.key = latest
    /\ latest # "none" => config.token.layers >= 1

\* A send that is called a success came through, and comes through again only
\* after an answer was lost, within its attempts and its time.
SendsAccounted ==
  \A a \in Alerts : LET send == alerts[a].send IN
    /\ send.result = "delivered" => send.copies >= 1
    /\ send.copies <= send.late + 1
    /\ alerts[a].step = "done" /\ send.copies > send.late => send.result = "delivered"

\* An operators' alert is held back only by a process that has got the same
\* incident through to one of the channels.
HeldBackWasTold ==
  \A o \in OpsAlerts : ops[o].step = "suppressed" =>
    \E told \in OpsAlerts :
      /\ ops[told].host = ops[o].host /\ ops[told].incident = ops[o].incident
      /\ ops[told].dispatched

\* However the store of the counts fails, a window lets no more requests through
\* than its limit and each process's own, and what restarts forget.
NeverUnlimited ==
  admitted <= Limit + (Cardinality(Processes) + faults) * OwnLimit

\* Between two requests to save, the stored token decrypts to what the merchant
\* entered.
TokenReadable ==
  (config.token # NoToken /\ \A s \in Saves : ~Saving(s)) => config.token.layers = 1

=============================================================================
