---------------------------- MODULE MerchantAlerts ----------------------------
(***************************************************************************)
(* One merchant's Telegram settings and the alerts that use them.          *)
(*                                                                         *)
(* Settings are saved through two endpoints, of which one calls the other; *)
(* a handler does not await, so that a process handles one at a time and   *)
(* nothing else meanwhile.  A bot token is stored encrypted: a token is    *)
(* the key the merchant entered and how many times it was encrypted.       *)
(*                                                                         *)
(* Alerts are about a degraded domain, found by an audit, or about a       *)
(* delivery incident, sent by the failover worker.  The first are silenced *)
(* for six hours after one was sent, in the memory of each process.        *)
(***************************************************************************)
EXTENDS TelegramSender, Deployment

CONSTANTS
  Keys,          \* bot tokens the merchant may enter
  Saves,         \* requests to save settings
  Alerts         \* alerts about the merchant's domain

VARIABLES
  config,        \* alert_configs: is there a row, bot token, is there a chat
  engine,        \* failover_configs.is_enabled, or "none"
  cache,         \* _mock_failover_configs of each process: the token in it
  saves,         \* the requests to save: step, process and what they carry
  alerts,        \* the alerts: step, process, what about, token, how it goes
  quiet,         \* _alert_cooldown_tracker of each process
  latest,        \* history: the key the merchant entered last
  overlapped     \* history: two requests to save have overlapped

merchantVars == <<config, engine, cache, saves, alerts, quiet, latest, overlapped>>

NoToken == [key |-> "none", layers |-> 0]
Platform == [key |-> "platform", layers |-> 0]     \* settings.TELEGRAM_BOT_TOKEN

SaveSteps == {"new", "reading", "saving", "syncing", "enabling", "rewriting", "saved", "failed"}
AlertSteps == {"new", "sending", "suppressed", "rejected", "done", "lost"}

NoSave(step) == [step |-> step, host |-> "none", key |-> "none",
                 chat |-> FALSE, on |-> "on", token |-> NoToken]

MerchantInit ==
  /\ config = [exists |-> FALSE, token |-> NoToken, chat |-> FALSE]
  /\ engine = "none"
  /\ cache = [p \in Processes |-> NoToken]
  /\ saves = [s \in Saves |-> NoSave("new")]
  /\ alerts = [a \in Alerts |-> [step |-> "new", host |-> "none", about |-> "none",
                                 token |-> NoToken, send |-> NewSend]]
  /\ quiet = [p \in Processes |-> FALSE]
  /\ latest = "none"
  /\ overlapped = FALSE

-----------------------------------------------------------------------------
(* Saving settings.                                                        *)

Encrypted(token) == [token EXCEPT !.layers = @ + 1]
DecryptedBlindly(token) == [token EXCEPT !.layers = @ - 1]
Decrypted(token) == IF token.layers = 0 THEN token ELSE [token EXCEPT !.layers = @ - 1]
Entered(key) == [key |-> key, layers |-> 0]

Saving(s) == saves[s].step \notin {"new", "saved", "failed"}
Idle(p) == \A s \in Saves : Saving(s) => saves[s].host # p

SaveGo(s, step) == saves' = [saves EXCEPT ![s].step = step]
SaveEnds(s, step) == saves' = [saves EXCEPT ![s] = NoSave(step)]
SaveFails(s) == SaveEnds(s, "failed") /\ Fault

\* POST /settings/alerts or POST /failover/config: with a new token or, omitted
\* or masked, the one there is; with a chat or without.
StartSave(s, p, step, key, chat, on) ==
  /\ saves[s].step = "new" /\ Idle(p)
  /\ saves' = [saves EXCEPT ![s] =
       [step |-> step, host |-> p, key |-> key, chat |-> chat, on |-> on, token |-> NoToken]]
  /\ latest' = IF key = "none" THEN latest ELSE key
  /\ overlapped' = (overlapped \/ \E other \in Saves : Saving(other))
  /\ UNCHANGED <<config, engine, cache, alerts, quiet, faults>>

\* /settings/alerts switches the engine on, whatever the merchant had chosen.
SaveSettings(s, p, key, chat) == StartSave(s, p, "reading", key, chat, "on")
SaveFailover(s, p, key, chat, on) == StartSave(s, p, "syncing", key, chat, on)

\* get_alert_config; the token to store.
ReadExisting(s) ==
  /\ saves[s].step = "reading"
  /\ \/ /\ saves' = [saves EXCEPT
              ![s].step = "saving",
              ![s].token = IF saves[s].key = "none" THEN config.token
                           ELSE Encrypted(Entered(saves[s].key))]
        /\ NoFault
     \/ SaveFails(s)
  /\ UNCHANGED <<config, engine, cache, alerts, quiet, latest, overlapped>>

Row(s) == [exists |-> TRUE, token |-> saves[s].token, chat |-> saves[s].chat]

\* save_alert_config
SaveRow(s) ==
  /\ saves[s].step = "saving"
  /\ \/ config' = Row(s) /\ SaveGo(s, "syncing") /\ NoFault
     \/ config' \in {config, Row(s)} /\ SaveFails(s)
  /\ UNCHANGED <<engine, cache, alerts, quiet, latest, overlapped>>

\* get_config keeps a copy of what it finds, if it finds anything.
HasSettings == config.exists \/ engine # "none"
Copied(p) == cache' = IF HasSettings THEN [cache EXCEPT ![p] = config.token] ELSE cache

\* What update_config stores: the token it is given, encrypted, or the one there
\* is.  /settings/alerts gives it the token it has just stored.
Given(s) == IF saves[s].token # NoToken THEN saves[s].token
            ELSE IF saves[s].key # "none" THEN Entered(saves[s].key) ELSE NoToken
SyncToken(s, existing) == IF Given(s) = NoToken THEN existing ELSE Encrypted(Given(s))

\* update_config reads the settings; when it cannot, it takes this process's copy.
SyncFromCopy(s) ==
  /\ saves[s].step = "syncing"
  /\ saves' = [saves EXCEPT ![s].step = "enabling",
                            ![s].token = SyncToken(s, cache[saves[s].host])]
  /\ UNCHANGED <<config, engine, cache, alerts, quiet, faults, latest, overlapped>>
Sync(s) ==
  /\ saves[s].step = "syncing"
  /\ LET p == saves[s].host IN
     \/ /\ Copied(p)
        /\ saves' = [saves EXCEPT ![s].step = "enabling", ![s].token = SyncToken(s, config.token)]
        /\ NoFault
     \/ /\ saves' = [saves EXCEPT ![s].step = "enabling", ![s].token = SyncToken(s, cache[p])]
        /\ UNCHANGED cache /\ Fault
  /\ UNCHANGED <<config, engine, alerts, quiet, latest, overlapped>>

Cached(s) == cache' = [cache EXCEPT ![saves[s].host] = saves[s].token]

\* save_failover_config; a request with neither token nor chat ends here.
Enable(s) ==
  /\ saves[s].step = "enabling"
  /\ \/ /\ engine' = saves[s].on /\ NoFault
        /\ IF saves[s].token = NoToken /\ ~saves[s].chat
           THEN SaveEnds(s, "saved") /\ Cached(s)
           ELSE SaveGo(s, "rewriting") /\ UNCHANGED cache
     \/ engine' \in {engine, saves[s].on} /\ SaveFails(s) /\ UNCHANGED cache
  /\ UNCHANGED <<config, alerts, quiet, latest, overlapped>>

Rewrite(s) ==
  /\ saves[s].step = "rewriting"
  /\ \/ config' = Row(s) /\ SaveEnds(s, "saved") /\ Cached(s) /\ NoFault
     \/ config' \in {config, Row(s)} /\ SaveFails(s) /\ UNCHANGED cache
  /\ UNCHANGED <<engine, alerts, quiet, latest, overlapped>>

-----------------------------------------------------------------------------
(* Alerts.                                                                 *)

AlertStarts(a, p, about, step, token) ==
  /\ alerts[a].step = "new" /\ Idle(p)
  /\ alerts' = [alerts EXCEPT ![a] = [step |-> step, host |-> p, about |-> about,
                                      token |-> token, send |-> NewSend]]

\* get_tenant_alert_config: the token as it is stored; for lack of one, or of an
\* answer, that of the platform's bot.
TenantToken(stored) == IF stored = NoToken THEN Platform ELSE stored

\* evaluate_and_dispatch about a degraded domain, up to the first await.
Evaluate(a, p) ==
  /\ \E stored \in {config.token, NoToken} :
       /\ IF stored = config.token THEN NoFault ELSE Fault
       /\ AlertStarts(a, p, "degradation",
            IF quiet[p] THEN "suppressed" ELSE "sending",
            IF quiet[p] THEN NoToken ELSE TenantToken(stored))
  /\ UNCHANGED <<config, engine, cache, saves, quiet, latest, overlapped>>

UsableToken == Decrypted(config.token)

\* A message to the merchant's own bot, if it can be sent, or a failed read of
\* the settings.
Start(a, p, about, ready, token) ==
  /\ \/ /\ AlertStarts(a, p, about, IF ready THEN "sending" ELSE "rejected",
                        IF ready THEN token ELSE NoToken)
        /\ Copied(p) /\ NoFault
     \/ AlertStarts(a, p, about, "rejected", NoToken) /\ UNCHANGED cache /\ Fault
  /\ UNCHANGED <<config, engine, saves, quiet, latest, overlapped>>

\* dispatch_alert about a delivery incident, up to the first await.
DispatchAlert(a, p) ==
  Start(a, p, "incident", engine # "off" /\ UsableToken # NoToken /\ config.chat, UsableToken)

\* A test message to a chat the merchant names, with the stored token or, not
\* stored, one the merchant enters.
PingStored(a, p) == Start(a, p, "ping", UsableToken # NoToken, UsableToken)
PingEntered(a, p, key) ==
  /\ AlertStarts(a, p, "ping", "sending", Entered(key))
  /\ UNCHANGED <<config, engine, cache, saves, quiet, faults, latest, overlapped>>

\* Telegram knows a token only in the clear; what else it answers is a fault.
TelegramAnswers(token) ==
  (IF token.layers = 0 THEN {"ok"} ELSE {"refused"})
    \cup (IF faults < MaxFaults THEN Answers \ {"ok"} ELSE {})
Expected(token) == IF token.layers = 0 THEN "ok" ELSE "refused"

\* An attempt; after the last, an audit's alert starts the silence, whether it
\* came through or not.
Post(a) ==
  /\ alerts[a].step = "sending" /\ Idle(alerts[a].host)
  /\ \E answer \in TelegramAnswers(alerts[a].token), after \in RetryAfters :
       LET send == Posted(alerts[a].send, answer, after)
           ended == send.result # "pending"
       IN  /\ faults' = IF answer = Expected(alerts[a].token) THEN faults ELSE faults + 1
           /\ alerts' = [alerts EXCEPT ![a].send = send,
                                       ![a].step = IF ended THEN "done" ELSE @]
           /\ quiet' = IF ended /\ alerts[a].about = "degradation"
                       THEN [quiet EXCEPT ![alerts[a].host] = TRUE] ELSE quiet
  /\ UNCHANGED <<config, engine, cache, saves, latest, overlapped>>

\* Six hours have passed.
QuietEnds(p) ==
  /\ quiet[p] /\ quiet' = [quiet EXCEPT ![p] = FALSE]
  /\ UNCHANGED <<config, engine, cache, saves, alerts, faults, latest, overlapped>>

\* A process dies and starts again.
Forget(p) ==
  /\ Fault
  /\ cache' = [cache EXCEPT ![p] = NoToken]
  /\ quiet' = [quiet EXCEPT ![p] = FALSE]
  /\ saves' = [s \in Saves |-> IF Saving(s) /\ saves[s].host = p
                               THEN NoSave("failed") ELSE saves[s]]
  /\ alerts' = [a \in Alerts |-> IF alerts[a].step = "sending" /\ alerts[a].host = p
                                 THEN [alerts[a] EXCEPT !.step = "lost"] ELSE alerts[a]]
  /\ UNCHANGED <<config, engine, latest, overlapped>>

=============================================================================
