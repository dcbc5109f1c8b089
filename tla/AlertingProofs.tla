--------------------------- MODULE AlertingProofs ---------------------------
(***************************************************************************)
(* Alerting for any number of processes, requests, alerts and bot tokens:  *)
(* what is stored of the merchant's token, what a send reports, whom an    *)
(* operators' alert was held back from, and how many audits get through.   *)
(***************************************************************************)
EXTENDS Alerting, FiniteSetTheorems, TLAPS

(* The inductive invariants.                                               *)

SaveTypes == [step : SaveSteps, host : Processes \cup {"none"},
              key : Keys \cup {"none"}, chat : BOOLEAN, on : {"on", "off"}, token : Tokens]
AlertTypes == [step : AlertSteps, host : Processes \cup {"none"},
               about : {"none", "degradation", "incident", "ping"},
               token : Tokens, send : Sends]
OpsTypes == [step : OpsSteps, host : Processes \cup {"none"},
             incident : Fingerprints \cup {"none"}, dispatched : BOOLEAN]

SettingsTyped ==
  /\ config \in [exists : BOOLEAN, token : Tokens, chat : BOOLEAN]
  /\ engine \in {"none", "on", "off"}
  /\ cache \in [Processes -> Tokens]
  /\ latest \in Keys \cup {"none"} /\ overlapped \in BOOLEAN

\* A request that is being handled has a process.
SaveTyped(save) ==
  save \in SaveTypes /\ (save.step \notin {"new", "saved", "failed"} => save.host \in Processes)

\* A send reports no success that did not come through, and comes through again
\* only after an answer was lost; while it goes on, no copy was heard of.
SendSound(send) ==
  /\ send \in Sends
  /\ send.result = "pending" => send.copies = send.late /\ send.late < send.attempt
  /\ send.result = "delivered" => send.copies >= 1
  /\ send.copies <= send.late + 1
  /\ send.copies > send.late => send.result = "delivered"

AlertSound(alert) ==
  /\ alert \in AlertTypes /\ SendSound(alert.send)
  /\ alert.step = "sending" => alert.host \in Processes /\ alert.send.result = "pending"

SavesTyped == saves \in [Saves -> SaveTypes] /\ \A s \in Saves : SaveTyped(saves[s])
AlertsSound == alerts \in [Alerts -> AlertTypes] /\ \A a \in Alerts : AlertSound(alerts[a])

MerchantSound == SettingsTyped /\ SavesTyped /\ AlertsSound /\ quiet \in [Processes -> BOOLEAN]

LimiterTyped == counted \in Nat /\ admitted \in Nat /\ ownCounted \in [Processes -> Nat]

BoundsTyped == faults \in 0..MaxFaults /\ left \in ScenarioTypes

-----------------------------------------------------------------------------
(* One attempt at a message.                                               *)

LEMMA PostedSound ==
  ASSUME NEW send, SendSound(send), send.result = "pending",
         NEW answer \in Answers, NEW after \in RetryAfters
  PROVE  SendSound(Posted(send, answer, after))
<1> DEFINE delay == Delay(send, answer, after)
           again == Retried(send, answer, delay)
<1>1. /\ send.attempt \in 1..3 /\ send.slept \in 0..20
      /\ send.copies \in 0..3 /\ send.late \in 0..3
      /\ send.copies = send.late /\ send.late < send.attempt
  BY DEF SendSound, Sends, MaxAttempts, MaxBudget
<1>2. delay \in Nat
  BY SenderAssumption, <1>1 DEF Delay, Backoff
<1>3. again => /\ answer \in Repeatable
               /\ send.attempt + 1 \in 1..3
               /\ send.slept + delay \in 0..20
  BY <1>1, <1>2 DEF Retried, MaxAttempts, MaxBudget
<1> HIDE DEF delay, again
<1> DEFINE next == [attempt |-> IF again THEN send.attempt + 1 ELSE send.attempt,
                    slept   |-> IF again THEN send.slept + delay ELSE send.slept,
                    copies  |-> IF answer \in Unheard \cup {"ok"} THEN send.copies + 1 ELSE send.copies,
                    late    |-> IF answer \in Unheard THEN send.late + 1 ELSE send.late,
                    result  |-> IF again THEN "pending" ELSE Verdict(answer)]
<1>4. Posted(send, answer, after) = next
  BY DEF Posted, delay, again
<1>5. next.attempt \in 1..3 /\ next.slept \in 0..20 /\ next.attempt >= send.attempt
      /\ (again => next.attempt = send.attempt + 1)
  BY <1>1, <1>3
<1>6. next.copies \in 0..3 /\ next.late \in 0..3
  BY <1>1
<1>7. next.result \in Results
  BY DEF Verdict, Results
<1>8. next \in Sends
  BY <1>5, <1>6, <1>7 DEF Sends, MaxAttempts, MaxBudget
<1>9. CASE answer = "ok"
  <2>1. ~again /\ next.result = "delivered"
    BY <1>3, <1>9 DEF Repeatable, Verdict, Final
  <2>2. next.copies = send.copies + 1 /\ next.late = send.late
    BY <1>9 DEF Unheard
  <2> QED BY <1>1, <1>4, <1>8, <2>1, <2>2 DEF SendSound
<1>10. CASE answer # "ok"
  <2>1. next.result \in {"pending", "retryable", "failed"} /\ (next.result = "pending" => again)
    BY <1>10 DEF Verdict, Answers, Repeatable, Final
  <2>2. next.copies = next.late /\ next.late <= send.late + 1
    BY <1>1, <1>10
  <2>3. next.result = "pending" => next.late < next.attempt
    BY <1>1, <1>5, <2>1, <2>2, <1>6
  <2> QED BY <1>4, <1>6, <1>8, <2>1, <2>2, <2>3 DEF SendSound
<1> QED BY <1>9, <1>10

-----------------------------------------------------------------------------
(* The merchant's settings and alerts: types and sends.                    *)

LEMMA TokensTyped ==
  /\ NoToken \in Tokens /\ Platform \in Tokens
  /\ \A token \in Tokens : Encrypted(token) \in Tokens /\ Decrypted(token) \in Tokens
  /\ \A key \in Keys : Entered(key) \in Tokens
<1>1. \A token \in Tokens : token.key \in Keys \cup {"none", "platform"} /\ token.layers \in Nat
  BY DEF Tokens
<1>2. \A token \in Tokens : Encrypted(token) \in Tokens
  BY <1>1 DEF Encrypted, Tokens
<1>3. ASSUME NEW token \in Tokens PROVE Decrypted(token) \in Tokens
  <2>1. CASE token.layers = 0
    BY <2>1 DEF Decrypted
  <2>2. CASE token.layers # 0
    <3>1. token.layers - 1 \in Nat
      BY <1>1, <2>2
    <3> QED BY <2>2, <3>1 DEF Decrypted, Tokens
  <2> QED BY <2>1, <2>2
<1> QED BY <1>2, <1>3 DEF NoToken, Platform, Entered, Tokens

LEMMA InitMerchant == MerchantInit => MerchantSound
<1>1. NoToken \in Tokens
  BY TokensTyped
<1>2. NewSend \in Sends /\ SendSound(NewSend)
  BY DEF NewSend, Sends, SendSound, MaxAttempts, MaxBudget, Results
<1>3. SaveTyped(NoSave("new"))
  BY <1>1 DEF NoSave, SaveTyped, SaveTypes, SaveSteps
<1> DEFINE alert == [step |-> "new", host |-> "none", about |-> "none",
                     token |-> NoToken, send |-> NewSend]
<1>4. AlertSound(alert)
  BY <1>1, <1>2 DEF AlertSound, AlertTypes, AlertSteps
<1> SUFFICES ASSUME MerchantInit PROVE MerchantSound
  OBVIOUS
<1>5. SettingsTyped /\ quiet \in [Processes -> BOOLEAN]
  BY <1>1 DEF MerchantInit, SettingsTyped
<1>6. SavesTyped
  BY <1>3 DEF MerchantInit, SavesTyped, SaveTyped
<1>7. AlertsSound
  <2>1. alerts = [a \in Alerts |-> alert]
    BY DEF MerchantInit
  <2> HIDE DEF alert
  <2> QED BY <1>4, <2>1 DEF AlertsSound, AlertSound
<1> QED BY <1>5, <1>6, <1>7 DEF MerchantSound

\* One request to save, or one alert, changes.
LEMMA SaveMoves ==
  ASSUME SavesTyped, NEW s \in Saves, NEW save, SaveTyped(save), saves' = [saves EXCEPT ![s] = save]
  PROVE  SavesTyped'
BY DEF SavesTyped, SaveTyped

LEMMA SaveGoes ==
  ASSUME SavesTyped, NEW s \in Saves, Saving(s), saves' = [saves EXCEPT ![s] = saves'[s]],
         \E step \in SaveSteps, token \in Tokens :
           saves'[s] = [saves[s] EXCEPT !.step = step, !.token = token]
  PROVE  SavesTyped'
<1>1. saves[s] \in SaveTypes /\ saves[s].host \in Processes
  BY DEF SavesTyped, SaveTyped, Saving
<1>2. SaveTyped(saves[s])'
  BY <1>1 DEF SaveTyped, SaveTypes
<1> QED BY <1>2, SaveMoves

LEMMA SaveStops ==
  ASSUME SavesTyped, NEW s \in Saves,
         \E step \in {"saved", "failed"} : saves' = [saves EXCEPT ![s] = NoSave(step)]
  PROVE  SavesTyped'
<1>1. PICK step \in {"saved", "failed"} : saves' = [saves EXCEPT ![s] = NoSave(step)]
  OBVIOUS
<1>2. SaveTyped(NoSave(step))
  BY TokensTyped DEF NoSave, SaveTyped, SaveTypes, SaveSteps
<1> QED BY <1>1, <1>2, SaveMoves

LEMMA AlertMoves ==
  ASSUME AlertsSound, NEW a \in Alerts, NEW alert, AlertSound(alert),
         alerts' = [alerts EXCEPT ![a] = alert]
  PROVE  AlertsSound'
BY DEF AlertsSound, AlertSound

LEMMA AlertBegins ==
  ASSUME AlertsSound, NEW a \in Alerts, NEW p \in Processes,
         NEW about \in {"degradation", "incident", "ping"}, NEW step \in AlertSteps,
         NEW token \in Tokens, AlertStarts(a, p, about, step, token)
  PROVE  AlertsSound'
<1>1. NewSend \in Sends /\ SendSound(NewSend) /\ NewSend.result = "pending"
  BY DEF NewSend, Sends, SendSound, MaxAttempts, MaxBudget, Results
<1> DEFINE alert == [step |-> step, host |-> p, about |-> about, token |-> token, send |-> NewSend]
<1>2. AlertSound(alert)
  BY <1>1 DEF AlertSound, AlertTypes
<1>3. alerts' = [alerts EXCEPT ![a] = alert]
  BY DEF AlertStarts
<1> HIDE DEF alert
<1> QED BY <1>2, <1>3, AlertMoves

LEMMA CacheTyped ==
  ASSUME SettingsTyped, NEW p \in Processes, Copied(p) \/ UNCHANGED cache
  PROVE  cache' \in [Processes -> Tokens]
BY DEF SettingsTyped, Copied

LEMMA SyncTokenTyped ==
  ASSUME SavesTyped, NEW s \in Saves, NEW token \in Tokens
  PROVE  SyncToken(s, token) \in Tokens
<1>1. saves[s].token \in Tokens /\ saves[s].key \in Keys \cup {"none"}
  BY DEF SavesTyped, SaveTypes
<1>2. Given(s) \in Tokens
  BY <1>1, TokensTyped DEF Given
<1> QED BY <1>2, TokensTyped DEF SyncToken

LEMMA RowTyped ==
  ASSUME SavesTyped, NEW s \in Saves
  PROVE  Row(s) \in [exists : BOOLEAN, token : Tokens, chat : BOOLEAN]
BY DEF SavesTyped, SaveTypes, Row


\* A step of a request to save.
SaveStep(s) ==
  \/ \E p \in Processes, key \in Keys \cup {"none"}, chat \in BOOLEAN :
       \/ SaveSettings(s, p, key, chat)
       \/ \E on \in {"on", "off"} : SaveFailover(s, p, key, chat, on)
  \/ ReadExisting(s) \/ SaveRow(s) \/ Sync(s) \/ Enable(s) \/ Rewrite(s)

LEMMA SaveKeepsSound ==
  ASSUME MerchantSound, NEW s \in Saves, SaveStep(s)
  PROVE  MerchantSound'
<1>1. SettingsTyped /\ SavesTyped /\ AlertsSound /\ quiet \in [Processes -> BOOLEAN]
  BY DEF MerchantSound
<1>2. /\ alerts' = alerts /\ quiet' = quiet
      /\ AlertsSound' /\ quiet' \in [Processes -> BOOLEAN]
  <2>1. alerts' = alerts /\ quiet' = quiet
    BY DEF SaveStep, SaveSettings, SaveFailover, StartSave, ReadExisting, SaveRow, Sync, Enable, Rewrite
  <2> QED BY <1>1, <2>1 DEF AlertsSound
<1> SUFFICES SettingsTyped' /\ SavesTyped'
  BY <1>2 DEF MerchantSound
<1>3. /\ config \in [exists : BOOLEAN, token : Tokens, chat : BOOLEAN]
      /\ engine \in {"none", "on", "off"} /\ cache \in [Processes -> Tokens]
      /\ latest \in Keys \cup {"none"} /\ overlapped \in BOOLEAN
      /\ saves[s].token \in Tokens /\ saves[s].key \in Keys \cup {"none"}
      /\ saves[s].on \in {"on", "off"}
  BY <1>1 DEF SettingsTyped, SavesTyped, SaveTypes
<1>4. Saving(s) => saves[s].host \in Processes
  BY <1>1 DEF SavesTyped, SaveTyped, Saving
<1>5. ASSUME NEW p \in Processes, NEW key \in Keys \cup {"none"}, NEW chat \in BOOLEAN,
             NEW on \in {"on", "off"}, NEW step \in {"reading", "syncing"},
              StartSave(s, p, step, key, chat, on)
      PROVE  SettingsTyped' /\ SavesTyped'
  <2> DEFINE save == [step |-> step, host |-> p, key |-> key, chat |-> chat, on |-> on,
                      token |-> NoToken]
  <2>1. SaveTyped(save)
    BY TokensTyped DEF SaveTyped, SaveTypes, SaveSteps
  <2>2. saves' = [saves EXCEPT ![s] = save]
    BY <1>5 DEF StartSave
  <2> HIDE DEF save
  <2>3. SavesTyped'
    BY <1>1, <2>1, <2>2, SaveMoves
  <2>4. /\ UNCHANGED <<config, engine, cache>>
        /\ latest' = latest \/ latest' = key
        /\ overlapped' \in BOOLEAN
    BY <1>5, <1>3 DEF StartSave
  <2> QED BY <1>3, <2>3, <2>4 DEF SettingsTyped
<1>6. CASE ReadExisting(s)
  <2>1. SettingsTyped'
    BY <1>3, <1>6 DEF ReadExisting, SettingsTyped
  <2>2. CASE SaveFails(s)
    BY <1>1, <2>1, <2>2, SaveStops DEF SaveFails, SaveEnds
  <2>3. CASE ~SaveFails(s)
    <3> DEFINE token == IF saves[s].key = "none" THEN config.token
                        ELSE Encrypted(Entered(saves[s].key))
    <3>1. token \in Tokens
      BY <1>3, TokensTyped
    <3>2. saves' = [saves EXCEPT ![s].step = "saving", ![s].token = token] /\ Saving(s)
      BY <1>6, <2>3 DEF ReadExisting, Saving
    <3>3. "saving" \in SaveSteps
      BY DEF SaveSteps
    <3>4. saves \in [Saves -> SaveTypes]
      BY <1>1 DEF SavesTyped
    <3> HIDE DEF token
    <3>5. /\ saves' = [saves EXCEPT ![s] = saves'[s]]
          /\ saves'[s] = [saves[s] EXCEPT !.step = "saving", !.token = token]
      BY <3>2, <3>4
    <3> QED BY <1>1, <2>1, <3>1, <3>2, <3>3, <3>5, SaveGoes
  <2> QED BY <2>2, <2>3, <2>1
<1>7. CASE SaveRow(s)
  <2>1. config' \in {config, Row(s)} /\ UNCHANGED <<engine, cache, latest, overlapped>>
    BY <1>7 DEF SaveRow
  <2>2. SettingsTyped'
    BY <1>1, <1>3, <2>1, RowTyped DEF SettingsTyped
  <2>3. CASE SaveFails(s)
    BY <1>1, <2>2, <2>3, SaveStops DEF SaveFails, SaveEnds
  <2>4. CASE ~SaveFails(s)
    <3>1. saves' = [saves EXCEPT ![s].step = "syncing"] /\ Saving(s)
      BY <1>7, <2>4 DEF SaveRow, SaveGo, Saving
    <3>2. "syncing" \in SaveSteps
      BY DEF SaveSteps
    <3>3. saves \in [Saves -> SaveTypes]
      BY <1>1 DEF SavesTyped
    <3>4. /\ saves' = [saves EXCEPT ![s] = saves'[s]]
          /\ saves'[s] = [saves[s] EXCEPT !.step = "syncing", !.token = saves[s].token]
      BY <3>1, <3>3 DEF SaveTypes
    <3> QED BY <1>1, <1>3, <2>2, <3>1, <3>2, <3>4, SaveGoes
  <2> QED BY <2>2, <2>3, <2>4
<1>8. CASE Sync(s)
  <2>1. Saving(s) /\ saves[s].host \in Processes /\ UNCHANGED <<config, engine, latest, overlapped>>
    BY <1>4, <1>8 DEF Sync, Saving
  <2>2. Copied(saves[s].host) \/ UNCHANGED cache
    BY <1>8 DEF Sync
  <2>3. SettingsTyped'
    BY <1>1, <1>3, <2>1, <2>2, CacheTyped DEF SettingsTyped
  <2>4. PICK token \in Tokens :
          saves' = [saves EXCEPT ![s].step = "enabling", ![s].token = SyncToken(s, token)]
    BY <1>3, <1>8, <2>1 DEF Sync
  <2>5. "enabling" \in SaveSteps /\ SyncToken(s, token) \in Tokens
    BY <1>1, SyncTokenTyped DEF SaveSteps
  <2>6. saves \in [Saves -> SaveTypes]
    BY <1>1 DEF SavesTyped
  <2>7. /\ saves' = [saves EXCEPT ![s] = saves'[s]]
        /\ saves'[s] = [saves[s] EXCEPT !.step = "enabling", !.token = SyncToken(s, token)]
    BY <2>4, <2>6
  <2> QED BY <1>1, <2>1, <2>3, <2>5, <2>7, SaveGoes
<1>9. CASE Enable(s)
  <2>1. Saving(s) /\ saves[s].host \in Processes /\ UNCHANGED <<config, latest, overlapped>>
    BY <1>4, <1>9 DEF Enable, Saving
  <2>2. engine' \in {"none", "on", "off"} /\ cache' \in [Processes -> Tokens]
    BY <1>3, <1>9 DEF Enable, Cached
  <2>3. SettingsTyped'
    BY <1>3, <2>1, <2>2 DEF SettingsTyped
  <2>4. \/ SaveEnds(s, "saved") \/ SaveEnds(s, "failed")
        \/ saves' = [saves EXCEPT ![s].step = "rewriting"]
    BY <1>9 DEF Enable, SaveFails, SaveGo
  <2>5. "rewriting" \in SaveSteps
    BY DEF SaveSteps
  <2>6. CASE saves' = [saves EXCEPT ![s].step = "rewriting"]
    <3>1. saves \in [Saves -> SaveTypes]
      BY <1>1 DEF SavesTyped
    <3>2. /\ saves' = [saves EXCEPT ![s] = saves'[s]]
          /\ saves'[s] = [saves[s] EXCEPT !.step = "rewriting", !.token = saves[s].token]
      BY <2>6, <3>1 DEF SaveTypes
    <3> QED BY <1>1, <1>3, <2>1, <2>3, <2>5, <3>2, SaveGoes
  <2> QED BY <1>1, <2>3, <2>4, <2>6, SaveStops DEF SaveEnds
<1>10. CASE Rewrite(s)
  <2>1. Saving(s) /\ saves[s].host \in Processes /\ UNCHANGED <<engine, latest, overlapped>>
    BY <1>4, <1>10 DEF Rewrite, Saving
  <2>2. config' \in {config, Row(s)} /\ cache' \in [Processes -> Tokens]
    BY <1>3, <1>10 DEF Rewrite, Cached
  <2>3. SettingsTyped'
    BY <1>1, <1>3, <2>1, <2>2, RowTyped DEF SettingsTyped
  <2>4. SaveEnds(s, "saved") \/ SaveEnds(s, "failed")
    BY <1>10 DEF Rewrite, SaveFails
  <2> QED BY <1>1, <2>3, <2>4, SaveStops DEF SaveEnds
<1>11. \/ \E p \in Processes, key \in Keys \cup {"none"}, chat \in BOOLEAN,
            on \in {"on", "off"}, step \in {"reading", "syncing"} :
              StartSave(s, p, step, key, chat, on)
       \/ ReadExisting(s) \/ SaveRow(s) \/ Sync(s) \/ Enable(s) \/ Rewrite(s)
  BY DEF SaveStep, SaveSettings, SaveFailover
<1> QED BY <1>5, <1>6, <1>7, <1>8, <1>9, <1>10, <1>11


\* A step of an alert.
AlertStep(a) ==
  \/ \E p \in Processes :
       \/ Evaluate(a, p) \/ DispatchAlert(a, p) \/ PingStored(a, p)
       \/ \E key \in Keys : PingEntered(a, p, key)
  \/ Post(a)

LEMMA AlertKeepsSound ==
  ASSUME MerchantSound, NEW a \in Alerts, AlertStep(a)
  PROVE  MerchantSound'
<1>1. /\ config' = config /\ engine' = engine /\ saves' = saves
      /\ latest' = latest /\ overlapped' = overlapped
  BY DEF AlertStep, Evaluate, DispatchAlert, PingStored, PingEntered, Start, Post
<1>2. cache' \in [Processes -> Tokens]
  <2>1. UNCHANGED cache \/ \E p \in Processes : Copied(p)
    BY DEF AlertStep, Evaluate, DispatchAlert, PingStored, PingEntered, Start, Post
  <2> QED BY <2>1 DEF MerchantSound, SettingsTyped, Copied
<1>3. quiet' \in [Processes -> BOOLEAN]
  <2>1. quiet' = quiet \/ \E q \in Processes : quiet' = [quiet EXCEPT ![q] = TRUE]
    <3>1. alerts[a].step = "sending" => alerts[a].host \in Processes
      BY DEF MerchantSound, AlertsSound, AlertSound
    <3> QED
      BY <3>1 DEF AlertStep, Evaluate, DispatchAlert, PingStored, PingEntered, Start, Post
  <2> QED BY <2>1 DEF MerchantSound
<1>4. SettingsTyped' /\ SavesTyped'
  BY <1>1, <1>2 DEF MerchantSound, SettingsTyped, SavesTyped
<1> SUFFICES AlertsSound'
  BY <1>3, <1>4 DEF MerchantSound
<1>5. AlertsSound /\ config.token \in Tokens
  BY DEF MerchantSound, SettingsTyped
<1>6. ASSUME NEW p \in Processes, NEW about \in {"degradation", "incident", "ping"},
             NEW step \in AlertSteps, NEW token \in Tokens, AlertStarts(a, p, about, step, token)
      PROVE  AlertsSound'
  BY <1>5, <1>6, AlertBegins
<1>7. ASSUME NEW p \in Processes, Evaluate(a, p) PROVE AlertsSound'
  <2>1. PICK stored \in {config.token, NoToken} :
          AlertStarts(a, p, "degradation", IF quiet[p] THEN "suppressed" ELSE "sending",
                      IF quiet[p] THEN NoToken ELSE TenantToken(stored))
    BY <1>7 DEF Evaluate
  <2>2. (IF quiet[p] THEN NoToken ELSE TenantToken(stored)) \in Tokens
    BY <1>5, TokensTyped DEF TenantToken
  <2>3. (IF quiet[p] THEN "suppressed" ELSE "sending") \in AlertSteps
    BY DEF AlertSteps
  <2> QED BY <1>6, <2>1, <2>2, <2>3
<1>8. ASSUME NEW p \in Processes, NEW about \in {"incident", "ping"}, NEW ready,
             NEW token \in Tokens, Start(a, p, about, ready, token)
      PROVE  AlertsSound'
  <2>1. "sending" \in AlertSteps /\ "rejected" \in AlertSteps /\ NoToken \in Tokens
    BY TokensTyped DEF AlertSteps
  <2>2. \/ AlertStarts(a, p, about, "sending", token)
        \/ AlertStarts(a, p, about, "rejected", NoToken)
    BY <1>8 DEF Start
  <2> QED BY <1>6, <2>1, <2>2
<1>9. UsableToken \in Tokens
  BY <1>5, TokensTyped DEF UsableToken
<1>10. ASSUME NEW p \in Processes, DispatchAlert(a, p) PROVE AlertsSound'
  BY <1>8, <1>9, <1>10 DEF DispatchAlert
<1>11. ASSUME NEW p \in Processes, PingStored(a, p) PROVE AlertsSound'
  BY <1>8, <1>9, <1>11 DEF PingStored
<1>12. ASSUME NEW p \in Processes, NEW key \in Keys, PingEntered(a, p, key) PROVE AlertsSound'
  BY <1>6, <1>12, TokensTyped DEF PingEntered, AlertSteps
<1>13. CASE Post(a)
  <2>1. AlertSound(alerts[a]) /\ alerts[a].step = "sending"
    BY <1>5, <1>13 DEF AlertsSound, Post
  <2>2. PICK answer \in TelegramAnswers(alerts[a].token), after \in RetryAfters :
          LET send == Posted(alerts[a].send, answer, after)
          IN  alerts' = [alerts EXCEPT ![a].send = send,
                           ![a].step = IF send.result # "pending" THEN "done" ELSE @]
    BY <1>13 DEF Post
  <2> DEFINE send == Posted(alerts[a].send, answer, after)
             alert == [alerts[a] EXCEPT !.send = send,
                         !.step = IF send.result # "pending" THEN "done" ELSE @]
  <2>3. answer \in Answers
    BY DEF TelegramAnswers, Answers, Final
  <2>4. SendSound(send)
    BY <2>1, <2>3, PostedSound DEF AlertSound
  <2>5. alerts' = [alerts EXCEPT ![a] = alert]
    BY <1>5, <2>2 DEF AlertsSound, AlertTypes
  <2>6. AlertSound(alert)
    <3> HIDE DEF send
    <3> QED BY <2>1, <2>4 DEF AlertSound, AlertTypes, AlertSteps, SendSound
  <2> HIDE DEF alert
  <2> QED BY <1>5, <2>5, <2>6, AlertMoves
<1> QED BY <1>7, <1>10, <1>11, <1>12, <1>13 DEF AlertStep

LEMMA ForgetKeepsSound ==
  ASSUME MerchantSound, NEW p \in Processes, QuietEnds(p) \/ Forget(p)
  PROVE  MerchantSound'
<1>1. CASE QuietEnds(p)
  BY <1>1 DEF QuietEnds, MerchantSound, SettingsTyped, SavesTyped, AlertsSound
<1>2. CASE Forget(p)
  <2>1. SettingsTyped' /\ quiet' \in [Processes -> BOOLEAN]
    BY <1>2, TokensTyped DEF Forget, MerchantSound, SettingsTyped
  <2>2. SaveTyped(NoSave("failed"))
    BY TokensTyped DEF NoSave, SaveTyped, SaveTypes, SaveSteps
  <2>3. SavesTyped'
    BY <1>2, <2>2 DEF Forget, MerchantSound, SavesTyped, SaveTyped
  <2>4. ASSUME NEW a \in Alerts PROVE AlertSound(alerts'[a]) /\ alerts'[a] \in AlertTypes
    <3>1. AlertSound(alerts[a]) /\ alerts[a] \in AlertTypes
      BY DEF MerchantSound, AlertsSound
    <3>2. alerts'[a] = alerts[a] \/ alerts'[a] = [alerts[a] EXCEPT !.step = "lost"]
      BY <1>2 DEF Forget
    <3>3. AlertSound([alerts[a] EXCEPT !.step = "lost"])
      BY <3>1 DEF AlertSound, AlertTypes, AlertSteps
    <3> QED BY <3>1, <3>2, <3>3 DEF AlertSound
  <2>5. alerts' \in [Alerts -> AlertTypes]
    BY <1>2, <2>4 DEF Forget
  <2> QED BY <2>1, <2>3, <2>4, <2>5 DEF MerchantSound, AlertsSound
<1> QED BY <1>1, <1>2


-----------------------------------------------------------------------------
(* The operators' alerts.                                                  *)

\* A process is silent about an incident that one of its calls got through.
OpsTyped ==
  /\ ops \in [OpsAlerts -> OpsTypes]
  /\ opsQuiet \in [Processes -> SUBSET Fingerprints]
  /\ \A o \in OpsAlerts :
       /\ ops[o].step = "new" => ~ops[o].dispatched
       /\ ops[o].step \in {"webhook", "telegram", "closing"} =>
            ops[o].host \in Processes /\ ops[o].incident \in Fingerprints

Told(p, f) ==
  \E told \in OpsAlerts : ops[told].host = p /\ ops[told].incident = f /\ ops[told].dispatched

OpsSound ==
  /\ OpsTyped /\ HeldBackWasTold
  /\ \A p \in Processes : \A f \in opsQuiet[p] : Told(p, f)

OpsStep(o) ==
  \/ \E p \in Processes, f \in Fingerprints : OpsDispatch(o, p, f)
  \/ \E taken \in BOOLEAN : OpsPost(o, taken)
  \/ OpsFinish(o)

LEMMA OpsPosted ==
  ASSUME NEW o \in OpsAlerts, \E taken \in BOOLEAN : OpsPost(o, taken)
  PROVE  /\ UNCHANGED opsQuiet
         /\ \E taken \in BOOLEAN, from \in {"webhook", "telegram"}, to \in {"telegram", "closing"} :
              /\ ops[o].step = from
              /\ ops' = [ops EXCEPT ![o].step = to, ![o].dispatched = @ \/ taken]
<1>1. PICK taken \in BOOLEAN : OpsPost(o, taken)
  OBVIOUS
<1>2. PICK step \in {<<"webhook", "telegram">>, <<"telegram", "closing">>} :
        /\ ops[o].step = step[1]
        /\ ops' = [ops EXCEPT ![o].step = step[2], ![o].dispatched = @ \/ taken]
  BY <1>1 DEF OpsPost
<1>3. step[1] \in {"webhook", "telegram"} /\ step[2] \in {"telegram", "closing"}
  <2>1. CASE step = <<"webhook", "telegram">>
    BY <2>1
  <2>2. CASE step = <<"telegram", "closing">>
    BY <2>2
  <2> QED BY <2>1, <2>2
<1> QED BY <1>1, <1>2, <1>3 DEF OpsPost

LEMMA OpsStepTyped ==
  ASSUME OpsTyped, NEW o \in OpsAlerts, OpsStep(o)
  PROVE  OpsTyped'
<1>1. CASE \E p \in Processes, f \in Fingerprints : OpsDispatch(o, p, f)
  BY <1>1 DEF OpsDispatch, OpsTyped, OpsTypes, OpsSteps
<1>2. CASE \E taken \in BOOLEAN : OpsPost(o, taken)
  <2>1. PICK taken \in BOOLEAN, from \in {"webhook", "telegram"}, to \in {"telegram", "closing"} :
          /\ ops[o].step = from
          /\ ops' = [ops EXCEPT ![o].step = to, ![o].dispatched = @ \/ taken]
          /\ UNCHANGED opsQuiet
    BY <1>2, OpsPosted
  <2>2. (ops[o].dispatched \/ taken) \in BOOLEAN
    OBVIOUS
  <2> QED BY <2>1, <2>2 DEF OpsTyped, OpsTypes, OpsSteps
<1>3. CASE OpsFinish(o)
  BY <1>3 DEF OpsFinish, OpsTyped, OpsTypes, OpsSteps
<1> QED BY <1>1, <1>2, <1>3 DEF OpsStep

\* Whoever was told stays told: a call that has started keeps its process and its
\* incident, and what a channel took stays taken.
OpsLasts ==
  \A o \in OpsAlerts : ops[o].step # "new" =>
    /\ ops'[o].host = ops[o].host /\ ops'[o].incident = ops[o].incident
    /\ ops[o].dispatched => ops'[o].dispatched

LEMMA ToldStays ==
  ASSUME OpsTyped, OpsLasts, NEW p, NEW f, Told(p, f)
  PROVE  Told(p, f)'
BY DEF OpsTyped, OpsLasts, Told

LEMMA OpsStepLasts ==
  ASSUME OpsTyped, NEW o \in OpsAlerts, OpsStep(o)
  PROVE  OpsLasts
<1>1. CASE \E p \in Processes, f \in Fingerprints : OpsDispatch(o, p, f)
  BY <1>1 DEF OpsDispatch, OpsTyped, OpsTypes, OpsLasts
<1>2. CASE \E taken \in BOOLEAN : OpsPost(o, taken)
  <2>1. PICK taken \in BOOLEAN, to \in {"telegram", "closing"} :
          ops' = [ops EXCEPT ![o].step = to, ![o].dispatched = @ \/ taken]
    BY <1>2, OpsPosted
  <2>2. ops'[o].dispatched = (ops[o].dispatched \/ taken)
    BY <2>1 DEF OpsTyped, OpsTypes
  <2> QED BY <2>1, <2>2 DEF OpsTyped, OpsTypes, OpsLasts
<1>3. CASE OpsFinish(o)
  BY <1>3 DEF OpsFinish, OpsTyped, OpsTypes, OpsLasts
<1> QED BY <1>1, <1>2, <1>3 DEF OpsStep

LEMMA HeldBackStays ==
  ASSUME OpsSound, OpsTyped', OpsLasts,
         \A o \in OpsAlerts : ops'[o].step = "suppressed" =>
           ops[o].step = "suppressed" \/ Told(ops'[o].host, ops'[o].incident)
  PROVE  HeldBackWasTold'
<1> SUFFICES ASSUME NEW o \in OpsAlerts, ops'[o].step = "suppressed"
             PROVE  \E told \in OpsAlerts :
                      /\ ops'[told].host = ops'[o].host /\ ops'[told].incident = ops'[o].incident
                      /\ ops'[told].dispatched
  BY DEF HeldBackWasTold
<1>1. CASE ops[o].step = "suppressed"
  BY <1>1 DEF OpsSound, OpsTyped, OpsLasts, HeldBackWasTold
<1>2. CASE Told(ops'[o].host, ops'[o].incident)
  BY <1>2 DEF OpsSound, OpsTyped, OpsLasts, Told
<1> QED BY <1>1, <1>2

LEMMA OpsStepSound ==
  ASSUME OpsSound, NEW o \in OpsAlerts, OpsStep(o)
  PROVE  OpsSound'
<1>1. OpsTyped /\ OpsTyped' /\ OpsLasts
  BY OpsStepTyped, OpsStepLasts DEF OpsSound
<1>2. ASSUME NEW q \in OpsAlerts, ops'[q].step = "suppressed", ops[q].step # "suppressed"
      PROVE  Told(ops'[q].host, ops'[q].incident)
  <2>1. q = o
    BY <1>1, <1>2 DEF OpsStep, OpsDispatch, OpsPost, OpsFinish, OpsTyped
  <2>2. PICK p \in Processes, f \in Fingerprints : OpsDispatch(o, p, f)
    <3>1. ~OpsFinish(o)
      BY <1>1, <1>2, <2>1 DEF OpsFinish, OpsTyped, OpsTypes
    <3>2. ~\E taken \in BOOLEAN : OpsPost(o, taken)
      BY <1>1, <1>2, <2>1 DEF OpsPost, OpsTyped, OpsTypes
    <3> QED BY <3>1, <3>2 DEF OpsStep
  <2>3. f \in opsQuiet[p] /\ ops'[q].host = p /\ ops'[q].incident = f
    BY <1>1, <1>2, <2>1, <2>2 DEF OpsDispatch, OpsTyped, OpsTypes
  <2> QED BY <2>3 DEF OpsSound
<1>3. HeldBackWasTold'
  BY <1>1, <1>2, HeldBackStays
<1>4. ASSUME NEW q \in Processes, NEW f \in opsQuiet'[q] PROVE Told(q, f)'
  <2>1. CASE f \in opsQuiet[q]
    BY <1>1, <2>1, ToldStays DEF OpsSound
  <2>2. CASE f \notin opsQuiet[q]
    <3>1. /\ ops[o].step = "closing" /\ ops[o].dispatched
          /\ opsQuiet' = [opsQuiet EXCEPT ![ops[o].host] = @ \cup {ops[o].incident}]
      BY <1>1, <1>4, <2>2 DEF OpsStep, OpsDispatch, OpsPost, OpsFinish, OpsTyped
    <3>2. q = ops[o].host /\ f = ops[o].incident
      BY <1>1, <1>4, <2>2, <3>1 DEF OpsTyped
    <3>3. Told(q, f)
      BY <3>1, <3>2 DEF Told
    <3> QED BY <1>1, <3>3, ToldStays
  <2> QED BY <2>1, <2>2
<1> QED BY <1>1, <1>3, <1>4 DEF OpsSound

\* Silence ends, or a process forgets.
LEMMA OpsForgetSound ==
  ASSUME OpsSound, NEW p \in Processes, OpsForget(p) \/ \E f \in Fingerprints : OpsQuietEnds(p, f)
  PROVE  OpsSound'
<1>1. OpsTyped'
  BY DEF OpsForget, OpsQuietEnds, OpsSound, OpsTyped, OpsTypes, OpsSteps
<1>2. OpsLasts
  BY DEF OpsForget, OpsQuietEnds, OpsSound, OpsTyped, OpsTypes, OpsLasts
<1>3. \A q \in Processes : opsQuiet'[q] \subseteq opsQuiet[q]
  BY DEF OpsForget, OpsQuietEnds, OpsSound, OpsTyped
<1>4. \A o \in OpsAlerts : ops'[o].step = "suppressed" => ops[o].step = "suppressed"
  BY DEF OpsForget, OpsQuietEnds, OpsSound, OpsTyped, OpsTypes
<1>5. HeldBackWasTold'
  BY <1>1, <1>2, <1>4, HeldBackStays
<1>6. \A q \in Processes : \A f \in opsQuiet'[q] : Told(q, f)'
  BY <1>2, <1>3, ToldStays DEF OpsSound
<1> QED BY <1>1, <1>5, <1>6 DEF OpsSound

LEMMA InitOps == OpsInit => OpsSound
BY DEF OpsInit, OpsSound, OpsTyped, OpsTypes, OpsSteps, HeldBackWasTold


-----------------------------------------------------------------------------
(* Types, and what alerts are sent and held back.                          *)

Sound == MerchantSound /\ OpsSound /\ LimiterTyped /\ BoundsTyped

LEMMA InitSound == Init => Sound
<1> SUFFICES ASSUME Init PROVE Sound
  OBVIOUS
<1>1. MerchantSound
  BY InitMerchant DEF Init
<1>2. OpsSound
  BY InitOps DEF Init
<1>3. LimiterTyped
  BY DEF Init, LimiterInit, LimiterTyped
<1>4. BoundsTyped
  BY DeploymentAssumption, AlertingAssumption DEF Init, BoundsTyped
<1> QED BY <1>1, <1>2, <1>3, <1>4 DEF Sound

\* What a step does to each part.
MerchantPart ==
  \/ \E s \in Saves : SaveStep(s)
  \/ \E a \in Alerts : AlertStep(a)
  \/ \E p \in Processes : QuietEnds(p) \/ Forget(p)
  \/ UNCHANGED merchantVars
OpsPart ==
  \/ \E o \in OpsAlerts : OpsStep(o)
  \/ \E p \in Processes : OpsForget(p) \/ \E f \in Fingerprints : OpsQuietEnds(p, f)
  \/ UNCHANGED opsVars
LimiterPart ==
  \/ UNCHANGED limiterVars
  \/ \E p \in Processes : RequestAudit(p) \/ (ForgetCount(p) /\ Fault)
  \/ WindowEnds
BoundsPart ==
  /\ Fault \/ UNCHANGED faults
  /\ UNCHANGED left \/ \E kind \in {"saves", "alerts", "ops", "requests"} : \E n : Uses(kind, n)

LEMMA NextParts == ASSUME Next PROVE MerchantPart /\ OpsPart /\ LimiterPart /\ BoundsPart
<1>1. ASSUME NEW p \in Processes, NEW s \in Saves, Save(s, p)
      PROVE  SaveStep(s) /\ UNCHANGED <<opsVars, limiterVars, faults>> /\ Uses("saves", s)
  BY <1>1 DEF Save, SaveStep, MerchantOnly, SaveSettings, SaveFailover, StartSave
<1>2. ASSUME NEW s \in Saves, Saved(s)
      PROVE  SaveStep(s) /\ UNCHANGED <<opsVars, limiterVars, left>> /\ (Fault \/ UNCHANGED faults)
  <2>1. SaveStep(s) /\ UNCHANGED <<opsVars, limiterVars, left>>
    BY <1>2 DEF Saved, SaveStep, MerchantOnly
  <2>2. Fault \/ UNCHANGED faults
    BY <1>2 DEF Saved, ReadExisting, SaveRow, Sync, Enable, Rewrite, SaveFails, NoFault
  <2> QED BY <2>1, <2>2
<1>3. ASSUME NEW p \in Processes, NEW a \in Alerts, Alert(a, p)
      PROVE  AlertStep(a) /\ UNCHANGED <<opsVars, limiterVars>> /\ (Fault \/ UNCHANGED faults)
             /\ Uses("alerts", a)
  <2>1. AlertStep(a) /\ UNCHANGED <<opsVars, limiterVars>> /\ Uses("alerts", a)
    BY <1>3 DEF Alert, AlertStep, MerchantOnly
  <2>2. Fault \/ UNCHANGED faults
    BY <1>3 DEF Alert, Evaluate, DispatchAlert, PingStored, PingEntered, Start, NoFault
  <2> QED BY <2>1, <2>2
<1>4. ASSUME NEW a \in Alerts, Alerted(a)
      PROVE  AlertStep(a) /\ UNCHANGED <<opsVars, limiterVars, left>> /\ (Fault \/ UNCHANGED faults)
  <2>1. AlertStep(a) /\ UNCHANGED <<opsVars, limiterVars, left>>
    BY <1>4 DEF Alerted, AlertStep, MerchantOnly
  <2>2. Fault \/ UNCHANGED faults
    BY <1>4 DEF Alerted, Post, TelegramAnswers, Expected, Fault
  <2> QED BY <2>1, <2>2
<1>5. ASSUME NEW p \in Processes, NEW o \in OpsAlerts, OpsAlert(o, p)
      PROVE  OpsStep(o) /\ UNCHANGED <<merchantVars, limiterVars, faults>> /\ Uses("ops", o)
  BY <1>5 DEF OpsAlert, OpsStep
<1>6. ASSUME NEW o \in OpsAlerts, OpsAlerted(o)
      PROVE  OpsStep(o) /\ UNCHANGED <<merchantVars, limiterVars, left>> /\ (Fault \/ UNCHANGED faults)
  BY <1>6 DEF OpsAlerted, OpsStep, NoFault
<1>7. ASSUME NEW p \in Processes, RequestAudit(p)
      PROVE  UNCHANGED <<merchantVars, opsVars, faults>> /\ \E n : Uses("requests", n)
  BY <1>7 DEF RequestAudit
<1>8. ASSUME NEW p \in Processes, AlertsResume(p)
      PROVE  QuietEnds(p) /\ UNCHANGED <<limiterVars, opsVars, faults, left>>
  BY <1>8 DEF AlertsResume, QuietEnds, MerchantOnly
<1>9. ASSUME NEW p \in Processes, OpsResume(p)
      PROVE  /\ \E f \in Fingerprints : OpsQuietEnds(p, f)
             /\ UNCHANGED <<merchantVars, limiterVars, faults, left>>
  BY <1>9 DEF OpsResume
<1>10. ASSUME NEW p \in Processes, Restart(p)
       PROVE  Forget(p) /\ ForgetCount(p) /\ OpsForget(p) /\ UNCHANGED left /\ Fault
  BY <1>10 DEF Restart, Forget
<1>11. ASSUME NextWindow
       PROVE  WindowEnds /\ UNCHANGED <<merchantVars, opsVars, faults, left>>
  BY <1>11 DEF NextWindow
<1>12. MerchantPart
  BY <1>1, <1>2, <1>3, <1>4, <1>5, <1>6, <1>7, <1>8, <1>9, <1>10, <1>11 DEF Next, MerchantPart
<1>13. OpsPart
  BY <1>1, <1>2, <1>3, <1>4, <1>5, <1>6, <1>7, <1>8, <1>9, <1>10, <1>11 DEF Next, OpsPart
<1>14. LimiterPart
  BY <1>1, <1>2, <1>3, <1>4, <1>5, <1>6, <1>7, <1>8, <1>9, <1>10, <1>11 DEF Next, LimiterPart
<1>15. BoundsPart
  BY <1>1, <1>2, <1>3, <1>4, <1>5, <1>6, <1>7, <1>8, <1>9, <1>10, <1>11 DEF Next, BoundsPart
<1> QED BY <1>12, <1>13, <1>14, <1>15

LEMMA NextSound == ASSUME Sound, [Next]_vars PROVE Sound'
<1>1. CASE UNCHANGED vars
  BY <1>1 DEF vars, merchantVars, limiterVars, opsVars, Sound, MerchantSound, SettingsTyped,
     SavesTyped, AlertsSound, OpsSound, OpsTyped, HeldBackWasTold, Told, LimiterTyped, BoundsTyped
<1>2. CASE Next
  <2>1. MerchantSound'
    BY <1>2, NextParts, SaveKeepsSound, AlertKeepsSound, ForgetKeepsSound
       DEF MerchantPart, Sound, merchantVars, MerchantSound, SettingsTyped, SavesTyped, AlertsSound
  <2>2. OpsSound'
    BY <1>2, NextParts, OpsStepSound, OpsForgetSound
       DEF OpsPart, Sound, opsVars, OpsSound, OpsTyped, HeldBackWasTold, Told
  <2>3. LimiterTyped'
    BY <1>2, NextParts DEF LimiterPart, Sound, limiterVars, LimiterTyped, RequestAudit, Consume,
       FallBack, Let, WindowEnds, ForgetCount
  <2>4. faults' \in 0..MaxFaults
    BY <1>2, NextParts, DeploymentAssumption DEF BoundsPart, Sound, BoundsTyped, Fault
  <2>5. left' \in ScenarioTypes
    <3>1. left \in ScenarioTypes
      BY DEF Sound, BoundsTyped
    <3>2. ASSUME NEW kind \in {"saves", "alerts", "ops", "requests"}, NEW n, Uses(kind, n)
          PROVE  left' \in ScenarioTypes
      <4>1. left[kind] \in Nat /\ left[kind] > 0 /\ left' = [left EXCEPT ![kind] = @ - 1]
        BY <3>1, <3>2 DEF Uses, ScenarioTypes
      <4>2. left[kind] - 1 \in Nat
        BY <4>1
      <4> QED BY <3>1, <4>1, <4>2 DEF ScenarioTypes
    <3> QED BY <1>2, <3>1, <3>2, NextParts DEF BoundsPart
  <2> QED BY <2>1, <2>2, <2>3, <2>4, <2>5 DEF Sound, BoundsTyped
<1> QED BY <1>1, <1>2

LEMMA SoundImplies == ASSUME Sound PROVE TypeOK /\ SendsAccounted /\ HeldBackWasTold
<1>1. TypeOK
  BY DEF Sound, TypeOK, MerchantSound, SettingsTyped, SavesTyped, AlertsSound, SaveTypes,
     AlertTypes, OpsSound, OpsTyped, OpsTypes, LimiterTyped, BoundsTyped
<1>2. SendsAccounted
  BY DEF Sound, MerchantSound, AlertsSound, AlertSound, SendSound, SendsAccounted
<1> QED BY <1>1, <1>2 DEF Sound, OpsSound

\* Every variable keeps its type: settings, alerts, counts and silences are what
\* the handlers take them for, whichever steps of whichever processes interleave.
THEOREM AlertingTyped == Spec => []TypeOK
<1>1. Spec => []Sound
  BY InitSound, NextSound, PTL DEF Spec
<1>2. Sound => TypeOK
  BY SoundImplies
<1> QED BY <1>1, <1>2, PTL

\* A send whose caller is told that it succeeded came through, and comes through
\* again only when Telegram's answer to an earlier attempt was lost.
THEOREM SendsReported == Spec => []SendsAccounted
<1>1. Spec => []Sound
  BY InitSound, NextSound, PTL DEF Spec
<1>2. Sound => SendsAccounted
  BY SoundImplies
<1> QED BY <1>1, <1>2, PTL

\* An operators' alert is suppressed only by a process that has got the same
\* incident through, whatever it forgot and remembered in between.
THEOREM SilenceEarned == Spec => []HeldBackWasTold
<1>1. Spec => []Sound
  BY InitSound, NextSound, PTL DEF Spec
<1>2. Sound => HeldBackWasTold
  BY SoundImplies
<1> QED BY <1>1, <1>2, PTL

-----------------------------------------------------------------------------
(* How many audits get through.                                            *)

\* Which of its own OwnLimit requests each process has used up.
Spent == {q \in Processes \X (1..OwnLimit) : q[2] <= ownCounted[q[1]]}
Within == IF counted < Limit THEN counted ELSE Limit

\* Whoever was let through is counted in the store, or in a process, or in one
\* that has died since.
Bounded == admitted <= Within + Cardinality(Spent) + faults * OwnLimit

LEMMA SpentCounted ==
  ASSUME NEW S \in SUBSET (Processes \X (1..OwnLimit))
  PROVE  /\ IsFiniteSet(S) /\ Cardinality(S) \in Nat
         /\ Cardinality(S) <= Cardinality(Processes) * OwnLimit
<1>1. IsFiniteSet(1..OwnLimit) /\ Cardinality(1..OwnLimit) = OwnLimit
  BY LimiterAssumption, FS_Interval
<1>2. /\ IsFiniteSet(Processes \X (1..OwnLimit))
      /\ Cardinality(Processes \X (1..OwnLimit)) = Cardinality(Processes) * OwnLimit
  BY <1>1, AlertingAssumption, FS_Product
<1> QED BY <1>2, FS_Subset, FS_CardinalityType

LEMMA SpentSubset ==
  /\ Spent \in SUBSET (Processes \X (1..OwnLimit))
  /\ Spent' \in SUBSET (Processes \X (1..OwnLimit))
BY DEF Spent

LEMMA MoreSpent ==
  ASSUME \A p \in Processes : ownCounted[p] <= ownCounted'[p], LimiterTyped, LimiterTyped'
  PROVE  Cardinality(Spent) <= Cardinality(Spent')
<1>1. Spent \subseteq Spent'
  BY DEF Spent, LimiterTyped
<1> QED BY <1>1, SpentSubset, SpentCounted, FS_Subset

\* A process that lets a request through on its own has used up one more.
LEMMA OwnSpent ==
  ASSUME LimiterTyped, NEW p \in Processes, ownCounted[p] < OwnLimit,
         ownCounted' = [ownCounted EXCEPT ![p] = @ + 1]
  PROVE  Cardinality(Spent') = Cardinality(Spent) + 1
<1> DEFINE one == <<p, ownCounted[p] + 1>>
<1>1. /\ ownCounted[p] \in Nat /\ ownCounted'[p] = ownCounted[p] + 1
      /\ ownCounted[p] + 1 \in 1..OwnLimit
      /\ \A q \in Processes : ownCounted[q] \in Nat /\ (q # p => ownCounted'[q] = ownCounted[q])
  BY LimiterAssumption DEF LimiterTyped
<1>2. one \notin Spent
  BY <1>1 DEF Spent
<1>3. Spent' = Spent \cup {one}
  <2>1. ASSUME NEW q \in Processes, NEW i \in 1..OwnLimit
        PROVE  <<q, i>> \in Spent' <=> <<q, i>> \in Spent \/ <<q, i>> = one
    <3>1. <<q, i>> \in Spent' <=> i <= ownCounted'[q]
      BY DEF Spent
    <3>2. <<q, i>> \in Spent <=> i <= ownCounted[q]
      BY DEF Spent
    <3>3. <<q, i>> = one <=> q = p /\ i = ownCounted[p] + 1
      OBVIOUS
    <3> QED BY <1>1, <3>1, <3>2, <3>3
  <2>2. one \in Processes \X (1..OwnLimit)
    BY <1>1
  <2> HIDE DEF one
  <2> QED BY <2>1, <2>2, SpentSubset
<1> HIDE DEF one
<1> QED BY <1>2, <1>3, SpentSubset, SpentCounted, FS_AddElement

\* A process that dies forgets at most its limit.
LEMMA SpentForgotten ==
  ASSUME LimiterTyped, NEW p \in Processes, ForgetCount(p)
  PROVE  Cardinality(Spent) <= Cardinality(Spent') + OwnLimit
<1> DEFINE lost == {p} \X (1..OwnLimit)
<1>1. lost \in SUBSET (Processes \X (1..OwnLimit))
  OBVIOUS
<1>2. Spent \subseteq Spent' \cup lost
  BY DEF Spent, ForgetCount, LimiterTyped
<1>3. IsFiniteSet(lost) /\ Cardinality(lost) = OwnLimit
  <2>1. IsFiniteSet(1..OwnLimit) /\ Cardinality(1..OwnLimit) = OwnLimit
    BY LimiterAssumption, FS_Interval
  <2>2. IsFiniteSet({p}) /\ Cardinality({p}) = 1
    BY FS_Singleton
  <2>3. IsFiniteSet(lost) /\ Cardinality(lost) = 1 * OwnLimit
    BY <2>1, <2>2, FS_Product
  <2> QED BY <2>3, LimiterAssumption
<1> HIDE DEF lost
<1>4. IsFiniteSet(Spent') /\ Cardinality(Spent') \in Nat /\ Cardinality(Spent) \in Nat
  BY SpentSubset, SpentCounted
<1>5. /\ IsFiniteSet(Spent' \cup lost)
      /\ Cardinality(Spent' \cup lost) =
           Cardinality(Spent') + Cardinality(lost) - Cardinality(Spent' \cap lost)
  BY <1>3, <1>4, FS_Union
<1>6. Cardinality(Spent' \cap lost) \in Nat
  BY <1>3, FS_Subset, FS_CardinalityType
<1>7. Cardinality(Spent) <= Cardinality(Spent' \cup lost)
  BY <1>2, <1>5, FS_Subset
<1> QED BY <1>3, <1>4, <1>5, <1>6, <1>7, LimiterAssumption

LEMMA FaultsCosted ==
  ASSUME NEW f \in Nat
  PROVE  f * OwnLimit \in Nat /\ (f + 1) * OwnLimit = f * OwnLimit + OwnLimit
BY LimiterAssumption

LEMMA NextBounded == ASSUME Sound, Sound', Bounded, [Next]_vars PROVE Bounded'
<1>1. LimiterTyped /\ LimiterTyped' /\ faults \in Nat
  BY DEF Sound, BoundsTyped
<1>2. faults' = faults \/ faults' = faults + 1
  BY NextParts DEF BoundsPart, Fault, vars
<1>3. /\ faults * OwnLimit \in Nat
      /\ faults' * OwnLimit = faults * OwnLimit \/ faults' * OwnLimit = faults * OwnLimit + OwnLimit
  BY <1>1, <1>2, FaultsCosted
<1>4. /\ Cardinality(Spent) \in Nat /\ Cardinality(Spent') \in Nat
      /\ counted \in Nat /\ counted' \in Nat /\ admitted \in Nat /\ admitted' \in Nat
      /\ Limit \in Nat /\ OwnLimit \in Nat
  BY <1>1, SpentSubset, SpentCounted, LimiterAssumption DEF LimiterTyped
<1>5. admitted <= Within + Cardinality(Spent) + faults * OwnLimit
  BY DEF Bounded
<1> DEFINE cost == faults * OwnLimit
           newCost == faults' * OwnLimit
<1> SUFFICES admitted' <= Within' + Cardinality(Spent') + newCost
  BY DEF Bounded
<1>6. /\ admitted <= Within + Cardinality(Spent) + cost
      /\ cost \in Nat /\ (newCost = cost \/ newCost = cost + OwnLimit)
  BY <1>3, <1>5
<1> HIDE DEF cost, newCost
<1>7. CASE UNCHANGED limiterVars
  <2>1. Spent' = Spent /\ Within' = Within /\ admitted' = admitted
    BY <1>7 DEF limiterVars, Spent, Within
  <2> QED BY <1>4, <1>6, <2>1 DEF Within
<1>8. ASSUME NEW p \in Processes, NEW through \in BOOLEAN, Consume(through)
      PROVE  admitted' <= Within' + Cardinality(Spent') + newCost
  <2>1. /\ counted' = counted + 1 /\ Spent' = Spent
        /\ admitted' = admitted \/ (admitted' = admitted + 1 /\ counted < Limit)
    BY <1>8 DEF Consume, Let, WithinLimit, Spent
  <2> QED BY <1>4, <1>6, <2>1 DEF Within
<1>9. ASSUME NEW p \in Processes, NEW through \in BOOLEAN, FallBack(p, through)
      PROVE  admitted' <= Within' + Cardinality(Spent') + newCost
  <2>1. counted' = counted \/ counted' = counted + 1
    BY <1>9 DEF FallBack
  <2>2. CASE ~through
    <3>1. admitted' = admitted /\ ownCounted' = [ownCounted EXCEPT ![p] = @ + 1]
      BY <1>9, <2>2 DEF FallBack, Let
    <3>2. Cardinality(Spent) <= Cardinality(Spent')
      BY <1>1, <3>1, MoreSpent DEF LimiterTyped
    <3> QED BY <1>4, <1>6, <2>1, <3>1, <3>2 DEF Within
  <2>3. CASE through
    <3>1. /\ admitted' = admitted + 1 /\ ownCounted[p] < OwnLimit
          /\ ownCounted' = [ownCounted EXCEPT ![p] = @ + 1]
      BY <1>9, <2>3 DEF FallBack, Let, WithinOwnLimit
    <3>2. Cardinality(Spent') = Cardinality(Spent) + 1
      BY <1>1, <3>1, OwnSpent
    <3> QED BY <1>4, <1>6, <2>1, <3>1, <3>2 DEF Within
  <2> QED BY <2>2, <2>3
<1>10. ASSUME NEW p \in Processes, ForgetCount(p), Fault
       PROVE  admitted' <= Within' + Cardinality(Spent') + newCost
  <2>1. Cardinality(Spent) <= Cardinality(Spent') + OwnLimit
    BY <1>1, <1>10, SpentForgotten
  <2>2. admitted' = admitted /\ Within' = Within
    BY <1>10 DEF ForgetCount, Within
  <2>3. newCost = cost + OwnLimit
    BY <1>1, <1>10, FaultsCosted DEF Fault, newCost, cost
  <2>4. Within \in Nat
    BY <1>4 DEF Within
  <2> QED BY <1>4, <1>6, <2>1, <2>2, <2>3, <2>4
<1>11. CASE WindowEnds
  <2>1. admitted' = 0 /\ Within' = 0
    BY <1>4, <1>11 DEF WindowEnds, Within
  <2> QED BY <1>4, <1>6, <2>1
<1>12. CASE \E p \in Processes : RequestAudit(p)
  BY <1>8, <1>9, <1>12 DEF RequestAudit
<1>13. CASE LimiterPart
  BY <1>7, <1>10, <1>11, <1>12, <1>13 DEF LimiterPart
<1>14. CASE UNCHANGED vars
  BY <1>7, <1>14 DEF vars
<1> QED BY <1>13, <1>14, NextParts

\* A window lets through no more requests than its limit, what each process adds
\* on its own while the store cannot be reached, and what restarts forget:
\* whenever the store fails and whichever process a request goes to.
THEOREM LimitOverrunBounded == Spec => []NeverUnlimited
<1>1. Init => Sound /\ Bounded
  <2>1. ASSUME Init PROVE Bounded
    <3>1. admitted = 0 /\ counted = 0 /\ faults = 0
      BY <2>1 DEF Init, LimiterInit
    <3>2. Cardinality(Spent) \in Nat
      BY SpentSubset, SpentCounted
    <3>3. 0 * OwnLimit = 0
      BY LimiterAssumption
    <3> QED BY <3>1, <3>2, <3>3, LimiterAssumption DEF Bounded, Within
  <2> QED BY <2>1, InitSound
<1>2. Sound /\ Bounded /\ [Next]_vars => (Sound /\ Bounded)'
  BY NextSound, NextBounded
<1>3. Sound /\ Bounded => NeverUnlimited
  <2> SUFFICES ASSUME Sound, Bounded PROVE NeverUnlimited
    OBVIOUS
  <2>1. /\ Cardinality(Spent) \in Nat /\ Cardinality(Spent) <= Cardinality(Processes) * OwnLimit
        /\ Cardinality(Processes) \in Nat
    BY SpentSubset, SpentCounted, AlertingAssumption, FS_CardinalityType
  <2>2. faults \in Nat /\ counted \in Nat /\ admitted \in Nat /\ Limit \in Nat /\ OwnLimit \in Nat
    BY LimiterAssumption DEF Sound, BoundsTyped, LimiterTyped
  <2>3. (Cardinality(Processes) + faults) * OwnLimit = Cardinality(Processes) * OwnLimit + faults * OwnLimit
    BY <2>1, <2>2
  <2>4. Within <= Limit /\ Within \in Nat
    BY <2>2 DEF Within
  <2>5. faults * OwnLimit \in Nat
    BY <2>2
  <2> QED BY <2>1, <2>2, <2>3, <2>4, <2>5 DEF Bounded, NeverUnlimited
<1> QED BY <1>1, <1>2, <1>3, PTL DEF Spec

-----------------------------------------------------------------------------
(* What is stored of the merchant's token.                                 *)

\* The token is the one the merchant entered last, encrypted at least once.
Kept(token) == token.key = latest /\ (latest # "none" => token.layers >= 1)

\* A request that came with a token carries the latest; one that came without
\* leaves what there is.  What it is about to store has been kept.
Carrying(s) ==
  /\ IF saves[s].key = "none" THEN Kept(config.token) ELSE latest = saves[s].key
  /\ saves[s].step \in {"saving", "enabling", "rewriting"} => Kept(saves[s].token)
  /\ saves[s].step = "syncing" => saves[s].token = NoToken \/ Kept(saves[s].token)

\* The one request that is being handled, or else what is stored.
CredentialSound ==
  faults = 0 /\ ~overlapped =>
    /\ \A s, t \in Saves : Saving(s) /\ Saving(t) => s = t
    /\ (\A s \in Saves : ~Saving(s)) => Kept(config.token)
    /\ \A s \in Saves : Saving(s) => Carrying(s)

\* The request that is being handled goes on.
LEMMA OnlyOneSaves ==
  ASSUME SavesTyped, CredentialSound, faults = 0, ~overlapped, NEW s \in Saves, Saving(s),
         saves' = [saves EXCEPT ![s] = saves'[s]],
         Saving(s)' => Carrying(s)', ~Saving(s)' => Kept(config.token)'
  PROVE  CredentialSound'
<1>1. \A t \in Saves : t # s => saves'[t] = saves[t] /\ ~Saving(t)
  BY DEF CredentialSound, SavesTyped
<1>2. \A t \in Saves : t # s => ~Saving(t)'
  BY <1>1 DEF Saving
<1> QED BY <1>2 DEF CredentialSound

LEMMA KeptEncrypted ==
  ASSUME MerchantSound, NEW token \in Tokens, Kept(token)
  PROVE  Kept(Encrypted(token))
BY DEF Kept, Encrypted, Tokens

LEMMA KeptEntered ==
  ASSUME NEW key, latest = key
  PROVE  Kept(Encrypted(Entered(key)))
<1>1. Encrypted(Entered(key)) = [key |-> key, layers |-> 0 + 1]
  BY DEF Encrypted, Entered
<1> QED BY <1>1 DEF Kept

\* Whatever a request carries: what it gives update_config is what it has kept.
LEMMA KeptSynced ==
  ASSUME MerchantSound, NEW s \in Saves, saves[s].step = "syncing", Carrying(s)
  PROVE  Kept(SyncToken(s, config.token))
<1>1. saves[s].token \in Tokens
  BY DEF MerchantSound, SavesTyped, SaveTypes
<1>2. CASE saves[s].token # NoToken
  <2>1. Kept(Encrypted(saves[s].token))
    BY <1>1, <1>2, KeptEncrypted DEF Carrying
  <2> QED BY <1>2, <2>1 DEF SyncToken, Given
<1>3. CASE saves[s].token = NoToken /\ saves[s].key # "none"
  <2>1. Given(s) = Entered(saves[s].key) /\ latest = saves[s].key
    BY <1>3 DEF Given, Carrying
  <2>2. Entered(saves[s].key) # NoToken
    BY <1>3 DEF Entered, NoToken
  <2> QED BY <2>1, <2>2, KeptEntered DEF SyncToken
<1>4. CASE saves[s].token = NoToken /\ saves[s].key = "none"
  BY <1>4 DEF SyncToken, Given, Carrying
<1> QED BY <1>2, <1>3, <1>4

LEMMA SaveKeepsCredential ==
  ASSUME MerchantSound, CredentialSound, NEW s \in Saves, SaveStep(s),
         faults' = 0, faults \in Nat
  PROVE  CredentialSound'
<1> SUFFICES ASSUME ~overlapped' PROVE CredentialSound'
  BY DEF CredentialSound
<1>1. SavesTyped /\ saves \in [Saves -> SaveTypes]
  BY DEF MerchantSound, SavesTyped
<1>2. ~Fault
  BY DEF Fault
<1>3. ASSUME NEW p \in Processes, NEW key \in Keys \cup {"none"}, NEW chat \in BOOLEAN,
             NEW on \in {"on", "off"}, NEW step \in {"reading", "syncing"},
             StartSave(s, p, step, key, chat, on)
      PROVE  CredentialSound'
  <2>1. /\ faults = 0 /\ ~overlapped /\ config' = config
        /\ \A t \in Saves : ~Saving(t)
        /\ latest' = IF key = "none" THEN latest ELSE key
        /\ \A t \in Saves : t # s => saves'[t] = saves[t]
        /\ saves'[s].step = step /\ saves'[s].key = key /\ saves'[s].token = NoToken
    <3>1. faults = 0 /\ config' = config /\ latest' = IF key = "none" THEN latest ELSE key
      BY <1>3 DEF StartSave
    <3>2. ~overlapped /\ \A t \in Saves : ~Saving(t)
      BY <1>3 DEF StartSave
    <3>3. /\ \A t \in Saves : t # s => saves'[t] = saves[t]
          /\ saves'[s].step = step /\ saves'[s].key = key /\ saves'[s].token = NoToken
      BY <1>1, <1>3 DEF StartSave
    <3> QED BY <3>1, <3>2, <3>3
  <2>2. Kept(config.token)
    BY <2>1 DEF CredentialSound
  <2>3. Carrying(s)'
    BY <2>1, <2>2 DEF Carrying, Kept
  <2>4. Saving(s)' /\ \A t \in Saves : t # s => ~Saving(t)'
    BY <2>1 DEF Saving
  <2> QED BY <2>3, <2>4 DEF CredentialSound
<1>4. ASSUME Saving(s), faults = 0, ~overlapped,
             saves' = [saves EXCEPT ![s] = saves'[s]],
             Saving(s)' => Carrying(s)', ~Saving(s)' => Kept(config.token)'
      PROVE  CredentialSound'
  BY <1>1, <1>4, OnlyOneSaves
<1>5. CASE ReadExisting(s)
  <2> DEFINE token == IF saves[s].key = "none" THEN config.token
                      ELSE Encrypted(Entered(saves[s].key))
  <2>1. /\ saves' = [saves EXCEPT ![s].step = "saving", ![s].token = token]
        /\ UNCHANGED <<config, latest, faults, overlapped>> /\ Saving(s)
    BY <1>2, <1>5 DEF ReadExisting, SaveFails, NoFault, Saving
  <2>2. Carrying(s)
    BY <2>1 DEF CredentialSound
  <2>3. Kept(token)
    BY <2>2, KeptEntered DEF Carrying
  <2> HIDE DEF token
  <2>4. saves'[s] = [saves[s] EXCEPT !.step = "saving", !.token = token]
    BY <1>1, <2>1
  <2>5. /\ saves'[s].step = "saving" /\ saves'[s].token = token /\ saves'[s].key = saves[s].key
        /\ saves' = [saves EXCEPT ![s] = saves'[s]]
    <3>1. saves[s] \in SaveTypes
      BY <1>1
    <3>2. saves' = [saves EXCEPT ![s] = saves'[s]]
      BY <1>1, <2>1
    <3> QED BY <2>4, <3>1, <3>2 DEF SaveTypes
  <2>6. Carrying(s)' /\ Saving(s)'
    BY <2>1, <2>2, <2>3, <2>5 DEF Carrying, Kept, Saving
  <2> QED BY <1>4, <2>1, <2>5, <2>6
<1>6. CASE SaveRow(s)
  <2>1. /\ saves' = [saves EXCEPT ![s].step = "syncing"] /\ config' = Row(s)
        /\ UNCHANGED <<latest, faults, overlapped>> /\ Saving(s) /\ saves[s].step = "saving"
    BY <1>2, <1>6 DEF SaveRow, SaveFails, SaveGo, NoFault, Saving
  <2>2. Carrying(s)
    BY <2>1 DEF CredentialSound
  <2>3. Kept(saves[s].token) /\ config'.token = saves[s].token
    BY <2>1, <2>2 DEF Carrying, Row
  <2>4. saves'[s] = [saves[s] EXCEPT !.step = "syncing"]
    BY <1>1, <2>1
  <2>5. /\ saves'[s].step = "syncing" /\ saves'[s].token = saves[s].token
        /\ saves'[s].key = saves[s].key /\ saves' = [saves EXCEPT ![s] = saves'[s]]
    <3>1. saves[s] \in SaveTypes
      BY <1>1
    <3>2. saves' = [saves EXCEPT ![s] = saves'[s]]
      BY <1>1, <2>1
    <3> QED BY <2>4, <3>1, <3>2 DEF SaveTypes
  <2>6. Carrying(s)' /\ Saving(s)'
    BY <2>1, <2>2, <2>3, <2>5 DEF Carrying, Kept, Saving
  <2> QED BY <1>4, <2>1, <2>5, <2>6
<1>7. CASE Sync(s)
  <2>1. /\ saves' = [saves EXCEPT ![s].step = "enabling", ![s].token = SyncToken(s, config.token)]
        /\ UNCHANGED <<config, latest, faults, overlapped>> /\ Saving(s) /\ saves[s].step = "syncing"
    BY <1>2, <1>7 DEF Sync, NoFault, Saving
  <2>2. Carrying(s)
    BY <2>1 DEF CredentialSound
  <2>3. Kept(SyncToken(s, config.token))
    BY <2>1, <2>2, KeptSynced
  <2>4. saves'[s] = [saves[s] EXCEPT !.step = "enabling", !.token = SyncToken(s, config.token)]
    BY <1>1, <2>1
  <2>5. /\ saves'[s].step = "enabling" /\ saves'[s].token = SyncToken(s, config.token)
        /\ saves'[s].key = saves[s].key /\ saves' = [saves EXCEPT ![s] = saves'[s]]
    <3>1. saves[s] \in SaveTypes
      BY <1>1
    <3>2. saves' = [saves EXCEPT ![s] = saves'[s]]
      BY <1>1, <2>1
    <3> QED BY <2>4, <3>1, <3>2 DEF SaveTypes
  <2>6. Carrying(s)' /\ Saving(s)'
    BY <2>1, <2>2, <2>3, <2>5 DEF Carrying, Kept, Saving
  <2> QED BY <1>4, <2>1, <2>5, <2>6
<1>8. CASE Enable(s)
  <2>1. /\ UNCHANGED <<config, latest, faults, overlapped>> /\ Saving(s) /\ saves[s].step = "enabling"
        /\ \/ saves[s].token = NoToken /\ SaveEnds(s, "saved")
           \/ saves' = [saves EXCEPT ![s].step = "rewriting"]
    BY <1>2, <1>8 DEF Enable, SaveFails, SaveGo, NoFault, Saving
  <2>2. Carrying(s) /\ Kept(saves[s].token)
    BY <2>1 DEF CredentialSound, Carrying
  <2>3. CASE saves[s].token = NoToken /\ SaveEnds(s, "saved")
    <3>1. latest = "none"
      BY <2>2, <2>3 DEF Kept, NoToken
    <3>2. Kept(config.token)
      BY <2>2, <3>1 DEF Carrying
    <3>3. ~Saving(s)' /\ saves' = [saves EXCEPT ![s] = saves'[s]]
      BY <1>1, <2>3 DEF SaveEnds, NoSave, Saving
    <3> QED BY <1>4, <2>1, <3>2, <3>3 DEF Kept
  <2>4. CASE saves' = [saves EXCEPT ![s].step = "rewriting"]
    <3>1. saves'[s] = [saves[s] EXCEPT !.step = "rewriting"]
      BY <1>1, <2>4
    <3>2. /\ saves'[s].step = "rewriting" /\ saves'[s].token = saves[s].token
          /\ saves'[s].key = saves[s].key /\ saves' = [saves EXCEPT ![s] = saves'[s]]
      <4>1. saves[s] \in SaveTypes
        BY <1>1
      <4>2. saves' = [saves EXCEPT ![s] = saves'[s]]
        BY <1>1, <2>4
      <4> QED BY <3>1, <4>1, <4>2 DEF SaveTypes
    <3>3. Carrying(s)' /\ Saving(s)'
      BY <2>1, <2>2, <3>2 DEF Carrying, Kept, Saving
    <3> QED BY <1>4, <2>1, <3>2, <3>3
  <2> QED BY <2>1, <2>3, <2>4
<1>9. CASE Rewrite(s)
  <2>1. /\ SaveEnds(s, "saved") /\ config' = Row(s)
        /\ UNCHANGED <<latest, faults, overlapped>> /\ Saving(s) /\ saves[s].step = "rewriting"
    BY <1>2, <1>9 DEF Rewrite, SaveFails, NoFault, Saving
  <2>2. Kept(saves[s].token)
    BY <2>1 DEF CredentialSound, Carrying
  <2>3. ~Saving(s)' /\ saves' = [saves EXCEPT ![s] = saves'[s]]
    BY <1>1, <2>1 DEF SaveEnds, NoSave, Saving
  <2>4. Kept(config.token)'
    BY <2>1, <2>2 DEF Kept, Row
  <2> QED BY <1>4, <2>1, <2>3, <2>4
<1>10. \/ \E p \in Processes, key \in Keys \cup {"none"}, chat \in BOOLEAN,
            on \in {"on", "off"}, step \in {"reading", "syncing"} :
              StartSave(s, p, step, key, chat, on)
       \/ ReadExisting(s) \/ SaveRow(s) \/ Sync(s) \/ Enable(s) \/ Rewrite(s)
  BY DEF SaveStep, SaveSettings, SaveFailover
<1> QED BY <1>3, <1>5, <1>6, <1>7, <1>8, <1>9, <1>10

LEMMA NextCredential == ASSUME Sound, CredentialSound, [Next]_vars PROVE CredentialSound'
<1>1. faults \in Nat /\ faults' \in Nat /\ (faults' = 0 => faults = 0 /\ ~Fault)
  <2>1. faults \in Nat
    BY DEF Sound, BoundsTyped
  <2>2. faults' = faults \/ (faults' = faults + 1 /\ Fault)
    BY NextParts DEF BoundsPart, Fault, vars
  <2>3. ASSUME Fault PROVE faults' = faults + 1
    BY <2>3 DEF Fault
  <2> QED BY <2>1, <2>2, <2>3
<1> SUFFICES ASSUME faults' = 0 PROVE CredentialSound'
  BY DEF CredentialSound
<1>2. CASE UNCHANGED <<config, saves, latest, overlapped>>
  BY <1>1, <1>2 DEF CredentialSound, Saving, Carrying, Kept
<1>3. ASSUME NEW a \in Alerts, AlertStep(a) PROVE CredentialSound'
  BY <1>2, <1>3 DEF AlertStep, Evaluate, DispatchAlert, PingStored, PingEntered, Start, Post
<1>4. ASSUME NEW p \in Processes, QuietEnds(p) \/ Forget(p) PROVE CredentialSound'
  BY <1>1, <1>2, <1>4 DEF QuietEnds, Forget
<1>5. ASSUME NEW s \in Saves, SaveStep(s) PROVE CredentialSound'
  BY <1>1, <1>5, SaveKeepsCredential DEF Sound
<1>6. CASE UNCHANGED merchantVars
  BY <1>2, <1>6 DEF merchantVars
<1>7. CASE UNCHANGED vars
  BY <1>6, <1>7 DEF vars
<1> QED BY <1>3, <1>4, <1>5, <1>6, <1>7, NextParts DEF MerchantPart

\* Whichever endpoint saves the settings, and whatever the other one left behind,
\* the stored token stays the one the merchant entered last, and encrypted, as
\* long as no call has failed and no two requests have overlapped.
THEOREM StoredTokenKept == Spec => []CredentialKept
<1>1. Init => Sound /\ CredentialSound
  <2>1. ASSUME Init PROVE CredentialSound
    BY <2>1 DEF Init, MerchantInit, CredentialSound, Saving, NoSave, Kept, NoToken
  <2> QED BY <2>1, InitSound
<1>2. Sound /\ CredentialSound /\ [Next]_vars => (Sound /\ CredentialSound)'
  BY NextSound, NextCredential
<1>3. Sound /\ CredentialSound => CredentialKept
  BY DEF CredentialSound, CredentialKept, Kept
<1> QED BY <1>1, <1>2, <1>3, PTL DEF Spec

=============================================================================
