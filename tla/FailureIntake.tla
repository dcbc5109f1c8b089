--------------------------- MODULE FailureIntake ---------------------------
(***************************************************************************)
(* Reports of failed deliveries on their way from the email providers to   *)
(* the merchant they concern: the webhook verifies a delivery, normalises  *)
(* the reports in it and stores each once; the failover worker finds out   *)
(* whose message it was.  Providers deliver again whatever was not         *)
(* answered with 200, to any server.                                       *)
(***************************************************************************)
EXTENDS IncidentCorrelation, Sequences

CONSTANTS
  Servers,     \* processes of the API
  Mails,       \* message ids of providers
  Deliveries,  \* what providers send: provider, reports, signature, timestamp
  Imports,     \* events that other programs put into the table
  Key,         \* for each provider: a signing key, none, or a test token as key
  TestMode,    \* ENVIRONMENT is development or test, and not staging
  MaxRegistrations, \* bound on registered messages
  MaxFaults    \* bound on errors, lost answers and crashes

ASSUME IntakeAssumption ==
  /\ TestMode \in BOOLEAN
  /\ MaxRegistrations \in Nat
  /\ MaxFaults \in Nat
  /\ \A e \in Imports :
       /\ e.mail \in Mails
       /\ e.claims \subseteq Tenants /\ e.order \subseteq Tenants /\ e.domain \subseteq Tenants

VARIABLES
  registry,   \* transactional_message_registry: tenant of each message id
  registered, \* history: what was ever registered
  local,      \* messages registered in the memory of one server only
  due,        \* deliveries not yet answered with 200
  old,        \* deliveries whose timestamp is more than 300 s ago
  stored,     \* delivery_failure_events
  mem,        \* keys in the memory of each server
  job,        \* the delivery each server is at
  verdicts,   \* what the failover worker made of an event
  faults      \* faults so far, at most MaxFaults

vars == <<registry, registered, local, due, old, stored, mem, job, verdicts, faults>>

Idle == [at |-> 0]

\* What the registry may be asked for.
Names == {d.provider : d \in Deliveries \cup Imports} \X Mails

Init ==
  /\ registry = [pm \in Names |-> Nobody]
  /\ registered = {}
  /\ local = {}
  /\ due = Deliveries
  /\ old = {}
  /\ stored \in {{}} \cup {{e} : e \in Imports}
  /\ mem = [s \in Servers |-> {}]
  /\ job = [s \in Servers |-> Idle]
  /\ verdicts = {}
  /\ faults = 0

Fault == faults < MaxFaults /\ faults' = faults + 1
NoFault == UNCHANGED faults

-----------------------------------------------------------------------------
(* The verifiers.  sig: "good", "wrong", "test" or "none"; time: "fresh" or *)
(* "none", which becomes "old".                                            *)

\* A key that is a test token counts as none in a test environment and fails
\* closed elsewhere.
Configured(p) == Key[p] = "key"
Bypass(p) == ~Configured(p) /\ TestMode

TimeOf(d) == IF d.time = "fresh" /\ d \in old THEN "old" ELSE d.time

AcceptsToken(d) ==
  \/ Configured(d.provider) /\ d.sig = "good"
  \/ Bypass(d.provider) /\ d.sig = "test"
AcceptsPostmark(d) == AcceptsToken(d)
AcceptsSES(d) == AcceptsToken(d)

AcceptsSendgrid(d) ==
  \/ Configured("sendgrid") /\ d.sig = "good" /\ TimeOf(d) = "fresh"
  \/ Bypass("sendgrid") /\ d.sig = "test" /\ TimeOf(d) # "old"

AcceptsMailgun(d) ==
  \/ Configured("mailgun") /\ d.sig = "good" /\ TimeOf(d) = "fresh"
  \/ Bypass("mailgun") /\ d.sig = "test"

AcceptsKlaviyo(d) ==
  \/ Configured("klaviyo") /\ d.sig = "good" /\ TimeOf(d) # "old"
  \/ Bypass("klaviyo") /\ d.sig = "test"

Accepts(d) ==
  CASE d.provider = "postmark" -> AcceptsPostmark(d)
    [] d.provider = "sendgrid" -> AcceptsSendgrid(d)
    [] d.provider = "mailgun" -> AcceptsMailgun(d)
    [] d.provider = "ses" -> AcceptsSES(d)
    [] d.provider = "klaviyo" -> AcceptsKlaviyo(d)

-----------------------------------------------------------------------------
(* The normalizers.  what: "permanent", "transient", "complaint", "blocked", *)
(* "rejected", "delivered", or "other", a bounce of no kind known here.    *)

Skip == "skip"

\* Everything that is not a bounce or a complaint is a drop, a delivery as well.
NormalizePostmark(what) ==
  CASE what \in {"permanent", "other"} -> "bounce"
    [] what = "transient" -> "deferred"
    [] what = "complaint" -> "complaint"
    [] OTHER -> "dropped"

NormalizeSendgrid(what) ==
  CASE what \in {"permanent", "other"} -> "bounce"
    [] what = "transient" -> "deferred"
    [] what = "complaint" -> "complaint"
    [] what = "blocked" -> "dropped"
    [] OTHER -> Skip

NormalizeMailgun(what) ==
  CASE what = "permanent" -> "bounce"
    [] what = "transient" -> "deferred"
    [] what = "complaint" -> "complaint"
    [] what \in {"rejected", "other"} -> "rejected"
    [] OTHER -> Skip

NormalizeSES(what) ==
  CASE what = "permanent" -> "bounce"
    [] what \in {"transient", "blocked", "other"} -> "deferred"
    [] what = "complaint" -> "complaint"
    [] OTHER -> Skip

\* Hard or soft, a bounce is a bounce.
NormalizeKlaviyo(what) ==
  CASE what \in {"permanent", "transient", "other"} -> "bounce"
    [] what = "blocked" -> "dropped"
    [] what = "complaint" -> "complaint"
    [] OTHER -> Skip

Normalize(p, what) ==
  CASE p = "postmark" -> NormalizePostmark(what)
    [] p = "sendgrid" -> NormalizeSendgrid(what)
    [] p = "mailgun" -> NormalizeMailgun(what)
    [] p = "ses" -> NormalizeSES(what)
    [] p = "klaviyo" -> NormalizeKlaviyo(what)

\* esp_provider and provider_event_id.  What a provider sends without an id gets
\* one made of the message, or none at all; SES tells a bounce from a complaint
\* by it, and numbers the recipients of one notice, of which there is one here.
EventKey(p, r) ==
  LET made(mail, what) == [provider |-> p, id |-> "none", mail |-> mail, what |-> what] IN
  IF r.id # "none" THEN [made("none", "none") EXCEPT !.id = r.id]
  ELSE CASE p = "postmark" -> made(r.mail, "none")
         [] p = "sendgrid" -> made(r.mail, r.what)
         [] p = "ses" -> made(r.mail, IF r.what = "complaint" THEN "complaint" ELSE "bounce")
         [] OTHER -> made("none", "none")

\* normalize_provider_events: the failures among the reports, in their order.
Failures(d) ==
  LET failed(r) == Normalize(d.provider, r.what) # Skip
      event(r) == [key |-> EventKey(d.provider, r), provider |-> d.provider,
                   mail |-> r.mail, type |-> Normalize(d.provider, r.what)]
      list == SelectSeq(d.reports, failed)
  IN  [i \in DOMAIN list |-> event(list[i])]
Events == [d \in Deliveries |-> Failures(d)]

\* The failures among the reports are a sequence of events, each about a mail of
\* the provider that delivers it.
ASSUME EventsAssumption ==
  \A d \in Deliveries :
    /\ Len(Events[d]) \in Nat /\ DOMAIN Events[d] = 1..Len(Events[d])
    /\ \A i \in DOMAIN Events[d] :
         Events[d][i].provider = d.provider /\ Events[d][i].mail \in Mails

-----------------------------------------------------------------------------
(* The registry.                                                           *)

\* An error keeps the message in the memory of the server.
Register(s) ==
  /\ Cardinality(registered) < MaxRegistrations
  /\ \E pm \in Names, t \in Tenants :
       /\ registered' = registered \cup {<<pm, t>>}
       /\ \/ registry' = [registry EXCEPT ![pm] = t] /\ UNCHANGED local /\ NoFault
          \/ local' = local \cup {<<s, pm, t>>} /\ UNCHANGED registry /\ Fault
  /\ UNCHANGED <<due, old, stored, mem, job, verdicts>>

\* The registry regardless of the provider.
FindMessageAnywhere(s, p, m, error) ==
  LET found == {pm \in Names : pm[2] = m /\ registry[pm] # Nobody} IN
  IF found = {} THEN Nobody ELSE registry[CHOOSE pm \in found : TRUE]

\* get_transactional_message at server s: after an error, as if not found.
FindMessage(s, p, m, error) ==
  LET kept == {t \in Tenants : <<s, <<p, m>>, t>> \in local} IN
  IF ~error /\ registry[<<p, m>>] # Nobody THEN registry[<<p, m>>]
  ELSE IF kept # {} THEN CHOOSE t \in kept : TRUE ELSE Nobody

-----------------------------------------------------------------------------
(* ingest_delivery_failure                                                 *)

GetsOld(d) ==
  /\ d \in due /\ d.time = "fresh"
  /\ old' = old \cup {d}
  /\ UNCHANGED <<registry, registered, local, due, stored, mem, job, verdicts, faults>>

Answer(d) ==
  \/ due' = due \ {d} /\ NoFault
  \/ UNCHANGED due /\ Fault

Receive(s, d) ==
  /\ job[s] = Idle /\ d \in due /\ Accepts(d)
  /\ IF Len(Events[d]) = 0
     THEN Answer(d) /\ UNCHANGED job
     ELSE /\ job' = [job EXCEPT ![s] = [at |-> 1, of |-> d, step |-> "look", user |-> Nobody]]
          /\ UNCHANGED <<due, faults>>
  /\ UNCHANGED <<registry, registered, local, old, stored, mem, verdicts>>

Current(s) == Events[job[s].of][job[s].at]
Here(s, step) == job[s].at > 0 /\ job[s].step = step

Advance(s) ==
  /\ job' = [job EXCEPT ![s].at = @ + 1, ![s].step = "look"]
  /\ UNCHANGED <<due, faults>>
Finish(s) == job' = [job EXCEPT ![s] = Idle] /\ Answer(job[s].of)

\* One event too many.
ContinuePast(s) == IF job[s].at <= Len(Events[job[s].of]) THEN Advance(s) ELSE Finish(s)

\* The batch goes on with its next event, or is answered.
Continue(s) == IF job[s].at < Len(Events[job[s].of]) THEN Advance(s) ELSE Finish(s)
\* 503: the whole batch comes again.
GiveUp(s) == job' = [job EXCEPT ![s] = Idle] /\ UNCHANGED due

StoredKeys == {e.key : e \in stored}

LookAmong(s, known) ==
  LET e == Current(s) IN
  /\ Here(s, "look")
  /\ UNCHANGED stored
  /\ \/ /\ e.key \in known
        /\ mem' = [mem EXCEPT ![s] = @ \cup {e.key}]
        /\ Continue(s)
     \/ /\ e.key \notin known
        /\ \E error \in BOOLEAN :
             /\ job' = [job EXCEPT ![s].step = "insert",
                                  ![s].user = FindMessage(s, e.provider, e.mail, error)]
             /\ IF error THEN Fault ELSE NoFault
        /\ UNCHANGED <<due, mem>>
     \/ /\ e.key \notin mem[s]
        /\ GiveUp(s) /\ Fault /\ UNCHANGED mem
  /\ UNCHANGED <<registry, registered, local, old, verdicts>>

\* The memory of the server alone.
LookInMemory(s) == LookAmong(s, mem[s])

\* The sender's tenant, then the check for an event that is already there.
Look(s) == LookAmong(s, mem[s] \cup StoredKeys)

Row(e, user) ==
  [key |-> e.key, provider |-> e.provider, mail |-> e.mail, type |-> e.type,
   claims |-> {user} \ {Nobody}, order |-> {}, domain |-> {}]

\* An event of which the insertion failed counts as stored.
InsertSwallowed(s) ==
  LET e == Current(s) IN
  /\ Here(s, "insert")
  /\ \/ e.key \notin StoredKeys /\ stored' = stored \cup {Row(e, job[s].user)} /\ Continue(s)
     \/ UNCHANGED stored /\ Continue(s) /\ UNCHANGED faults
  /\ UNCHANGED <<registry, registered, local, old, mem, verdicts>>

\* The unique index refuses an event that another server has stored meanwhile.
Insert(s) ==
  LET e == Current(s) IN
  /\ Here(s, "insert")
  /\ \/ /\ e.key \notin StoredKeys
        /\ stored' = stored \cup {Row(e, job[s].user)}
        /\ mem' = [mem EXCEPT ![s] = @ \cup {e.key}]
        /\ Continue(s)
     \/ /\ e.key \in StoredKeys
        /\ GiveUp(s) /\ NoFault /\ UNCHANGED <<stored, mem>>
     \/ /\ stored' \in {stored} \cup IF e.key \in StoredKeys THEN {} ELSE {stored \cup {Row(e, job[s].user)}}
        /\ GiveUp(s) /\ Fault /\ UNCHANGED mem
  /\ UNCHANGED <<registry, registered, local, old, verdicts>>

Crash(s) ==
  /\ Fault
  /\ job' = [job EXCEPT ![s] = Idle] /\ mem' = [mem EXCEPT ![s] = {}]
  /\ local' = {l \in local : l[1] # s}
  /\ UNCHANGED <<registry, registered, due, old, stored, verdicts>>

-----------------------------------------------------------------------------
(* The failover worker, a process of its own.                              *)

Eligible == {"bounce", "hard_bounce", "dropped", "rejected"}

EvidenceOf(e, error) ==
  [claims |-> e.claims, message |-> FindMessage("worker", e.provider, e.mail, error),
   order |-> e.order, domain |-> e.domain]

\* Events of other types are ignored.  Without FAILOVER_ALLOW_DELAYED_RETRY an
\* event nobody is found for is not looked at again.
Decide(e) ==
  /\ e \in stored /\ e.type \in Eligible
  /\ \A v \in verdicts : v.key # e.key
  /\ \E error \in BOOLEAN :
       /\ verdicts' = verdicts \cup {[key |-> e.key, result |-> Correlate(EvidenceOf(e, error))]}
       /\ IF error THEN Fault ELSE NoFault
  /\ UNCHANGED <<registry, registered, local, due, old, stored, mem, job>>

Proceed(s) == Look(s) \/ Insert(s)

Next ==
  \/ \E s \in Servers :
       \/ \E d \in due : Receive(s, d)
       \/ Proceed(s) \/ Register(s) \/ Crash(s)
  \/ \E d \in due : GetsOld(d)
  \/ \E e \in stored : Decide(e)

Spec == Init /\ [][Next]_vars

\* Providers deliver again until they are answered, and no server stops in the
\* middle of a request.
FairSpec ==
  /\ Spec
  /\ \A s \in Servers : WF_vars(Proceed(s))
  /\ \A d \in Deliveries : SF_vars(\E s \in Servers : Receive(s, d))

-----------------------------------------------------------------------------
(* Properties.                                                             *)

\* Every variable has its type, and the unique index holds.
TypeOK ==
  /\ registry \in [Names -> Tenants \cup {Nobody}]
  /\ due \subseteq Deliveries /\ old \subseteq Deliveries
  /\ \A e1, e2 \in stored : e1.key = e2.key => e1 = e2
  /\ \A s \in Servers : job[s] # Idle => job[s].at \in DOMAIN Events[job[s].of]
  /\ faults \in 0..MaxFaults

\* A provider that was answered has all its failures in the table, though
\* batches were cut short, stored by two servers at once, or delivered again.
AnsweredIsStored ==
  \A d \in Deliveries \ due : \A i \in DOMAIN Events[d] : Events[d][i].key \in StoredKeys

\* The worker alerts only a tenant who has registered the message, at this
\* provider; for an event of other programs, or one that its evidence names.
AlertsReachTheSender ==
  \A v \in verdicts, e \in stored :
    v.key = e.key /\ v.result \in Tenants =>
      \/ <<<<e.provider, e.mail>>, v.result>> \in registered
      \/ e \in Imports /\ v.result \in e.claims \cup e.order \cup e.domain

\* When no lookup fails, an event is decided by all the evidence of the first
\* level that has any: one name is alerted, two names fail closed.
VerdictsFollowEvidence ==
  [][\A e \in stored, v \in verdicts' \ verdicts :
       v.key = e.key /\ faults' = faults => v.result = Verdict(EvidenceOf(e, FALSE))]_vars

\* Every delivery that is signed properly is answered in the end, unless it
\* gets too old for its provider's verifier before.
EventuallyAnswered ==
  \A d \in Deliveries : [](Accepts(d) => <>(d \notin due \/ ~Accepts(d)))

=============================================================================
