# InboundCheck: a TLA+ model of its durable workers, leases and quotas

InboundCheck watches the email deliverability of shops. A FastAPI backend and a
set of Python workers share one Postgres database (Supabase); most of what must
never go wrong is a conversation between a worker that may die at any moment and
rows it holds under a lease. This directory models those conversations in TLA+,
checks them with TLC on small instances and proves the core of them with TLAPS.

Paths below are relative to `src/`; `migrations/` stands for `supabase/migrations/`.

## 1. The system

### Inventory

| Component | State | Operations | What makes it hard | What makes it correct |
|---|---|---|---|---|
| **Delivery-failure events** (`backend/app/workers/failover_worker.py`, `services/failover/failover_repository.py`, `services/supabase_client.py`, `migrations/20260926000001…`, `20261029000001…`, `20261031000002…`) | `delivery_failure_events`: status, claim, lease, attempts, retry time, payload counters; `failover_logs`; per worker: batch in flight, copies of rows | sweep expired intents, claim, ignore, correlate later, dispatch intent, send, log, complete, retry, fail, release | several workers; leases that end while the holder still works; crash between message and log; lost replies; stale copies of rows | one dispatcher at a time; a delivered alert is never requeued; processed means logged; bounded attempts; outcomes are final; every event is decided |
| **Notification outbox** (same worker, `api/v1/failover.py`, `migrations/20261031000002…`) | `notification_outbox`: status, claim, lease, attempts | enqueue by idempotency key, claim, send, complete, fail or retry, dead letter | claimed before the events are processed, sent after; no release; at-least-once | processed means sent; repeats cost faults; outcomes are final; every alert is settled |
| **Domain audits** (`workers/audit_worker.py`, `services/scheduler/background_auditor.py`, `api/v1/domains.py`, `migrations/20260925000001…`) | `monitored_domains`: row, audit lease and owner, times, scores | claim due, measure, store, complete, fail with backoff; merchant adds, re-audits, deletes | two kinds of auditors that store in two ways; requests that look, measure for seconds, then write; deletion in between | results move forward; a live lease is respected; audits are disjoint; every due domain is audited |
| **Domain quota** (`migrations/20260930000001…`, `api/v1/domains.py`) | number of rows of a tenant | check in the endpoint, provisioning under an advisory lock | check and insert are apart | quota never exceeded |
| **AI generation** (`api/v1/ai.py`, `migrations/20260930000002…`, `…03…`) | `ai_concurrency_leases`, `ai_generation_usage` | take a slot, reserve a credit, generate under 25 s, record, refund, release | calls cut short keep running in their thread; slots expire by themselves; the month turns | concurrency and monthly quota held; slots come back; credits accounted |
| **Telegram sender** (`services/failover/omnichannel_service.py`) | none across calls | up to three attempts with delays inside a time budget | a message accepted whose answer is lost | a success came through; copies cost lost answers |
| **Delivery-failure webhooks** (`api/v1/failover_webhooks.py`, `services/failover/esp_webhook_service.py`, `event_normalizers.py`) | inserts events | verify, normalise, look for the sender, deduplicate, insert, one by one | concurrent duplicates, half-stored batches, redelivery | what was answered is stored; every valid delivery is answered |
| **Incident correlation** (in `failover_worker.py`, registry in `supabase_client.py`) | `transactional_message_registry` | finds the tenant of an event | evidence of several levels that disagree, lookups that fail | never the wrong tenant |
| **Rate limiter** (`core/rate_limiter.py`) | windows in the database, fallback in memory | count a request | a database that does not answer, restarts | never unlimited |
| **Stripe billing** (`services/billing/stripe_service.py`, `api/v1/billing.py`, `core/tier_guards.py`) | `profiles`, processed events | checkout, webhooks, trial guard | check, apply and record are apart; overtaking | the profile follows the payment |
| **Shopify stores** (`api/v1/shopify.py`, `services/shopify/`) | `shopify_stores`, `profiles` | OAuth, settings, uninstall, redact, charges | redelivered, late and crossing webhooks | the store row follows the installation |
| **DNS auto-fix** (`services/dns/auto_fixer.py`, `cloudflare_client.py`, `api/v1/auto_fix.py`) | the zone, `dns_auto_fix_logs`, credential | plan, validate, persist, apply, roll back | crash between zone and log, overlapping repairs, edits by hand | what the merchant had can be recovered |
| **Merchant and operator alerting** (`services/alert_dispatcher.py`, `services/alerting/ops_alert_service.py`, `api/v1/settings.py`, `omnichannel_service.py`) | settings rows, caches and cooldowns in memory | save settings at two endpoints, alert, ping, silence | two layers that each encrypt; one memory per process | the stored token is the one entered; no alert held back for nothing |
| **AI content** (`services/ai/`) | none | choose a provider, filter its answer, fall back, check tags | an answer that is only partly usable | every variant keeps the template's tags |
| **Diagnostics, scoring, RBL, SPF merge** (`services/dns/`), **security, analytics, migration scripts, frontend** | — | — | — | outside the model (section 7) |

How they interact: webhooks and endpoints insert rows; workers claim rows through
SQL functions (`FOR UPDATE SKIP LOCKED`), work on copies in memory, call Telegram
or DNS, and report back through SQL functions that check `claimed_by`. Nearly all
coordination goes through the rows; the exceptions are what each process keeps in its
own memory: deduplication of webhooks, settings, cooldowns, fallback counts. One iteration of the failover worker sweeps
expired intents, claims events, claims outbox items, processes the events, then the
items: the outbox items' leases run while events are processed, which is why the
outbox module lets any time pass between a claim and the first message.

The hazards, each at its line, are listed under `hazards` in `PROJECT.json`.

## 2. Modules

| Module | Models | Extends |
|---|---|---|
| `FailoverEvents` | events, sweep, claim and the worker's event loop | – |
| `FailoverEventsProofs` | proofs, in five parts: types; the inductive invariant and what follows from it; the action properties; the bound on deferrals; the refinement | `FailoverRefinesAlert`, `TLAPS` |
| `IncidentAlert` | abstract specification: the life of one incident alert | – |
| `FailoverRefinesAlert` | the refinement mapping from `FailoverEvents` to `IncidentAlert` | `FailoverEvents` |
| `IncidentCorrelation` | whom the evidence on an event names: the walk through its levels, and what it comes to | – |
| `FailureIntake` | the webhook, the message registry and the worker's verdicts | `IncidentCorrelation` |
| `FailureIntakeProofs` | proofs: that the walk and the evidence as a whole agree; types, what is answered is stored, who can be alerted, and on what evidence | `FailureIntake`, `TLAPS` |
| `NotificationOutbox` | the outbox and the worker's outbox loop | – |
| `NotificationOutboxProofs` | proofs: types, live claims, retries, what each repeat costs | `NotificationOutbox`, `TLAPS` |
| `DomainAudits` | audit workers, scheduler, merchant requests, quota | – |
| `DomainAuditsProofs` | proofs: types, live leases, results, quota, disjoint audits | `DomainAudits`, `TLAPS` |
| `VariantSynthesis` | what a request for AI content gets: provider, filter, fallback, check of the tags | – |
| `AIGeneration` | AI requests, slots, credits | `VariantSynthesis` |
| `AIGenerationProofs` | proofs: types, slots, concurrency, credits | `AIGeneration`, `TLAPS` |
| `MerchantBilling` | profile and store row under Stripe, Shopify, OAuth and the trial guard | – |
| `MerchantBillingProofs` | proofs: types, the store row, processed events, the profile | `MerchantBilling`, `TLAPS` |
| `DnsAutoFix` | repairs and rollbacks of a record set, the zone, the merchant | – |
| `DnsAutoFixProofs` | proofs: types, what can be recovered, the zone and its log | `DnsAutoFix`, `TLAPS` |
| `Deployment` | processes and faults shared by the alerting modules | – |
| `TelegramSender` | the attempts of one message as a function of the answers | – |
| `MerchantAlerts` | settings and alerts of one merchant | `TelegramSender`, `Deployment` |
| `OperatorAlerts` | incidents sent to the operators | `Deployment` |
| `RateLimiter` | one key and window | `Deployment` |
| `Alerting` | composition of the three, in the same processes | the three above |
| `AlertingProofs` | proofs: types, sends, silences, the overrun of the limit, the stored token | `Alerting`, `TLAPS` |
| `MC…` | the same for TLC: instances and symmetry sets | |

Conventions shared by all modules:

* An SQL function is one atomic step (`Rpc…`); it runs in one transaction and locks
  the rows it changes. Whatever the Python code does between two calls is a step
  of its own, so everybody else may act in between.
* `SKIP LOCKED` is abstracted: since a claim is one step, a row is never locked by
  somebody else when it is looked at. What skipping adds is that a claim may return
  fewer rows than it could; the next poll gets them.
* Time is relative. `lease[e]` counts the ticks left (−1: past or NULL); `Tick` counts
  everything down. A copy of a row that a worker keeps ages with it.
* A **fault** is a crash, a stop, an error or a lost reply: the call took effect or it
  did not, and the caller does not know. `MaxFaults` bounds them in a run. An effect
  that would arrive later still is not modelled: it happens at once or never.
* `Prompt` says that a live worker finishes what it has claimed before its lease ends.
  With `Prompt = FALSE` a lease may end at any point; safety runs use that wherever
  the property holds without promptness. In `NotificationOutbox` a lease that ends
  under its holder is one of the bounded faults instead.
* A worker that restarts keeps its name. The code makes a new identity at each
  start; keeping the old one gives the new process more rights, never fewer.
* History variables (declared last) record what a property needs and no step reads.

### FailoverEvents

Row variables are the columns of `delivery_failure_events`. Absent, then
`received` → `queued` (claimed) → `dispatching` (intent recorded, attempt counted) →
`processed` / `failed` / back to `received`, or `quarantined` when the lease of an
intent ends. A worker's `pc` names the point between two calls:
`idle` –sweep→ `swept` –claim→ `batch`; an event then goes through `ready` (correlated,
no log yet), `sending`, `acked`, `logged`, or `retrying` / `rejected` / `suppress` /
`deferring`. `batch` is `in_flight_events`; an exception turns the worker to `unwind`,
which releases what is left, one call at a time, except an event whose message was
accepted (`RaiseAfterSend`). Actions carry the order and the early returns of
`process_delivery_failure_event`; which branch correlation takes is a choice.
`ReportsRetryable` says whether the result of `dispatch_alert` carries `retryable`:
the shipped class does not, the tests' stand-ins do, and the worker's retry branch
only exists with it; the proofs cover both.

### IncidentAlert

What the pipeline promises about one failure: at most `MaxAttempts` attempts, one at a
time, an accepted attempt is never given back or given up, one whose outcome nobody
knows is set aside and never repeated, and the failure counts as alerted only once
the accepted alert is on record. `FailoverRefinesAlert` reads the phase off
`processing_status` and the tries off `dispatch_attempt_count` of one event.

### NotificationOutbox

`queued` → `dispatching` → `processed` / `dead_letter` / `queued`. There is no intent and
no release: an interrupted worker leaves its items to the end of their lease, and a
claim takes over expired items without a look at `max_attempts`. A lease that ends while
its holder is still at the batch counts as a fault (`Tick`, `InTime`): events are
processed between the claim and the first message, so that this can happen to any batch.
`ExtrasNeedFaults` then says what at-least-once costs: each copy of a message beyond
the first, and each claim beyond `max_attempts`, is paid for by a fault. `MaxClaims`
bounds the attempt counter; with two faults it is never reached.

### DomainAudits

`task` is how far each process is with each domain. A worker measures all its domains
concurrently and stores on condition that it still owns the row; a scheduler measures
one after the other and upserts whoever owns it. The scores are abstracted to an
order: `newer[d]` holds the pairs of workers that have measured since the last result was
stored, the later one second, and `stale[d]` remembers that an older one was stored after a newer. Merchants'
scores are not part of that order (their requests write whatever they measured).
The failure counter only chooses the backoff, which is any number up to `RetryTicks`.

### AIGeneration and VariantSynthesis

`pc` follows `generate_polymorphic_variants`; `Return` is the refund inside the 25 s block,
`Compensate` the one in an exception handler. When the limit strikes inside the first,
both run (`"refund cut"`). `Prompt` here says that a request ends before its 60 s slot
expires. Whether a request must refund depends on what it delivers: `Synthesized`
gives the variants for a template, the settings and the model's answer, and none of
them is the case that refunds. A template is the set of its Liquid tags.

### IncidentCorrelation and FailureIntake

`Correlate` is `from_event_and_registry` step by step; `Verdict` says the same of the
evidence as a whole, and `CorrelatesByEvidence` proves that they agree for all evidence.
A server's `job` is the delivery it is at and the event in it: `look` finds the sender
and whether the event is there, `insert` stores it, and a batch ends with an answer or
with a 503, after which the provider delivers all of it again. The verifiers and
normalizers are operators of the provider, the kind of signature and the kind of report.
`Imports` are events that other programs of the database store with claims, orders and
domains; the webhook itself stores only the tenant it found. `registered` is history:
what any server was ever asked to register, whether the row or only its memory has it.
No caller of `register_transactional_message` is in `src/`; `Register` is that function,
called with anything.

### MerchantBilling

One merchant and one shop. `stripe`, `charge` and `shop` are what the providers know;
`due` holds their messages until these are answered with 200. A `job` is one request at a
server, whose steps are its calls. Two switches are facts of the deployed schema: whether
`profiles` has the Shopify columns, and whether a table `monitored_stores` exists beside
`shopify_stores`. A checkout first gets a customer, in two steps (`CustomerRead`,
`CustomerSave`), so that two checkouts may each find or make one and save one id over the other;
`sessions` are the customers that checkout sessions exist for. Two ids of Stripe, `main` and
`other`, and a mock one stand for all. Statuses that the handler ignores (`incomplete`,
`incomplete_expired`, `paused`) are left out: a session here has no trial, and its
subscription exists once it is paid.

History, which no step reads: `applied` is what reached the profile; `unknown` and `missed`
are the events looked up when nobody had their customer and those whose lookup failed, which is
all that `ProcessedWasApplied` excepts. `excused` records the known races for the other two
properties, which list them and say what holds without them.

### DnsAutoFix

`zone` maps record ids to contents; `ops` is `dns_auto_fix_logs`. `Plan`, `Validate`,
`Persist`, `Apply`, `Finalize` are the stages of `apply_dns_fix`; `Load`, `Mark`, `Restore`,
`FinalizeRollback` those of `rollback_dns_fix`. Each Cloudflare call may be refused, or take
effect with its answer lost. `own` is what the merchant has put into each record, `raced`
the records edited under a repair, and `tidy` says that nothing overlapped or failed.

### Alerting

`saves` are requests at `/settings/alerts` and `/failover/config`, with the calls they make
between other requests; a token is the key entered and the number of times it was encrypted.
`alerts` are about a degraded domain, an incident, or a test ping; each send goes through
`Posted`. `ops` are calls of `dispatch_incident`; `counted` and `ownCounted` the rate limit's
counts. The parts share processes and faults: a restart forgets all that a process kept.
A scenario bounds how much of each part a behaviour has; requests are numbered, so that
only their order counts.

## 3. Runs

| Run | Instance | Shows |
|---|---|---|
| `FailoverOne` | one event, two workers, leases that end at any point, two faults, two attempts, two correlations | types, `ExclusiveDispatch`, `AckedNeverRequeued`, `LiveClaimUndisturbed`, and the refinement of `IncidentAlert` |
| `FailoverPrompt` | two events in batches of two, prompt workers, fair, one fault, the shipped result | bounded correlation, `EventuallyDecided` |
| `FailoverTransientLost` | as `FailoverOne`, shipped result | *violation*: a transient failure is never retried |
| `Outbox` | two items in a batch, two workers, fair, two attempts, two faults, late leases among them | repeats and extra claims cost faults; transient failures are retried; live claims; `EventuallySettled` |
| `AuditsStale` | three names for a quota of two, two workers that claim one domain at a time, leases that end at any point, two faults, adding, refreshing, deleting | results move forward, quota, live leases |
| `AuditsPrompt` | two domains, worker and scheduler, prompt, fair, a fault, re-audits | disjoint audits; `EventuallyAudited` |
| `AiRequests` | four requests, two slots, two credits, two months, two faults, three templates, four kinds of answer | concurrency, slots, credits |
| `Billing` | two servers, two subscriptions, a charge, three messages or installations, one fault | the profile follows the payment, the row follows the installation, processed means applied (whatever races there were) |
| `Intake` | a batch of three reports (one no failure, one without an id), two servers, two tenants, one registration, one of three imports, one fault, fair | what was answered is stored; alerts reach the sender; verdicts follow the evidence; `EventuallyAnswered` |
| `AutoFix` | two requests, two operations, two contents, an empty host or one record, an edit, a fault, fair | what the merchant had is recoverable; the zone follows the log; targets are released |
| `Alerting` | two processes, two faults, and one of: two saves; a save and two alerts; three operators' alerts; five requests | token kept, sends accounted for, nothing held back in vain, limit |
| `AlertingToken` | one process, one save, no fault | *violation*: the stored token does not decrypt |

Why the bounds are enough. A property of one row needs two contenders (all claims
compare with "mine" or "not mine") and a lease long enough to be live, at its end and
past (two ticks; one in the outbox, where the end under a holder is a fault of its own).
Two attempts tell a retry from the last one. Batches and quotas need a second row. Two
faults let one thing fail while another is being recovered; the failover and intake
invariants are proved for any number. Batches finish within the lease in the prompt runs,
where any longer lease behaves the same. In `Billing` three messages hold an activation,
its end and something in between, on two servers one of which repeats an old one; with
four the run takes hours. In `Intake` one registration suffices: whom a message belongs
to changes once while a batch is under way, and the rest is proved. `AutoFix` needs two
operations to overlap or to be undone out of order; a third adds no new pair. In
`Alerting` the parts only share processes, so that each scenario has what one needs: two
saves to overwrite one another, an alert before and after a silence, an incident held
back after one that failed and one that did not, and more requests than
the limit and the fallback allow.

**Deadlock** is checked, except in `Billing`, `Intake`, `AutoFix`, `Alerting` and
`AlertingToken`: their requests and messages are bounded, and when all are dealt with
nothing is left to do.

**Mutants.** Each property of a passing run has a plausible bug next to the definition it
belongs to (`AfterSweepRequeue`, `ByMessageUnchecked`, `InsertSwallowed`, `RestoreSwapped`, …),
just before the correct one. With the bug, TLC finds the property violated.

## 4. Fairness and promptness

* Weak fairness of each worker's step *without a fault*: the loop runs for ever, and a
  supervisor restarts it. A fault is never forced. Nothing forces webhooks, merchants or
  requests.
* Weak fairness of `Tick` (strong in `DomainAudits`, where merchants may ask again and
  again: time passes whenever nothing else must come first).
* `Prompt` for events: at most about 28 s an event (three Telegram tries of 6 s and a
  10 s budget for the rest), twenty events a batch, 560 s against a lease of 900 s.
  For audits: all domains of a batch at once, 900 s; an idle worker polls every 30 s,
  the shortest backoff is 120 s. For the outbox the lease of 300 s may be shorter than
  the events before it: hence late leases are faults there. For AI requests the
  generation is limited to 25 s of the slot's 60 s, but database calls around it are not:
  `ConcurrencyHeld` holds only as far as they are quick.

* `FailureIntake`: weak fairness of each server's current request; strong fairness of receiving
  each delivery, since providers deliver again until they are answered and a server is not
  busy with others for ever. Sent and signed is not enough, though: a delivery may get older
  than a verifier's window, which `EventuallyAnswered` says.
* `DnsAutoFix`: weak fairness of each request's next step. A request that a crash ends is gone;
  nothing takes its operation up again, so `ReleasedUnlessFault` promises nothing after a fault.
* `MerchantBilling`, `AIGeneration` and `Alerting` state no fairness and no liveness: Shopify gives
  up after some tries, and requests may simply not come.

## 5. What is proved

For every set of events, workers, servers, tenants, deliveries and imports, every bound and
all values of the switches, under the assumptions each module names (`ConstantsAssumption`,
`WatchedAssumption`; `TenantsAssumption`, `IntakeAssumption`, `EventsAssumption`;
`OutboxAssumption`; `AuditAssumption`; `AIAssumption`; `BillingAssumption`; `AutoFixAssumption`;
`AlertingAssumption`). They say that bounds are numbers, that the tokens for "nobody" and
"nothing" are no members of the sets beside them, that what is counted (workers of the outbox,
domains, requests, charges, processes) is finite, that subscriptions are no charges, and that an original zone fits into the record ids.

| Theorem | Property | In run |
|---|---|---|
| `TypeCorrect` | `TypeOK` of `FailoverEvents` | `FailoverOne` |
| `AlwaysSafe` | `Safe`, the inductive invariant | – |
| `OneDispatcher` | `ExclusiveDispatch` | `FailoverOne` |
| `AcceptedIsKept` | `AckedNeverRequeued` | `FailoverOne` |
| `ProcessedMeansAlerted` | `ProcessedIsLogged` | – |
| `DispatchesBounded` | `AttemptsBounded` | – |
| `SettledStays` | `OutcomesFinal` | – |
| `RequeuedByRetry` | `OnlyRetriesRequeue` | – |
| `LiveClaimHolds` | `LiveClaimUndisturbed` | `FailoverOne` |
| `DeferralsBounded` | `CorrelationBounded`, prompt | `FailoverPrompt` |
| `PipelineImplementsAlert` | `ImplementsAlert` | `FailoverOne` |
| `CorrelatesByEvidence` | `Correlate(e) = Verdict(e)` for all evidence | – |
| `AlertsReachSenders` | `AlertsReachTheSender` | `Intake` |
| `VerdictsByEvidence` | `VerdictsFollowEvidence` | `Intake` |
| `AnswersMeanStored` | `AnsweredIsStored` | `Intake` |
| `IntakeTyped` | `TypeOK` of `FailureIntake` | `Intake` |
| `OutboxTyped` | `TypeOK` of `NotificationOutbox` | `Outbox` |
| `LiveItemHolds` | `LiveClaimUndisturbed` of `NotificationOutbox` | `Outbox` |
| `TransientTriedAgain` | `TransientIsRetried` of `NotificationOutbox` | `Outbox` |
| `RepeatsCostFaults` | `ExtrasNeedFaults` of `NotificationOutbox` | `Outbox` |
| `AuditsTyped` | `TypeOK` of `DomainAudits` | `AuditsStale` |
| `LiveLeaseRespected` | `LeaseRespected` | `AuditsStale` |
| `ResultsNeverGoBack` | `ResultsMoveForward`, without a scheduler | `AuditsStale` |
| `QuotaNeverExceeded` | `QuotaHeld`, without upserts or without deletions | `AuditsStale` |
| `OneAuditAtATime` | `DisjointAudits`, prompt and without requests that end a lease | `AuditsPrompt` |
| `RequestsTyped` | `TypeOK` of `AIGeneration` | `AiRequests` |
| `SlotsComeBack` | `SlotsReturned` | `AiRequests` |
| `TierHeld` | `ConcurrencyHeld`, prompt | `AiRequests` |
| `CreditsAddUp` | `CreditsAccounted` | `AiRequests` |
| `BillingTyped` | `TypeOK` of `MerchantBilling` | `Billing` |
| `StoreKeepsUp` | `StoreFollowsInstallation` | `Billing` |
| `ProcessedApplied` | `ProcessedWasApplied` | `Billing` |
| `ProfileFollows` | `EntitlementFollowsPayment` | `Billing` |
| `AutoFixTyped` | `TypeOK` of `DnsAutoFix` | `AutoFix` |
| `OriginalsRecoverable` | `OriginalRecoverable` | `AutoFix` |
| `ZoneKeepsToLog` | `ZoneFollowsLog` | `AutoFix` |
| `AlertingTyped` | `TypeOK` of `Alerting` | `Alerting` |
| `SendsReported` | `SendsAccounted` | `Alerting` |
| `SilenceEarned` | `HeldBackWasTold` | `Alerting` |
| `LimitOverrunBounded` | `NeverUnlimited` | `Alerting` |
| `StoredTokenKept` | `CredentialKept` | `Alerting` |

The argument. `ExclusiveDispatch` is not inductive: that no second worker dispatches an
event depends on the row still belonging to the first, even after its lease has ended.
`Safe` says so. `WorkerSafe(w)`: from the intent on, until its last write about it, an event's
row names `w` and is `dispatching`, `quarantined` or `processed` — no other worker's claim or
release touches such a row, and the sweep moves it only among these; of what `w` has in flight
and still owns, only the event it is recording can have been accepted, so that releasing
the rest is harmless; `logged` and `suppress` mean there is a log. `RowSafe(e)`: an accepted
event is never claimable, a processed one is logged, and a claimable one has an
attempt left — the intent itself counts and never compares, so this last conjunct is what
bounds the attempts. `Safe` is preserved together with `TypeOK`; the proof has a step per
action. The refinement uses both: each step of the workers is a step of
`IncidentAlert` or leaves the alert alone.

The action properties follow one SQL function at a time. Each is *orderly* — it moves no
settled row, takes a row out of quarantine only with its log, and requeues no `dispatching`
row — except the retry, which requeues the caller's own event; each but the sweep and
the claim changes one row, and only for its owner, and those two take no row whose claim is
live. An action of the worker adds its own move to the function it calls. `Safe` gives two
facts: a worker that processes an event has it in its batch, and one that ignores an event
it owns ignores none that is logged.

The deferrals. The worker writes the count of correlations back from the copy it claimed, so
what has to be known is that the copy is not behind. `Keeps` says it of every event in flight that the worker
has not yet taken: the row is queued for it under a live claim (`Ready`), and the event was not deferred
more often than the copy counts. No other worker's function touches a row that is ready (`Spares`), a claim
makes the copies, and `Prompt` keeps time from ending a lease under them; that is the one step
where the hypothesis is used, and without it the count can be rewound (section 6). Since two workers
cannot have the same event ready, a deferral leaves the copies of all others as true as they were.

Correlation and intake. `CorrelatesByEvidence` is a case split on the number of claims and
on whether the registry knows the message; finite sets of tenants enter through
`TenantSets`, which turns cardinalities into "empty, one, several". That alerts reach the
sender is not inductive: a verdict rests on a stored row, the row on the tenant a server
carried from its lookup to its insertion, and that on the registry or on the memory of
the process. `Sound` has a conjunct for each: `RegistrySound` (what is found was registered),
`JobSound` (so was what a server carries), `RowSound` (and what a row claims, or the row is an
import), and `VerdictsSound`. The unique index is in it as well, because a verdict names its
event by key: a second row with the same key would make it a verdict about both. Storing a row
of a new key disturbs no verdict (`StoreGrows`). `VerdictsByEvidence` joins this with
`CorrelatesByEvidence`: of all actions only `Decide` adds verdicts, a lookup that did not fail
leaves `faults` alone, and the evidence on a sound row is well-formed. `EventsAssumption`
says of the normalised deliveries that they are sequences of events with a message id each;
the prover has no theory of `SelectSeq`, and TLC evaluates the assumption. `AnsweredIsStored`
needs to know why a server may answer: the events it has passed in its batch, and the keys
its memory holds, have rows (`Complete`). A row is never deleted, so a step only has to
account for the event it passes.

Outbox. `Consistent` adds two facts to the types. The copy of an item that a worker has never
counts more attempts than the row: claiming copies the row, and nobody counts down. So a
worker that refuses a retry by its copy refuses one that the row would refuse too.
And a worker that is about to dead-letter a transient failure has a copy without attempts left;
`TransientIsRetried` needs nothing else. `LiveClaimUndisturbed` follows from the
functions' comparison with `claimed_by` and from the claim, which takes no live row.
`ExtrasNeedFaults` counts what was sent, but what may still be sent has to be paid for as well:
`CopiesPaid` adds the workers that hold the item and have not sent it (`Pending`), and one for the next
claim where the item is open to it, and says that the sum is within one message and one more for each
fault. An item whose claim has lapsed, by its time or because its owner crashed, is open too,
which is where the fault goes; `AttemptsPaid` says the same of the attempts.

Audits. Three of the theorems have a hypothesis, which is the exact reach of the property in the code
(section 6 says what breaks beyond it). Without a scheduler, only owners store: `OwnersAreFresh` says
that a worker which still owns the row it has measured has the latest result, since a row is taken
over only by a claim, after which the new owner has yet to measure. The quota is kept by the
advisory lock as long as each upsert finds its row (`UpsertsUpdate`), which needs either that there
are no upserts or that no row is deleted (`RowsAwaited`). Disjoint audits need that whoever is at a
domain owns its row under a lease that has not ended (`LeasesCover`): `Prompt` keeps time from ending it,
and only deleting and adding again end it early.

AI requests. `SlotsSound` bounds the slots taken by the limit, since the function counts them before it
gives one, and those that outlive their requests by the faults. Under `Prompt` a running request has
its slot (`SlotsOutlast`), so that running requests are no more than slots. A credit may be given
back twice when the limit cuts the first refund: `Balanced` bounds the usage of each month from below
by what requests hold, less the refunds cut for good, and from above by adding all those that
were cut, and the faults. Each step moves one request in or out of each set that is counted (`CreditsCounted`).

Billing. `ProcessedWasApplied` is no matter of races: `RecordSound` says that whatever is recorded, or
about to be, was applied or is one of the two exceptions, and that the
lookups that failed are no more than the faults; `excused` does not occur in it. The other two
properties speak of rest, and their invariants of what is on its way. `StoreSound`: while the
app is installed, the row has its token or a server is about to save it; once it is gone, an active row
has a webhook due that no server believes to have handled. `ProfileSound` says the same of the payment with
an argument about time, since messages come late and twice: whatever a message, a server or a
query says of a subscription was so at some point, and is so still unless something newer is due or has been
applied (`Told`); what a server remembers, or the table of events has, is behind the profile (`Handled`); and a
profile that disagrees with the payment has a message due that is newer than all it has behind it
(`Agrees`). The providers only ever add newer messages, a step that drops a message drops a handled one
(`Tells`), and a write that nothing newer has overtaken leaves the profile right about its
subscription or something newer due (`AgreesApplied`). Where a known race is met, the history variable
`excused` says so and the invariants claim nothing. Of the faults only these set it: a connection cut
short (`Install`, `ConnectSave`, `Crash`), a lookup of the customer that fails (`StripeApply`) and a webhook
that comes too late (`TooOld`); any other crash, lost answer, failing call or repeat is covered.

DNS. `OriginalRecoverable` is inductive once it says of each stage what it carries: the snapshot of
a request is the merchant's content, or the log has it already (`JobSound`), and what a row would
delete the merchant never had (`RowSound`). Record ids are given out in order and never again,
so that a record created by a repair was never the merchant's (`Fresh`). `ZoneFollowsLog` needs the
whole log: `InOrder` says that one request is at work (`Alone`); that what each standing operation
would give back is what the earlier ones on the record left (`Chained`); that the zone is
what the log says but for the record a request has written and not yet reported (`InTransit`);
and what the request at work knows of it (`InStep`). A fault, an edit or an overlap ends `tidy`, and
an operation undone before a later one does, so that the latest is always the one that goes.

Alerting. One invariant for each part, since the parts share only processes and faults. `SendSound` follows one message: while no answer has come through, every copy's answer was
lost. `OpsSound`: a process is silent about an incident that one of its calls got through. The
limiter's `Bounded` is an inequality between sums: what was let through is within the limit, what
each process has counted itself, and what restarts have forgotten, each of which is a fault.
`CredentialKept` is the state of the settings between two requests; `CredentialSound` follows the one
request at work through its calls, up to what it carries to its last (`Carrying`).

## 6. What is only model-checked

Liveness, whatever it needs of fairness: the provers have no rule for it. `TransientIsRetried` of `FailoverEvents` appears in the violation run only:
with a result that carries `retryable` the worker's branch is a plain step of the model.

Disagreements between the code and what its documents and tests say are under `findings` in
`PROJECT.json`, one for each violation run. The following were met while modelling;
bounds or switches of the named runs leave them out, or the module has them as steps:

* **Failover.** The payload that counts correlations is written by event id alone, so that a late
  worker rewinds the count (`supabase_client.py:2225`); `CorrelationBounded` fails without promptness.
* **Outbox.** The lease runs while events are processed and may end before the first send: a second
  worker sends too (`docs/operations/IDEMPOTENCY.md:21` says such effects must never run twice). Claims never compare with `max_attempts`.
* **Audits.** The scheduler stores scores without its lease as a condition
  (`background_auditor.py:236`), and older scores may replace newer ones; hence
  `Schedulers = {}` in `AuditsStale`. A re-audit beside a deletion brings the domain back, beyond the
  quota (`api/v1/domains.py:191`); hence no `"re-audit"` there. Domains that always fail are claimed
  before others and can starve them when there are more than a batch holds.
* **AI.** The wall-clock limit may strike inside a refund, whose handler refunds again
  (`api/v1/ai.py:565`): `CreditsAccounted` counts such refunds. A slot is not renewed and may be
  outlasted. The fallback's bodies have fixed tags, so that a template with any other tag gets no
  variant from it.
* **Billing.** A lookup of the customer that fails, or finds nobody, ends in `mark_event_processed` and 200
  (`stripe_service.py:679-689`, `:747-748`): the event counts as processed and was never applied, though
  `docs/operations/IDEMPOTENCY.md:79` says that the business logic is executed before the event is marked. Two checkouts
  that overlap save one customer id over the other, and events of the other's subscription then find nobody
  (`:197`). Subscription events are applied in the order they arrive. Shopify's `PAUSED` becomes a
  status that the constraint of the table refuses (`migrations/20260913000004…:46-48`): the webhook is
  answered 500 and repeated until it is too old. The trial guard writes over an activation.
* **DNS.** A repair overwrites the first TXT record of the host, whatever its purpose. Whether an
  operation is in flight is looked at long before the operation is stored. Rollbacks in another than
  the reverse order do not come to the original (`docs/operations/IDEMPOTENCY.md:40` says rollbacks converge, and that a 404 on DELETE is a success). Here deleting a record that is gone is an error, so
  that the rollback fails. A crash in `APPLYING` blocks the target until somebody edits the log.
  The verifying stage asks nothing of DNS.
* **Intake.** An error of a lookup is read as "not found" and weaker evidence decides. Postmark's
  normalizer makes a drop of whatever is neither a bounce nor a complaint, a delivery included; Klaviyo's makes a
  bounce of a soft one. Reports without an id of their own collapse into one event.
* **Alerting.** The alert about a degraded domain passes the token to Telegram as it is stored,
  encrypted (`alert_dispatcher.py:185`), and starts the silence of six hours although the send
  failed (`:204`). Saving settings without a chat removes the one there was, and saving them at
  `/settings/alerts` switches a disabled engine on. `MAX_TOTAL_RETRY_BUDGET_SECONDS` cannot be reached with
  three attempts of at most five seconds' delay.

## 7. Not modelled

* Lookups and pure computations: diagnostics, scoring, RBL, SPF merge, revenue at risk. They keep no
  state; what they compute is text and numbers, whose algorithms unit tests reach.
* Cryptography, tokens of sessions and URL policies: a signature is right or wrong, a token has
  layers of encryption, and that is all the properties tell apart.
* Formatting: HTML, message texts, prompts. Analytics and seed testing: inserts and sums.
* Of Shopify: the customer privacy webhooks, the order webhook, readiness and analytics. Of Stripe: the
  portal and prices. Of DNS: the simulation mode and the unfinished GoDaddy client.
* `dispatch_failover_alert` and the omnichannel service's `trigger_failover_dispatch`, which nothing calls.
* Schema changes of the migrations, the ledger script and the frontend.

Simplifications: one merchant in `MerchantBilling`, `DnsAutoFix` and `Alerting`; one request at a time
for each server in `FailureIntake` and `MerchantBilling`, where a second server stands for the
concurrency within one; a notice of SES names one recipient (a further one is one more event, whose key
has a suffix); the jitter of delays is left out.

## 8. Plan

Done, in this order: `FailoverEvents` with proofs and refinement, `NotificationOutbox`,
`DomainAudits`, `AIGeneration`; then `MerchantBilling`, `IncidentCorrelation` and `FailureIntake` with
proofs, `Alerting` with its parts, `DnsAutoFix`, `VariantSynthesis`; then the proofs about the outbox, audits,
AI requests, billing, alerting and DNS repairs.

Next, in order of worth:

1. An abstract outbox ("at least once, settled once") that `NotificationOutbox` implements.
2. Composition of `FailureIntake` with `FailoverEvents` through the stored rows.
3. The SPF merge as a pure algorithm against a reference definition.
