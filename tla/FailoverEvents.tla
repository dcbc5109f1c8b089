--------------------------- MODULE FailoverEvents ---------------------------
(***************************************************************************)
(* Delivery-failure events and the workers that turn them into Telegram    *)
(* incident alerts: the rows of public.delivery_failure_events and         *)
(* public.failover_logs, the SQL functions that move a row from one status *)
(* to the next, and run_failover_worker with the part of its loop that     *)
(* handles events.  Each SQL function runs in one transaction and is one   *)
(* atomic step on the rows; everything a worker does between two of its    *)
(* calls (reads, the HTTP request, an exception) is a step of its own.     *)
(*                                                                         *)
(* Time is relative: lease[e] is the number of ticks from now to           *)
(* lease_until (positive: held, 0: exactly now, -1: in the past or NULL),  *)
(* due[e] and backoff[e] the ticks until next_attempt_at and the payload's *)
(* correlation_next_retry_at, 0 when they are past or NULL.                *)
(***************************************************************************)
EXTENDS Integers, FiniteSets

CONSTANTS
  Events,            \* events, numbered in the order of received_at
  NoEvent,
  Workers,           \* worker processes
  NoWorker,          \* claimed_by IS NULL
  BatchLimit,        \* p_limit of the claim and of the sweep
  LeaseTicks,        \* p_lease_timeout
  RetryTicks,        \* longest delay before the next dispatch attempt
  BackoffTicks,      \* longest delay before the next correlation attempt
  MaxAttempts,       \* max_attempts, 5 in the code
  MaxCorrelation,    \* server_max, at most 5 in the code
  DelayedRetry,      \* allow_retry of an uncorrelated event
  ReportsRetryable,  \* does the result of dispatch_alert carry "retryable"?
  Prompt,            \* a live worker finishes a batch before its lease ends
  MaxFaults          \* bound on crashes, stops, errors and lost replies

ASSUME ConstantsAssumption ==
  /\ Events \subseteq Nat \ {0}
  /\ NoEvent \notin Events
  /\ NoWorker \notin Workers
  /\ BatchLimit \in Nat \ {0}
  /\ LeaseTicks \in Nat \ {0}
  /\ RetryTicks \in Nat
  /\ BackoffTicks \in Nat
  /\ MaxAttempts \in Nat \ {0}
  /\ MaxCorrelation \in Nat \ {0}
  /\ DelayedRetry \in BOOLEAN
  /\ ReportsRetryable \in BOOLEAN
  /\ Prompt \in BOOLEAN
  /\ MaxFaults \in Nat

VARIABLES
  status,     \* processing_status, "absent" before the webhook is received
  owner,      \* claimed_by
  lease,      \* lease_until, relative
  due,        \* next_attempt_at, relative
  attempts,   \* dispatch_attempt_count
  corr,       \* event_payload.correlation_attempts
  backoff,    \* event_payload.correlation_next_retry_at, relative
  log,        \* is there a confirmed Telegram row in failover_logs?
  pc,         \* where each worker is in its loop
  cur,        \* the event a worker is processing
  batch,      \* in_flight_events
  snap,       \* the row as the claim returned it to the worker
  faults,     \* faults so far, at most MaxFaults
  acked,      \* history: a worker has seen Telegram accept the message
  transient,  \* history: the last attempt failed in a way worth retrying
  deferrals   \* history: correlation retries granted, up to MaxCorrelation

rowVars == <<status, owner, lease, due, attempts, corr, backoff>>
workerVars == <<pc, cur, batch, snap>>
historyVars == <<acked, transient, deferrals>>
vars == <<rowVars, log, workerVars, faults, historyVars>>

Statuses == {"absent", "received", "queued", "dispatching", "quarantined",
             "processed", "ignored", "failed"}
Settled == {"processed", "ignored", "failed"}

\* "ready": correlated and not yet logged, intent not yet recorded;
\* "suppress": a log was found; "sending": inside dispatch_alert;
\* "acked": Telegram answered 200; "logged": the log is written;
\* "retrying", "rejected": the attempt failed; "deferring": the payload of an
\* uncorrelated event is written; "unwind": releasing what is in flight.
Steps == {"idle", "swept", "batch", "ready", "suppress", "sending", "acked",
          "logged", "retrying", "rejected", "deferring", "unwind"}

Blank == [att |-> 0, corr |-> 0, backoff |-> 0]
Row(e) == [att |-> attempts[e], corr |-> corr[e], backoff |-> backoff[e]]
Lesser(a, b) == IF a < b THEN a ELSE b
Countdown(n, floor) == IF n > floor THEN n - 1 ELSE floor

\* The status constraint and the row a new event starts with.
Init ==
  /\ status = [e \in Events |-> "absent"]
  /\ owner = [e \in Events |-> NoWorker]
  /\ lease = [e \in Events |-> -1]
  /\ due = [e \in Events |-> 0]
  /\ attempts = [e \in Events |-> 0]
  /\ corr = [e \in Events |-> 0]
  /\ backoff = [e \in Events |-> 0]
  /\ log = [e \in Events |-> FALSE]
  /\ pc = [w \in Workers |-> "idle"]
  /\ cur = [w \in Workers |-> NoEvent]
  /\ batch = [w \in Workers |-> {}]
  /\ snap = [w \in Workers |-> [e \in Events |-> Blank]]
  /\ faults = 0
  /\ acked = [e \in Events |-> FALSE]
  /\ transient = [e \in Events |-> FALSE]
  /\ deferrals = [e \in Events |-> 0]

\* The webhook stores a new event; events are numbered as they arrive.
Ingest(e) ==
  /\ status[e] = "absent"
  /\ \A f \in Events : f < e => status[f] # "absent"
  /\ status' = [status EXCEPT ![e] = "received"]
  /\ UNCHANGED <<owner, lease, due, attempts, corr, backoff, log, workerVars,
                 faults, historyVars>>

-----------------------------------------------------------------------------
(* The SQL functions, each as its effect on the rows.                      *)

\* Rows the sweep may take, and the claim's candidates.
ExpiredIntents == {e \in Events : status[e] = "dispatching" /\ lease[e] < 0}
ClaimableLive ==
  {e \in Events : status[e] \in {"received", "queued"} /\ due[e] = 0}
ClaimableReceived == {e \in Events : status[e] = "received" /\ due[e] = 0}
Claimable ==
  {e \in Events : /\ status[e] = "received" \/ (status[e] = "queued" /\ lease[e] < 0)
                  /\ due[e] = 0}

\* ORDER BY received_at LIMIT n.
Oldest(n, S) == {e \in S : Cardinality({f \in S : f < e}) < n}

\* ORDER BY lease_until LIMIT n: how far in the past a lease ended is not
\* kept, so any n expired rows may come first.
SweptSets == {Q \in SUBSET ExpiredIntents :
                Cardinality(Q) = Lesser(BatchLimit, Cardinality(ExpiredIntents))}

AfterSweepLabel(e) == IF log[e] THEN "resolved_processed" ELSE "quarantined_ambiguous"
AfterSweepRequeue(e) == IF log[e] THEN "processed" ELSE "received"
AfterSweep(e) == IF log[e] THEN "processed" ELSE "quarantined"

\* quarantine_expired_dispatch_intent_events
RpcSweep ==
  /\ \E Q \in SweptSets :
       status' = [e \in Events |-> IF e \in Q THEN AfterSweep(e) ELSE status[e]]
  /\ UNCHANGED <<owner, lease, due, attempts, corr, backoff>>

\* claim_received_delivery_failure_events: the sweep, then the claim.
RpcClaim(w) ==
  LET S == Oldest(BatchLimit, Claimable) IN
  /\ \E Q \in SweptSets :
       status' = [e \in Events |-> IF e \in Q THEN AfterSweep(e)
                                   ELSE IF e \in S THEN "queued" ELSE status[e]]
  /\ owner' = [e \in Events |-> IF e \in S THEN w ELSE owner[e]]
  /\ lease' = [e \in Events |-> IF e \in S THEN LeaseTicks ELSE lease[e]]
  /\ UNCHANGED <<due, attempts, corr, backoff>>

MayIntend(w, e) == owner[e] = w /\ status[e] = "queued" /\ lease[e] > 0

\* record_delivery_failure_dispatch_intent
RpcIntent(w, e) ==
  /\ IF MayIntend(w, e)
     THEN /\ status' = [status EXCEPT ![e] = "dispatching"]
          /\ attempts' = [attempts EXCEPT ![e] = @ + 1]
     ELSE UNCHANGED <<status, attempts>>
  /\ UNCHANGED <<owner, lease, due, corr, backoff>>

MayFinishAny(w, e) == owner[e] = w
MayFinish(w, e) == owner[e] = w /\ status[e] \in {"dispatching", "queued"}

\* mark_delivery_failure_event_processed
RpcProcessed(w, e, outcome) ==
  /\ IF MayFinish(w, e) \/ (owner[e] = w /\ status[e] = "quarantined" /\ log[e])
     THEN status' = [status EXCEPT ![e] = outcome]
     ELSE UNCHANGED status
  /\ UNCHANGED <<owner, lease, due, attempts, corr, backoff>>

\* mark_delivery_failure_event_failed
RpcFailed(w, e) ==
  /\ IF MayFinish(w, e)
     THEN status' = [status EXCEPT ![e] = "failed"]
     ELSE UNCHANGED status
  /\ UNCHANGED <<owner, lease, due, attempts, corr, backoff>>

\* release_claimed_delivery_failure_event
RpcRelease(w, e) ==
  /\ IF owner[e] = w /\ status[e] = "queued"
     THEN /\ status' = [status EXCEPT ![e] = "received"]
          /\ owner' = [owner EXCEPT ![e] = NoWorker]
          /\ lease' = [lease EXCEPT ![e] = -1]
     ELSE UNCHANGED <<status, owner, lease>>
  /\ UNCHANGED <<due, attempts, corr, backoff>>

\* schedule_delivery_failure_retry
Exhausted(e) == attempts[e] >= MaxAttempts
RpcRetry(w, e) ==
  /\ IF MayFinish(w, e)
     THEN /\ owner' = [owner EXCEPT ![e] = NoWorker]
          /\ lease' = [lease EXCEPT ![e] = -1]
          /\ IF Exhausted(e)
             THEN /\ status' = [status EXCEPT ![e] = "failed"]
                  /\ UNCHANGED due
             ELSE /\ status' = [status EXCEPT ![e] = "received"]
                  /\ \E d \in 0..RetryTicks : due' = [due EXCEPT ![e] = d]
     ELSE UNCHANGED <<status, owner, lease, due>>
  /\ UNCHANGED <<attempts, corr, backoff>>

\* update_event_payload: the worker's copy overwrites the column, whoever
\* holds the claim now.
RpcPayload(w, e) ==
  /\ corr' = [corr EXCEPT ![e] = snap[w][e].corr + 1]
  /\ \E d \in 0..BackoffTicks : backoff' = [backoff EXCEPT ![e] = d]
  /\ UNCHANGED <<status, owner, lease, due, attempts>>

-----------------------------------------------------------------------------
(* The worker.                                                             *)

Fault == faults < MaxFaults /\ faults' = faults + 1

\* Leave the event, with or without an effect on its row, and go on.
Finish(w, e) ==
  /\ pc' = [pc EXCEPT ![w] = IF batch[w] \ {e} = {} THEN "idle" ELSE "batch"]
  /\ cur' = [cur EXCEPT ![w] = NoEvent]
  /\ batch' = [batch EXCEPT ![w] = @ \ {e}]
  /\ snap' = [snap EXCEPT ![w][e] = Blank]

\* An exception leaves process_delivery_failure_event: whatever is still in
\* flight, the current event included, is released one call at a time.
Unwinding(w, rest) ==
  /\ pc' = [pc EXCEPT ![w] = IF rest = {} THEN "idle" ELSE "unwind"]
  /\ cur' = [cur EXCEPT ![w] = NoEvent]
  /\ batch' = [batch EXCEPT ![w] = rest]
  /\ snap' = [snap EXCEPT ![w] = [e \in Events |-> Blank]]
Raise(w) == Fault /\ Unwinding(w, batch[w])
\* dispatch_succeeded: the event is not released, its lease runs out.
RaiseAfterSend(w) == Fault /\ Unwinding(w, batch[w] \ {cur[w]})

\* The pass over expired intents that starts a loop iteration; an error in it
\* is caught and the iteration goes on.
Sweep(w) ==
  /\ pc[w] = "idle"
  /\ \/ RpcSweep /\ UNCHANGED faults
     \/ UNCHANGED rowVars /\ Fault
  /\ pc' = [pc EXCEPT ![w] = "swept"]
  /\ UNCHANGED <<log, cur, batch, snap, historyVars>>

\* A claim; when it returns nothing the worker sleeps.  The rows are put in
\* flight only after the outbox has been claimed too: when the reply is lost
\* (the claim is then tried once more, through its alias) or that second call
\* fails, they are claimed and the worker forgets them.
Claim(w) ==
  LET S == Oldest(BatchLimit, Claimable) IN
  /\ pc[w] = "swept"
  /\ \/ /\ RpcClaim(w)
        /\ batch' = [batch EXCEPT ![w] = S]
        /\ snap' = [snap EXCEPT ![w] =
                      [e \in Events |-> IF e \in S THEN Row(e) ELSE Blank]]
        /\ pc' = [pc EXCEPT ![w] = IF S = {} THEN "idle" ELSE "batch"]
        /\ UNCHANGED faults
     \/ /\ RpcClaim(w) \/ UNCHANGED rowVars
        /\ \E step \in {"idle", "swept"} : pc' = [pc EXCEPT ![w] = step]
        /\ Fault
        /\ UNCHANGED <<batch, snap>>
  /\ UNCHANGED <<log, cur, historyVars>>

\* The payload's backoff has not passed: release without processing.  A failed
\* release is logged and ignored.
NotDue(w, e) ==
  /\ pc[w] = "batch" /\ e \in batch[w] /\ snap[w][e].backoff > 0
  /\ \/ RpcRelease(w, e) /\ UNCHANGED faults
     \/ UNCHANGED rowVars /\ Fault
  /\ Finish(w, e)
  /\ UNCHANGED <<log, historyVars>>

Takes(w, e) == pc[w] = "batch" /\ e \in batch[w] /\ snap[w][e].backoff = 0

Enter(w, e, step) ==
  /\ pc' = [pc EXCEPT ![w] = step]
  /\ cur' = [cur EXCEPT ![w] = e]
  /\ UNCHANGED <<batch, snap>>

\* The event type, or the type of the message it is about, is not one that is
\* alerted on.
Ignore(w, e) ==
  /\ Takes(w, e)
  /\ \/ RpcProcessed(w, e, "ignored") /\ Finish(w, e) /\ UNCHANGED faults
     \/ (RpcProcessed(w, e, "ignored") \/ UNCHANGED rowVars) /\ Raise(w)
  /\ UNCHANGED <<log, historyVars>>

\* Conflicting tenants: fail closed.
Ambiguous(w, e) ==
  /\ Takes(w, e)
  /\ Enter(w, e, "rejected")
  /\ UNCHANGED <<rowVars, log, faults, historyVars>>

\* A bounded number of later tries, counted in the payload as the claim
\* returned it.
MayDeferOnceMore(w, e) == DelayedRetry /\ snap[w][e].corr + 1 <= MaxCorrelation
MayDefer(w, e) == DelayedRetry /\ snap[w][e].corr + 1 < MaxCorrelation

\* No tenant found: correlate again later, or give up; a payload that cannot be
\* stored fails the event.
Uncorrelated(w, e) ==
  /\ Takes(w, e)
  /\ IF MayDefer(w, e)
     THEN \/ /\ RpcPayload(w, e) /\ Enter(w, e, "deferring")
             /\ deferrals' = [deferrals EXCEPT ![e] = Lesser(@ + 1, MaxCorrelation)]
             /\ UNCHANGED faults
          \/ /\ RpcPayload(w, e) \/ UNCHANGED rowVars
             /\ Enter(w, e, "rejected") /\ Fault
             /\ UNCHANGED deferrals
     ELSE /\ Enter(w, e, "rejected")
          /\ UNCHANGED <<rowVars, faults, deferrals>>
  /\ UNCHANGED <<log, acked, transient>>

Defer(w) ==
  /\ pc[w] = "deferring"
  /\ \/ RpcRelease(w, cur[w]) /\ UNCHANGED faults
     \/ UNCHANGED rowVars /\ Fault
  /\ Finish(w, cur[w])
  /\ UNCHANGED <<log, historyVars>>

\* A tenant is found; is the incident already logged?
Check(w, e) ==
  /\ Takes(w, e)
  /\ \/ Enter(w, e, IF log[e] THEN "suppress" ELSE "ready") /\ UNCHANGED faults
     \/ Raise(w)
  /\ UNCHANGED <<rowVars, log, historyVars>>

Suppress(w) ==
  /\ pc[w] = "suppress"
  /\ \/ RpcProcessed(w, cur[w], "processed") /\ Finish(w, cur[w]) /\ UNCHANGED faults
     \/ (RpcProcessed(w, cur[w], "processed") \/ UNCHANGED rowVars) /\ Raise(w)
  /\ UNCHANGED <<log, historyVars>>

\* The dispatch intent; only a worker that obtains it sends.
Intend(w) ==
  /\ pc[w] = "ready"
  /\ \/ /\ RpcIntent(w, cur[w])
        /\ IF MayIntend(w, cur[w]) THEN Enter(w, cur[w], "sending")
                                   ELSE Finish(w, cur[w])
        /\ UNCHANGED faults
     \/ (RpcIntent(w, cur[w]) \/ UNCHANGED rowVars) /\ Raise(w)
  /\ UNCHANGED <<log, historyVars>>

CurrentAttempt(w) == IF snap[w][cur[w]].att = 0 THEN 1 ELSE snap[w][cur[w]].att

\* dispatch_alert returns: delivered; refused for good, or not configured; a
\* failure worth another try (429, 5xx, timeout), retried only if the result
\* says so and attempts are left; or it raises.
Send(w) ==
  /\ pc[w] = "sending"
  /\ \/ /\ Enter(w, cur[w], "acked")
        /\ acked' = [acked EXCEPT ![cur[w]] = TRUE]
        /\ UNCHANGED <<transient, faults>>
     \/ /\ Enter(w, cur[w], "rejected")
        /\ UNCHANGED <<acked, transient, faults>>
     \/ /\ Enter(w, cur[w],
                 IF ReportsRetryable /\ CurrentAttempt(w) < MaxAttempts
                 THEN "retrying" ELSE "rejected")
        /\ transient' = [transient EXCEPT ![cur[w]] = TRUE]
        /\ UNCHANGED <<acked, faults>>
     \/ Raise(w) /\ UNCHANGED <<acked, transient>>
  /\ UNCHANGED <<rowVars, log, deferrals>>

\* The incident log; a unique violation means it is there already.
WriteLog(w) ==
  /\ pc[w] = "acked"
  /\ \/ /\ log' = [log EXCEPT ![cur[w]] = TRUE]
        /\ Enter(w, cur[w], "logged") /\ UNCHANGED faults
     \/ /\ UNCHANGED log \/ log' = [log EXCEPT ![cur[w]] = TRUE]
        /\ RaiseAfterSend(w)
  /\ UNCHANGED <<rowVars, historyVars>>

Complete(w) ==
  /\ pc[w] = "logged"
  /\ \/ RpcProcessed(w, cur[w], "processed") /\ Finish(w, cur[w]) /\ UNCHANGED faults
     \/ (RpcProcessed(w, cur[w], "processed") \/ UNCHANGED rowVars) /\ RaiseAfterSend(w)
  /\ UNCHANGED <<log, historyVars>>

Retry(w) ==
  /\ pc[w] = "retrying"
  /\ \/ RpcRetry(w, cur[w]) /\ Finish(w, cur[w]) /\ UNCHANGED faults
     \/ (RpcRetry(w, cur[w]) \/ UNCHANGED rowVars) /\ Raise(w)
  /\ transient' = [transient EXCEPT ![cur[w]] = @ /\ status'[cur[w]] # "received"]
  /\ UNCHANGED <<log, acked, deferrals>>

Fail(w) ==
  /\ pc[w] = "rejected"
  /\ \/ RpcFailed(w, cur[w]) /\ Finish(w, cur[w]) /\ UNCHANGED faults
     \/ (RpcFailed(w, cur[w]) \/ UNCHANGED rowVars) /\ Raise(w)
  /\ UNCHANGED <<log, historyVars>>

\* Release one event while unwinding; errors are swallowed.
Unwind(w) ==
  /\ pc[w] = "unwind"
  /\ \E e \in batch[w] :
       /\ \/ RpcRelease(w, e) /\ UNCHANGED faults
          \/ UNCHANGED rowVars /\ Fault
       /\ Unwinding(w, batch[w] \ {e})
  /\ UNCHANGED <<log, historyVars>>

\* SIGTERM between two events of a batch: the rest is released, and a new
\* process takes this one's place.
Stop(w) ==
  /\ pc[w] = "batch"
  /\ Fault /\ Unwinding(w, batch[w])
  /\ UNCHANGED <<rowVars, log, historyVars>>

\* The process dies and another starts; nothing it kept in memory survives.
Crash(w) ==
  /\ pc[w] # "idle"
  /\ Fault /\ Unwinding(w, {})
  /\ UNCHANGED <<rowVars, log, historyVars>>

\* A batch in hand is finished before its lease ends.
InTime == \A w \in Workers : \A e \in batch[w] :
            MayFinish(w, e) => lease[e] > 1

Tick ==
  /\ Prompt => InTime
  /\ lease' = [e \in Events |-> Countdown(lease[e], -1)]
  /\ due' = [e \in Events |-> Countdown(due[e], 0)]
  /\ backoff' = [e \in Events |-> Countdown(backoff[e], 0)]
  /\ snap' = [w \in Workers |-> [e \in Events |->
                [snap[w][e] EXCEPT !.backoff = Countdown(@, 0)]]]
  /\ UNCHANGED <<status, owner, attempts, corr, log, pc, cur, batch, faults,
                 historyVars>>

WorkerStep(w) ==
  \/ Sweep(w) \/ Claim(w) \/ Defer(w) \/ Suppress(w) \/ Intend(w) \/ Send(w)
  \/ WriteLog(w) \/ Complete(w) \/ Retry(w) \/ Fail(w) \/ Unwind(w)
  \/ \E e \in Events : \/ NotDue(w, e) \/ Ignore(w, e) \/ Ambiguous(w, e)
                       \/ Uncorrelated(w, e) \/ Check(w, e)

Next ==
  \/ \E e \in Events : Ingest(e)
  \/ \E w \in Workers : WorkerStep(w) \/ Stop(w) \/ Crash(w)
  \/ Tick

Spec == Init /\ [][Next]_vars

\* Each worker process keeps running and so does time; webhooks need not come
\* and faults need not happen.
Fairness ==
  /\ \A w \in Workers : WF_vars(WorkerStep(w) /\ UNCHANGED faults)
  /\ WF_vars(Tick)

FairSpec == Spec /\ Fairness

-----------------------------------------------------------------------------
(* Properties.                                                             *)

RowsTyped ==
  /\ status \in [Events -> Statuses]
  /\ owner \in [Events -> Workers \cup {NoWorker}]
  /\ lease \in [Events -> -1..LeaseTicks]
  /\ due \in [Events -> 0..RetryTicks]
  /\ attempts \in [Events -> Nat]
  /\ corr \in [Events -> Nat]
  /\ backoff \in [Events -> 0..BackoffTicks]

Snapshots == [att : Nat, corr : Nat, backoff : 0..BackoffTicks]
WorkersTyped ==
  /\ pc \in [Workers -> Steps]
  /\ cur \in [Workers -> Events \cup {NoEvent}]
  /\ \A w \in Workers : cur[w] = NoEvent => pc[w] \in {"idle", "swept", "batch", "unwind"}
  /\ batch \in [Workers -> SUBSET Events]
  /\ snap \in [Workers -> [Events -> Snapshots]]

HistoryTyped ==
  /\ acked \in [Events -> BOOLEAN]
  /\ transient \in [Events -> BOOLEAN]
  /\ deferrals \in [Events -> 0..MaxCorrelation]

\* Every variable has its type: the status is one the table's constraint allows
\* and a worker that is processing has an event.
TypeOK ==
  /\ RowsTyped
  /\ WorkersTyped
  /\ HistoryTyped
  /\ log \in [Events -> BOOLEAN]
  /\ faults \in 0..MaxFaults

InDispatch(w, e) == /\ cur[w] = e
                    /\ pc[w] \in {"sending", "acked", "logged", "retrying"}

\* At most one worker at a time is between the intent it obtained and the
\* last write about it, even when its lease has ended and others sweep and
\* claim around it.
ExclusiveDispatch ==
  \A e \in Events : \A v, w \in Workers :
    InDispatch(v, e) /\ InDispatch(w, e) => v = w

\* Once a worker has seen Telegram accept an alert, its event is never queued
\* again, whoever crashes or errs afterwards, and never reported as failed or
\* ignored: it is dispatching, quarantined or processed.
AckedNeverRequeued ==
  \A e \in Events : acked[e] => status[e] \in {"dispatching", "quarantined", "processed"}

\* An event is processed only with its incident log, and a log is only written
\* for an alert Telegram accepted.
ProcessedIsLogged ==
  \A e \in Events : (status[e] = "processed" => log[e]) /\ (log[e] => acked[e])

\* No sequence of crashes, lost replies and retries dispatches an event more
\* often than max_attempts, though the intent itself counts and never checks.
AttemptsBounded == \A e \in Events : attempts[e] <= MaxAttempts

\* The safety properties above rest on these facts, and with them they are
\* preserved by every step.  A worker has in flight what it processes; from the
\* intent to its last write about it, an event stays with the worker that
\* dispatches it; of the events it has in flight and still owns, only the one it
\* is recording can have been accepted; "logged" and "suppress" mean there is a
\* log; and an event that may be dispatched again has attempts left.
Working == Steps \ {"idle", "swept", "batch", "unwind"}

WorkerSafe(w) ==
  /\ pc[w] \in {"idle", "swept"} => batch[w] = {}
  /\ pc[w] \in Working => cur[w] \in batch[w]
  /\ \A e \in Events :
       InDispatch(w, e) => /\ owner[e] = w
                           /\ status[e] \in {"dispatching", "quarantined", "processed"}
  /\ \A e \in batch[w] :
       owner[e] = w /\ acked[e] => cur[w] = e /\ pc[w] \in {"acked", "logged"}
  /\ pc[w] \in {"acked", "logged"} => acked[cur[w]]
  /\ pc[w] \in {"logged", "suppress"} => log[cur[w]]

RowSafe(e) ==
  /\ status[e] \in {"absent", "received", "queued"} => attempts[e] < MaxAttempts
  /\ attempts[e] <= MaxAttempts
  /\ acked[e] => status[e] \in {"dispatching", "quarantined", "processed"}
  /\ log[e] => acked[e]
  /\ status[e] = "processed" => log[e]

Safe == (\A w \in Workers : WorkerSafe(w)) /\ (\A e \in Events : RowSafe(e))

\* An event whose last attempt failed transiently is given up only after
\* max_attempts dispatches.
TransientIsRetried ==
  \A e \in Events : status[e] = "failed" /\ transient[e] => attempts[e] >= MaxAttempts

\* An event is sent back for a later correlation at most server_max - 1 times.
CorrelationBounded == \A e \in Events : deferrals[e] < MaxCorrelation

\* A settled event stays as it is, and a quarantined one leaves quarantine
\* only for processed, on the evidence of its log.
OutcomesFinal ==
  [][\A e \in Events :
       /\ status[e] \in Settled => status'[e] = status[e]
       /\ status[e] = "quarantined" => \/ status'[e] = "quarantined"
                                       \/ status'[e] = "processed" /\ log[e]]_vars

\* While a claim is live nobody but its holder moves the row: a change of
\* status or claimed_by comes with a step of the worker that held it.
LiveClaimUndisturbed ==
  [][\A e \in Events : \A w \in Workers :
       /\ owner[e] = w /\ lease[e] > 0 /\ status[e] \in {"queued", "dispatching"}
       /\ <<status[e], owner[e]>>' # <<status[e], owner[e]>>
       => <<pc[w], cur[w], batch[w]>>' # <<pc[w], cur[w], batch[w]>>]_vars

\* A dispatch intent is given up for another try only by the worker that was
\* told the attempt failed in a way worth one: no release, sweep or claim puts an
\* event whose message may have gone out back in the queue.
OnlyRetriesRequeue ==
  [][\A e \in Events :
       status[e] = "dispatching" /\ status'[e] \in {"received", "queued"}
       => \E w \in Workers : pc[w] = "retrying" /\ cur[w] = e]_vars

\* Every event that is received is settled or quarantined in the end.
EventuallyDecided ==
  \A e \in Events :
    status[e] = "received" ~> status[e] \in Settled \cup {"quarantined"}

=============================================================================
