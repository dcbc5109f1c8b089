------------------------- MODULE NotificationOutbox -------------------------
(***************************************************************************)
(* The durable notification outbox: the rows of public.notification_outbox,*)
(* the endpoint that queues an alert, the SQL functions that claim,        *)
(* complete, retry and dead-letter it, and the part of run_failover_worker *)
(* that handles it.  A worker claims its items before it processes the     *)
(* delivery-failure events it has claimed, and sends them after: any time  *)
(* may pass between the claim and the first message.                       *)
(*                                                                         *)
(* As in FailoverEvents, an SQL function is one atomic step, a worker may  *)
(* be interrupted between any two calls, and lease[i] and due[i] count the *)
(* ticks from now (lease -1: in the past or NULL; due 0: past or NULL).    *)
(***************************************************************************)
EXTENDS Integers, FiniteSets

CONSTANTS
  Items,           \* outbox rows, numbered in the order of created_at
  NoItem,
  Workers,
  NoWorker,        \* claimed_by IS NULL
  BatchLimit,      \* p_limit of the claim
  LeaseTicks,      \* p_lease_timeout, 300 s in the code
  RetryTicks,      \* longest delay before the next attempt
  MaxAttempts,     \* max_attempts, 5 in the code
  MaxClaims,       \* bound on the claims of one item
  MaxFaults        \* bound on crashes, stops, errors, lost replies and late batches

ASSUME OutboxAssumption ==
  /\ Items \subseteq Nat \ {0}
  /\ NoItem \notin Items
  /\ IsFiniteSet(Workers)
  /\ NoWorker \notin Workers
  /\ BatchLimit \in Nat \ {0}
  /\ LeaseTicks \in Nat \ {0}
  /\ RetryTicks \in Nat
  /\ MaxAttempts \in Nat \ {0}
  /\ MaxClaims \in Nat \ {0}
  /\ MaxFaults \in Nat

VARIABLES
  status,    \* status, "absent" before the alert is queued
  owner,     \* claimed_by
  lease,     \* lease_until, relative
  due,       \* next_attempt_at, relative
  attempts,  \* attempt_count
  pc,        \* where each worker is
  cur,       \* the item a worker is sending
  batch,     \* claimed items still to be sent
  claimed,   \* attempt_count of each item as the claim returned it
  verdict,   \* history: what came of the item a worker is at
  faults,    \* faults so far, at most MaxFaults
  sent       \* history: how often Telegram accepted the item

rowVars == <<status, owner, lease, due, attempts>>
workerVars == <<pc, cur, batch, claimed, verdict>>
vars == <<rowVars, workerVars, faults, sent>>

Statuses == {"absent", "queued", "dispatching", "processed", "dead_letter"}
Steps == {"idle", "batch", "sending", "sent", "retrying", "rejected"}

Countdown(n, floor) == IF n > floor THEN n - 1 ELSE floor

Init ==
  /\ status = [i \in Items |-> "absent"]
  /\ owner = [i \in Items |-> NoWorker]
  /\ lease = [i \in Items |-> -1]
  /\ due = [i \in Items |-> 0]
  /\ attempts = [i \in Items |-> 0]
  /\ pc = [w \in Workers |-> "idle"]
  /\ cur = [w \in Workers |-> NoItem]
  /\ batch = [w \in Workers |-> {}]
  /\ claimed = [w \in Workers |-> [i \in Items |-> 0]]
  /\ verdict = [w \in Workers |-> "none"]
  /\ faults = 0
  /\ sent = [i \in Items |-> 0]

\* The dispatch endpoint.  A request that repeats an idempotency key meets the
\* unique constraint and gets the row that is there: it changes nothing.
Enqueue(i) ==
  /\ status[i] = "absent"
  /\ \A j \in Items : j < i => status[j] # "absent"
  /\ status' = [status EXCEPT ![i] = "queued"]
  /\ UNCHANGED <<owner, lease, due, attempts, workerVars, faults, sent>>

-----------------------------------------------------------------------------
(* The SQL functions.                                                      *)

ClaimableLive ==
  {i \in Items : status[i] \in {"queued", "dispatching"} /\ due[i] = 0}
ClaimableQueued == {i \in Items : status[i] = "queued" /\ due[i] = 0}
Claimable ==
  {i \in Items : \/ status[i] = "queued" /\ due[i] = 0
                 \/ status[i] = "dispatching" /\ lease[i] < 0}

Oldest(n, S) == {i \in S : Cardinality({j \in S : j < i}) < n}

\* claim_notification_outbox: an expired claim is taken over, whatever its
\* holder did, and every claim counts as an attempt.
RpcClaim(w) ==
  LET S == Oldest(BatchLimit, Claimable) IN
  /\ status' = [i \in Items |-> IF i \in S THEN "dispatching" ELSE status[i]]
  /\ attempts' = [i \in Items |-> IF i \in S THEN attempts[i] + 1 ELSE attempts[i]]
  /\ owner' = [i \in Items |-> IF i \in S THEN w ELSE owner[i]]
  /\ lease' = [i \in Items |-> IF i \in S THEN LeaseTicks ELSE lease[i]]
  /\ UNCHANGED due

Holds(w, i) == owner[i] = w /\ status[i] = "dispatching"

Settle(i, outcome) ==
  /\ status' = [status EXCEPT ![i] = outcome]
  /\ owner' = [owner EXCEPT ![i] = NoWorker]
  /\ lease' = [lease EXCEPT ![i] = -1]
  /\ UNCHANGED attempts

\* complete_notification_outbox
RpcComplete(w, i) ==
  /\ IF Holds(w, i) THEN Settle(i, "processed")
                    ELSE UNCHANGED <<status, owner, lease, attempts>>
  /\ UNCHANGED due

ExhaustedEarly(i) == attempts[i] + 1 >= MaxAttempts
Exhausted(i) == attempts[i] >= MaxAttempts

\* The delays before another attempt.
BackoffUncapped == 0..RetryTicks + 1
Backoff == 0..RetryTicks

\* fail_or_retry_notification_outbox
RpcFailOrRetry(w, i, retryable) ==
  IF ~Holds(w, i) THEN UNCHANGED rowVars
  ELSE IF ~retryable \/ Exhausted(i)
       THEN Settle(i, "dead_letter") /\ UNCHANGED due
       ELSE /\ Settle(i, "queued")
            /\ \E d \in Backoff : due' = [due EXCEPT ![i] = d]

-----------------------------------------------------------------------------
(* The worker.                                                             *)

Fault == faults < MaxFaults /\ faults' = faults + 1

Enter(w, i, step) ==
  /\ pc' = [pc EXCEPT ![w] = step]
  /\ cur' = [cur EXCEPT ![w] = i]
  /\ UNCHANGED <<batch, claimed>>

\* Go on to the next item of the batch.
Finish(w, i) ==
  /\ pc' = [pc EXCEPT ![w] = IF batch[w] \ {i} = {} THEN "idle" ELSE "batch"]
  /\ cur' = [cur EXCEPT ![w] = NoItem]
  /\ batch' = [batch EXCEPT ![w] = @ \ {i}]
  /\ claimed' = [claimed EXCEPT ![w][i] = 0]
  /\ verdict' = [verdict EXCEPT ![w] = "none"]

\* An exception, a stop or a crash: nothing is released, the items that are
\* left stay "dispatching" until their lease ends.
Abandon(w) ==
  /\ Fault
  /\ pc' = [pc EXCEPT ![w] = "idle"]
  /\ cur' = [cur EXCEPT ![w] = NoItem]
  /\ batch' = [batch EXCEPT ![w] = {}]
  /\ claimed' = [claimed EXCEPT ![w] = [i \in Items |-> 0]]
  /\ verdict' = [verdict EXCEPT ![w] = "none"]

\* The claim; an error after it took effect loses the items it returned.
Claim(w) ==
  LET S == Oldest(BatchLimit, Claimable) IN
  /\ pc[w] = "idle" /\ S # {}
  /\ \A i \in S : attempts[i] < MaxClaims
  /\ RpcClaim(w)
  /\ \/ /\ pc' = [pc EXCEPT ![w] = "batch"]
        /\ batch' = [batch EXCEPT ![w] = S]
        /\ claimed' = [claimed EXCEPT ![w] =
                         [i \in Items |-> IF i \in S THEN attempts[i] + 1 ELSE 0]]
        /\ UNCHANGED <<cur, verdict, faults>>
     \/ Abandon(w)
  /\ UNCHANGED sent

\* The tenant's configuration is read: it allows sending, or the item is
\* refused for good.  Nothing looks at the lease.
Take(w, i) ==
  /\ pc[w] = "batch" /\ i \in batch[w]
  /\ \/ Enter(w, i, "sending") /\ UNCHANGED verdict
     \/ Enter(w, i, "rejected") /\ verdict' = [verdict EXCEPT ![w] = "refused"]
  /\ UNCHANGED <<rowVars, faults, sent>>

\* send_telegram_alert: accepted; failed in a way worth another try, if the
\* attempts of the claimed copy allow it; or failed for good.
SendOutcome(w, outcome, step) ==
  /\ verdict' = [verdict EXCEPT ![w] = outcome]
  /\ Enter(w, cur[w], step)

Send(w) ==
  /\ pc[w] = "sending"
  /\ \/ /\ SendOutcome(w, "accepted", "sent")
        /\ sent' = [sent EXCEPT ![cur[w]] = @ + 1]
     \/ /\ SendOutcome(w, "transient", IF claimed[w][cur[w]] < MaxAttempts
                                       THEN "retrying" ELSE "rejected")
        /\ UNCHANGED sent
     \/ SendOutcome(w, "refused", "rejected") /\ UNCHANGED sent
  /\ UNCHANGED <<rowVars, faults>>

\* Telegram accepts the message but its answer does not arrive in time: the
\* sender's own loop tries again or gives the attempt up as one of the above.
LoseReply(w) ==
  /\ pc[w] = "sending" /\ Fault
  /\ sent' = [sent EXCEPT ![cur[w]] = @ + 1]
  /\ UNCHANGED <<rowVars, workerVars>>

\* The row, then a log whose failure is ignored.
Complete(w) ==
  /\ pc[w] = "sent"
  /\ \/ RpcComplete(w, cur[w]) /\ Finish(w, cur[w]) /\ UNCHANGED faults
     \/ (RpcComplete(w, cur[w]) \/ UNCHANGED rowVars) /\ Abandon(w)
  /\ UNCHANGED sent

FailOrRetry(w) ==
  /\ pc[w] \in {"retrying", "rejected"}
  /\ \/ /\ RpcFailOrRetry(w, cur[w], pc[w] = "retrying")
        /\ Finish(w, cur[w]) /\ UNCHANGED faults
     \/ /\ RpcFailOrRetry(w, cur[w], pc[w] = "retrying") \/ UNCHANGED rowVars
        /\ Abandon(w)
  /\ UNCHANGED sent

\* The process stops between two items, dies anywhere, or an event of the same
\* iteration raises before the items are reached.
Interrupt(w) ==
  /\ pc[w] # "idle" /\ Abandon(w)
  /\ UNCHANGED <<rowVars, sent>>

InTime == \A w \in Workers : \A i \in batch[w] : Holds(w, i) => lease[i] > 0

\* Time passes; nothing keeps a worker from sending after its lease has ended.
Tick ==
  /\ IF InTime THEN UNCHANGED faults ELSE Fault
  /\ lease' = [i \in Items |-> Countdown(lease[i], -1)]
  /\ due' = [i \in Items |-> Countdown(due[i], 0)]
  /\ UNCHANGED <<status, owner, attempts, workerVars, sent>>

WorkerStep(w) ==
  \/ Claim(w) \/ Send(w) \/ Complete(w) \/ FailOrRetry(w)
  \/ \E i \in Items : Take(w, i)

Next ==
  \/ \E i \in Items : Enqueue(i)
  \/ \E w \in Workers : WorkerStep(w) \/ LoseReply(w) \/ Interrupt(w)
  \/ Tick

Spec == Init /\ [][Next]_vars

Fairness ==
  /\ \A w \in Workers : WF_vars(WorkerStep(w) /\ UNCHANGED faults)
  /\ WF_vars(Tick /\ UNCHANGED faults)

FairSpec == Spec /\ Fairness

-----------------------------------------------------------------------------
(* Properties.                                                             *)

\* Every variable has its type: the status is one the table's constraint allows.
TypeOK ==
  /\ status \in [Items -> Statuses]
  /\ owner \in [Items -> Workers \cup {NoWorker}]
  /\ lease \in [Items -> -1..LeaseTicks]
  /\ due \in [Items -> 0..RetryTicks]
  /\ attempts \in [Items -> Nat]
  /\ pc \in [Workers -> Steps]
  /\ cur \in [Workers -> Items \cup {NoItem}]
  /\ batch \in [Workers -> SUBSET Items]
  /\ claimed \in [Workers -> [Items -> Nat]]
  /\ verdict \in [Workers -> {"none", "accepted", "transient", "refused"}]
  /\ faults \in 0..MaxFaults
  /\ sent \in [Items -> Nat]

Repeats(i) == IF sent[i] = 0 THEN 0 ELSE sent[i] - 1

\* Each extra copy of an item that Telegram accepts costs a fault: a crash or error
\* that strands a batch, a lost answer, or a batch that outlives its lease, each
\* repeats an item once at most.  So does each claim beyond max_attempts: the claim
\* counts and never looks at the bound.
ExtrasNeedFaults ==
  \A i \in Items : Repeats(i) <= faults /\ attempts[i] <= MaxAttempts + faults

\* A worker whose last send failed transiently has the item given up only after
\* max_attempts claims of it, though worker and database each count on their own
\* and claims expire and are taken over meanwhile.
TransientIsRetried ==
  [][\A i \in Items :
       /\ status[i] = "dispatching" /\ status'[i] = "dead_letter"
       /\ verdict[owner[i]] = "transient"
       => attempts[i] >= MaxAttempts]_vars

\* While a claim is live only its holder moves the item.
LiveClaimUndisturbed ==
  [][\A i \in Items : \A w \in Workers :
       /\ Holds(w, i) /\ lease[i] > 0
       /\ <<status[i], owner[i]>>' # <<status[i], owner[i]>>
       => <<pc[w], cur[w], batch[w]>>' # <<pc[w], cur[w], batch[w]>>]_vars

\* Every queued alert is delivered or dead-lettered in the end.
EventuallySettled ==
  \A i \in Items : status[i] = "queued" ~> status[i] \in {"processed", "dead_letter"}

=============================================================================
