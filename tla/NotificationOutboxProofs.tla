----------------------- MODULE NotificationOutboxProofs -----------------------
(***************************************************************************)
(* What holds of the outbox for any items, workers and bounds: the types,  *)
(* that a live claim is left alone, that transient failures are tried      *)
(* again until the attempts are used up, and that every repeated message   *)
(* and every claim beyond the attempts costs a fault.                      *)
(***************************************************************************)
EXTENDS NotificationOutbox, FiniteSetTheorems, TLAPS

(* The inductive invariant.                                                *)

AtHand == {"sending", "sent", "retrying", "rejected"}

\* The copy a worker has of an item never counts more attempts than the row,
\* whoever has claimed the item since.
CopiesLag == \A w \in Workers, i \in Items : claimed[w][i] <= attempts[i]

\* A worker that deals with an item has one, and it refuses a retry only when its
\* copy has no attempt left.
WorkerSound(w) ==
  /\ pc[w] \in AtHand => cur[w] \in Items
  /\ pc[w] = "rejected" /\ verdict[w] = "transient" => claimed[w][cur[w]] >= MaxAttempts

Consistent == TypeOK /\ CopiesLag /\ \A w \in Workers : WorkerSound(w)

-----------------------------------------------------------------------------
(* The rows.                                                               *)

RowsTyped ==
  /\ status \in [Items -> Statuses]
  /\ owner \in [Items -> Workers \cup {NoWorker}]
  /\ lease \in [Items -> -1..LeaseTicks]
  /\ due \in [Items -> 0..RetryTicks]
  /\ attempts \in [Items -> Nat]

WorkersTyped ==
  /\ pc \in [Workers -> Steps]
  /\ cur \in [Workers -> Items \cup {NoItem}]
  /\ batch \in [Workers -> SUBSET Items]
  /\ claimed \in [Workers -> [Items -> Nat]]
  /\ verdict \in [Workers -> {"none", "accepted", "transient", "refused"}]

LEMMA Types ==
  TypeOK <=> RowsTyped /\ WorkersTyped /\ faults \in 0..MaxFaults /\ sent \in [Items -> Nat]
BY DEF TypeOK, RowsTyped, WorkersTyped

\* The functions that settle an item keep the types and the attempts.
LEMMA SettleTyped ==
  ASSUME RowsTyped, NEW w \in Workers, NEW i \in Items, NEW retryable \in BOOLEAN,
         \/ RpcComplete(w, i) \/ RpcFailOrRetry(w, i, retryable)
         \/ UNCHANGED rowVars
  PROVE  RowsTyped' /\ attempts' = attempts
<1>1. CASE RpcComplete(w, i)
  BY <1>1, OutboxAssumption DEF RpcComplete, Settle, RowsTyped, Statuses
<1>2. CASE RpcFailOrRetry(w, i, retryable)
  <2>1. CASE ~Holds(w, i)
    BY <1>2, <2>1 DEF RpcFailOrRetry, rowVars, RowsTyped
  <2>2. CASE Holds(w, i) /\ (~retryable \/ Exhausted(i))
    BY <1>2, <2>2, OutboxAssumption DEF RpcFailOrRetry, Settle, RowsTyped, Statuses
  <2>3. CASE Holds(w, i) /\ ~(~retryable \/ Exhausted(i))
    <3>1. Settle(i, "queued") /\ \E d \in Backoff : due' = [due EXCEPT ![i] = d]
      BY <1>2, <2>3 DEF RpcFailOrRetry
    <3>2. due' \in [Items -> 0..RetryTicks]
      BY <3>1 DEF Backoff, RowsTyped
    <3> QED BY <3>1, <3>2, OutboxAssumption DEF Settle, RowsTyped, Statuses
  <2> QED BY <2>1, <2>2, <2>3
<1>3. CASE UNCHANGED rowVars
  BY <1>3 DEF rowVars, RowsTyped
<1> QED BY <1>1, <1>2, <1>3

\* The claim counts an attempt of each item it takes, and takes none whose claim is
\* live.
LEMMA ClaimTyped ==
  ASSUME RowsTyped, NEW w \in Workers, RpcClaim(w)
  PROVE  /\ RowsTyped'
         /\ \A i \in Items : /\ attempts'[i] \in {attempts[i], attempts[i] + 1}
                             /\ i \in Oldest(BatchLimit, Claimable) => attempts'[i] = attempts[i] + 1
<1> DEFINE S == Oldest(BatchLimit, Claimable)
<1>1. /\ status' = [i \in Items |-> IF i \in S THEN "dispatching" ELSE status[i]]
      /\ attempts' = [i \in Items |-> IF i \in S THEN attempts[i] + 1 ELSE attempts[i]]
      /\ owner' = [i \in Items |-> IF i \in S THEN w ELSE owner[i]]
      /\ lease' = [i \in Items |-> IF i \in S THEN LeaseTicks ELSE lease[i]]
      /\ UNCHANGED due
  BY DEF RpcClaim
<1> HIDE DEF S
<1>2. LeaseTicks \in -1..LeaseTicks
  BY OutboxAssumption
<1>3. RowsTyped'
  BY <1>1, <1>2 DEF RowsTyped, Statuses
<1>4. \A i \in Items : /\ attempts'[i] \in {attempts[i], attempts[i] + 1}
                       /\ i \in S => attempts'[i] = attempts[i] + 1
  BY <1>1 DEF RowsTyped
<1> QED BY <1>3, <1>4 DEF S

-----------------------------------------------------------------------------
(* Every step preserves the invariant.                                     *)

\* The attempts of a row never decrease, so that old copies stay behind.
LEMMA CopiesStay ==
  ASSUME Consistent, \A i \in Items : attempts'[i] \in {attempts[i], attempts[i] + 1},
         NEW w \in Workers,
         \A i \in Items : claimed'[w][i] \in {claimed[w][i], 0}
  PROVE  \A i \in Items : claimed'[w][i] <= attempts'[i]
<1> TAKE i \in Items
<1>1. attempts[i] \in Nat /\ claimed[w][i] \in Nat /\ claimed[w][i] <= attempts[i]
  BY DEF Consistent, TypeOK, CopiesLag
<1> QED BY <1>1

\* A worker that ends what it does, by an abandoned batch.
LEMMA AbandonSound ==
  ASSUME Consistent, NEW w \in Workers, Abandon(w), RowsTyped', sent' = sent,
         \A i \in Items : attempts'[i] \in {attempts[i], attempts[i] + 1}
  PROVE  Consistent'
<1>1. WorkersTyped'
  BY DEF Abandon, Consistent, TypeOK, WorkersTyped, Steps
<1>2. faults' \in 0..MaxFaults
  BY OutboxAssumption DEF Abandon, Fault, Consistent, TypeOK
<1>3. TypeOK'
  BY <1>1, <1>2, Types DEF Consistent, TypeOK, RowsTyped, WorkersTyped
<1>4. CopiesLag'
  <2>1. ASSUME NEW u \in Workers PROVE \A i \in Items : claimed'[u][i] \in {claimed[u][i], 0}
    BY DEF Abandon, Consistent, TypeOK
  <2> QED BY <2>1, CopiesStay DEF CopiesLag
<1>5. ASSUME NEW u \in Workers PROVE WorkerSound(u)'
  <2>1. CASE u = w
    BY <2>1 DEF Abandon, WorkerSound, AtHand, Consistent, TypeOK
  <2>2. CASE u # w
    BY <2>2 DEF Abandon, WorkerSound, AtHand, Consistent, TypeOK
  <2> QED BY <2>1, <2>2
<1> QED BY <1>3, <1>4, <1>5 DEF Consistent

LEMMA FinishSound ==
  ASSUME Consistent, NEW w \in Workers, NEW i \in Items, Finish(w, i), RowsTyped',
         sent' = sent, faults' = faults, attempts' = attempts
  PROVE  Consistent'
<1>1. WorkersTyped'
  BY DEF Finish, Consistent, TypeOK, WorkersTyped, Steps
<1>2. TypeOK'
  BY <1>1 DEF Consistent, TypeOK, RowsTyped, WorkersTyped
<1>3. CopiesLag'
  <2>1. ASSUME NEW u \in Workers PROVE \A j \in Items : claimed'[u][j] \in {claimed[u][j], 0}
    BY DEF Finish, Consistent, TypeOK
  <2> QED BY <2>1, CopiesStay DEF CopiesLag
<1>4. ASSUME NEW u \in Workers PROVE WorkerSound(u)'
  <2>1. CASE u = w
    BY <2>1 DEF Finish, WorkerSound, AtHand, Consistent, TypeOK
  <2>2. CASE u # w
    BY <2>2 DEF Finish, WorkerSound, AtHand, Consistent, TypeOK
  <2> QED BY <2>1, <2>2
<1> QED BY <1>2, <1>3, <1>4 DEF Consistent

LEMMA ClaimSound == ASSUME Consistent, NEW w \in Workers, Claim(w) PROVE Consistent'
<1> DEFINE S == Oldest(BatchLimit, Claimable)
<1>1. RpcClaim(w) /\ sent' = sent
  BY DEF Claim
<1>2. /\ RowsTyped'
      /\ \A i \in Items : /\ attempts'[i] \in {attempts[i], attempts[i] + 1}
                          /\ i \in S => attempts'[i] = attempts[i] + 1
  BY <1>1, ClaimTyped, Types DEF Consistent
<1>3. CASE Abandon(w)
  BY <1>1, <1>2, <1>3, AbandonSound
<1>4. CASE /\ pc' = [pc EXCEPT ![w] = "batch"]
           /\ batch' = [batch EXCEPT ![w] = S]
           /\ claimed' = [claimed EXCEPT ![w] = [i \in Items |-> IF i \in S THEN attempts[i] + 1 ELSE 0]]
           /\ UNCHANGED <<cur, verdict, faults>>
  <2>1. S \subseteq Items
    BY DEF Oldest, Claimable
  <2> HIDE DEF S
  <2>2. attempts \in [Items -> Nat]
    BY DEF Consistent, TypeOK
  <2>3. [i \in Items |-> IF i \in S THEN attempts[i] + 1 ELSE 0] \in [Items -> Nat]
    BY <2>2
  <2>4. WorkersTyped'
    BY <1>4, <2>1, <2>3 DEF Consistent, TypeOK, WorkersTyped, Steps
  <2>5. TypeOK'
    BY <1>1, <1>2, <1>4, <2>4 DEF Consistent, TypeOK, RowsTyped, WorkersTyped
  <2>6. CopiesLag'
    <3>1. ASSUME NEW u \in Workers, u # w PROVE \A i \in Items : claimed'[u][i] <= attempts'[i]
      BY <1>2, <1>4, <3>1, CopiesStay DEF Consistent, TypeOK
    <3>2. \A i \in Items : claimed'[w][i] <= attempts'[i]
      BY <1>2, <1>4, <2>2 DEF Consistent, TypeOK
    <3> QED BY <3>1, <3>2 DEF CopiesLag
  <2>7. ASSUME NEW u \in Workers PROVE WorkerSound(u)'
    <3>1. CASE u = w
      BY <1>4, <3>1 DEF WorkerSound, AtHand, Consistent, TypeOK
    <3>2. CASE u # w
      BY <1>4, <3>2 DEF WorkerSound, AtHand, Consistent, TypeOK
    <3> QED BY <3>1, <3>2
  <2> QED BY <2>5, <2>6, <2>7 DEF Consistent
<1> QED BY <1>3, <1>4 DEF Claim

\* A worker enters a step with an item, having made a verdict or not.
LEMMA EnterSound ==
  ASSUME Consistent, NEW w \in Workers, NEW i \in Items, NEW step \in Steps, Enter(w, i, step),
         NEW outcome \in {"none", "accepted", "transient", "refused"},
         verdict' = [verdict EXCEPT ![w] = outcome],
         step = "rejected" /\ outcome = "transient" => claimed[w][i] >= MaxAttempts,
         UNCHANGED <<rowVars, faults>>, sent' \in [Items -> Nat]
  PROVE  Consistent'
<1>1. RowsTyped' /\ WorkersTyped'
  BY DEF Enter, rowVars, Consistent, TypeOK, RowsTyped, WorkersTyped
<1>2. TypeOK'
  BY <1>1 DEF Consistent, TypeOK, RowsTyped, WorkersTyped
<1>3. CopiesLag'
  BY DEF Enter, rowVars, Consistent, CopiesLag
<1>4. ASSUME NEW u \in Workers PROVE WorkerSound(u)'
  <2>1. CASE u = w
    BY <2>1 DEF Enter, WorkerSound, Consistent, TypeOK
  <2>2. CASE u # w
    BY <2>2 DEF Enter, WorkerSound, Consistent, TypeOK
  <2> QED BY <2>1, <2>2
<1> QED BY <1>2, <1>3, <1>4 DEF Consistent

LEMMA TakeSound ==
  ASSUME Consistent, NEW w \in Workers, NEW i \in Items, Take(w, i) PROVE Consistent'
<1>1. UNCHANGED <<rowVars, faults>> /\ sent' \in [Items -> Nat]
  BY DEF Take, Consistent, TypeOK
<1>2. CASE Enter(w, i, "rejected") /\ verdict' = [verdict EXCEPT ![w] = "refused"]
  BY <1>1, <1>2, EnterSound DEF Steps
<1>3. CASE Enter(w, i, "sending") /\ verdict' = verdict
  <2>1. verdict' = [verdict EXCEPT ![w] = verdict[w]]
    BY <1>3 DEF Consistent, TypeOK
  <2>2. verdict[w] \in {"none", "accepted", "transient", "refused"}
    BY DEF Consistent, TypeOK
  <2> QED BY <1>1, <1>3, <2>1, <2>2, EnterSound DEF Steps
<1> QED BY <1>2, <1>3 DEF Take

LEMMA SendSound == ASSUME Consistent, NEW w \in Workers, Send(w) PROVE Consistent'
<1>1. UNCHANGED <<rowVars, faults>> /\ cur[w] \in Items
  BY DEF Send, Consistent, WorkerSound, AtHand
<1>2. sent' \in [Items -> Nat]
  BY <1>1 DEF Send, Consistent, TypeOK
<1>3. CASE SendOutcome(w, "accepted", "sent")
  BY <1>1, <1>2, <1>3, EnterSound DEF SendOutcome, Steps
<1>4. CASE SendOutcome(w, "refused", "rejected")
  BY <1>1, <1>2, <1>4, EnterSound DEF SendOutcome, Steps
<1>5. CASE SendOutcome(w, "transient", IF claimed[w][cur[w]] < MaxAttempts THEN "retrying" ELSE "rejected")
  <2> DEFINE step == IF claimed[w][cur[w]] < MaxAttempts THEN "retrying" ELSE "rejected"
  <2>1. claimed[w][cur[w]] \in Nat
    BY <1>1 DEF Consistent, TypeOK
  <2>2. step \in Steps /\ (step = "rejected" => claimed[w][cur[w]] >= MaxAttempts)
    BY <2>1, OutboxAssumption DEF Steps
  <2>3. Enter(w, cur[w], step) /\ verdict' = [verdict EXCEPT ![w] = "transient"]
    BY <1>5 DEF SendOutcome
  <2> HIDE DEF step
  <2> QED BY <1>1, <1>2, <2>2, <2>3, EnterSound
<1> QED BY <1>3, <1>4, <1>5 DEF Send

\* The worker reports on its item, or fails to.
LEMMA ReportSound ==
  ASSUME Consistent, NEW w \in Workers, Complete(w) \/ FailOrRetry(w) PROVE Consistent'
<1>1. cur[w] \in Items /\ sent' = sent
  BY DEF Complete, FailOrRetry, Consistent, WorkerSound, AtHand
<1>2. /\ \/ RpcComplete(w, cur[w]) \/ RpcFailOrRetry(w, cur[w], pc[w] = "retrying")
         \/ UNCHANGED rowVars
      /\ Abandon(w) \/ (Finish(w, cur[w]) /\ faults' = faults)
  BY DEF Complete, FailOrRetry
<1>3. RowsTyped' /\ attempts' = attempts
  <2>1. RowsTyped
    BY Types DEF Consistent
  <2>2. (pc[w] = "retrying") \in BOOLEAN
    OBVIOUS
  <2> QED BY <1>1, <1>2, <2>1, <2>2, SettleTyped
<1> QED BY <1>1, <1>2, <1>3, AbandonSound, FinishSound

LEMMA InterruptSound == ASSUME Consistent, NEW w \in Workers, Interrupt(w) PROVE Consistent'
<1>1. UNCHANGED rowVars /\ sent' = sent /\ Abandon(w)
  BY DEF Interrupt
<1>2. RowsTyped' /\ attempts' = attempts
  BY <1>1 DEF rowVars, Consistent, TypeOK, RowsTyped
<1> QED BY <1>1, <1>2, AbandonSound

\* Nothing but rows, the faults and the count of messages changes.
LEMMA RowsMove ==
  ASSUME Consistent, RowsTyped', UNCHANGED <<workerVars, attempts>>,
         faults' \in 0..MaxFaults, sent' \in [Items -> Nat]
  PROVE  Consistent'
<1>1. TypeOK'
  BY DEF workerVars, Consistent, TypeOK, RowsTyped
<1>2. CopiesLag'
  BY DEF workerVars, Consistent, CopiesLag
<1>3. \A w \in Workers : WorkerSound(w)'
  BY DEF workerVars, Consistent, WorkerSound
<1> QED BY <1>1, <1>2, <1>3 DEF Consistent

LEMMA EnqueueSound == ASSUME Consistent, NEW i \in Items, Enqueue(i) PROVE Consistent'
<1>1. RowsTyped' /\ UNCHANGED <<workerVars, attempts, faults, sent>>
  BY DEF Enqueue, Consistent, TypeOK, RowsTyped, Statuses
<1> QED BY <1>1, RowsMove DEF Consistent, TypeOK

LEMMA LoseReplySound == ASSUME Consistent, NEW w \in Workers, LoseReply(w) PROVE Consistent'
<1>1. RowsTyped' /\ UNCHANGED <<workerVars, attempts>> /\ cur[w] \in Items
  BY DEF LoseReply, rowVars, Consistent, TypeOK, RowsTyped, WorkerSound, AtHand
<1>2. faults' \in 0..MaxFaults
  BY OutboxAssumption DEF LoseReply, Fault, Consistent, TypeOK
<1>3. sent \in [Items -> Nat] /\ sent' = [sent EXCEPT ![cur[w]] = sent[cur[w]] + 1]
  BY DEF LoseReply, Consistent, TypeOK
<1>4. sent' \in [Items -> Nat]
  <2>1. sent[cur[w]] + 1 \in Nat
    BY <1>1, <1>3
  <2> QED BY <1>3, <2>1
<1> QED BY <1>1, <1>2, <1>4, RowsMove

LEMMA TickSound == ASSUME Consistent, Tick PROVE Consistent'
<1>1. lease \in [Items -> -1..LeaseTicks] /\ due \in [Items -> 0..RetryTicks]
  BY DEF Consistent, TypeOK
<1>2. \A i \in Items : Countdown(lease[i], -1) \in -1..LeaseTicks
  BY <1>1, OutboxAssumption DEF Countdown
<1>3. \A i \in Items : Countdown(due[i], 0) \in 0..RetryTicks
  BY <1>1, OutboxAssumption DEF Countdown
<1>4. RowsTyped' /\ UNCHANGED <<workerVars, attempts, sent>>
  BY <1>2, <1>3 DEF Tick, Consistent, TypeOK, RowsTyped
<1>5. faults' \in 0..MaxFaults
  BY OutboxAssumption DEF Tick, Fault, Consistent, TypeOK
<1> QED BY <1>4, <1>5, RowsMove DEF Consistent, TypeOK

LEMMA InitConsistent == Init => Consistent
<1> SUFFICES ASSUME Init PROVE Consistent
  OBVIOUS
<1>1. TypeOK
  BY OutboxAssumption DEF Init, TypeOK, Statuses, Steps
<1>2. CopiesLag /\ \A w \in Workers : WorkerSound(w)
  BY DEF Init, CopiesLag, WorkerSound, AtHand
<1> QED BY <1>1, <1>2 DEF Consistent

LEMMA NextConsistent == Consistent /\ [Next]_vars => Consistent'
<1> SUFFICES ASSUME Consistent, [Next]_vars PROVE Consistent'
  OBVIOUS
<1>1. ASSUME NEW i \in Items, Enqueue(i) PROVE Consistent'
  BY <1>1, EnqueueSound
<1>2. ASSUME NEW w \in Workers, WorkerStep(w) PROVE Consistent'
  BY <1>2, ClaimSound, SendSound, ReportSound, TakeSound DEF WorkerStep
<1>3. ASSUME NEW w \in Workers, LoseReply(w) \/ Interrupt(w) PROVE Consistent'
  BY <1>3, LoseReplySound, InterruptSound
<1>4. CASE Tick
  BY <1>4, TickSound
<1>5. CASE UNCHANGED vars
  <2>1. UNCHANGED <<workerVars, rowVars, faults, sent>>
    BY <1>5 DEF vars
  <2>2. RowsTyped' /\ UNCHANGED attempts
    BY <2>1 DEF rowVars, Consistent, TypeOK, RowsTyped
  <2> QED BY <2>1, <2>2, RowsMove DEF Consistent, TypeOK
<1> QED BY <1>1, <1>2, <1>3, <1>4, <1>5 DEF Next

-----------------------------------------------------------------------------
(* Who moves an item.                                                      *)

\* A step that moves an item which is being dispatched takes it over after its lease
\* has ended, or is the report of the worker that holds it.
LEMMA MovedBy ==
  ASSUME Consistent, Next, NEW i \in Items, status[i] = "dispatching",
         <<status[i], owner[i]>>' # <<status[i], owner[i]>>
  PROVE  \/ lease[i] < 0 /\ status'[i] = "dispatching"
         \/ \E w \in Workers :
              /\ Holds(w, i) /\ cur[w] = i /\ cur'[w] = NoItem
              /\ \/ RpcComplete(w, i) /\ pc[w] = "sent"
                 \/ RpcFailOrRetry(w, i, pc[w] = "retrying") /\ pc[w] \in {"retrying", "rejected"}
<1>1. ASSUME NEW w \in Workers, Claim(w) PROVE lease[i] < 0 /\ status'[i] = "dispatching"
  <2>1. RpcClaim(w)
    BY <1>1 DEF Claim
  <2>2. i \in Oldest(BatchLimit, Claimable) /\ status'[i] = "dispatching"
    BY <2>1 DEF RpcClaim
  <2>3. i \in Claimable
    BY <2>2 DEF Oldest
  <2> QED BY <2>2, <2>3 DEF Claimable
<1>2. ASSUME NEW w \in Workers, Complete(w) \/ FailOrRetry(w)
      PROVE  /\ Holds(w, i) /\ cur[w] = i /\ cur'[w] = NoItem
             /\ \/ RpcComplete(w, i) /\ pc[w] = "sent"
                \/ RpcFailOrRetry(w, i, pc[w] = "retrying") /\ pc[w] \in {"retrying", "rejected"}
  <2>1. \/ RpcComplete(w, cur[w]) /\ pc[w] = "sent"
        \/ RpcFailOrRetry(w, cur[w], pc[w] = "retrying") /\ pc[w] \in {"retrying", "rejected"}
    BY <1>2 DEF Complete, FailOrRetry, rowVars
  <2>2. Holds(w, cur[w]) /\ cur[w] = i
    BY <2>1 DEF RpcComplete, RpcFailOrRetry, Settle, rowVars, Consistent, TypeOK
  <2>3. cur'[w] = NoItem
    BY <1>2 DEF Complete, FailOrRetry, Finish, Abandon, Consistent, TypeOK
  <2> QED BY <2>1, <2>2, <2>3
<1>3. ASSUME UNCHANGED <<status, owner>> PROVE FALSE
  BY <1>3
<1>4. ASSUME NEW j \in Items, Enqueue(j) PROVE FALSE
  BY <1>4 DEF Enqueue, Consistent, TypeOK
<1>5. ASSUME NEW w \in Workers, Send(w) \/ LoseReply(w) \/ Interrupt(w) PROVE FALSE
  BY <1>3, <1>5 DEF Send, LoseReply, Interrupt, rowVars
<1>6. ASSUME NEW w \in Workers, NEW j \in Items, Take(w, j) PROVE FALSE
  BY <1>3, <1>6 DEF Take, rowVars
<1>7. CASE Tick
  BY <1>3, <1>7 DEF Tick
<1> QED BY <1>1, <1>2, <1>4, <1>5, <1>6, <1>7 DEF Next, WorkerStep

-----------------------------------------------------------------------------
(* Repeats and attempts are paid for by faults.                            *)

\* An item may be claimed again: its claim has ended, or its owner lost it.
Lapsed(i) ==
  /\ status[i] = "dispatching"
  /\ lease[i] < 0 \/ ~\E w \in Workers : owner[i] = w /\ i \in batch[w]

Open(i) == status[i] \in {"absent", "queued"} \/ Lapsed(i)

\* The workers that may still send an item they have claimed.
Pending(i) == {w \in Workers : i \in batch[w] /\ ~(cur[w] = i /\ pc[w] = "sent")}

Spare(i) == IF Lapsed(i) THEN 1 ELSE 0
Ahead(i) == IF Open(i) THEN 1 ELSE 0

\* A queued item has an attempt left, and a lapsed one has its next claim paid for.
AttemptsPaid(i) ==
  /\ status[i] \in {"absent", "queued"} => attempts[i] < MaxAttempts
  /\ attempts[i] + Spare(i) <= MaxAttempts + faults

\* What was sent, what may be sent by those who have the item and what may be sent
\* after the next claim: one message, and one more for each fault.
CopiesPaid(i) == sent[i] + Cardinality(Pending(i)) + Ahead(i) <= 1 + faults

\* A worker at rest has no batch, and the item it deals with is one of its batch.
BatchSound(w) ==
  /\ pc[w] = "idle" => batch[w] = {}
  /\ pc[w] \in AtHand => cur[w] \in batch[w]

Paid ==
  /\ Consistent
  /\ \A w \in Workers : BatchSound(w)
  /\ \A i \in Items : AttemptsPaid(i) /\ CopiesPaid(i)

LEMMA PendingFinite ==
  ASSUME NEW i \in Items
  PROVE  /\ IsFiniteSet(Pending(i)) /\ Cardinality(Pending(i)) \in Nat
         /\ IsFiniteSet(Pending(i)') /\ Cardinality(Pending(i)') \in Nat
<1>1. IsFiniteSet(Workers) /\ Pending(i) \in SUBSET Workers /\ Pending(i)' \in SUBSET Workers
  BY OutboxAssumption DEF Pending
<1>2. IsFiniteSet(Pending(i)) /\ IsFiniteSet(Pending(i)')
  BY <1>1, FS_Subset
<1> QED BY <1>2, FS_CardinalityType

\* The numbers of an item.
LEMMA Counts ==
  ASSUME Paid, NEW i \in Items
  PROVE  /\ sent[i] \in Nat /\ attempts[i] \in Nat /\ faults \in Nat
         /\ Spare(i) \in {0, 1} /\ Ahead(i) \in {0, 1} /\ Spare(i)' \in {0, 1} /\ Ahead(i)' \in {0, 1}
         /\ AttemptsPaid(i) /\ CopiesPaid(i) /\ MaxAttempts \in Nat \ {0}
         /\ Cardinality(Pending(i)) \in Nat /\ Cardinality(Pending(i)') \in Nat
BY PendingFinite, OutboxAssumption DEF Paid, Consistent, TypeOK, Spare, Ahead

\* An item for which nothing changes.
LEMMA SamePaid ==
  ASSUME Paid, NEW i \in Items, faults' = faults, sent'[i] = sent[i], attempts'[i] = attempts[i],
         status'[i] = status[i], Lapsed(i)' = Lapsed(i), Pending(i)' = Pending(i)
  PROVE  AttemptsPaid(i)' /\ CopiesPaid(i)'
<1>1. Spare(i)' = Spare(i) /\ Ahead(i)' = Ahead(i)
  BY DEF Spare, Ahead, Open
<1> QED BY <1>1, Counts DEF AttemptsPaid, CopiesPaid

\* A worker that gives up its batch pays one fault for what each item may now cost.
LEMMA AbandonPays ==
  ASSUME Paid, NEW w \in Workers, Abandon(w), sent' = sent, NEW i \in Items,
         \/ attempts'[i] = attempts[i]
         \/ attempts'[i] = attempts[i] + 1 /\ Open(i),
         status'[i] \in {"absent", "queued"} => attempts'[i] < MaxAttempts
  PROVE  AttemptsPaid(i)' /\ CopiesPaid(i)'
<1>1. faults' = faults + 1
  BY DEF Abandon, Fault
<1>2. Pending(i)' \in SUBSET Pending(i)
  BY DEF Abandon, Pending, Paid, Consistent, TypeOK
<1>3. Cardinality(Pending(i)') <= Cardinality(Pending(i))
  BY <1>2, PendingFinite, FS_Subset
<1>4. CopiesPaid(i)'
  BY <1>1, <1>3, Counts DEF CopiesPaid
<1>5. Open(i) => attempts[i] + 1 <= MaxAttempts + faults
  BY Counts DEF Open, AttemptsPaid, Spare
<1>6. attempts'[i] <= MaxAttempts + faults
  BY <1>5, Counts DEF AttemptsPaid
<1>7. attempts'[i] \in Nat
  BY Counts
<1>8. AttemptsPaid(i)'
  BY <1>1, <1>6, <1>7, Counts DEF AttemptsPaid
<1> QED BY <1>4, <1>8

\* An item that is not claimed keeps its row; one that is was open.
LEMMA ClaimPays ==
  ASSUME Paid, NEW w \in Workers, Claim(w), NEW i \in Items
  PROVE  AttemptsPaid(i)' /\ CopiesPaid(i)'
<1> DEFINE S == Oldest(BatchLimit, Claimable)
<1>1. /\ status' = [j \in Items |-> IF j \in S THEN "dispatching" ELSE status[j]]
      /\ attempts' = [j \in Items |-> IF j \in S THEN attempts[j] + 1 ELSE attempts[j]]
      /\ owner' = [j \in Items |-> IF j \in S THEN w ELSE owner[j]]
      /\ lease' = [j \in Items |-> IF j \in S THEN LeaseTicks ELSE lease[j]]
      /\ sent' = sent
  BY DEF Claim, RpcClaim
<1>2. i \in S => Open(i)
  BY DEF Oldest, Claimable, Open, Lapsed
<1>3. batch[w] = {} /\ pc[w] = "idle"
  BY DEF Claim, Paid, BatchSound
<1> HIDE DEF S
<1>4. CASE Abandon(w)
  <2>1. \/ attempts'[i] = attempts[i]
        \/ attempts'[i] = attempts[i] + 1 /\ Open(i)
    BY <1>1, <1>2
  <2>2. status'[i] \in {"absent", "queued"} => attempts'[i] < MaxAttempts
    BY <1>1, Counts DEF AttemptsPaid
  <2> QED BY <1>1, <1>4, <2>1, <2>2, AbandonPays
<1>5. CASE /\ pc' = [pc EXCEPT ![w] = "batch"] /\ batch' = [batch EXCEPT ![w] = S]
           /\ UNCHANGED <<cur, faults>>
  <2>1. batch \in [Workers -> SUBSET Items] /\ pc \in [Workers -> Steps]
    BY DEF Paid, Consistent, TypeOK
  <2>2. CASE i \notin S
    <3>1. /\ attempts'[i] = attempts[i] /\ status'[i] = status[i]
          /\ owner'[i] = owner[i] /\ lease'[i] = lease[i]
      BY <1>1, <2>2
    <3>2. \A u \in Workers : i \in batch'[u] <=> i \in batch[u]
      BY <1>3, <1>5, <2>1, <2>2
    <3>3. Lapsed(i)' = Lapsed(i)
      BY <3>1, <3>2 DEF Lapsed
    <3>4. Pending(i)' = Pending(i)
      BY <1>3, <1>5, <2>1, <3>2 DEF Pending
    <3> QED BY <1>1, <1>5, <3>1, <3>3, <3>4, SamePaid
  <2>3. CASE i \in S
    <3>1. /\ attempts'[i] = attempts[i] + 1 /\ status'[i] = "dispatching"
          /\ owner'[i] = w /\ lease'[i] = LeaseTicks /\ i \in batch'[w]
      BY <1>1, <1>5, <2>1, <2>3
    <3>2. ~Lapsed(i)' /\ ~Open(i)'
      BY <3>1, OutboxAssumption DEF Lapsed, Open
    <3>3. Pending(i)' = Pending(i) \cup {w}
      BY <1>3, <1>5, <2>1, <2>3 DEF Pending
    <3>4. Cardinality(Pending(i)') <= Cardinality(Pending(i)) + 1
      <4>1. Cardinality(Pending(i) \cup {w}) \in {Cardinality(Pending(i)), Cardinality(Pending(i)) + 1}
        BY PendingFinite, FS_AddElement
      <4>2. Cardinality(Pending(i)) \in Nat
        BY PendingFinite
      <4> QED BY <3>3, <4>1, <4>2
    <3>5. Ahead(i) = 1 /\ Ahead(i)' = 0 /\ Spare(i)' = 0
      BY <1>2, <2>3, <3>2 DEF Ahead, Spare
    <3>6. CopiesPaid(i)'
      BY <1>1, <1>5, <3>4, <3>5, Counts DEF CopiesPaid
    <3>7. attempts[i] + 1 <= MaxAttempts + faults
      BY <1>2, <2>3, Counts DEF Open, AttemptsPaid, Spare
    <3>8. AttemptsPaid(i)'
      BY <1>5, <3>1, <3>5, <3>7, Counts DEF AttemptsPaid
    <3> QED BY <3>6, <3>8
  <2> QED BY <2>2, <2>3
<1> QED BY <1>4, <1>5 DEF Claim, S

\* To begin with an item costs nothing: it is in the batch already.
LEMMA TakePays ==
  ASSUME Paid, NEW w \in Workers, NEW j \in Items, Take(w, j), NEW i \in Items
  PROVE  AttemptsPaid(i)' /\ CopiesPaid(i)'
<1>1. UNCHANGED <<status, owner, lease, attempts, batch, faults, sent>>
  BY DEF Take, Enter, rowVars
<1>2. Lapsed(i)' = Lapsed(i)
  BY <1>1 DEF Lapsed
<1>3. /\ pc[w] = "batch" /\ pc'[w] \in {"sending", "rejected"}
      /\ \A u \in Workers \ {w} : pc'[u] = pc[u] /\ cur'[u] = cur[u]
  BY DEF Take, Enter, Paid, Consistent, TypeOK
<1>4. Pending(i)' = Pending(i)
  BY <1>1, <1>3 DEF Pending
<1> QED BY <1>1, <1>2, <1>4, SamePaid

\* A message that Telegram accepts is the one the worker still had to send.
LEMMA SendPays ==
  ASSUME Paid, NEW w \in Workers, Send(w), NEW i \in Items
  PROVE  AttemptsPaid(i)' /\ CopiesPaid(i)'
<1>1. UNCHANGED <<status, owner, lease, attempts, batch, faults>> /\ cur[w] \in batch[w]
  BY DEF Send, SendOutcome, Enter, rowVars, Paid, BatchSound, AtHand
<1>2. Lapsed(i)' = Lapsed(i)
  BY <1>1 DEF Lapsed
<1>3. pc[w] = "sending" /\ \A u \in Workers : cur'[u] = cur[u]
  BY DEF Send, SendOutcome, Enter, Paid, Consistent, TypeOK
<1>4. CASE /\ pc' = [pc EXCEPT ![w] = "sent"]
           /\ sent' = [sent EXCEPT ![cur[w]] = @ + 1]
  <2>1. pc'[w] = "sent" /\ \A u \in Workers \ {w} : pc'[u] = pc[u]
    BY <1>4 DEF Paid, Consistent, TypeOK
  <2>2. CASE i = cur[w]
    <3>1. sent'[i] = sent[i] + 1
      BY <1>4, <2>2 DEF Paid, Consistent, TypeOK
    <3>2. w \in Pending(i) /\ Pending(i)' = Pending(i) \ {w}
      BY <1>1, <1>3, <2>1, <2>2 DEF Pending
    <3>3. Cardinality(Pending(i)') = Cardinality(Pending(i)) - 1
      BY <3>2, PendingFinite, FS_RemoveElement
    <3>4. Spare(i)' = Spare(i) /\ Ahead(i)' = Ahead(i)
      BY <1>1, <1>2 DEF Spare, Ahead, Open
    <3> QED BY <1>1, <3>1, <3>3, <3>4, Counts DEF AttemptsPaid, CopiesPaid
  <2>3. CASE i # cur[w]
    <3>1. sent'[i] = sent[i]
      BY <1>4, <2>3 DEF Paid, Consistent, TypeOK
    <3>2. Pending(i)' = Pending(i)
      BY <1>1, <1>3, <2>1, <2>3 DEF Pending
    <3> QED BY <1>1, <1>2, <3>1, <3>2, SamePaid
  <2> QED BY <2>2, <2>3
<1>5. CASE /\ pc' = [pc EXCEPT ![w] = "rejected"] \/ pc' = [pc EXCEPT ![w] = "retrying"]
           /\ sent' = sent
  <2>1. pc'[w] # "sent" /\ \A u \in Workers \ {w} : pc'[u] = pc[u]
    BY <1>5 DEF Paid, Consistent, TypeOK
  <2>2. Pending(i)' = Pending(i)
    BY <1>1, <1>3, <2>1 DEF Pending
  <2> QED BY <1>1, <1>2, <1>5, <2>2, SamePaid
<1> QED BY <1>4, <1>5 DEF Send, SendOutcome, Enter

\* The message whose answer is lost is paid for by that fault.
LEMMA LoseReplyPays ==
  ASSUME Paid, NEW w \in Workers, LoseReply(w), NEW i \in Items
  PROVE  AttemptsPaid(i)' /\ CopiesPaid(i)'
<1>1. UNCHANGED <<status, owner, lease, attempts, batch, pc, cur>> /\ faults' = faults + 1
  BY DEF LoseReply, Fault, rowVars, workerVars
<1>2. sent'[i] \in {sent[i], sent[i] + 1}
  BY DEF LoseReply, Paid, Consistent, TypeOK
<1>3. Spare(i)' = Spare(i) /\ Ahead(i)' = Ahead(i) /\ Pending(i)' = Pending(i)
  BY <1>1 DEF Spare, Ahead, Open, Lapsed, Pending
<1> QED BY <1>1, <1>2, <1>3, Counts DEF AttemptsPaid, CopiesPaid

\* What a report does to the row of an item: it settles the one it is about, if the
\* worker holds it, and leaves it in the queue only while it has an attempt left.
LEMMA ReportMoves ==
  ASSUME Consistent, NEW w \in Workers, NEW i \in Items,
         \/ RpcComplete(w, cur[w]) /\ pc[w] = "sent"
         \/ RpcFailOrRetry(w, cur[w], pc[w] = "retrying") /\ pc[w] \in {"retrying", "rejected"}
         \/ UNCHANGED rowVars
  PROVE  /\ attempts' = attempts
         /\ \/ UNCHANGED <<status[i], owner[i], lease[i]>>
            \/ /\ i = cur[w] /\ Holds(w, i)
               /\ \/ status'[i] \in {"processed", "dead_letter"}
                  \/ status'[i] = "queued" /\ attempts[i] < MaxAttempts /\ pc[w] # "sent"
         /\ i = cur[w] /\ ~Holds(w, i) => UNCHANGED <<status[i], owner[i], lease[i]>>
<1>1. CASE UNCHANGED rowVars
  BY <1>1 DEF rowVars
<1>2. CASE RpcComplete(w, cur[w])
  BY <1>2 DEF RpcComplete, Settle, Consistent, TypeOK
<1>3. CASE RpcFailOrRetry(w, cur[w], pc[w] = "retrying") /\ pc[w] \in {"retrying", "rejected"}
  <2>1. CASE ~Holds(w, cur[w])
    BY <1>3, <2>1 DEF RpcFailOrRetry, rowVars
  <2>2. CASE Holds(w, cur[w]) /\ Settle(cur[w], "dead_letter")
    BY <2>2 DEF Settle, Consistent, TypeOK
  <2>3. CASE Holds(w, cur[w]) /\ Settle(cur[w], "queued") /\ ~Exhausted(cur[w])
    BY <1>3, <2>3, OutboxAssumption DEF Settle, Exhausted, Consistent, TypeOK
  <2> QED BY <1>3, <2>1, <2>2, <2>3 DEF RpcFailOrRetry
<1> QED BY <1>1, <1>2, <1>3

\* A report that puts the item back takes it from the worker that would have sent it.
LEMMA ReportPays ==
  ASSUME Paid, NEW w \in Workers, Complete(w) \/ FailOrRetry(w), NEW i \in Items
  PROVE  AttemptsPaid(i)' /\ CopiesPaid(i)'
<1>1. /\ \/ RpcComplete(w, cur[w]) /\ pc[w] = "sent"
         \/ RpcFailOrRetry(w, cur[w], pc[w] = "retrying") /\ pc[w] \in {"retrying", "rejected"}
         \/ UNCHANGED rowVars
      /\ \/ Abandon(w)
         \/ /\ Finish(w, cur[w]) /\ faults' = faults
            /\ RpcComplete(w, cur[w]) \/ RpcFailOrRetry(w, cur[w], pc[w] = "retrying")
      /\ sent' = sent
  BY DEF Complete, FailOrRetry
<1>2. /\ attempts' = attempts
      /\ \/ UNCHANGED <<status[i], owner[i], lease[i]>>
         \/ /\ i = cur[w] /\ Holds(w, i)
            /\ \/ status'[i] \in {"processed", "dead_letter"}
               \/ status'[i] = "queued" /\ attempts[i] < MaxAttempts /\ pc[w] # "sent"
      /\ i = cur[w] /\ ~Holds(w, i) => UNCHANGED <<status[i], owner[i], lease[i]>>
  BY <1>1, ReportMoves DEF Paid
<1>3. status'[i] \in {"absent", "queued"} => attempts'[i] < MaxAttempts
  BY <1>2, Counts DEF AttemptsPaid
<1>4. CASE Abandon(w)
  BY <1>1, <1>2, <1>3, <1>4, AbandonPays
<1>5. CASE /\ Finish(w, cur[w]) /\ faults' = faults
           /\ RpcComplete(w, cur[w]) \/ RpcFailOrRetry(w, cur[w], pc[w] = "retrying")
  <2>1. /\ \A u \in Workers \ {w} : UNCHANGED <<pc[u], cur[u], batch[u]>>
        /\ pc'[w] \in {"idle", "batch"} /\ batch'[w] = batch[w] \ {cur[w]}
    BY <1>5 DEF Finish, Paid, Consistent, TypeOK
  <2>2. pc[w] \in AtHand /\ cur[w] \in batch[w]
    BY DEF Complete, FailOrRetry, AtHand, Paid, BatchSound
  <2>3. CASE i # cur[w]
    <3>1. UNCHANGED <<status[i], owner[i], lease[i]>>
      BY <1>2, <2>3
    <3>2. \A u \in Workers : i \in batch'[u] <=> i \in batch[u]
      BY <2>1, <2>3
    <3>3. Lapsed(i)' = Lapsed(i)
      BY <3>1, <3>2 DEF Lapsed
    <3>4. Pending(i)' = Pending(i)
      BY <2>1, <2>3, <3>2 DEF Pending
    <3> QED BY <1>1, <1>2, <1>5, <3>1, <3>3, <3>4, SamePaid
  <2>4. CASE i = cur[w]
    <3>1. Pending(i)' = Pending(i) \ {w} /\ (pc[w] # "sent" => w \in Pending(i))
      BY <2>1, <2>2, <2>4 DEF Pending
    <3>2. /\ Cardinality(Pending(i)') <= Cardinality(Pending(i))
          /\ pc[w] # "sent" => Cardinality(Pending(i)') = Cardinality(Pending(i)) - 1
      <4>1. Cardinality(Pending(i) \ {w}) =
              IF w \in Pending(i) THEN Cardinality(Pending(i)) - 1 ELSE Cardinality(Pending(i))
        BY PendingFinite, FS_RemoveElement
      <4>2. Cardinality(Pending(i)) \in Nat
        BY PendingFinite
      <4> QED BY <3>1, <4>1, <4>2
    <3>3. CASE Holds(w, i) /\ status'[i] \in {"processed", "dead_letter"}
      <4>1. Spare(i)' = 0 /\ Ahead(i)' = 0
        BY <3>3 DEF Spare, Ahead, Open, Lapsed
      <4> QED BY <1>1, <1>2, <1>3, <1>5, <3>2, <4>1, Counts DEF AttemptsPaid, CopiesPaid
    <3>4. CASE status'[i] = "queued" /\ pc[w] # "sent"
      <4>1. Spare(i)' = 0 /\ Ahead(i)' = 1
        BY <3>4 DEF Spare, Ahead, Open, Lapsed
      <4> QED BY <1>1, <1>2, <1>3, <1>5, <3>2, <3>4, <4>1, Counts DEF AttemptsPaid, CopiesPaid
    <3>5. CASE ~Holds(w, i)
      <4>1. UNCHANGED <<status[i], owner[i], lease[i]>>
        BY <1>2, <2>4, <3>5
      <4>2. Lapsed(i)' = Lapsed(i)
        BY <2>1, <3>5, <4>1 DEF Lapsed, Holds
      <4>3. Spare(i)' = Spare(i) /\ Ahead(i)' = Ahead(i)
        BY <4>1, <4>2 DEF Spare, Ahead, Open
      <4> QED BY <1>1, <1>2, <1>3, <1>5, <3>2, <4>3, Counts DEF AttemptsPaid, CopiesPaid
    <3>6. Holds(w, i) => status'[i] # "dispatching"
      BY <1>5, <2>4 DEF RpcComplete, RpcFailOrRetry, Settle, Paid, Consistent, TypeOK
    <3> QED BY <1>2, <3>3, <3>4, <3>5, <3>6 DEF Holds
  <2> QED BY <2>3, <2>4
<1> QED BY <1>1, <1>4, <1>5

\* A claim ends in time, or the tick costs a fault.
LEMMA TickPays ==
  ASSUME Paid, Tick, NEW i \in Items PROVE AttemptsPaid(i)' /\ CopiesPaid(i)'
<1>1. /\ UNCHANGED <<status, owner, attempts, batch, pc, cur, sent>>
      /\ lease'[i] = Countdown(lease[i], -1) /\ lease[i] \in -1..LeaseTicks /\ LeaseTicks \in Nat
  BY OutboxAssumption DEF Tick, workerVars, Paid, Consistent, TypeOK
<1>2. Pending(i)' = Pending(i)
  BY <1>1 DEF Pending
<1>3. CASE InTime /\ faults' = faults
  <2>1. (\E w \in Workers : owner[i] = w /\ i \in batch[w]) /\ status[i] = "dispatching" => lease[i] > 0
    BY <1>3 DEF InTime, Holds
  <2>2. lease[i] < 0 => lease'[i] < 0
    BY <1>1 DEF Countdown
  <2>3. lease[i] > 0 => ~(lease'[i] < 0) /\ ~(lease[i] < 0)
    BY <1>1 DEF Countdown
  <2>4. Lapsed(i)' = Lapsed(i)
    BY <1>1, <2>1, <2>2, <2>3 DEF Lapsed
  <2> QED BY <1>1, <1>2, <1>3, <2>4, SamePaid
<1>4. CASE faults' = faults + 1
  BY <1>1, <1>2, <1>4, Counts DEF AttemptsPaid, CopiesPaid
<1> QED BY <1>3, <1>4 DEF Tick, Fault

LEMMA EnqueuePays ==
  ASSUME Paid, NEW j \in Items, Enqueue(j), NEW i \in Items
  PROVE  AttemptsPaid(i)' /\ CopiesPaid(i)'
<1>1. /\ UNCHANGED <<owner, lease, attempts, batch, pc, cur, faults, sent>>
      /\ status'[i] = status[i] \/ (status[i] = "absent" /\ status'[i] = "queued")
  BY DEF Enqueue, workerVars, Paid, Consistent, TypeOK
<1>2. Spare(i)' = Spare(i) /\ Ahead(i)' = Ahead(i) /\ Pending(i)' = Pending(i)
  BY <1>1 DEF Spare, Ahead, Open, Lapsed, Pending
<1> QED BY <1>1, <1>2, Counts DEF AttemptsPaid, CopiesPaid

\* A batch belongs to a worker at work.
LEMMA BatchStays ==
  ASSUME Paid, [Next]_vars, NEW w \in Workers PROVE BatchSound(w)'
<1> USE DEF BatchSound, AtHand
<1>1. BatchSound(w) /\ TypeOK
  BY DEF Paid, Consistent
<1>2. ASSUME NEW u \in Workers, Abandon(u) PROVE BatchSound(w)'
  BY <1>1, <1>2 DEF Abandon, TypeOK
<1>3. ASSUME NEW u \in Workers, NEW j \in Items, Finish(u, j) PROVE BatchSound(w)'
  BY <1>1, <1>3 DEF Finish, TypeOK
<1>4. ASSUME NEW u \in Workers, Claim(u) PROVE BatchSound(w)'
  <2>1. CASE Abandon(u)
    BY <1>2, <2>1
  <2>2. CASE /\ pc' = [pc EXCEPT ![u] = "batch"]
             /\ \E S : batch' = [batch EXCEPT ![u] = S]
             /\ cur' = cur
    BY <1>1, <2>2 DEF TypeOK
  <2> QED BY <1>4, <2>1, <2>2 DEF Claim
<1>5. ASSUME NEW u \in Workers, NEW j \in Items, Take(u, j) PROVE BatchSound(w)'
  BY <1>1, <1>5 DEF Take, Enter, TypeOK
<1>6. ASSUME NEW u \in Workers, Send(u) PROVE BatchSound(w)'
  BY <1>1, <1>6 DEF Send, SendOutcome, Enter, TypeOK
<1>7. ASSUME NEW u \in Workers, Complete(u) \/ FailOrRetry(u) PROVE BatchSound(w)'
  <2>1. cur[u] \in Items
    BY <1>7 DEF Complete, FailOrRetry, Paid, Consistent, WorkerSound
  <2> QED BY <1>2, <1>3, <1>7, <2>1 DEF Complete, FailOrRetry
<1>8. CASE UNCHANGED workerVars
  BY <1>1, <1>8 DEF workerVars
<1>9. ASSUME NEW u \in Workers, LoseReply(u) \/ Interrupt(u) PROVE BatchSound(w)'
  BY <1>2, <1>8, <1>9 DEF LoseReply, Interrupt
<1>10. CASE Tick \/ UNCHANGED vars \/ \E i \in Items : Enqueue(i)
  BY <1>8, <1>10 DEF Tick, Enqueue, vars
<1> QED BY <1>4, <1>5, <1>6, <1>7, <1>9, <1>10 DEF Next, WorkerStep

LEMMA InitPaid == Init => Paid
<1> SUFFICES ASSUME Init PROVE Paid
  OBVIOUS
<1>1. \A w \in Workers : BatchSound(w)
  BY DEF Init, BatchSound, AtHand
<1>2. ASSUME NEW i \in Items PROVE AttemptsPaid(i) /\ CopiesPaid(i)
  <2>1. Pending(i) = {} /\ Spare(i) = 0 /\ Ahead(i) = 1
    BY DEF Init, Pending, Spare, Ahead, Open, Lapsed
  <2>2. Cardinality(Pending(i)) = 0
    BY <2>1, FS_EmptySet
  <2> QED BY <2>1, <2>2, OutboxAssumption DEF Init, AttemptsPaid, CopiesPaid
<1> QED BY <1>1, <1>2, InitConsistent DEF Paid

LEMMA NextPaid == Paid /\ [Next]_vars => Paid'
<1> SUFFICES ASSUME Paid, [Next]_vars PROVE Paid'
  OBVIOUS
<1>1. Consistent'
  BY NextConsistent DEF Paid
<1>2. \A w \in Workers : BatchSound(w)'
  BY BatchStays
<1>3. ASSUME NEW i \in Items PROVE AttemptsPaid(i)' /\ CopiesPaid(i)'
  <2>1. ASSUME NEW j \in Items, Enqueue(j) PROVE AttemptsPaid(i)' /\ CopiesPaid(i)'
    BY <2>1, EnqueuePays
  <2>2. ASSUME NEW w \in Workers, WorkerStep(w) PROVE AttemptsPaid(i)' /\ CopiesPaid(i)'
    BY <2>2, ClaimPays, SendPays, ReportPays, TakePays DEF WorkerStep
  <2>3. ASSUME NEW w \in Workers, LoseReply(w) PROVE AttemptsPaid(i)' /\ CopiesPaid(i)'
    BY <2>3, LoseReplyPays
  <2>4. ASSUME NEW w \in Workers, Interrupt(w) PROVE AttemptsPaid(i)' /\ CopiesPaid(i)'
    <3>1. Abandon(w) /\ UNCHANGED <<status, attempts, sent>>
      BY <2>4 DEF Interrupt, rowVars
    <3> QED BY <3>1, AbandonPays, Counts DEF AttemptsPaid
  <2>5. CASE Tick
    BY <2>5, TickPays
  <2>6. CASE UNCHANGED vars
    <3>1. Lapsed(i)' = Lapsed(i) /\ Pending(i)' = Pending(i)
      BY <2>6 DEF vars, rowVars, workerVars, Lapsed, Pending
    <3> QED BY <2>6, <3>1, SamePaid DEF vars, rowVars
  <2> QED BY <2>1, <2>2, <2>3, <2>4, <2>5, <2>6 DEF Next
<1> QED BY <1>1, <1>2, <1>3 DEF Paid

-----------------------------------------------------------------------------
(* The theorems.                                                           *)

THEOREM AlwaysConsistent == Spec => []Consistent
BY InitConsistent, NextConsistent, PTL DEF Spec

\* Every row and every worker keeps its type, through crashes and takeovers.
THEOREM OutboxTyped == Spec => []TypeOK
<1>1. Consistent => TypeOK
  BY DEF Consistent
<1> QED BY <1>1, AlwaysConsistent, PTL

\* While a claim is live, only a report of its holder moves the item: neither another
\* worker's claim nor the late report of one that held it before.
THEOREM LiveItemHolds == Spec => LiveClaimUndisturbed
<1> DEFINE Undisturbed ==
      \A i \in Items : \A w \in Workers :
        /\ Holds(w, i) /\ lease[i] > 0
        /\ <<status[i], owner[i]>>' # <<status[i], owner[i]>>
        => <<pc[w], cur[w], batch[w]>>' # <<pc[w], cur[w], batch[w]>>
<1>1. Consistent /\ [Next]_vars => [Undisturbed]_vars
  <2> SUFFICES ASSUME Consistent, Next, NEW i \in Items, NEW w \in Workers,
                      Holds(w, i), lease[i] > 0,
                      <<status[i], owner[i]>>' # <<status[i], owner[i]>>
               PROVE  cur'[w] # cur[w]
    OBVIOUS
  <2>1. ~(lease[i] < 0)
    BY DEF Consistent, TypeOK
  <2>2. PICK u \in Workers : Holds(u, i) /\ cur[u] = i /\ cur'[u] = NoItem
    BY <2>1, MovedBy DEF Holds
  <2> QED BY <2>2, OutboxAssumption DEF Holds
<1> QED BY <1>1, AlwaysConsistent, PTL DEF Spec, LiveClaimUndisturbed

\* An item is dead-lettered after a transient failure only when its attempts are used
\* up: the copy by which the worker decides never counts more than the row does.
THEOREM TransientTriedAgain == Spec => TransientIsRetried
<1> DEFINE Retried ==
      \A i \in Items :
        /\ status[i] = "dispatching" /\ status'[i] = "dead_letter"
        /\ verdict[owner[i]] = "transient"
        => attempts[i] >= MaxAttempts
<1>1. Consistent /\ [Next]_vars => [Retried]_vars
  <2> SUFFICES ASSUME Consistent, Next, NEW i \in Items,
                      status[i] = "dispatching", status'[i] = "dead_letter",
                      verdict[owner[i]] = "transient"
               PROVE  attempts[i] >= MaxAttempts
    OBVIOUS
  <2>1. PICK w \in Workers :
          /\ Holds(w, i) /\ cur[w] = i
          /\ \/ RpcComplete(w, i)
             \/ RpcFailOrRetry(w, i, pc[w] = "retrying") /\ pc[w] \in {"retrying", "rejected"}
    BY MovedBy
  <2>2. ~RpcComplete(w, i)
    BY <2>1 DEF RpcComplete, Settle, Consistent, TypeOK
  <2>3. CASE pc[w] = "retrying"
    <3>1. Exhausted(i)
      BY <2>1, <2>2, <2>3 DEF RpcFailOrRetry, Settle, Consistent, TypeOK
    <3> QED BY <3>1 DEF Exhausted
  <2>4. CASE pc[w] = "rejected"
    <3>1. verdict[w] = "transient"
      BY <2>1 DEF Holds
    <3>2. claimed[w][i] >= MaxAttempts /\ claimed[w][i] <= attempts[i]
      BY <2>1, <2>4, <3>1 DEF Consistent, WorkerSound, CopiesLag
    <3>3. claimed[w][i] \in Nat /\ attempts[i] \in Nat
      BY DEF Consistent, TypeOK
    <3> QED BY <3>2, <3>3, OutboxAssumption
  <2> QED BY <2>1, <2>2, <2>3, <2>4
<1> QED BY <1>1, AlwaysConsistent, PTL DEF Spec, TransientIsRetried

\* However claims expire, are lost with a crash and are taken over, an item is sent
\* again, or claimed beyond its attempts, at most once for each fault.
THEOREM RepeatsCostFaults == Spec => []ExtrasNeedFaults
<1>1. Paid => ExtrasNeedFaults
  <2> SUFFICES ASSUME Paid, NEW i \in Items
               PROVE  Repeats(i) <= faults /\ attempts[i] <= MaxAttempts + faults
    BY DEF ExtrasNeedFaults
  <2> QED BY Counts DEF Repeats, AttemptsPaid, CopiesPaid
<1> QED BY <1>1, InitPaid, NextPaid, PTL DEF Spec

=============================================================================
