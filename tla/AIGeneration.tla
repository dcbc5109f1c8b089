---------------------------- MODULE AIGeneration ----------------------------
(***************************************************************************)
(* The requests of one tenant for AI-written variants of an email: each    *)
(* takes a concurrency slot (a lease that expires by itself), reserves a   *)
(* credit of the month's quota, generates under a wall-clock limit, gives  *)
(* the credit back when nothing came of it, and releases the slot.  The    *)
(* SQL functions are atomic; requests run in any number of processes.      *)
(*                                                                         *)
(* A call that is cut short, by an error, by the limit or because the      *)
(* request is cancelled, goes on in its thread: it takes effect or not     *)
(* whatever the request does next.  lease[r] counts the ticks until the    *)
(* slot expires; -1: expired, released or never taken.                     *)
(***************************************************************************)
EXTENDS Integers, FiniteSets, VariantSynthesis

CONSTANTS
  Requests,     \* requests; each has a generation id, which names its slot
  SlotLimit,    \* concurrency limit of the tier
  MonthlyLimit, \* generations a month of the tier
  Months,       \* billing periods, 1..Months
  LeaseTicks,   \* lifetime of a slot, 60 s in the code
  Prompt,       \* a request ends before its slot expires
  MaxFaults     \* bound on errors, cancellations and crashes

ASSUME AIAssumption ==
  /\ IsFiniteSet(Requests)
  /\ SlotLimit \in Nat \ {0}
  /\ MonthlyLimit \in Nat \ {0}
  /\ Months \in Nat \ {0}
  /\ LeaseTicks \in Nat \ {0}
  /\ Prompt \in BOOLEAN
  /\ MaxFaults \in Nat

VARIABLES
  lease,    \* ai_concurrency_leases: expires_at of each slot, relative
  usage,    \* ai_generation_usage: generation_count of each billing period
  month,    \* the billing period it is now
  pc,       \* how far each request is
  period,   \* the billing period in which a request asked for its credit
  faults,   \* faults so far, at most MaxFaults
  outcome   \* history: what became of the credit a request had reserved

vars == <<lease, usage, month, pc, period, faults, outcome>>

\* "returning": giving the credit back, nothing usable was generated;
\* "compensating": giving it back in an exception handler.
Steps == {"new", "admitted", "generating", "recording", "returning",
          "compensating", "closing", "done"}
Outcomes == {"none", "delivered", "cut", "given back", "refund cut"}

Init ==
  /\ lease = [r \in Requests |-> -1]
  /\ usage = [m \in 1..Months |-> 0]
  /\ month = 1
  /\ pc = [r \in Requests |-> "new"]
  /\ period = [r \in Requests |-> 1]
  /\ faults = 0
  /\ outcome = [r \in Requests |-> "none"]

Fault == faults < MaxFaults /\ faults' = faults + 1

Go(r, step) == pc' = [pc EXCEPT ![r] = step]

-----------------------------------------------------------------------------
(* The SQL functions.                                                      *)

Active == {r \in Requests : lease[r] >= 0}

HasSlotOneMore == Cardinality(Active) <= SlotLimit
HasSlot == Cardinality(Active) < SlotLimit

\* acquire_ai_concurrency_slot, under the tenant's advisory lock; expired slots
\* are deleted first.
RpcAcquire(r) == lease' = [lease EXCEPT ![r] = IF HasSlot THEN LeaseTicks ELSE @]

\* release_ai_concurrency_slot
RpcRelease(r) == lease' = [lease EXCEPT ![r] = -1]

HasCreditOneMore == usage[month] <= MonthlyLimit
HasCredit == usage[month] < MonthlyLimit

\* consume_ai_monthly_generation, under the row lock.
RpcConsume == usage' = [usage EXCEPT ![month] = IF HasCredit THEN @ + 1 ELSE @]

\* rollback_ai_monthly_generation: no one checks whose credit it was.
RpcRollback(r) == usage' = [usage EXCEPT ![period[r]] = IF @ > 0 THEN @ - 1 ELSE 0]

-----------------------------------------------------------------------------
(* The request handler.                                                    *)

\* An error or a cancellation here leaves the handler before the block that
\* releases the slot.
Acquire(r) ==
  /\ pc[r] = "new"
  /\ \/ RpcAcquire(r) /\ Go(r, IF HasSlot THEN "admitted" ELSE "done") /\ UNCHANGED faults
     \/ (RpcAcquire(r) \/ UNCHANGED lease) /\ Go(r, "done") /\ Fault
  /\ UNCHANGED <<usage, month, period, outcome>>

\* From here on every exit releases the slot.
RefusedLeaves == "done"
Refused == "closing"

\* The credit; after an error, or when cancelled, the request does not know
\* whether it has one, and does not give it back.
Reserve(r) ==
  /\ pc[r] = "admitted"
  /\ period' = [period EXCEPT ![r] = month]
  /\ \/ RpcConsume /\ Go(r, IF HasCredit THEN "generating" ELSE Refused) /\ UNCHANGED faults
     \/ (RpcConsume \/ UNCHANGED usage) /\ Go(r, Refused) /\ Fault
  /\ UNCHANGED <<lease, month, outcome>>

\* Variants, or none that keeps the template's tags; the limit, a cancellation
\* or an error.
GenerateKept(r) ==
  /\ pc[r] = "generating"
  /\ \E step \in {"recording", "closing"} : Go(r, step)
  /\ UNCHANGED <<lease, usage, month, period, faults, outcome>>
Generate(r) ==
  /\ pc[r] = "generating"
  /\ \/ \E template \in Templates, router \in RouterSettings, answer \in Answers :
          Go(r, IF Synthesized(template, router, answer) # {}
                THEN "recording" ELSE "returning")
     \/ Go(r, "compensating")
  /\ UNCHANGED <<lease, usage, month, period, faults, outcome>>

\* The telemetry of a success is written under the same limit: when that is
\* reached the credit stays spent and the merchant gets an error.
Record(r) ==
  /\ pc[r] = "recording" /\ Go(r, "closing")
  /\ \E o \in {"delivered", "cut"} : outcome' = [outcome EXCEPT ![r] = o]
  /\ UNCHANGED <<lease, usage, month, period, faults>>

\* Errors of a refund are swallowed.
GiveBack(r) ==
  /\ outcome' = [outcome EXCEPT ![r] = IF @ = "none" THEN "given back" ELSE @]
  /\ Go(r, "closing")
  /\ \/ RpcRollback(r) /\ UNCHANGED faults
     \/ UNCHANGED usage /\ Fault

\* This refund runs under the limit; when it is reached, the handler of the
\* limit refunds too.
Return(r) ==
  /\ pc[r] = "returning"
  /\ \/ GiveBack(r)
     \/ /\ RpcRollback(r) \/ UNCHANGED usage
        /\ outcome' = [outcome EXCEPT ![r] = "refund cut"]
        /\ Go(r, "compensating") /\ UNCHANGED faults
  /\ UNCHANGED <<lease, month, period>>

Compensate(r) ==
  /\ pc[r] = "compensating" /\ GiveBack(r)
  /\ UNCHANGED <<lease, month, period>>

Release(r) ==
  /\ pc[r] = "closing" /\ Go(r, "done")
  /\ \/ RpcRelease(r) /\ UNCHANGED faults
     \/ UNCHANGED lease /\ Fault
  /\ UNCHANGED <<usage, month, period, outcome>>

\* The process dies.
Crash(r) ==
  /\ pc[r] \notin {"new", "done"} /\ Go(r, "done") /\ Fault
  /\ UNCHANGED <<lease, usage, month, period, outcome>>

Tick ==
  /\ Prompt => \A r \in Requests : pc[r] \notin {"new", "done"} => lease[r] > 1
  /\ lease' = [r \in Requests |-> IF lease[r] >= 0 THEN lease[r] - 1 ELSE -1]
  /\ UNCHANGED <<usage, month, pc, period, faults, outcome>>

NextMonth ==
  /\ month < Months /\ month' = month + 1
  /\ UNCHANGED <<lease, usage, pc, period, faults, outcome>>

Next ==
  \/ \E r \in Requests :
       \/ Acquire(r) \/ Reserve(r) \/ Generate(r) \/ Record(r) \/ Return(r)
       \/ Compensate(r) \/ Release(r) \/ Crash(r)
  \/ Tick \/ NextMonth

Spec == Init /\ [][Next]_vars

-----------------------------------------------------------------------------
(* Properties.                                                             *)

\* Every variable has its type; a month's count stays within the limit.
TypeOK ==
  /\ lease \in [Requests -> -1..LeaseTicks]
  /\ usage \in [1..Months -> 0..MonthlyLimit]
  /\ month \in 1..Months
  /\ pc \in [Requests -> Steps]
  /\ period \in [Requests -> 1..Months]
  /\ faults \in 0..MaxFaults
  /\ outcome \in [Requests -> Outcomes]

\* No more requests than the tier allows are between their slot and its
\* release, as long as each ends before its slot expires, though a slot is lost
\* or expires now and then.
ConcurrencyHeld ==
  Cardinality({r \in Requests : pc[r] \notin {"new", "done"}}) <= SlotLimit

\* Requests of month m whose refund the limit cut short, and that hold or have
\* used a credit.
CutRefunds(m) == {r \in Requests : period[r] = m /\ outcome[r] = "refund cut"}
Holding(m) == {r \in Requests :
                 /\ period[r] = m
                 /\ \/ pc[r] \in {"generating", "recording", "returning"}
                    \/ pc[r] = "compensating" /\ outcome[r] = "none"
                    \/ outcome[r] \in {"delivered", "cut"}}

\* The count of a month is what its requests hold or used, and what was cut
\* short after it had succeeded.  Each credit too many costs a fault, and each
\* too few a refund cut short.
CreditsAccounted ==
  \A m \in 1..Months :
    /\ Cardinality(Holding(m)) <= usage[m] + Cardinality(CutRefunds(m))
    /\ usage[m] <= Cardinality(Holding(m) \cup CutRefunds(m)) + faults

\* A request that has ended holds its slot no longer, unless a fault lost it.
SlotsReturned ==
  Cardinality({r \in Requests : pc[r] = "done" /\ lease[r] >= 0}) <= faults

=============================================================================
