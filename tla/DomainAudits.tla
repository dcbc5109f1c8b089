---------------------------- MODULE DomainAudits ----------------------------
(***************************************************************************)
(* The monitored domains of one tenant and everybody who writes their      *)
(* rows: the audit workers, which claim due domains under a lease, measure *)
(* them, store the scores and complete; the in-process scheduler, which    *)
(* does the same with another way of storing the scores; and the           *)
(* merchant's requests, which add, delete and re-audit a domain.  An SQL   *)
(* function or a single table request is one atomic step on the rows; DNS  *)
(* lookups and everything else happen between steps.                       *)
(*                                                                         *)
(* Time is relative: lease[d], due[d] and retry[d] are the ticks until     *)
(* audit_lease_until, until last_audited_at is one interval old, and until *)
(* next_audit_retry_at (lease -1: in the past or NULL; due and retry 0:    *)
(* past or NULL).  The scores themselves are left out; what is kept of     *)
(* them is which workers hold a measurement newer than the last one a      *)
(* worker stored.                                                          *)
(***************************************************************************)
EXTENDS Integers, FiniteSets

CONSTANTS
  Domains,        \* domain names the tenant uses
  Quota,          \* domains the tenant's tier allows
  Workers,        \* processes that claim audits
  NoWorker,       \* audit_lease_owner IS NULL
  Schedulers,     \* those of them that are in-process schedulers
  Requests,       \* subset of {"add", "re-add", "re-audit", "delete"}
  BatchLimit,     \* p_limit
  LeaseTicks,     \* p_lease_duration
  IntervalTicks,  \* p_interval
  RetryTicks,     \* longest backoff after a failure
  Prompt,         \* live workers poll in time and finish within the lease
  MaxFaults       \* bound on crashes and database errors

ASSUME AuditAssumption ==
  /\ IsFiniteSet(Domains)
  /\ Quota \in Nat \ {0}
  /\ NoWorker \notin Workers
  /\ Schedulers \subseteq Workers
  /\ Requests \subseteq {"add", "re-add", "re-audit", "delete"}
  /\ BatchLimit \in Nat \ {0}
  /\ LeaseTicks \in Nat \ {0}
  /\ IntervalTicks \in Nat \ {0}
  /\ RetryTicks \in Nat \ {0}
  /\ Prompt \in BOOLEAN
  /\ MaxFaults \in Nat

VARIABLES
  exists,   \* is there a row for the name?
  owner,    \* audit_lease_owner
  lease,    \* audit_lease_until, relative
  due,      \* last_audited_at plus the interval, relative
  retry,    \* next_audit_retry_at, relative
  older,    \* rows with an earlier COALESCE(last_audited_at, created_at)
  task,     \* how far each worker is with each domain it claimed
  request,  \* the merchant's request about each domain
  faults,   \* faults so far, at most MaxFaults
  newer,    \* history: <<v, w>> when v and w have results later than the last
            \* stored one, and w did not measure before v
  stale     \* history: a worker's result was replaced by an older one

rowVars == <<exists, owner, lease, due, retry, older>>
historyVars == <<newer, stale>>
vars == <<rowVars, task, request, faults, historyVars>>

Progress == {"none", "claimed", "measured", "written", "failing"}
RequestSteps == {"none", "adding", "added", "re-auditing", "re-audited"}
Monitored == {d \in Domains : exists[d]}

Countdown(n, floor) == IF n > floor THEN n - 1 ELSE floor

Init ==
  /\ exists = [d \in Domains |-> FALSE]
  /\ owner = [d \in Domains |-> NoWorker]
  /\ lease = [d \in Domains |-> -1]
  /\ due = [d \in Domains |-> 0]
  /\ retry = [d \in Domains |-> 0]
  /\ older = [d \in Domains |-> {}]
  /\ task = [w \in Workers |-> [d \in Domains |-> "none"]]
  /\ request = [d \in Domains |-> "none"]
  /\ faults = 0
  /\ newer = [d \in Domains |-> {}]
  /\ stale = [d \in Domains |-> FALSE]

-----------------------------------------------------------------------------
(* Results: the workers that measured d since the last result stored.      *)

Fresh(w, d) == <<w, w>> \in newer[d]
Without(w, d) == {pair \in newer[d] : w \notin {pair[1], pair[2]}}

Measured(w, d) ==
  newer' = [newer EXCEPT ![d] =
              Without(w, d) \cup {<<v, w>> : v \in {v \in Workers : Fresh(v, d)} \cup {w}}]
Forget(w, d) == newer' = [newer EXCEPT ![d] = Without(w, d)]

\* w's result is stored: those before it are out of date from now on.
Shown(w, d) ==
  /\ newer' = IF Fresh(w, d)
              THEN [newer EXCEPT ![d] = {pair \in @ : pair[1] # w /\ <<w, pair[1]>> \in @}]
              ELSE newer
  /\ stale' = [stale EXCEPT ![d] = @ \/ ~Fresh(w, d)]

-----------------------------------------------------------------------------
(* The SQL functions and table requests.                                   *)

ClaimableLeased == {d \in Monitored : due[d] = 0 /\ retry[d] = 0}
ClaimableUnowned == {d \in Monitored : due[d] = 0 /\ owner[d] = NoWorker /\ retry[d] = 0}
Claimable == {d \in Monitored : due[d] = 0 /\ lease[d] < 0 /\ retry[d] = 0}

\* ORDER BY COALESCE(last_audited_at, created_at) LIMIT n.
First(n, S) == {d \in S : Cardinality(older[d] \cap S) < n}

\* claim_due_domain_audits
RpcClaim(w) ==
  LET S == First(BatchLimit, Claimable) IN
  /\ owner' = [d \in Domains |-> IF d \in S THEN w ELSE owner[d]]
  /\ lease' = [d \in Domains |-> IF d \in S THEN LeaseTicks ELSE lease[d]]
  /\ UNCHANGED <<exists, due, retry, older>>

Owns(w, d) == exists[d] /\ owner[d] = w

\* d comes after every other row.
MovedLast(d) == [x \in Domains |-> IF x = d THEN Monitored \ {d} ELSE older[x] \ {d}]

\* complete_domain_audit
RpcComplete(w, d) ==
  IF Owns(w, d)
  THEN /\ owner' = [owner EXCEPT ![d] = NoWorker]
       /\ lease' = [lease EXCEPT ![d] = -1]
       /\ retry' = [retry EXCEPT ![d] = 0]
       /\ due' = [due EXCEPT ![d] = IntervalTicks]
       /\ older' = MovedLast(d)
       /\ UNCHANGED exists
  ELSE UNCHANGED rowVars

\* The ticks a failed domain waits for its retry.
BackoffUncapped == 1..RetryTicks + 1
Backoff == 1..RetryTicks

\* fail_domain_audit
RpcFail(w, d) ==
  IF Owns(w, d)
  THEN /\ owner' = [owner EXCEPT ![d] = NoWorker]
       /\ lease' = [lease EXCEPT ![d] = -1]
       /\ \E n \in Backoff : retry' = [retry EXCEPT ![d] = n]
       /\ UNCHANGED <<exists, due, older>>
  ELSE UNCHANGED rowVars

\* update_domain_diagnostic_results: scores of a row that exists.
Update(d) ==
  /\ retry' = [retry EXCEPT ![d] = 0]
  /\ UNCHANGED <<exists, owner, lease, due, older>>

InsertRow(d) ==
  /\ exists' = [exists EXCEPT ![d] = TRUE]
  /\ owner' = [owner EXCEPT ![d] = NoWorker]
  /\ lease' = [lease EXCEPT ![d] = -1]
  /\ due' = [due EXCEPT ![d] = 0]
  /\ retry' = [retry EXCEPT ![d] = 0]
  /\ older' = MovedLast(d)

\* create_or_update_domain: an upsert, whoever holds the claim; a name without
\* a row gets one.
Upsert(d) == IF exists[d] THEN Update(d) ELSE InsertRow(d)

Room == Cardinality(Monitored) < Quota

Refresh(d) ==
  /\ lease' = [lease EXCEPT ![d] = -1]
  /\ retry' = [retry EXCEPT ![d] = 0]
  /\ UNCHANGED <<exists, owner, due, older>>

ProvisionUnchecked(d) == IF exists[d] THEN Refresh(d) ELSE InsertRow(d)
\* provision_monitored_domain, under the tenant's advisory lock: an existing
\* row is refreshed and its lease ends, though its owner stays; a new one
\* needs room.
Provision(d) ==
  \/ exists[d] /\ Refresh(d)
  \/ ~exists[d] /\ Room /\ InsertRow(d)
  \/ ~exists[d] /\ ~Room /\ UNCHANGED rowVars

-----------------------------------------------------------------------------
(* The merchant's requests; each may end early with an error at any point. *)

Ask(d, step) ==
  /\ request[d] = "none" /\ request' = [request EXCEPT ![d] = step]
  /\ UNCHANGED <<rowVars, task, faults, historyVars>>

\* The endpoint's own look at the quota; the answer may be out of date when
\* the domain is provisioned.
Add(d) ==
  /\ IF exists[d] THEN "re-add" \in Requests ELSE "add" \in Requests /\ Room
  /\ Ask(d, "adding")

ReAudit(d) == "re-audit" \in Requests /\ exists[d] /\ Ask(d, "re-auditing")

MeasureRequest(d) ==
  /\ \/ request[d] = "adding" /\ request' = [request EXCEPT ![d] = "added"]
     \/ request[d] = "re-auditing" /\ request' = [request EXCEPT ![d] = "re-audited"]
  /\ UNCHANGED <<rowVars, task, faults, historyVars>>

StoreRequest(d) ==
  /\ \/ request[d] = "added" /\ Provision(d)
     \/ request[d] = "re-audited" /\ Upsert(d)
  /\ request' = [request EXCEPT ![d] = "none"]
  /\ UNCHANGED <<task, faults, historyVars>>

AbortRequest(d) ==
  /\ request[d] # "none" /\ request' = [request EXCEPT ![d] = "none"]
  /\ UNCHANGED <<rowVars, task, faults, historyVars>>

\* The row goes; a later one of the same name has another id, so that nobody
\* has a claim on it.
Delete(d) ==
  /\ "delete" \in Requests /\ exists[d]
  /\ exists' = [exists EXCEPT ![d] = FALSE]
  /\ owner' = [owner EXCEPT ![d] = NoWorker]
  /\ lease' = [lease EXCEPT ![d] = -1]
  /\ due' = [due EXCEPT ![d] = 0]
  /\ retry' = [retry EXCEPT ![d] = 0]
  /\ older' = [x \in Domains |-> IF x = d THEN {} ELSE older[x] \ {d}]
  /\ UNCHANGED <<task, request, faults, historyVars>>

-----------------------------------------------------------------------------
(* The workers.                                                            *)

Fault == faults < MaxFaults /\ faults' = faults + 1

Advance(w, d, step) == task' = [task EXCEPT ![w][d] = step]

Resting(w) == \A d \in Domains : task[w][d] = "none"

\* A claim whose reply is lost leaves the rows leased to nobody at work.
Claim(w) ==
  LET S == First(BatchLimit, Claimable) IN
  /\ Resting(w) /\ S # {}
  /\ RpcClaim(w)
  /\ \/ /\ task' = [task EXCEPT ![w] =
                      [d \in Domains |-> IF d \in S THEN "claimed" ELSE "none"]]
        /\ UNCHANGED faults
     \/ Fault /\ UNCHANGED task
  /\ UNCHANGED <<request, historyVars>>

\* DNS and blocklists answer, or the audit raises.  A worker audits all its
\* domains at the same time, a scheduler one after the other.
Measure(w, d) ==
  /\ task[w][d] = "claimed"
  /\ w \in Schedulers => \A x \in Domains : task[w][x] \in {"none", "claimed"}
  /\ \/ Advance(w, d, "measured") /\ Measured(w, d)
     \/ Advance(w, d, "failing") /\ UNCHANGED newer
  /\ UNCHANGED <<rowVars, request, faults, stale>>

\* The scores are stored.  A worker does it on condition that it still owns
\* the row and gives the audit up otherwise; a scheduler upserts.  An error may
\* come before the effect or after it.
Save(w, d) == (IF w \in Schedulers THEN Upsert(d) ELSE Update(d)) /\ Shown(w, d)

LostNever(w, d) == FALSE
Lost(w, d) == w \notin Schedulers /\ ~Owns(w, d)

Store(w, d) ==
  /\ task[w][d] = "measured"
  /\ \/ /\ ~Lost(w, d) /\ Save(w, d)
        /\ \/ Advance(w, d, "written") /\ UNCHANGED faults
           \/ Fault /\ Advance(w, d, "failing")
     \/ /\ Lost(w, d)
        /\ Advance(w, d, "none") /\ Forget(w, d)
        /\ UNCHANGED <<rowVars, faults, stale>>
     \/ Fault /\ Advance(w, d, "failing") /\ UNCHANGED <<rowVars, historyVars>>
  /\ UNCHANGED request

\* The log and the alert, where an error fails the audit, then the completion,
\* whose errors are swallowed.
Complete(w, d) ==
  /\ task[w][d] = "written"
  /\ \/ RpcComplete(w, d) /\ Advance(w, d, "none") /\ UNCHANGED faults
     \/ UNCHANGED rowVars /\ Advance(w, d, "none") /\ Fault
     \/ UNCHANGED rowVars /\ Advance(w, d, "failing") /\ Fault
  /\ UNCHANGED <<request, historyVars>>

Fail(w, d) ==
  /\ task[w][d] = "failing"
  /\ \/ RpcFail(w, d) /\ UNCHANGED faults
     \/ UNCHANGED rowVars /\ Fault
  /\ Advance(w, d, "none") /\ Forget(w, d)
  /\ UNCHANGED <<request, stale>>

\* The process dies or is stopped and another one starts.
Crash(w) ==
  /\ ~Resting(w) /\ Fault
  /\ task' = [task EXCEPT ![w] = [d \in Domains |-> "none"]]
  /\ newer' = [d \in Domains |-> Without(w, d)]
  /\ UNCHANGED <<rowVars, request, stale>>

\* Workers keep within their leases, and an idle one polls again before time
\* moves on: 30 s against a shortest backoff of 120 s.  A scheduler only wakes
\* once an interval.
InTime ==
  \A w \in Workers :
    /\ Resting(w) /\ w \notin Schedulers => Claimable = {}
    /\ \A d \in Domains :
         task[w][d] # "none" /\ Owns(w, d) => lease[d] > 1 \/ lease[d] < 0

Tick ==
  /\ Prompt => InTime
  /\ lease' = [d \in Domains |-> Countdown(lease[d], -1)]
  /\ due' = [d \in Domains |-> Countdown(due[d], 0)]
  /\ retry' = [d \in Domains |-> Countdown(retry[d], 0)]
  /\ UNCHANGED <<exists, owner, older, task, request, faults, historyVars>>

WorkerStep(w) ==
  \/ Claim(w)
  \/ \E d \in Domains : Measure(w, d) \/ Store(w, d) \/ Complete(w, d) \/ Fail(w, d)

Next ==
  \/ \E d \in Domains : \/ Add(d) \/ ReAudit(d) \/ MeasureRequest(d)
                        \/ StoreRequest(d) \/ AbortRequest(d) \/ Delete(d)
  \/ \E w \in Workers : WorkerStep(w) \/ Crash(w)
  \/ Tick

Spec == Init /\ [][Next]_vars

\* Workers go on; merchants need not ask for anything.  Each claimed domain is
\* audited by a task of its own.  However often merchants ask, time passes.
Fairness ==
  /\ \A w \in Workers : WF_vars(Claim(w) /\ UNCHANGED faults)
  /\ \A w \in Workers : \A d \in Domains :
       WF_vars((Measure(w, d) \/ Store(w, d) \/ Complete(w, d) \/ Fail(w, d))
               /\ UNCHANGED faults)
  /\ SF_vars(Tick)

FairSpec == Spec /\ Fairness

-----------------------------------------------------------------------------
(* Properties.                                                             *)

\* Every variable has its type, and a name without a row has nobody's claim.
TypeOK ==
  /\ exists \in [Domains -> BOOLEAN]
  /\ owner \in [Domains -> Workers \cup {NoWorker}]
  /\ lease \in [Domains -> -1..LeaseTicks]
  /\ due \in [Domains -> 0..IntervalTicks]
  /\ retry \in [Domains -> 0..RetryTicks]
  /\ older \in [Domains -> SUBSET Domains]
  /\ task \in [Workers -> [Domains -> Progress]]
  /\ request \in [Domains -> RequestSteps]
  /\ faults \in 0..MaxFaults
  /\ newer \in [Domains -> SUBSET (Workers \X Workers)]
  /\ stale \in [Domains -> BOOLEAN]
  /\ \A d \in Domains : ~exists[d] => owner[d] = NoWorker

\* The result of an audit never replaces that of a later one: a worker whose
\* lease ended while it was measuring writes nothing once another has claimed,
\* even if that one failed or crashed in turn.
ResultsMoveForward == \A d \in Domains : ~stale[d]

\* The rows never outnumber the quota of the tier, however many requests run
\* side by side.
QuotaHeld == Cardinality(Monitored) <= Quota

\* While workers keep within their leases, no domain is audited by two of them.
DisjointAudits ==
  \A v, w \in Workers : \A d \in Domains :
    task[v][d] # "none" /\ task[w][d] # "none" => v = w

\* While a lease is live, only its holder ends it; the merchant may cut it
\* short, but only a claim gives the row to another worker.
LeaseRespected ==
  [][\A d \in Domains : \A w \in Workers :
       /\ owner[d] = w /\ lease[d] > 0 /\ exists'[d]
       /\ owner'[d] # w
       => task'[w][d] # task[w][d]]_vars

\* A due domain is audited in the end, or its audit fails and waits for its
\* retry, or the merchant removes it: no lost claim and no dead worker keeps
\* it for ever.
EventuallyAudited ==
  \A d \in Domains :
    exists[d] /\ due[d] = 0 ~> due[d] > 0 \/ retry[d] > 0 \/ ~exists[d]

=============================================================================
