------------------------- MODULE DomainAuditsProofs -------------------------
(***************************************************************************)
(* Audits for any number of domains and workers: who holds a lease, whose  *)
(* scores are stored, how many rows there are and how many workers audit   *)
(* one domain.                                                             *)
(***************************************************************************)
EXTENDS DomainAudits, FiniteSetTheorems, TLAPS

-----------------------------------------------------------------------------
(* Types.                                                                  *)

RowsTyped ==
  /\ exists \in [Domains -> BOOLEAN]
  /\ owner \in [Domains -> Workers \cup {NoWorker}]
  /\ lease \in [Domains -> -1..LeaseTicks]
  /\ due \in [Domains -> 0..IntervalTicks]
  /\ retry \in [Domains -> 0..RetryTicks]
  /\ older \in [Domains -> SUBSET Domains]
  /\ \A d \in Domains : ~exists[d] => owner[d] = NoWorker

HistoryTyped ==
  /\ newer \in [Domains -> SUBSET (Workers \X Workers)]
  /\ stale \in [Domains -> BOOLEAN]

LEMMA Bounds ==
  /\ -1 \in -1..LeaseTicks /\ LeaseTicks \in -1..LeaseTicks
  /\ 0 \in 0..IntervalTicks /\ IntervalTicks \in 0..IntervalTicks
  /\ 0 \in 0..RetryTicks
  /\ \A n \in Backoff : n \in 0..RetryTicks
BY AuditAssumption DEF Backoff

\* What a request to the database may do to the rows.
RowChange ==
  \/ UNCHANGED rowVars
  \/ \E w \in Workers : RpcClaim(w)
  \/ \E w \in Workers, d \in Domains : RpcComplete(w, d) \/ RpcFail(w, d)
  \/ \E d \in Domains : Update(d) \/ Upsert(d) \/ Provision(d)

LEMMA RowChangeTyped == ASSUME RowsTyped, RowChange PROVE RowsTyped'
<1>1. CASE UNCHANGED rowVars
  BY <1>1 DEF rowVars, RowsTyped
<1>2. ASSUME NEW w \in Workers, RpcClaim(w) PROVE RowsTyped'
  <2> DEFINE S == First(BatchLimit, Claimable)
  <2>1. S \subseteq Monitored
    BY DEF First, Claimable
  <2>2. /\ owner' = [d \in Domains |-> IF d \in S THEN w ELSE owner[d]]
        /\ lease' = [d \in Domains |-> IF d \in S THEN LeaseTicks ELSE lease[d]]
        /\ UNCHANGED <<exists, due, retry, older>>
    BY <1>2 DEF RpcClaim
  <2> HIDE DEF S
  <2> QED BY <2>1, <2>2, Bounds DEF RowsTyped, Monitored
<1>3. ASSUME NEW w \in Workers, NEW d \in Domains, RpcComplete(w, d) PROVE RowsTyped'
  <2>1. MovedLast(d) \in [Domains -> SUBSET Domains]
    BY DEF MovedLast, Monitored, RowsTyped
  <2> QED BY <1>1, <1>3, <2>1, Bounds DEF RpcComplete, RowsTyped
<1>4. ASSUME NEW w \in Workers, NEW d \in Domains, RpcFail(w, d) PROVE RowsTyped'
  BY <1>1, <1>4, Bounds DEF RpcFail, RowsTyped
<1>5. ASSUME NEW d \in Domains, Update(d) \/ Refresh(d) PROVE RowsTyped'
  BY <1>5, Bounds DEF Update, Refresh, RowsTyped
<1>6. ASSUME NEW d \in Domains, InsertRow(d) PROVE RowsTyped'
  <2>1. MovedLast(d) \in [Domains -> SUBSET Domains]
    BY DEF MovedLast, Monitored, RowsTyped
  <2> QED BY <1>6, <2>1, Bounds DEF InsertRow, RowsTyped
<1>7. ASSUME NEW d \in Domains, Upsert(d) \/ Provision(d) PROVE RowsTyped'
  BY <1>1, <1>5, <1>6, <1>7 DEF Upsert, Provision
<1> QED BY <1>1, <1>2, <1>3, <1>4, <1>5, <1>7 DEF RowChange

LEMMA HistoryChangeTyped ==
  ASSUME HistoryTyped, NEW w \in Workers, NEW d \in Domains,
         \/ Measured(w, d) /\ UNCHANGED stale
         \/ Forget(w, d) /\ UNCHANGED stale
         \/ Shown(w, d)
  PROVE  HistoryTyped'
<1>1. Without(w, d) \subseteq Workers \X Workers
  BY DEF Without, HistoryTyped
<1>2. CASE Measured(w, d) /\ UNCHANGED stale
  <2> DEFINE ahead == {<<v, w>> : v \in {v \in Workers : Fresh(v, d)} \cup {w}}
  <2>1. ahead \subseteq Workers \X Workers
    OBVIOUS
  <2>2. newer' = [newer EXCEPT ![d] = Without(w, d) \cup ahead]
    BY <1>2 DEF Measured
  <2> HIDE DEF ahead
  <2> QED BY <1>1, <1>2, <2>1, <2>2 DEF HistoryTyped
<1>3. CASE Forget(w, d) /\ UNCHANGED stale
  BY <1>1, <1>3 DEF Forget, HistoryTyped
<1>4. CASE Shown(w, d)
  <2>1. {pair \in newer[d] : pair[1] # w /\ <<w, pair[1]>> \in newer[d]} \subseteq Workers \X Workers
    BY DEF HistoryTyped
  <2> QED BY <1>4, <2>1 DEF Shown, HistoryTyped
<1> QED BY <1>2, <1>3, <1>4

\* What a worker's step does to the rows, its tasks and the history.
LEMMA StoreParts ==
  ASSUME NEW w \in Workers, NEW d \in Domains, Store(w, d)
  PROVE  /\ RowChange
         /\ \E step \in {"written", "failing", "none"} : Advance(w, d, step)
         /\ Shown(w, d) \/ (Forget(w, d) /\ UNCHANGED stale) \/ UNCHANGED historyVars
         /\ Fault \/ UNCHANGED faults
         /\ UNCHANGED request
<1>1. ASSUME Save(w, d) PROVE RowChange /\ Shown(w, d)
  BY <1>1 DEF Save, RowChange
<1> QED BY <1>1 DEF Store, RowChange, historyVars, rowVars

LEMMA FaultTyped == ASSUME TypeOK, Fault \/ UNCHANGED faults PROVE faults' \in 0..MaxFaults
BY AuditAssumption DEF Fault, TypeOK

LEMMA AdvanceTyped ==
  ASSUME TypeOK, NEW w \in Workers, NEW d \in Domains,
         \E step \in Progress : Advance(w, d, step)
  PROVE  task' \in [Workers -> [Domains -> Progress]]
BY DEF TypeOK, Advance

LEMMA NextTyped == ASSUME TypeOK, [Next]_vars PROVE TypeOK'
<1> /\ RowsTyped /\ HistoryTyped
    /\ task \in [Workers -> [Domains -> Progress]]
    /\ request \in [Domains -> RequestSteps] /\ faults \in 0..MaxFaults
  BY DEF TypeOK, RowsTyped, HistoryTyped
<1> DEFINE Typed == /\ RowsTyped /\ HistoryTyped
                    /\ task \in [Workers -> [Domains -> Progress]]
                    /\ request \in [Domains -> RequestSteps] /\ faults \in 0..MaxFaults
<1> SUFFICES Typed'
  BY DEF TypeOK, RowsTyped, HistoryTyped
<1>1. CASE UNCHANGED vars
  BY <1>1 DEF vars, rowVars, historyVars, RowsTyped, HistoryTyped
<1>2. ASSUME NEW d \in Domains,
             Add(d) \/ ReAudit(d) \/ MeasureRequest(d) \/ StoreRequest(d) \/ AbortRequest(d)
      PROVE  Typed'
  <2>1. /\ UNCHANGED <<task, faults, historyVars>>
        /\ \E step \in RequestSteps : request' = [request EXCEPT ![d] = step]
    BY <1>2 DEF Add, ReAudit, MeasureRequest, StoreRequest, AbortRequest, Ask, RequestSteps
  <2>2. RowChange
    BY <1>2 DEF Add, ReAudit, MeasureRequest, StoreRequest, AbortRequest, Ask, RowChange
  <2>3. RowsTyped'
    BY <2>2, RowChangeTyped
  <2> QED BY <2>1, <2>3 DEF historyVars, HistoryTyped
<1>3. ASSUME NEW d \in Domains, Delete(d) PROVE Typed'
  <2>1. RowsTyped'
    BY <1>3, Bounds DEF Delete, RowsTyped
  <2> QED BY <1>3, <2>1 DEF Delete, historyVars, HistoryTyped
<1>4. ASSUME NEW w \in Workers, Claim(w) PROVE Typed'
  <2>1. RowChange /\ UNCHANGED <<request, historyVars>> /\ (Fault \/ UNCHANGED faults)
    BY <1>4 DEF Claim, RowChange
  <2>2. task' \in [Workers -> [Domains -> Progress]]
    BY <1>4 DEF Claim, Progress
  <2> QED BY <2>1, <2>2, RowChangeTyped, FaultTyped DEF historyVars, HistoryTyped
<1>5. ASSUME NEW w \in Workers, NEW d \in Domains, Measure(w, d) PROVE Typed'
  <2>1. UNCHANGED <<rowVars, request, faults>> /\ \E step \in Progress : Advance(w, d, step)
    BY <1>5 DEF Measure, Progress
  <2>2. (Measured(w, d) /\ UNCHANGED stale) \/ UNCHANGED historyVars
    BY <1>5 DEF Measure, historyVars
  <2>3. HistoryTyped'
    BY <2>2, HistoryChangeTyped DEF historyVars, HistoryTyped
  <2> QED BY <2>1, <2>3, AdvanceTyped DEF rowVars, RowsTyped
<1>6. ASSUME NEW w \in Workers, NEW d \in Domains, Store(w, d) PROVE Typed'
  <2>1. HistoryTyped'
    BY <1>6, StoreParts, HistoryChangeTyped DEF historyVars, HistoryTyped
  <2>2. \E step \in Progress : Advance(w, d, step)
    BY <1>6, StoreParts DEF Progress
  <2> QED BY <1>6, <2>1, <2>2, StoreParts, RowChangeTyped, FaultTyped, AdvanceTyped
<1>7. ASSUME NEW w \in Workers, NEW d \in Domains, Complete(w, d) PROVE Typed'
  <2>1. /\ RowChange /\ UNCHANGED <<request, historyVars>> /\ (Fault \/ UNCHANGED faults)
        /\ \E step \in Progress : Advance(w, d, step)
    BY <1>7 DEF Complete, RowChange, Progress
  <2> QED BY <2>1, RowChangeTyped, FaultTyped, AdvanceTyped DEF historyVars, HistoryTyped
<1>8. ASSUME NEW w \in Workers, NEW d \in Domains, Fail(w, d) PROVE Typed'
  <2>1. /\ RowChange /\ UNCHANGED <<request, stale>> /\ (Fault \/ UNCHANGED faults)
        /\ Forget(w, d) /\ \E step \in Progress : Advance(w, d, step)
    BY <1>8 DEF Fail, RowChange, Progress
  <2> QED BY <2>1, RowChangeTyped, FaultTyped, AdvanceTyped, HistoryChangeTyped
<1>9. ASSUME NEW w \in Workers, Crash(w) PROVE Typed'
  <2>1. task' \in [Workers -> [Domains -> Progress]]
    BY <1>9 DEF Crash, Progress
  <2>2. HistoryTyped'
    BY <1>9 DEF Crash, Without, HistoryTyped
  <2> QED BY <1>9, <2>1, <2>2, FaultTyped DEF Crash, rowVars, RowsTyped
<1>10. CASE Tick
  <2>1. \A n \in -1..LeaseTicks : Countdown(n, -1) \in -1..LeaseTicks
    BY AuditAssumption DEF Countdown
  <2>2. \A n \in 0..IntervalTicks : Countdown(n, 0) \in 0..IntervalTicks
    BY AuditAssumption DEF Countdown
  <2>3. \A n \in 0..RetryTicks : Countdown(n, 0) \in 0..RetryTicks
    BY AuditAssumption DEF Countdown
  <2>4. RowsTyped'
    BY <1>10, <2>1, <2>2, <2>3 DEF Tick, RowsTyped
  <2> QED BY <1>10, <2>4 DEF Tick, historyVars, HistoryTyped
<1> QED
  BY <1>1, <1>2, <1>3, <1>4, <1>5, <1>6, <1>7, <1>8, <1>9, <1>10 DEF Next, WorkerStep

LEMMA InitTyped == Init => TypeOK
BY Bounds, AuditAssumption DEF Init, TypeOK, Progress, RequestSteps

\* Every variable keeps its type, and a domain without a row is claimed by nobody,
\* whatever workers, schedulers and requests do to the rows between them.
THEOREM AuditsTyped == Spec => []TypeOK
BY InitTyped, NextTyped, PTL DEF Spec

-----------------------------------------------------------------------------
(* Leases and results.                                                     *)

LEMMA AdvanceMoves ==
  ASSUME TypeOK, NEW w \in Workers, NEW d \in Domains, NEW step, Advance(w, d, step)
  PROVE  /\ task'[w][d] = step
         /\ \A v \in Workers : \A x \in Domains : ~(v = w /\ x = d) => task'[v][x] = task[v][x]
BY DEF TypeOK, Advance

\* Who may lose a live lease: whoever goes on, or a row that goes.
LEMMA LeaseKept ==
  ASSUME TypeOK, [Next]_vars, NEW d \in Domains, NEW w \in Workers,
         owner[d] = w, lease[d] > 0, exists'[d], owner'[d] # w
  PROVE  task'[w][d] # task[w][d]
<1>1. exists[d] /\ w # NoWorker
  BY AuditAssumption DEF TypeOK
<1>2. owner' # owner
  OBVIOUS
<1>3. ~UNCHANGED vars /\ ~Tick
  BY <1>2 DEF vars, rowVars, Tick
<1>4. ASSUME NEW x \in Domains, InsertRow(x), ~exists[x] PROVE FALSE
  BY <1>1, <1>4 DEF InsertRow, TypeOK
<1>5. ASSUME NEW x \in Domains, Update(x) \/ Refresh(x) PROVE FALSE
  BY <1>2, <1>5 DEF Update, Refresh
<1>6. ASSUME NEW x \in Domains, Upsert(x) \/ Provision(x) PROVE FALSE
  BY <1>2, <1>4, <1>5, <1>6 DEF Upsert, Provision, rowVars
<1>7. ASSUME NEW x \in Domains, Add(x) \/ ReAudit(x) \/ MeasureRequest(x) \/ AbortRequest(x)
      PROVE  FALSE
  BY <1>2, <1>7 DEF Add, ReAudit, MeasureRequest, AbortRequest, Ask, rowVars
<1>8. ASSUME NEW x \in Domains, StoreRequest(x) PROVE FALSE
  BY <1>6, <1>8 DEF StoreRequest
<1>9. ASSUME NEW x \in Domains, Delete(x) PROVE FALSE
  BY <1>9 DEF Delete, TypeOK
<1>10. ASSUME NEW v \in Workers, Claim(v) PROVE FALSE
  <2>1. d \notin First(BatchLimit, Claimable)
    <3>1. lease[d] \in -1..LeaseTicks /\ ~(lease[d] < 0)
      BY DEF TypeOK
    <3> QED BY <3>1 DEF First, Claimable
  <2> QED BY <1>10, <2>1 DEF Claim, RpcClaim
<1>11. ASSUME NEW v \in Workers, NEW x \in Domains, Measure(v, x) PROVE FALSE
  BY <1>2, <1>11 DEF Measure, rowVars
<1>12. ASSUME NEW v \in Workers, NEW x \in Domains, Store(v, x) PROVE FALSE
  BY <1>2, <1>5, <1>6, <1>12 DEF Store, Save, rowVars
<1>13. ASSUME NEW v \in Workers, Crash(v) PROVE FALSE
  BY <1>2, <1>13 DEF Crash, rowVars
<1>14. ASSUME NEW v \in Workers, NEW x \in Domains, Complete(v, x)
       PROVE  task'[w][d] # task[w][d]
  <2>1. task[v][x] = "written" /\ RpcComplete(v, x) /\ Advance(v, x, "none")
    BY <1>2, <1>14 DEF Complete, rowVars
  <2>2. x = d /\ v = w
    BY <1>2, <2>1 DEF RpcComplete, Owns, rowVars, TypeOK
  <2> QED BY <2>1, <2>2, AdvanceMoves
<1>15. ASSUME NEW v \in Workers, NEW x \in Domains, Fail(v, x)
       PROVE  task'[w][d] # task[w][d]
  <2>1. task[v][x] = "failing" /\ RpcFail(v, x) /\ Advance(v, x, "none")
    BY <1>2, <1>15 DEF Fail, rowVars
  <2>2. x = d /\ v = w
    BY <1>2, <2>1 DEF RpcFail, Owns, rowVars, TypeOK
  <2> QED BY <2>1, <2>2, AdvanceMoves
<1> QED
  BY <1>3, <1>7, <1>8, <1>9, <1>10, <1>11, <1>12, <1>13, <1>14, <1>15 DEF Next, WorkerStep

\* No worker takes a row over whose lease is live, and none loses one but by its
\* own step: whatever the merchant asks for, only a claim changes hands, and only
\* of a lease that has ended.
THEOREM LiveLeaseRespected == Spec => LeaseRespected
<1> DEFINE Respected ==
      \A d \in Domains : \A w \in Workers :
        /\ owner[d] = w /\ lease[d] > 0 /\ exists'[d]
        /\ owner'[d] # w
        => task'[w][d] # task[w][d]
<1>1. TypeOK /\ [Next]_vars => [Respected]_vars
  BY LeaseKept
<1> QED BY <1>1, AuditsTyped, PTL DEF Spec, LeaseRespected

\* Without a scheduler, a worker that still owns the row it has measured holds a
\* result later than the stored one; nothing older was ever stored.
OwnersAreFresh ==
  /\ \A w \in Workers : \A d \in Domains : task[w][d] = "measured" /\ Owns(w, d) => Fresh(w, d)
  /\ ResultsMoveForward

\* A worker that owns a row now has just claimed it, or owned it before.
LEMMA OwnerClaims ==
  ASSUME TypeOK, [Next]_vars, NEW w \in Workers, NEW d \in Domains, Owns(w, d)'
  PROVE  Owns(w, d) \/ (task[w][d] = "none" /\ task'[w][d] # "measured")
<1>1. w # NoWorker
  BY AuditAssumption
<1> SUFFICES ASSUME ~Owns(w, d) PROVE task[w][d] = "none" /\ task'[w][d] # "measured"
  OBVIOUS
<1>2. owner' # owner \/ exists' # exists
  BY DEF Owns
<1>3. ~UNCHANGED vars /\ ~Tick
  BY <1>2 DEF vars, rowVars, Tick
<1>4. ASSUME NEW x \in Domains, InsertRow(x) PROVE FALSE
  BY <1>1, <1>4 DEF InsertRow, TypeOK, Owns
<1>5. ASSUME NEW x \in Domains, Update(x) \/ Refresh(x) PROVE FALSE
  BY <1>2, <1>5 DEF Update, Refresh
<1>6. ASSUME NEW x \in Domains, Upsert(x) \/ Provision(x) PROVE FALSE
  BY <1>2, <1>4, <1>5, <1>6 DEF Upsert, Provision, rowVars
<1>7. ASSUME NEW x \in Domains, Add(x) \/ ReAudit(x) \/ MeasureRequest(x) \/ AbortRequest(x)
      PROVE  FALSE
  BY <1>2, <1>7 DEF Add, ReAudit, MeasureRequest, AbortRequest, Ask, rowVars
<1>8. ASSUME NEW x \in Domains, StoreRequest(x) PROVE FALSE
  BY <1>6, <1>8 DEF StoreRequest
<1>9. ASSUME NEW x \in Domains, Delete(x) PROVE FALSE
  BY <1>1, <1>9 DEF Delete, TypeOK, Owns
<1>10. ASSUME NEW v \in Workers, Claim(v) PROVE task[w][d] = "none" /\ task'[w][d] # "measured"
  <2>1. v = w
    BY <1>10 DEF Claim, RpcClaim, Owns, TypeOK
  <2> QED BY <1>10, <2>1 DEF Claim, Resting, TypeOK
<1>11. ASSUME NEW v \in Workers, NEW x \in Domains, Measure(v, x) PROVE FALSE
  BY <1>2, <1>11 DEF Measure, rowVars
<1>12. ASSUME NEW v \in Workers, NEW x \in Domains, Store(v, x) PROVE FALSE
  BY <1>2, <1>5, <1>6, <1>12 DEF Store, Save, rowVars
<1>13. ASSUME NEW v \in Workers, Crash(v) PROVE FALSE
  BY <1>2, <1>13 DEF Crash, rowVars
<1>14. ASSUME NEW v \in Workers, NEW x \in Domains, Complete(v, x) PROVE FALSE
  BY <1>1, <1>2, <1>14 DEF Complete, RpcComplete, rowVars, Owns, TypeOK
<1>15. ASSUME NEW v \in Workers, NEW x \in Domains, Fail(v, x) PROVE FALSE
  BY <1>1, <1>2, <1>15 DEF Fail, RpcFail, rowVars, Owns, TypeOK
<1> QED
  BY <1>3, <1>7, <1>8, <1>9, <1>10, <1>11, <1>12, <1>13, <1>14, <1>15 DEF Next, WorkerStep

\* What a worker forgets is its own.
LEMMA FreshStays ==
  ASSUME TypeOK, NEW v \in Workers, NEW w \in Workers, NEW d \in Domains, NEW x \in Domains,
         Forget(v, x) \/ Measured(v, x), ~(v = w /\ x = d), Fresh(w, d)
  PROVE  Fresh(w, d)'
<1>1. <<w, w>> \in newer[d] /\ newer \in [Domains -> SUBSET (Workers \X Workers)]
  BY DEF TypeOK, Fresh
<1>2. x = d => <<w, w>> \in Without(v, x)
  BY <1>1 DEF Without
<1>3. CASE Forget(v, x)
  BY <1>1, <1>2, <1>3 DEF Fresh, Forget
<1>4. CASE Measured(v, x)
  BY <1>1, <1>2, <1>4 DEF Fresh, Measured
<1> QED BY <1>3, <1>4

LEMMA MeasuredIsFresh ==
  ASSUME TypeOK, NEW w \in Workers, NEW d \in Domains, Measured(w, d)
  PROVE  Fresh(w, d)'
BY DEF TypeOK, Fresh, Measured


LEMMA NextFresh ==
  ASSUME Schedulers = {}, TypeOK, OwnersAreFresh, [Next]_vars
  PROVE  OwnersAreFresh'
<1>1. /\ TypeOK /\ TypeOK'
      /\ \A w \in Workers : \A d \in Domains : task[w][d] = "measured" /\ Owns(w, d) => Fresh(w, d)
  BY NextTyped DEF OwnersAreFresh
<1>2. ASSUME NEW w \in Workers, NEW d \in Domains, task'[w][d] = "measured", Owns(w, d)'
      PROVE  Owns(w, d)
  BY <1>2, OwnerClaims
\* A step that leaves the results alone, and lets nobody arrive at "measured".
<1>3. ASSUME newer' = newer,
             \A w \in Workers : \A d \in Domains : task'[w][d] = "measured" => task[w][d] = "measured",
             NEW w \in Workers, NEW d \in Domains, task'[w][d] = "measured", Owns(w, d)'
      PROVE  Fresh(w, d)'
  BY <1>1, <1>2, <1>3 DEF Fresh
\* Another worker, or another domain, than the one that forgets or measures.
<1>4. ASSUME NEW v \in Workers, NEW x \in Domains, Forget(v, x) \/ Measured(v, x),
             \E step \in Progress : Advance(v, x, step),
             NEW w \in Workers, NEW d \in Domains, ~(v = w /\ x = d),
             task'[w][d] = "measured", Owns(w, d)'
      PROVE  Fresh(w, d)'
  <2>1. task[w][d] = "measured"
    BY <1>1, <1>4, AdvanceMoves
  <2>2. Fresh(w, d)
    BY <1>1, <1>2, <1>4, <2>1
  <2> QED BY <1>4, <2>2, FreshStays
<1>5. CASE UNCHANGED vars
  BY <1>1, <1>5 DEF vars, rowVars, historyVars, OwnersAreFresh, ResultsMoveForward, Owns, Fresh
<1>6. ASSUME NEW d \in Domains,
             \/ Add(d) \/ ReAudit(d) \/ MeasureRequest(d) \/ StoreRequest(d)
             \/ AbortRequest(d) \/ Delete(d)
      PROVE  OwnersAreFresh'
  <2>1. UNCHANGED <<task, historyVars>>
    BY <1>6 DEF Add, ReAudit, MeasureRequest, StoreRequest, AbortRequest, Delete, Ask
  <2> QED BY <1>3, <2>1 DEF OwnersAreFresh, ResultsMoveForward, historyVars
<1>7. ASSUME NEW v \in Workers, Claim(v) PROVE OwnersAreFresh'
  <2>1. UNCHANGED historyVars
    BY <1>7 DEF Claim
  <2>2. \A w \in Workers : \A d \in Domains : task'[w][d] = "measured" => task[w][d] = "measured"
    BY <1>7 DEF Claim, TypeOK
  <2> QED BY <1>3, <2>1, <2>2 DEF OwnersAreFresh, ResultsMoveForward, historyVars
<1>8. ASSUME NEW v \in Workers, NEW x \in Domains, Measure(v, x) PROVE OwnersAreFresh'
  <2>1. UNCHANGED stale
    BY <1>8 DEF Measure
  <2>2. CASE Advance(v, x, "measured") /\ Measured(v, x)
    <3>1. Fresh(v, x)'
      BY <2>2, MeasuredIsFresh
    <3>2. \E step \in Progress : Advance(v, x, step)
      BY <2>2 DEF Progress
    <3> QED BY <1>4, <2>1, <2>2, <3>1, <3>2 DEF OwnersAreFresh, ResultsMoveForward
  <2>3. CASE Advance(v, x, "failing") /\ UNCHANGED newer
    <3>1. \A w \in Workers : \A d \in Domains :
            task'[w][d] = "measured" => task[w][d] = "measured"
      BY <2>3, AdvanceMoves
    <3> QED BY <1>3, <2>1, <2>3, <3>1 DEF OwnersAreFresh, ResultsMoveForward
  <2> QED BY <1>8, <2>2, <2>3 DEF Measure
<1>9. ASSUME NEW v \in Workers, NEW x \in Domains, Store(v, x) PROVE OwnersAreFresh'
  <2>1. PICK step \in {"written", "failing", "none"} : Advance(v, x, step)
    BY <1>9, StoreParts
  <2>2. /\ step \in Progress /\ task'[v][x] # "measured"
        /\ \A w \in Workers : \A d \in Domains :
             task'[w][d] = "measured" => task[w][d] = "measured"
    BY <2>1, AdvanceMoves DEF Progress
  <2>3. CASE ~Lost(v, x) /\ Save(v, x)
    <3>1. Owns(v, x) /\ task[v][x] = "measured" /\ Shown(v, x)
      BY <1>9, <2>3 DEF Lost, Save, Store
    <3>2. Fresh(v, x)
      BY <1>1, <3>1
    <3>3. stale' = stale
      BY <3>1, <3>2 DEF Shown, TypeOK
    <3>4. ASSUME NEW w \in Workers, NEW d \in Domains, task'[w][d] = "measured", Owns(w, d)'
          PROVE  Fresh(w, d)'
      <4>1. Owns(w, d) /\ Fresh(w, d)
        BY <1>1, <1>2, <2>2, <3>4
      <4>2. x # d
        BY <2>2, <3>1, <3>4, <4>1 DEF Owns
      <4> QED BY <3>1, <4>1, <4>2 DEF Shown, Fresh, TypeOK
    <3> QED BY <3>3, <3>4 DEF OwnersAreFresh, ResultsMoveForward
  <2>4. CASE Lost(v, x) /\ Forget(v, x) /\ UNCHANGED stale
    BY <1>4, <2>1, <2>2, <2>4 DEF OwnersAreFresh, ResultsMoveForward
  <2>5. CASE UNCHANGED historyVars
    BY <1>3, <2>2, <2>5 DEF OwnersAreFresh, ResultsMoveForward, historyVars
  <2> QED BY <1>9, <2>3, <2>4, <2>5 DEF Store
<1>10. ASSUME NEW v \in Workers, NEW x \in Domains, Complete(v, x) PROVE OwnersAreFresh'
  <2>1. UNCHANGED historyVars /\ \E step \in {"none", "failing"} : Advance(v, x, step)
    BY <1>10 DEF Complete
  <2>2. \A w \in Workers : \A d \in Domains : task'[w][d] = "measured" => task[w][d] = "measured"
    BY <2>1, AdvanceMoves
  <2> QED BY <1>3, <2>1, <2>2 DEF OwnersAreFresh, ResultsMoveForward, historyVars
<1>11. ASSUME NEW v \in Workers, NEW x \in Domains, Fail(v, x) PROVE OwnersAreFresh'
  <2>1. Advance(v, x, "none") /\ Forget(v, x) /\ UNCHANGED stale
    BY <1>11 DEF Fail
  <2>2. task'[v][x] # "measured" /\ \E step \in Progress : Advance(v, x, step)
    BY <2>1, AdvanceMoves DEF Progress
  <2> QED BY <1>4, <2>1, <2>2 DEF OwnersAreFresh, ResultsMoveForward
<1>12. ASSUME NEW v \in Workers, Crash(v) PROVE OwnersAreFresh'
  <2>1. /\ UNCHANGED stale /\ newer' = [d \in Domains |-> Without(v, d)]
        /\ task' = [task EXCEPT ![v] = [d \in Domains |-> "none"]]
    BY <1>12 DEF Crash
  <2>2. ASSUME NEW w \in Workers, NEW d \in Domains, task'[w][d] = "measured", Owns(w, d)'
        PROVE  Fresh(w, d)'
    <3>1. w # v /\ task[w][d] = "measured"
      BY <2>1, <2>2 DEF TypeOK
    <3>2. Fresh(w, d)
      BY <1>1, <1>2, <2>2, <3>1
    <3> QED BY <2>1, <3>1, <3>2 DEF Fresh, Without
  <2> QED BY <2>1, <2>2 DEF OwnersAreFresh, ResultsMoveForward
<1>13. CASE Tick
  <2>1. UNCHANGED <<task, historyVars>>
    BY <1>13 DEF Tick
  <2> QED BY <1>3, <2>1 DEF OwnersAreFresh, ResultsMoveForward, historyVars
<1> QED
  BY <1>5, <1>6, <1>7, <1>8, <1>9, <1>10, <1>11, <1>12, <1>13 DEF Next, WorkerStep

\* Where no in-process scheduler runs, a worker whose lease ended while it measured
\* never writes its scores over later ones, however often leases end and workers
\* crash in between.
THEOREM ResultsNeverGoBack == ASSUME Schedulers = {} PROVE Spec => []ResultsMoveForward
<1>1. Init => TypeOK /\ OwnersAreFresh
  BY InitTyped DEF Init, OwnersAreFresh, ResultsMoveForward, Owns
<1>2. TypeOK /\ OwnersAreFresh /\ [Next]_vars => (TypeOK /\ OwnersAreFresh)'
  BY NextTyped, NextFresh
<1>3. OwnersAreFresh => ResultsMoveForward
  BY DEF OwnersAreFresh
<1> QED BY <1>1, <1>2, <1>3, PTL DEF Spec

-----------------------------------------------------------------------------
(* The quota.                                                              *)

\* Whoever is about to upsert a row finds it there.
UpsertsUpdate ==
  \A d \in Domains :
    /\ request[d] = "re-audited" => exists[d]
    /\ \A w \in Schedulers : task[w][d] = "measured" => exists[d]

\* What a step does to the rows there are.
RowsChange ==
  \/ exists' = exists
  \/ \E d \in Domains : Delete(d)
  \/ \E d \in Domains : ~exists[d] /\ Room /\ exists' = [exists EXCEPT ![d] = TRUE]

LEMMA NextRows == ASSUME TypeOK, UpsertsUpdate, [Next]_vars PROVE RowsChange
<1>1. CASE UNCHANGED vars
  BY <1>1 DEF vars, rowVars, RowsChange
<1>2. ASSUME NEW d \in Domains,
             Add(d) \/ ReAudit(d) \/ MeasureRequest(d) \/ AbortRequest(d) \/ Delete(d)
      PROVE  RowsChange
  BY <1>2 DEF Add, ReAudit, MeasureRequest, AbortRequest, Ask, rowVars, RowsChange
<1>3. ASSUME NEW d \in Domains, StoreRequest(d) PROVE RowsChange
  <2>1. CASE request[d] = "added" /\ Provision(d)
    BY <2>1 DEF Provision, Refresh, InsertRow, rowVars, RowsChange
  <2>2. CASE request[d] = "re-audited" /\ Upsert(d)
    BY <2>2 DEF UpsertsUpdate, Upsert, Update, RowsChange
  <2> QED BY <1>3, <2>1, <2>2 DEF StoreRequest
<1>4. ASSUME NEW w \in Workers, NEW d \in Domains, Store(w, d) PROVE RowsChange
  BY <1>4 DEF Store, Save, Upsert, Update, UpsertsUpdate, rowVars, RowsChange
<1>5. ASSUME NEW w \in Workers, NEW d \in Domains, Measure(w, d) \/ Complete(w, d) \/ Fail(w, d)
      PROVE  RowsChange
  BY <1>5 DEF Measure, Complete, Fail, RpcComplete, RpcFail, rowVars, RowsChange
<1>6. ASSUME NEW w \in Workers, Claim(w) \/ Crash(w) PROVE RowsChange
  BY <1>6 DEF Claim, Crash, RpcClaim, rowVars, RowsChange
<1>7. CASE Tick
  BY <1>7 DEF Tick, RowsChange
<1> QED BY <1>1, <1>2, <1>3, <1>4, <1>5, <1>6, <1>7 DEF Next, WorkerStep

LEMMA QuotaStep == ASSUME TypeOK, QuotaHeld, RowsChange PROVE QuotaHeld'
<1>1. IsFiniteSet(Monitored) /\ Cardinality(Monitored) \in Nat
  BY AuditAssumption, FS_Subset, FS_CardinalityType DEF Monitored
<1>2. CASE exists' = exists
  BY <1>2 DEF QuotaHeld, Monitored
<1>3. ASSUME NEW d \in Domains, Delete(d) PROVE QuotaHeld'
  <2>1. Monitored' \subseteq Monitored
    BY <1>3 DEF Delete, Monitored, TypeOK
  <2>2. IsFiniteSet(Monitored') /\ Cardinality(Monitored') <= Cardinality(Monitored)
    BY <1>1, <2>1, FS_Subset
  <2>3. Cardinality(Monitored') \in Nat
    BY <2>2, FS_CardinalityType
  <2> QED BY <1>1, <2>2, <2>3, AuditAssumption DEF QuotaHeld
<1>4. ASSUME NEW d \in Domains, ~exists[d], Room, exists' = [exists EXCEPT ![d] = TRUE]
      PROVE  QuotaHeld'
  <2>1. Monitored' = Monitored \cup {d} /\ d \notin Monitored
    BY <1>4 DEF Monitored, TypeOK
  <2>2. Cardinality(Monitored') = Cardinality(Monitored) + 1
    BY <1>1, <2>1, FS_AddElement
  <2> QED BY <1>1, <1>4, <2>2, AuditAssumption DEF Room, QuotaHeld
<1> QED BY <1>2, <1>3, <1>4 DEF RowsChange

\* No one re-audits, so that nothing is upserted.
NobodyReAudits == \A d \in Domains : request[d] \notin {"re-auditing", "re-audited"}

LEMMA NextNobodyReAudits ==
  ASSUME "re-audit" \notin Requests, TypeOK, NobodyReAudits, [Next]_vars
  PROVE  NobodyReAudits'
<1>1. CASE UNCHANGED request
  BY <1>1 DEF NobodyReAudits
<1>2. ASSUME NEW d \in Domains,
             Add(d) \/ ReAudit(d) \/ MeasureRequest(d) \/ StoreRequest(d) \/ AbortRequest(d)
      PROVE  NobodyReAudits'
  <2>1. \E step \in {"none", "adding", "added"} : request' = [request EXCEPT ![d] = step]
    BY <1>2 DEF Add, ReAudit, MeasureRequest, StoreRequest, AbortRequest, Ask, NobodyReAudits
  <2> QED BY <2>1 DEF NobodyReAudits, TypeOK
<1>3. ASSUME NEW d \in Domains, Delete(d) PROVE UNCHANGED request
  BY <1>3 DEF Delete
<1>4. ASSUME NEW w \in Workers, WorkerStep(w) \/ Crash(w) PROVE UNCHANGED request
  BY <1>4 DEF WorkerStep, Crash, Claim, Measure, Store, Complete, Fail
<1>5. CASE Tick \/ UNCHANGED vars
  BY <1>1, <1>5 DEF Tick, vars
<1> QED BY <1>1, <1>2, <1>3, <1>4, <1>5 DEF Next

\* Rows are never deleted, so that whoever has looked one up still finds it.
RowsAwaited ==
  \A d \in Domains :
    /\ request[d] \in {"re-auditing", "re-audited"} => exists[d]
    /\ \A w \in Workers : task[w][d] # "none" => exists[d]

LEMMA NextRowsAwaited ==
  ASSUME "delete" \notin Requests, TypeOK, RowsAwaited, [Next]_vars
  PROVE  RowsAwaited'
<1>1. UpsertsUpdate
  BY AuditAssumption DEF RowsAwaited, UpsertsUpdate
<1>2. \A d \in Domains : exists[d] => exists'[d]
  BY <1>1, NextRows DEF RowsChange, Delete, TypeOK
<1>3. ASSUME NEW d \in Domains PROVE request'[d] \in {"re-auditing", "re-audited"} => exists'[d]
  <2>1. CASE request'[d] = request[d]
    BY <1>2, <2>1 DEF RowsAwaited
  <2>2. ASSUME NEW x \in Domains,
               Add(x) \/ ReAudit(x) \/ MeasureRequest(x) \/ StoreRequest(x) \/ AbortRequest(x)
        PROVE  request'[d] \in {"re-auditing", "re-audited"} => exists'[d]
    <3>1. \/ \E step \in {"none", "adding", "added"} : request' = [request EXCEPT ![x] = step]
          \/ exists[x] /\ \E step \in RequestSteps : request' = [request EXCEPT ![x] = step]
      BY <2>2 DEF Add, ReAudit, MeasureRequest, StoreRequest, AbortRequest, Ask, RequestSteps,
         RowsAwaited
    <3> QED BY <1>2, <2>1, <3>1 DEF TypeOK
  <2>3. ASSUME NEW x \in Domains, Delete(x) PROVE UNCHANGED request
    BY <2>3 DEF Delete
  <2>4. ASSUME NEW w \in Workers, WorkerStep(w) \/ Crash(w) PROVE UNCHANGED request
    BY <2>4 DEF WorkerStep, Crash, Claim, Measure, Store, Complete, Fail
  <2>5. CASE Tick \/ UNCHANGED vars
    BY <2>1, <2>5 DEF Tick, vars
  <2> QED BY <2>1, <2>2, <2>3, <2>4, <2>5 DEF Next
<1>4. ASSUME NEW d \in Domains, NEW w \in Workers, task'[w][d] # "none" PROVE exists[d]
  <2>1. CASE task'[w][d] = "none" \/ task[w][d] # "none"
    BY <1>4, <2>1 DEF RowsAwaited
  <2>2. ASSUME NEW v \in Workers, Claim(v) PROVE exists[d]
    <3> DEFINE S == First(BatchLimit, Claimable)
    <3>1. \A x \in S : exists[x]
      BY DEF First, Claimable, Monitored
    <3>2. \/ UNCHANGED task
          \/ task' = [task EXCEPT ![v] = [x \in Domains |-> IF x \in S THEN "claimed" ELSE "none"]]
      BY <2>2 DEF Claim
    <3> HIDE DEF S
    <3> QED BY <1>4, <2>1, <3>1, <3>2 DEF TypeOK
  <2>3. ASSUME NEW v \in Workers, NEW x \in Domains,
               Measure(v, x) \/ Store(v, x) \/ Complete(v, x) \/ Fail(v, x)
        PROVE  exists[d]
    <3>1. task[v][x] # "none" /\ \E step \in Progress : Advance(v, x, step)
      BY <2>3 DEF Measure, Store, Complete, Fail, Progress
    <3> QED BY <1>4, <2>1, <3>1, AdvanceMoves
  <2>4. ASSUME NEW v \in Workers, Crash(v) PROVE exists[d]
    BY <1>4, <2>1, <2>4 DEF Crash, TypeOK
  <2>5. CASE UNCHANGED task
    BY <1>4, <2>1, <2>5
  <2>6. ASSUME NEW x \in Domains,
               \/ Add(x) \/ ReAudit(x) \/ MeasureRequest(x) \/ StoreRequest(x)
               \/ AbortRequest(x) \/ Delete(x)
        PROVE  UNCHANGED task
    BY <2>6 DEF Add, ReAudit, MeasureRequest, StoreRequest, AbortRequest, Delete, Ask
  <2>7. CASE Tick \/ UNCHANGED vars
    BY <2>5, <2>7 DEF Tick, vars
  <2> QED BY <2>2, <2>3, <2>4, <2>5, <2>6, <2>7 DEF Next, WorkerStep
<1> QED BY <1>2, <1>3, <1>4 DEF RowsAwaited

\* The rows stay within the quota, whichever requests to add a domain saw room for
\* theirs, as long as nothing upserts a row that was deleted after it was looked up:
\* where neither schedulers nor re-audits run, or where merchants delete nothing.
THEOREM QuotaNeverExceeded ==
  ASSUME (Schedulers = {} /\ "re-audit" \notin Requests) \/ "delete" \notin Requests
  PROVE  Spec => []QuotaHeld
<1> DEFINE Awaited == IF "delete" \notin Requests THEN RowsAwaited ELSE NobodyReAudits
<1>1. Init => TypeOK /\ QuotaHeld /\ Awaited
  <2>1. ASSUME Init PROVE QuotaHeld
    <3>1. Monitored = {}
      BY <2>1 DEF Init, Monitored
    <3> QED BY <3>1, FS_EmptySet, AuditAssumption DEF QuotaHeld
  <2>2. ASSUME Init PROVE RowsAwaited /\ NobodyReAudits
    BY <2>2 DEF Init, RowsAwaited, NobodyReAudits
  <2> QED BY <2>1, <2>2, InitTyped
<1>2. TypeOK /\ QuotaHeld /\ Awaited /\ [Next]_vars => (TypeOK /\ QuotaHeld /\ Awaited)'
  <2> SUFFICES ASSUME TypeOK, QuotaHeld, Awaited, [Next]_vars
               PROVE  TypeOK' /\ QuotaHeld' /\ Awaited'
    OBVIOUS
  <2>1. UpsertsUpdate
    BY AuditAssumption DEF RowsAwaited, NobodyReAudits, UpsertsUpdate
  <2>2. QuotaHeld'
    BY <2>1, NextRows, QuotaStep
  <2>3. Awaited'
    BY NextRowsAwaited, NextNobodyReAudits
  <2> QED BY <2>2, <2>3, NextTyped
<1> HIDE DEF Awaited
<1> QED BY <1>1, <1>2, PTL DEF Spec

-----------------------------------------------------------------------------
(* One audit of a domain at a time.                                        *)

\* Whoever audits a domain owns its row under a lease that has not ended; whoever
\* adds a domain adds a new one.
LeasesCover ==
  /\ \A w \in Workers : \A d \in Domains : task[w][d] # "none" => Owns(w, d) /\ lease[d] > 0
  /\ \A d \in Domains : request[d] \in {"adding", "added"} => ~exists[d]

Covered(w, d) == Owns(w, d) /\ lease[d] > 0

LEMMA NextAddsNew ==
  ASSUME "re-add" \notin Requests, "delete" \notin Requests,
         TypeOK, RowsAwaited, LeasesCover, [Next]_vars
  PROVE  \A d \in Domains : request'[d] \in {"adding", "added"} => ~exists'[d]
<1>1. UpsertsUpdate
  BY AuditAssumption DEF RowsAwaited, UpsertsUpdate
<1> SUFFICES ASSUME NEW d \in Domains, request'[d] \in {"adding", "added"} PROVE ~exists'[d]
  OBVIOUS
<1>2. CASE exists' = exists /\ request'[d] = request[d]
  BY <1>2 DEF LeasesCover
<1>3. ASSUME NEW x \in Domains, Add(x) \/ ReAudit(x) \/ MeasureRequest(x) \/ AbortRequest(x)
      PROVE  ~exists'[d]
  <2>1. exists' = exists
    BY <1>3 DEF Add, ReAudit, MeasureRequest, AbortRequest, Ask, rowVars
  <2>2. CASE Add(x)
    BY <1>2, <2>1, <2>2 DEF Add, Ask, TypeOK
  <2>3. CASE MeasureRequest(x)
    <3>1. \/ request[x] = "adding" /\ request' = [request EXCEPT ![x] = "added"]
          \/ request' = [request EXCEPT ![x] = "re-audited"]
      BY <2>3 DEF MeasureRequest
    <3> QED BY <1>2, <2>1, <3>1 DEF LeasesCover, TypeOK
  <2>4. CASE ReAudit(x) \/ AbortRequest(x)
    <3>1. \E step \in {"none", "re-auditing"} : request' = [request EXCEPT ![x] = step]
      BY <2>4 DEF ReAudit, AbortRequest, Ask
    <3> QED BY <1>2, <2>1, <3>1 DEF TypeOK
  <2> QED BY <1>3, <2>2, <2>3, <2>4
<1>4. ASSUME NEW x \in Domains, StoreRequest(x) PROVE ~exists'[d]
  <2>1. request' = [request EXCEPT ![x] = "none"]
    BY <1>4 DEF StoreRequest
  <2>2. d # x /\ request'[d] = request[d] /\ ~exists[d]
    BY <2>1 DEF TypeOK, LeasesCover
  <2>3. exists'[d] = exists[d]
    BY <1>4, <2>2 DEF StoreRequest, Provision, Upsert, Update, Refresh, InsertRow, rowVars, TypeOK
  <2> QED BY <2>2, <2>3
<1>5. ASSUME NEW x \in Domains, Delete(x) PROVE FALSE
  BY <1>5 DEF Delete
<1>6. ASSUME NEW w \in Workers, NEW x \in Domains, Store(w, x)
      PROVE  exists' = exists /\ request' = request
  <2>1. exists[x]
    BY <1>6 DEF Store, RowsAwaited
  <2> QED BY <1>6, <2>1 DEF Store, Save, Upsert, Update, rowVars
<1>7. ASSUME NEW w \in Workers, NEW x \in Domains, Measure(w, x) \/ Complete(w, x) \/ Fail(w, x)
      PROVE  exists' = exists /\ request' = request
  BY <1>7 DEF Measure, Complete, Fail, RpcComplete, RpcFail, rowVars
<1>8. ASSUME NEW w \in Workers, Claim(w) \/ Crash(w)
      PROVE  exists' = exists /\ request' = request
  BY <1>8 DEF Claim, Crash, RpcClaim, rowVars
<1>9. CASE Tick \/ UNCHANGED vars
  BY <1>2, <1>9 DEF Tick, vars, rowVars
<1> QED BY <1>2, <1>3, <1>4, <1>5, <1>6, <1>7, <1>8, <1>9 DEF Next, WorkerStep

LEMMA NextLeasesCover ==
  ASSUME Prompt, "re-add" \notin Requests, "delete" \notin Requests,
         TypeOK, RowsAwaited, LeasesCover, [Next]_vars
  PROVE  LeasesCover'
<1> SUFFICES ASSUME NEW w \in Workers, NEW d \in Domains, task'[w][d] # "none"
             PROVE  Covered(w, d)'
  BY NextAddsNew DEF LeasesCover, Covered
<1>1. \A v \in Workers : \A x \in Domains : task[v][x] # "none" => Covered(v, x) /\ exists[x]
  BY DEF LeasesCover, Covered, RowsAwaited
<1>2. task[w][d] # "none" => lease[d] > 0 /\ owner[d] = w /\ exists[d]
  BY <1>1 DEF Covered, Owns
<1>3. CASE task[w][d] # "none" /\ UNCHANGED <<exists, owner, lease>>
  BY <1>2, <1>3 DEF Covered, Owns
<1>4. ASSUME NEW x \in Domains, UNCHANGED task,
             Add(x) \/ ReAudit(x) \/ MeasureRequest(x) \/ AbortRequest(x)
      PROVE  Covered(w, d)'
  BY <1>3, <1>4 DEF Add, ReAudit, MeasureRequest, AbortRequest, Ask, rowVars
<1>5. ASSUME NEW x \in Domains, StoreRequest(x) PROVE Covered(w, d)'
  <2>1. task[w][d] # "none"
    BY <1>5 DEF StoreRequest
  <2>2. CASE request[x] = "added" /\ Provision(x)
    <3>1. ~exists[x]
      BY <2>2 DEF LeasesCover
    <3>2. CASE UNCHANGED rowVars
      BY <1>3, <2>1, <3>2 DEF rowVars
    <3>3. CASE InsertRow(x)
      BY <1>2, <2>1, <3>1, <3>3 DEF InsertRow, Covered, Owns, TypeOK
    <3> QED BY <2>2, <3>1, <3>2, <3>3 DEF Provision
  <2>3. CASE request[x] = "re-audited" /\ Upsert(x)
    BY <1>3, <2>1, <2>3 DEF RowsAwaited, Upsert, Update
  <2> QED BY <1>5, <2>2, <2>3 DEF StoreRequest
<1>6. ASSUME NEW v \in Workers, Claim(v) PROVE Covered(w, d)'
  <2> DEFINE S == First(BatchLimit, Claimable)
  <2>1. \A x \in S : exists[x] /\ lease[x] < 0
    BY DEF First, Claimable, Monitored
  <2>2. /\ owner' = [x \in Domains |-> IF x \in S THEN v ELSE owner[x]]
        /\ lease' = [x \in Domains |-> IF x \in S THEN LeaseTicks ELSE lease[x]]
        /\ exists' = exists
        /\ \/ UNCHANGED task
           \/ task' = [task EXCEPT ![v] = [x \in Domains |-> IF x \in S THEN "claimed" ELSE "none"]]
    BY <1>6 DEF Claim, RpcClaim
  <2>3. LeaseTicks > 0 /\ LeaseTicks \in Nat
    BY AuditAssumption
  <2> HIDE DEF S
  <2>4. CASE task[w][d] # "none"
    <3>1. d \notin S
      BY <1>2, <2>1, <2>4 DEF TypeOK
    <3> QED BY <1>2, <2>2, <2>4, <3>1 DEF Covered, Owns
  <2>5. CASE task[w][d] = "none"
    <3>1. w = v /\ d \in S
      BY <2>2, <2>5 DEF TypeOK
    <3> QED BY <2>1, <2>2, <2>3, <3>1 DEF Covered, Owns
  <2> QED BY <2>4, <2>5
<1>7. ASSUME NEW v \in Workers, NEW x \in Domains, task[v][x] # "none",
             \E step \in Progress : Advance(v, x, step), UNCHANGED <<exists, owner, lease>>
      PROVE  Covered(w, d)'
  BY <1>3, <1>7, AdvanceMoves
<1>8. ASSUME NEW v \in Workers, NEW x \in Domains, Measure(v, x) PROVE Covered(w, d)'
  <2>1. /\ task[v][x] # "none" /\ UNCHANGED <<exists, owner, lease>>
        /\ \E step \in Progress : Advance(v, x, step)
    BY <1>8 DEF Measure, rowVars, Progress
  <2> QED BY <1>7, <2>1
<1>9. ASSUME NEW v \in Workers, NEW x \in Domains, Store(v, x) PROVE Covered(w, d)'
  <2>1. task[v][x] # "none" /\ exists[x]
    BY <1>1, <1>9 DEF Store
  <2>2. UNCHANGED <<exists, owner, lease>>
    BY <1>9, <2>1 DEF Store, Save, Upsert, Update, rowVars
  <2>3. \E step \in Progress : Advance(v, x, step)
    BY <1>9, StoreParts DEF Progress
  <2> QED BY <1>7, <2>1, <2>2, <2>3
<1>10. ASSUME NEW v \in Workers, NEW x \in Domains, task[v][x] # "none", Advance(v, x, "none"),
              exists' = exists, owner' = [owner EXCEPT ![x] = NoWorker],
              lease' = [lease EXCEPT ![x] = -1]
       PROVE  Covered(w, d)'
  <2>1. ~(w = v /\ d = x) /\ task[w][d] # "none"
    BY <1>10, AdvanceMoves
  <2>2. d # x
    BY <1>1, <1>10, <2>1 DEF Covered, Owns
  <2> QED BY <1>2, <1>10, <2>1, <2>2 DEF Covered, Owns, TypeOK
<1>11. ASSUME NEW v \in Workers, NEW x \in Domains, Complete(v, x) PROVE Covered(w, d)'
  <2>1. task[v][x] # "none" /\ Owns(v, x)
    BY <1>1, <1>11 DEF Complete, Covered
  <2>2. CASE UNCHANGED rowVars
    <3>1. \E step \in Progress : Advance(v, x, step)
      BY <1>11 DEF Complete, Progress
    <3> QED BY <1>7, <2>1, <2>2, <3>1 DEF rowVars
  <2>3. CASE RpcComplete(v, x) /\ Advance(v, x, "none")
    BY <1>10, <2>1, <2>3 DEF RpcComplete
  <2> QED BY <1>11, <2>2, <2>3 DEF Complete
<1>12. ASSUME NEW v \in Workers, NEW x \in Domains, Fail(v, x) PROVE Covered(w, d)'
  <2>1. task[v][x] # "none" /\ Owns(v, x) /\ Advance(v, x, "none")
    BY <1>1, <1>12 DEF Fail, Covered
  <2>2. CASE UNCHANGED rowVars
    <3>1. \E step \in Progress : Advance(v, x, step)
      BY <2>1 DEF Progress
    <3> QED BY <1>7, <2>1, <2>2, <3>1 DEF rowVars
  <2>3. CASE RpcFail(v, x)
    BY <1>10, <2>1, <2>3 DEF RpcFail
  <2> QED BY <1>12, <2>2, <2>3 DEF Fail
<1>13. ASSUME NEW v \in Workers, Crash(v) PROVE Covered(w, d)'
  <2>1. task[w][d] # "none"
    BY <1>13 DEF Crash, TypeOK
  <2> QED BY <1>3, <1>13, <2>1 DEF Crash, rowVars
<1>14. CASE Tick
  <2>1. task[w][d] # "none" /\ exists' = exists /\ owner' = owner
    BY <1>14 DEF Tick
  <2>2. lease[d] > 1
    BY <1>2, <1>14, <2>1 DEF Tick, InTime, Owns, TypeOK
  <2>3. lease'[d] > 0
    <3>1. lease[d] \in Int /\ lease'[d] = Countdown(lease[d], -1)
      BY <1>14 DEF Tick, TypeOK
    <3> QED BY <2>2, <3>1 DEF Countdown
  <2> QED BY <1>2, <2>1, <2>3 DEF Covered, Owns
<1>15. CASE UNCHANGED vars
  BY <1>3, <1>15 DEF vars, rowVars
<1>16. ASSUME NEW x \in Domains, Delete(x) PROVE FALSE
  BY <1>16 DEF Delete
<1>17. ASSUME NEW x \in Domains, Add(x) \/ ReAudit(x) \/ MeasureRequest(x) \/ AbortRequest(x)
       PROVE  UNCHANGED task
  BY <1>17 DEF Add, ReAudit, MeasureRequest, AbortRequest, Ask
<1> QED
  BY <1>4, <1>5, <1>6, <1>8, <1>9, <1>11, <1>12, <1>13, <1>14, <1>15, <1>16, <1>17 DEF Next, WorkerStep

\* Workers that keep within their leases, schedulers among them, never audit a domain
\* two at a time, as long as merchants neither delete a domain nor add one again: both
\* end a lease under its owner.
THEOREM OneAuditAtATime ==
  ASSUME Prompt, "re-add" \notin Requests, "delete" \notin Requests
  PROVE  Spec => []DisjointAudits
<1>1. Init => TypeOK /\ RowsAwaited /\ LeasesCover
  <2>1. ASSUME Init PROVE RowsAwaited /\ LeasesCover
    BY <2>1 DEF Init, RowsAwaited, LeasesCover
  <2> QED BY <2>1, InitTyped
<1>2. TypeOK /\ RowsAwaited /\ LeasesCover /\ [Next]_vars => (TypeOK /\ RowsAwaited /\ LeasesCover)'
  BY NextTyped, NextRowsAwaited, NextLeasesCover
<1>3. LeasesCover => DisjointAudits
  BY DEF LeasesCover, DisjointAudits, Owns
<1> QED BY <1>1, <1>2, <1>3, PTL DEF Spec

=============================================================================
