------------------------- MODULE FailoverEventsProofs -------------------------
(***************************************************************************)
(* What holds of FailoverEvents for any events, workers and bounds.  Five  *)
(* parts: the types; the inductive invariant Safe, with what it says of    *)
(* dispatches, attempts and logs; the action properties, of settled,       *)
(* requeued and live events; the bound on deferrals, for prompt workers;   *)
(* and the refinement: every step is a step of the watched event's alert,  *)
(* or leaves the alert as it is.                                           *)
(***************************************************************************)
EXTENDS FailoverRefinesAlert, TLAPS

USE ConstantsAssumption

-----------------------------------------------------------------------------
(* Part 1.  TypeOK is an inductive invariant: first what each SQL function *)
(* does to the types of the rows, then what each way of moving does to the *)
(* types of a worker's state, then each action.                            *)

-----------------------------------------------------------------------------
(* The SQL functions keep the types of the rows.                           *)

\* Rows that stand still keep their types.
LEMMA RowsUnchangedTyped == ASSUME RowsTyped, UNCHANGED rowVars PROVE RowsTyped'
  BY DEF RowsTyped, rowVars

\* RpcSweep keeps the types.
LEMMA RpcSweepTyped == ASSUME RowsTyped, RpcSweep PROVE RowsTyped'
  BY DEF RowsTyped, RpcSweep, AfterSweep, Statuses

\* RpcClaim keeps the types.
LEMMA RpcClaimTyped ==
  ASSUME RowsTyped, NEW w \in Workers, RpcClaim(w) PROVE RowsTyped'
  BY DEF RowsTyped, RpcClaim, AfterSweep, Statuses

\* RpcIntent keeps the types.
LEMMA RpcIntentTyped ==
  ASSUME RowsTyped, NEW w \in Workers, NEW e \in Events, RpcIntent(w, e)
  PROVE  RowsTyped'
  BY DEF RowsTyped, RpcIntent, Statuses

\* RpcProcessed keeps the types.
LEMMA RpcProcessedTyped ==
  ASSUME RowsTyped, NEW w \in Workers, NEW e \in Events,
         NEW outcome \in {"processed", "ignored"}, RpcProcessed(w, e, outcome)
  PROVE  RowsTyped'
  BY DEF RowsTyped, RpcProcessed, Statuses

\* RpcFailed keeps the types.
LEMMA RpcFailedTyped ==
  ASSUME RowsTyped, NEW w \in Workers, NEW e \in Events, RpcFailed(w, e)
  PROVE  RowsTyped'
  BY DEF RowsTyped, RpcFailed, Statuses

\* RpcRelease keeps the types.
LEMMA RpcReleaseTyped ==
  ASSUME RowsTyped, NEW w \in Workers, NEW e \in Events, RpcRelease(w, e)
  PROVE  RowsTyped'
  BY DEF RowsTyped, RpcRelease, Statuses

\* RpcRetry keeps the types.
LEMMA RpcRetryTyped ==
  ASSUME RowsTyped, NEW w \in Workers, NEW e \in Events, RpcRetry(w, e)
  PROVE  RowsTyped'
  BY DEF RowsTyped, RpcRetry, Statuses

\* RpcPayload keeps the types.
LEMMA RpcPayloadTyped ==
  ASSUME RowsTyped, WorkersTyped, NEW w \in Workers, NEW e \in Events,
         RpcPayload(w, e)
  PROVE  RowsTyped'
<1>. snap[w][e].corr \in Nat  BY DEF WorkersTyped, Snapshots
<1>. QED  BY DEF RowsTyped, RpcPayload

-----------------------------------------------------------------------------
(* The ways a worker moves keep the types of its state.                    *)

\* Going on to the next event keeps the types.
LEMMA FinishTyped ==
  ASSUME WorkersTyped, NEW w \in Workers, NEW e \in Events, Finish(w, e)
  PROVE  WorkersTyped'
<1>. Blank \in Snapshots  BY DEF Blank, Snapshots
<1>. QED  BY DEF WorkersTyped, Finish, Steps

\* Dropping events from the flight keeps the types.
LEMMA UnwindingTyped ==
  ASSUME WorkersTyped, NEW w \in Workers, NEW rest \in SUBSET Events,
         Unwinding(w, rest)
  PROVE  WorkersTyped'
<1>. Blank \in Snapshots  BY DEF Blank, Snapshots
<1>. QED  BY DEF WorkersTyped, Unwinding, Steps

\* An exception, before or after the send, keeps the types.
LEMMA RaiseTyped ==
  ASSUME TypeOK, NEW w \in Workers, Raise(w) \/ RaiseAfterSend(w)
  PROVE  WorkersTyped' /\ faults' \in 0..MaxFaults
<1>1. PICK rest \in SUBSET Events : Unwinding(w, rest)
  BY DEF TypeOK, WorkersTyped, Raise, RaiseAfterSend
<1>2. WorkersTyped'  BY <1>1, UnwindingTyped DEF TypeOK
<1>3. faults' \in 0..MaxFaults  BY DEF TypeOK, Raise, RaiseAfterSend, Fault
<1>. QED  BY <1>2, <1>3

\* Taking the next step on an event keeps the types.
LEMMA EnterTyped ==
  ASSUME WorkersTyped, NEW w \in Workers, NEW e \in Events, NEW step \in Steps,
         Enter(w, e, step)
  PROVE  WorkersTyped'
  BY DEF WorkersTyped, Enter, Steps

-----------------------------------------------------------------------------
(* Every action keeps the types.                                           *)

\* The initial states are typed.
LEMMA InitTyped == Init => TypeOK
  BY DEF Init, TypeOK, RowsTyped, WorkersTyped, HistoryTyped, Statuses, Steps,
         Blank, Snapshots

\* Ingest keeps the types.
LEMMA IngestTyped == ASSUME TypeOK, NEW e \in Events, Ingest(e) PROVE TypeOK'
  BY DEF Ingest, TypeOK, RowsTyped, WorkersTyped, HistoryTyped, workerVars,
         historyVars, Statuses

\* Sweep keeps the types.
LEMMA SweepTyped == ASSUME TypeOK, NEW w \in Workers, Sweep(w) PROVE TypeOK'
<1>1. RowsTyped'  BY RpcSweepTyped, RowsUnchangedTyped DEF TypeOK, Sweep
<1>2. WorkersTyped'  BY DEF TypeOK, WorkersTyped, Sweep, Steps
<1>. QED  BY <1>1, <1>2 DEF TypeOK, HistoryTyped, Sweep, Fault, historyVars

\* Claim keeps the types.
LEMMA ClaimTyped == ASSUME TypeOK, NEW w \in Workers, Claim(w) PROVE TypeOK'
<1>1. RowsTyped'  BY RpcClaimTyped, RowsUnchangedTyped DEF TypeOK, Claim
<1>2. WorkersTyped'
  <2>1. \A e \in Events : Row(e) \in Snapshots /\ Blank \in Snapshots
    BY DEF TypeOK, RowsTyped, Row, Blank, Snapshots
  <2>2. Oldest(BatchLimit, Claimable) \subseteq Events  BY DEF Oldest, Claimable
  <2>. DEFINE S == Oldest(BatchLimit, Claimable)
  <2>3. snap' \in [Workers -> [Events -> Snapshots]]
    <3>1. CASE snap' = snap  BY <3>1 DEF TypeOK, WorkersTyped
    <3>2. CASE snap' = [snap EXCEPT ![w] =
                          [e \in Events |-> IF e \in S THEN Row(e) ELSE Blank]]
      BY <3>2, <2>1 DEF TypeOK, WorkersTyped
    <3>. QED  BY <3>1, <3>2 DEF Claim
  <2>4. batch' \in [Workers -> SUBSET Events]
    BY <2>2 DEF TypeOK, WorkersTyped, Claim
  <2>. QED  BY <2>3, <2>4 DEF TypeOK, WorkersTyped, Claim, Steps
<1>. QED  BY <1>1, <1>2 DEF TypeOK, HistoryTyped, Claim, Fault, historyVars

\* NotDue keeps the types.
LEMMA NotDueTyped ==
  ASSUME TypeOK, NEW w \in Workers, NEW e \in Events, NotDue(w, e) PROVE TypeOK'
<1>1. RowsTyped'  BY RpcReleaseTyped, RowsUnchangedTyped DEF TypeOK, NotDue
<1>2. WorkersTyped'  BY FinishTyped DEF TypeOK, NotDue
<1>. QED  BY <1>1, <1>2 DEF TypeOK, HistoryTyped, NotDue, Fault, historyVars

\* Ignore keeps the types.
LEMMA IgnoreTyped ==
  ASSUME TypeOK, NEW w \in Workers, NEW e \in Events, Ignore(w, e) PROVE TypeOK'
<1>1. RowsTyped'  BY RpcProcessedTyped, RowsUnchangedTyped DEF TypeOK, Ignore
<1>2. WorkersTyped' /\ faults' \in 0..MaxFaults
  BY FinishTyped, RaiseTyped DEF TypeOK, Ignore
<1>. QED  BY <1>1, <1>2 DEF TypeOK, HistoryTyped, Ignore, historyVars

\* Ambiguous keeps the types.
LEMMA AmbiguousTyped ==
  ASSUME TypeOK, NEW w \in Workers, NEW e \in Events, Ambiguous(w, e)
  PROVE  TypeOK'
<1>1. RowsTyped'  BY RowsUnchangedTyped DEF TypeOK, Ambiguous
<1>2. WorkersTyped'  BY EnterTyped DEF TypeOK, Ambiguous, Steps
<1>. QED  BY <1>1, <1>2 DEF TypeOK, HistoryTyped, Ambiguous, historyVars

\* Uncorrelated keeps the types.
LEMMA UncorrelatedTyped ==
  ASSUME TypeOK, NEW w \in Workers, NEW e \in Events, Uncorrelated(w, e)
  PROVE  TypeOK'
<1>1. RowsTyped'
  BY RpcPayloadTyped, RowsUnchangedTyped DEF TypeOK, Uncorrelated
<1>2. WorkersTyped'  BY EnterTyped DEF TypeOK, Uncorrelated, Steps
<1>3. HistoryTyped'
  BY DEF TypeOK, HistoryTyped, Uncorrelated, Lesser
<1>. QED  BY <1>1, <1>2, <1>3 DEF TypeOK, Uncorrelated, Fault

\* Defer keeps the types.
LEMMA DeferTyped == ASSUME TypeOK, NEW w \in Workers, Defer(w) PROVE TypeOK'
<1>0. cur[w] \in Events  BY DEF TypeOK, WorkersTyped, Defer
<1>1. RowsTyped'  BY <1>0, RpcReleaseTyped, RowsUnchangedTyped DEF TypeOK, Defer
<1>2. WorkersTyped'  BY <1>0, FinishTyped DEF TypeOK, Defer
<1>. QED  BY <1>1, <1>2 DEF TypeOK, HistoryTyped, Defer, Fault, historyVars

\* Check keeps the types.
LEMMA CheckTyped ==
  ASSUME TypeOK, NEW w \in Workers, NEW e \in Events, Check(w, e) PROVE TypeOK'
<1>1. RowsTyped'  BY RowsUnchangedTyped DEF TypeOK, Check
<1>2. WorkersTyped' /\ faults' \in 0..MaxFaults
  BY EnterTyped, RaiseTyped DEF TypeOK, Check, Steps
<1>. QED  BY <1>1, <1>2 DEF TypeOK, HistoryTyped, Check, historyVars

\* Suppress keeps the types.
LEMMA SuppressTyped == ASSUME TypeOK, NEW w \in Workers, Suppress(w) PROVE TypeOK'
<1>0. cur[w] \in Events  BY DEF TypeOK, WorkersTyped, Suppress
<1>1. RowsTyped'
  BY <1>0, RpcProcessedTyped, RowsUnchangedTyped DEF TypeOK, Suppress
<1>2. WorkersTyped' /\ faults' \in 0..MaxFaults
  BY <1>0, FinishTyped, RaiseTyped DEF TypeOK, Suppress
<1>. QED  BY <1>1, <1>2 DEF TypeOK, HistoryTyped, Suppress, historyVars

\* Intend keeps the types.
LEMMA IntendTyped == ASSUME TypeOK, NEW w \in Workers, Intend(w) PROVE TypeOK'
<1>0. cur[w] \in Events  BY DEF TypeOK, WorkersTyped, Intend
<1>1. RowsTyped'  BY <1>0, RpcIntentTyped, RowsUnchangedTyped DEF TypeOK, Intend
<1>2. WorkersTyped' /\ faults' \in 0..MaxFaults
  BY <1>0, EnterTyped, FinishTyped, RaiseTyped DEF TypeOK, Intend, Steps
<1>. QED  BY <1>1, <1>2 DEF TypeOK, HistoryTyped, Intend, historyVars

\* Send keeps the types.
LEMMA SendTyped == ASSUME TypeOK, NEW w \in Workers, Send(w) PROVE TypeOK'
<1>0. cur[w] \in Events  BY DEF TypeOK, WorkersTyped, Send
<1>1. RowsTyped'  BY RowsUnchangedTyped DEF TypeOK, Send
<1>2. WorkersTyped' /\ faults' \in 0..MaxFaults
  BY <1>0, EnterTyped, RaiseTyped DEF TypeOK, Send, Steps
<1>. QED  BY <1>1, <1>2 DEF TypeOK, HistoryTyped, Send

\* WriteLog keeps the types.
LEMMA WriteLogTyped == ASSUME TypeOK, NEW w \in Workers, WriteLog(w) PROVE TypeOK'
<1>0. cur[w] \in Events  BY DEF TypeOK, WorkersTyped, WriteLog
<1>1. RowsTyped'  BY RowsUnchangedTyped DEF TypeOK, WriteLog
<1>2. WorkersTyped' /\ faults' \in 0..MaxFaults
  BY <1>0, EnterTyped, RaiseTyped DEF TypeOK, WriteLog, Steps
<1>. QED  BY <1>1, <1>2 DEF TypeOK, HistoryTyped, WriteLog, historyVars

\* Complete keeps the types.
LEMMA CompleteTyped == ASSUME TypeOK, NEW w \in Workers, Complete(w) PROVE TypeOK'
<1>0. cur[w] \in Events  BY DEF TypeOK, WorkersTyped, Complete
<1>1. RowsTyped'
  BY <1>0, RpcProcessedTyped, RowsUnchangedTyped DEF TypeOK, Complete
<1>2. WorkersTyped' /\ faults' \in 0..MaxFaults
  BY <1>0, FinishTyped, RaiseTyped DEF TypeOK, Complete
<1>. QED  BY <1>1, <1>2 DEF TypeOK, HistoryTyped, Complete, historyVars

\* Retry keeps the types.
LEMMA RetryTyped == ASSUME TypeOK, NEW w \in Workers, Retry(w) PROVE TypeOK'
<1>0. cur[w] \in Events  BY DEF TypeOK, WorkersTyped, Retry
<1>1. RowsTyped'  BY <1>0, RpcRetryTyped, RowsUnchangedTyped DEF TypeOK, Retry
<1>2. WorkersTyped' /\ faults' \in 0..MaxFaults
  BY <1>0, FinishTyped, RaiseTyped DEF TypeOK, Retry
<1>3. HistoryTyped'  BY <1>0, Zenon DEF TypeOK, HistoryTyped, Retry
<1>. QED  BY <1>1, <1>2, <1>3 DEF TypeOK, Retry

\* Fail keeps the types.
LEMMA FailTyped == ASSUME TypeOK, NEW w \in Workers, Fail(w) PROVE TypeOK'
<1>0. cur[w] \in Events  BY DEF TypeOK, WorkersTyped, Fail
<1>1. RowsTyped'  BY <1>0, RpcFailedTyped, RowsUnchangedTyped DEF TypeOK, Fail
<1>2. WorkersTyped' /\ faults' \in 0..MaxFaults
  BY <1>0, FinishTyped, RaiseTyped DEF TypeOK, Fail
<1>. QED  BY <1>1, <1>2 DEF TypeOK, HistoryTyped, Fail, historyVars

\* Unwind keeps the types.
LEMMA UnwindTyped == ASSUME TypeOK, NEW w \in Workers, Unwind(w) PROVE TypeOK'
<1>0. PICK e \in batch[w] : /\ RpcRelease(w, e) \/ UNCHANGED rowVars
                            /\ Unwinding(w, batch[w] \ {e})
  BY DEF Unwind
<1>1. e \in Events /\ batch[w] \in SUBSET Events  BY DEF TypeOK, WorkersTyped
<1>2. RowsTyped'  BY <1>0, <1>1, RpcReleaseTyped, RowsUnchangedTyped DEF TypeOK
<1>3. WorkersTyped'  BY <1>0, <1>1, UnwindingTyped DEF TypeOK
<1>. QED  BY <1>2, <1>3 DEF TypeOK, HistoryTyped, Unwind, Fault, historyVars

\* Stops and crashes keep the types.
LEMMA StopTyped ==
  ASSUME TypeOK, NEW w \in Workers, Stop(w) \/ Crash(w) PROVE TypeOK'
<1>1. RowsTyped'  BY RowsUnchangedTyped DEF TypeOK, Stop, Crash
<1>2. WorkersTyped'
  BY UnwindingTyped DEF TypeOK, Stop, Crash, WorkersTyped
<1>. QED  BY <1>1, <1>2 DEF TypeOK, HistoryTyped, Stop, Crash, Fault, historyVars

\* The passing of time keeps the types.
LEMMA TickTyped == TypeOK /\ Tick => TypeOK'
<1>. SUFFICES ASSUME TypeOK, Tick PROVE TypeOK'  OBVIOUS
<1>1. RowsTyped'  BY DEF TypeOK, RowsTyped, Tick, Countdown
<1>2. ASSUME NEW r \in Snapshots
      PROVE  [r EXCEPT !.backoff = Countdown(@, 0)] \in Snapshots
  BY DEF Snapshots, Countdown
<1>3. snap' \in [Workers -> [Events -> Snapshots]]
  BY <1>2 DEF TypeOK, WorkersTyped, Tick
<1>4. WorkersTyped'  BY <1>3 DEF TypeOK, WorkersTyped, Tick
<1>. QED  BY <1>1, <1>4 DEF TypeOK, HistoryTyped, Tick, historyVars

\* Every step, and every stutter, keeps the types.
LEMMA StepTyped == TypeOK /\ [Next]_vars => TypeOK'
<1>. SUFFICES ASSUME TypeOK, [Next]_vars PROVE TypeOK'  OBVIOUS
<1>1. ASSUME NEW e \in Events, Ingest(e) PROVE TypeOK'  BY <1>1, IngestTyped
<1>2. ASSUME NEW w \in Workers, WorkerStep(w) PROVE TypeOK'
  BY <1>2, SweepTyped, ClaimTyped, DeferTyped, SuppressTyped, IntendTyped,
     SendTyped, WriteLogTyped, CompleteTyped, RetryTyped, FailTyped, UnwindTyped,
     NotDueTyped, IgnoreTyped, AmbiguousTyped, UncorrelatedTyped, CheckTyped
     DEF WorkerStep
<1>3. ASSUME NEW w \in Workers, Stop(w) \/ Crash(w) PROVE TypeOK'
  BY <1>3, StopTyped
<1>4. CASE Tick  BY <1>4, TickTyped
<1>5. CASE UNCHANGED vars
  BY <1>5 DEF vars, rowVars, workerVars, historyVars, TypeOK, RowsTyped,
              WorkersTyped, HistoryTyped
<1>. QED  BY <1>1, <1>2, <1>3, <1>4, <1>5 DEF Next

\* Whatever the number of events and workers and the lengths of the leases, the
\* rows keep to the table's constraint and a worker that processes has an event.
THEOREM TypeCorrect == Spec => []TypeOK
  BY InitTyped, StepTyped, PTL DEF Spec

-----------------------------------------------------------------------------
(* Part 2.  Safe is an inductive invariant.  Each step of a worker w is    *)
(* split in three: what it does to the rows that other workers dispatch    *)
(* (RowsFrame: it can only sweep them), what it does to the histories      *)
(* (HistoryFrame) and what it does to w itself.                            *)

Dispatched == {"dispatching", "quarantined", "processed"}

\* Of the rows that w does not own, those not waiting for a dispatch are at
\* most swept; and a row gets no new owner but w, who takes waiting rows only.
RowsFrame(w) ==
  \A e \in Events :
    /\ owner[e] # w /\ status[e] \in Dispatched =>
         /\ owner'[e] = owner[e]
         /\ status'[e] \in Dispatched
    /\ owner'[e] \in {w, NoWorker, owner[e]}

\* w obtains no row.
NothingGained(w) == \A e \in Events : owner'[e] = w => owner[e] = w

WorkersFrame(w) ==
  \A v \in Workers \ {w} : pc'[v] = pc[v] /\ cur'[v] = cur[v] /\ batch'[v] = batch[v]

\* Evidence is never withdrawn, and only the owner sees an acceptance.
HistoryFrame(w) ==
  \A e \in Events : /\ acked[e] => acked'[e]
                    /\ log[e] => log'[e]
                    /\ acked'[e] /\ ~acked[e] => owner[e] = w

-----------------------------------------------------------------------------
(* What w does leaves every other worker's invariant intact.               *)

\* A step of w within its frames keeps the other workers' invariants.
LEMMA OthersSafe ==
  ASSUME TypeOK, Safe, NEW w \in Workers,
         RowsFrame(w), WorkersFrame(w), HistoryFrame(w)
  PROVE  \A v \in Workers \ {w} : WorkerSafe(v)'
<1>. SUFFICES ASSUME NEW v \in Workers, v # w PROVE WorkerSafe(v)'  OBVIOUS
<1>0. WorkerSafe(v) /\ pc'[v] = pc[v] /\ cur'[v] = cur[v] /\ batch'[v] = batch[v]
  BY DEF Safe, WorkersFrame
<1>1. \A e \in Events : InDispatch(v, e)' =>
        owner'[e] = v /\ status'[e] \in {"dispatching", "quarantined", "processed"}
  BY <1>0 DEF WorkerSafe, InDispatch, RowsFrame, Dispatched
<1>2. \A e \in batch'[v] :
        owner'[e] = v /\ acked'[e] => cur'[v] = e /\ pc'[v] \in {"acked", "logged"}
  <2>. SUFFICES ASSUME NEW e \in batch[v], owner'[e] = v, acked'[e]
                PROVE  cur[v] = e /\ pc[v] \in {"acked", "logged"}
    BY <1>0
  <2>1. e \in Events /\ v # NoWorker  BY DEF TypeOK, WorkersTyped
  <2>2. owner[e] = v  BY <2>1 DEF RowsFrame
  <2>3. acked[e]  BY <2>1, <2>2 DEF HistoryFrame
  <2>. QED  BY <1>0, <2>2, <2>3 DEF WorkerSafe
<1>3. pc[v] \in Working => cur[v] \in Events
  BY <1>0 DEF TypeOK, WorkersTyped, WorkerSafe
<1>4. /\ pc'[v] \in {"acked", "logged"} => acked'[cur'[v]]
      /\ pc'[v] \in {"logged", "suppress"} => log'[cur'[v]]
  BY <1>0, <1>3 DEF WorkerSafe, HistoryFrame, Working, Steps
<1>. QED  BY <1>0, <1>1, <1>2, <1>4 DEF WorkerSafe

-----------------------------------------------------------------------------
(* The SQL functions: what they leave of the rows.                         *)

\* Rows that stand still are within the frame.
LEMMA UnchangedFrame ==
  ASSUME TypeOK, NEW w \in Workers, UNCHANGED rowVars
  PROVE  RowsFrame(w) /\ NothingGained(w)
  BY DEF RowsFrame, NothingGained, rowVars

\* RpcSweep stays within the frame of its worker.
LEMMA RpcSweepFrame ==
  ASSUME TypeOK, NEW w \in Workers, RpcSweep
  PROVE  RowsFrame(w) /\ NothingGained(w)
  BY DEF TypeOK, RowsTyped, RowsFrame, NothingGained, RpcSweep, AfterSweep, Dispatched

\* RpcClaim stays within the frame of its worker.
LEMMA RpcClaimFrame ==
  ASSUME TypeOK, NEW w \in Workers, RpcClaim(w) PROVE RowsFrame(w)
  BY DEF TypeOK, RowsTyped, RowsFrame, RpcClaim, AfterSweep, Oldest, Claimable,
         Dispatched

\* RpcIntent stays within the frame of its worker.
LEMMA RpcIntentFrame ==
  ASSUME TypeOK, NEW w \in Workers, NEW e \in Events, RpcIntent(w, e)
  PROVE  RowsFrame(w) /\ NothingGained(w)
  BY DEF TypeOK, RowsTyped, RowsFrame, NothingGained, RpcIntent, MayIntend, Dispatched

\* RpcProcessed stays within the frame of its worker.
LEMMA RpcProcessedFrame ==
  ASSUME TypeOK, NEW w \in Workers, NEW e \in Events, NEW outcome,
         RpcProcessed(w, e, outcome)
  PROVE  RowsFrame(w) /\ NothingGained(w)
  BY DEF TypeOK, RowsTyped, RowsFrame, NothingGained, RpcProcessed, MayFinish, Dispatched

\* RpcFailed stays within the frame of its worker.
LEMMA RpcFailedFrame ==
  ASSUME TypeOK, NEW w \in Workers, NEW e \in Events, RpcFailed(w, e)
  PROVE  RowsFrame(w) /\ NothingGained(w)
  BY DEF TypeOK, RowsTyped, RowsFrame, NothingGained, RpcFailed, MayFinish, Dispatched

\* RpcRelease stays within the frame of its worker.
LEMMA RpcReleaseFrame ==
  ASSUME TypeOK, NEW w \in Workers, NEW e \in Events, RpcRelease(w, e)
  PROVE  RowsFrame(w) /\ NothingGained(w)
  BY DEF TypeOK, RowsTyped, RowsFrame, NothingGained, RpcRelease, Dispatched

\* RpcRetry stays within the frame of its worker.
LEMMA RpcRetryFrame ==
  ASSUME TypeOK, NEW w \in Workers, NEW e \in Events, RpcRetry(w, e)
  PROVE  RowsFrame(w) /\ NothingGained(w)
  BY DEF TypeOK, RowsTyped, RowsFrame, NothingGained, RpcRetry, MayFinish, Dispatched

\* RpcPayload stays within the frame of its worker.
LEMMA RpcPayloadFrame ==
  ASSUME TypeOK, NEW w \in Workers, NEW e \in Events, RpcPayload(w, e)
  PROVE  RowsFrame(w) /\ NothingGained(w)
  BY DEF TypeOK, RowsTyped, RowsFrame, NothingGained, RpcPayload, Dispatched

-----------------------------------------------------------------------------
(* The SQL functions: they keep RowSafe while acked and log stand still.   *)

AllRowsSafe == \A e \in Events : RowSafe(e)

\* Rows that stand still stay safe.
LEMMA UnchangedRowSafe ==
  ASSUME AllRowsSafe, UNCHANGED <<rowVars, log, acked>> PROVE AllRowsSafe'
  BY DEF AllRowsSafe, RowSafe, rowVars

\* RpcSweep keeps the rows safe.
LEMMA RpcSweepRowSafe ==
  ASSUME TypeOK, AllRowsSafe, RpcSweep, UNCHANGED <<log, acked>>
  PROVE  AllRowsSafe'
<1>. SUFFICES ASSUME NEW e \in Events PROVE RowSafe(e)'  BY DEF AllRowsSafe
<1>1. \/ status'[e] = status[e]
      \/ status[e] = "dispatching" /\ status'[e] = AfterSweep(e)
  BY DEF TypeOK, RowsTyped, RpcSweep, SweptSets, ExpiredIntents
<1>2. attempts'[e] = attempts[e]  BY DEF RpcSweep
<1>. QED  BY <1>1, <1>2 DEF AllRowsSafe, RowSafe, AfterSweep

\* RpcClaim keeps the rows safe.
LEMMA RpcClaimRowSafe ==
  ASSUME TypeOK, AllRowsSafe, NEW w \in Workers, RpcClaim(w),
         UNCHANGED <<log, acked>>
  PROVE  AllRowsSafe'
<1>. SUFFICES ASSUME NEW e \in Events PROVE RowSafe(e)'  BY DEF AllRowsSafe
<1>1. \/ status'[e] = status[e]
      \/ status[e] = "dispatching" /\ status'[e] = AfterSweep(e)
      \/ status[e] \in {"received", "queued"} /\ status'[e] = "queued"
  BY DEF TypeOK, RowsTyped, RpcClaim, SweptSets, ExpiredIntents, Oldest, Claimable
<1>2. attempts'[e] = attempts[e]  BY DEF RpcClaim
<1>. QED  BY <1>1, <1>2 DEF AllRowsSafe, RowSafe, AfterSweep

\* RpcIntent keeps the rows safe.
LEMMA RpcIntentRowSafe ==
  ASSUME TypeOK, AllRowsSafe, NEW w \in Workers, NEW e \in Events,
         RpcIntent(w, e), UNCHANGED <<log, acked>>
  PROVE  AllRowsSafe'
<1>. SUFFICES ASSUME NEW f \in Events PROVE RowSafe(f)'  BY DEF AllRowsSafe
<1>0. RowSafe(f) /\ attempts[f] \in Nat  BY DEF AllRowsSafe, TypeOK, RowsTyped
<1>1. CASE f = e /\ MayIntend(w, e)
  <2>1. status[f] = "queued"  BY <1>1 DEF MayIntend
  <2>2. status'[f] = "dispatching" /\ attempts'[f] = attempts[f] + 1
    BY <1>1 DEF RpcIntent, TypeOK, RowsTyped
  <2>. QED  BY <1>0, <2>1, <2>2 DEF RowSafe
<1>2. CASE ~(f = e /\ MayIntend(w, e))
  <2>1. status'[f] = status[f] /\ attempts'[f] = attempts[f]
    BY <1>2 DEF RpcIntent, TypeOK, RowsTyped
  <2>. QED  BY <1>0, <2>1 DEF RowSafe
<1>. QED  BY <1>1, <1>2

\* RpcProcessed keeps the rows safe.
LEMMA RpcProcessedRowSafe ==
  ASSUME TypeOK, AllRowsSafe, NEW w \in Workers, NEW e \in Events,
         RpcProcessed(w, e, "processed"), log[e], UNCHANGED <<log, acked>>
  PROVE  AllRowsSafe'
  BY DEF TypeOK, RowsTyped, AllRowsSafe, RowSafe, RpcProcessed, MayFinish

\* RpcIgnored keeps the rows safe.
LEMMA RpcIgnoredRowSafe ==
  ASSUME TypeOK, AllRowsSafe, NEW w \in Workers, NEW e \in Events,
         RpcProcessed(w, e, "ignored"), owner[e] = w => ~acked[e],
         UNCHANGED <<log, acked>>
  PROVE  AllRowsSafe'
  BY DEF TypeOK, RowsTyped, AllRowsSafe, RowSafe, RpcProcessed, MayFinish

\* RpcFailed keeps the rows safe.
LEMMA RpcFailedRowSafe ==
  ASSUME TypeOK, AllRowsSafe, NEW w \in Workers, NEW e \in Events,
         RpcFailed(w, e), owner[e] = w => ~acked[e], UNCHANGED <<log, acked>>
  PROVE  AllRowsSafe'
  BY DEF TypeOK, RowsTyped, AllRowsSafe, RowSafe, RpcFailed, MayFinish

\* RpcRelease keeps the rows safe.
LEMMA RpcReleaseRowSafe ==
  ASSUME TypeOK, AllRowsSafe, NEW w \in Workers, NEW e \in Events,
         RpcRelease(w, e), UNCHANGED <<log, acked>>
  PROVE  AllRowsSafe'
  BY DEF TypeOK, RowsTyped, AllRowsSafe, RowSafe, RpcRelease

\* RpcRetry keeps the rows safe.
LEMMA RpcRetryRowSafe ==
  ASSUME TypeOK, AllRowsSafe, NEW w \in Workers, NEW e \in Events,
         RpcRetry(w, e), owner[e] = w => ~acked[e], UNCHANGED <<log, acked>>
  PROVE  AllRowsSafe'
<1>. SUFFICES ASSUME NEW f \in Events PROVE RowSafe(f)'  BY DEF AllRowsSafe
<1>0. RowSafe(f) /\ attempts[f] \in Nat /\ attempts'[f] = attempts[f]
  BY DEF AllRowsSafe, TypeOK, RowsTyped, RpcRetry
<1>1. CASE f = e /\ MayFinish(w, e)
  <2>1. ~acked[f] /\ ~log[f]  BY <1>0, <1>1 DEF MayFinish, RowSafe
  <2>2. status'[f] = IF Exhausted(f) THEN "failed" ELSE "received"
    BY <1>1 DEF RpcRetry, TypeOK, RowsTyped
  <2>. QED  BY <1>0, <2>1, <2>2 DEF RowSafe, Exhausted
<1>2. CASE ~(f = e /\ MayFinish(w, e))
  <2>1. status'[f] = status[f]  BY <1>2 DEF RpcRetry, TypeOK, RowsTyped
  <2>. QED  BY <1>0, <2>1 DEF RowSafe
<1>. QED  BY <1>1, <1>2

\* RpcPayload keeps the rows safe.
LEMMA RpcPayloadRowSafe ==
  ASSUME TypeOK, AllRowsSafe, NEW w \in Workers, NEW e \in Events,
         RpcPayload(w, e), UNCHANGED <<log, acked>>
  PROVE  AllRowsSafe'
  BY DEF AllRowsSafe, RowSafe, RpcPayload

-----------------------------------------------------------------------------
(* The ways a worker moves: what is left of its invariant.                 *)

\* Going on to the next event keeps the invariant of w.
LEMMA FinishSafe ==
  ASSUME TypeOK, Safe, NEW w \in Workers, NEW e \in Events, Finish(w, e),
         NothingGained(w), UNCHANGED acked,
         \/ pc[w] = "batch"
         \/ cur[w] = e /\ pc[w] # "unwind"
  PROVE  WorkerSafe(w)' /\ WorkersFrame(w)
<1>1. /\ pc'[w] = IF batch[w] \ {e} = {} THEN "idle" ELSE "batch"
      /\ batch'[w] = batch[w] \ {e}
  BY DEF Finish, TypeOK, WorkersTyped
<1>2. WorkersFrame(w)  BY DEF WorkersFrame, Finish, TypeOK, WorkersTyped
<1>3. \A f \in batch'[w] : ~(owner'[f] = w /\ acked'[f])
  <2>. SUFFICES ASSUME NEW f \in batch[w], f # e, owner'[f] = w, acked[f]
                PROVE  FALSE
    BY <1>1
  <2>1. f \in Events  BY DEF TypeOK, WorkersTyped
  <2>2. owner[f] = w  BY <2>1 DEF NothingGained
  <2>3. cur[w] = f /\ pc[w] \in {"acked", "logged"}
    BY <2>2 DEF Safe, WorkerSafe
  <2>. QED  BY <2>3
<1>. QED  BY <1>1, <1>2, <1>3 DEF WorkerSafe, InDispatch, Working

\* Dropping events from the flight keeps the invariant of w.
LEMMA UnwindingSafe ==
  ASSUME TypeOK, Safe, NEW w \in Workers, NEW rest \in SUBSET batch[w],
         Unwinding(w, rest), NothingGained(w), UNCHANGED acked,
         pc[w] \in {"acked", "logged"} => cur[w] \notin rest
  PROVE  WorkerSafe(w)' /\ WorkersFrame(w)
<1>1. /\ pc'[w] = IF rest = {} THEN "idle" ELSE "unwind"
      /\ batch'[w] = rest
  BY DEF Unwinding, TypeOK, WorkersTyped
<1>2. WorkersFrame(w)  BY DEF WorkersFrame, Unwinding, TypeOK, WorkersTyped
<1>3. \A f \in batch'[w] : ~(owner'[f] = w /\ acked'[f])
  <2>. SUFFICES ASSUME NEW f \in rest, owner'[f] = w, acked[f] PROVE FALSE
    BY <1>1
  <2>1. f \in Events  BY DEF TypeOK, WorkersTyped
  <2>2. owner[f] = w  BY <2>1 DEF NothingGained
  <2>3. cur[w] = f /\ pc[w] \in {"acked", "logged"}
    BY <2>2 DEF Safe, WorkerSafe
  <2>. QED  BY <2>3
<1>. QED  BY <1>1, <1>2, <1>3 DEF WorkerSafe, InDispatch, Working

\* An exception, before or after the send, keeps the invariant of w.
LEMMA RaiseSafe ==
  ASSUME TypeOK, Safe, NEW w \in Workers, NothingGained(w), UNCHANGED acked,
         \/ Raise(w) /\ pc[w] \notin {"acked", "logged"}
         \/ RaiseAfterSend(w)
  PROVE  WorkerSafe(w)' /\ WorkersFrame(w)
<1>1. CASE Raise(w) /\ pc[w] \notin {"acked", "logged"}
  BY <1>1, UnwindingSafe DEF Raise
<1>2. CASE RaiseAfterSend(w)
  <2>1. batch[w] \ {cur[w]} \in SUBSET batch[w]  OBVIOUS
  <2>. QED  BY <1>2, <2>1, UnwindingSafe DEF RaiseAfterSend
<1>. QED  BY <1>1, <1>2

\* Entering a step that dispatches nothing.
LEMMA EnterSafe ==
  ASSUME TypeOK, Safe, NEW w \in Workers, NEW e \in batch[w],
         NEW step \in {"ready", "suppress", "rejected", "deferring"},
         Enter(w, e, step), NothingGained(w), UNCHANGED acked,
         pc[w] \notin {"acked", "logged"}, step = "suppress" => log'[e]
  PROVE  WorkerSafe(w)' /\ WorkersFrame(w)
<1>1. pc'[w] = step /\ cur'[w] = e /\ batch'[w] = batch[w]
  BY DEF Enter, TypeOK, WorkersTyped
<1>2. WorkersFrame(w)  BY DEF WorkersFrame, Enter, TypeOK, WorkersTyped
<1>3. \A f \in batch'[w] : ~(owner'[f] = w /\ acked'[f])
  <2>. SUFFICES ASSUME NEW f \in batch[w], owner'[f] = w, acked[f] PROVE FALSE
    BY <1>1
  <2>1. f \in Events  BY DEF TypeOK, WorkersTyped
  <2>2. owner[f] = w  BY <2>1 DEF NothingGained
  <2>. QED  BY <2>2 DEF Safe, WorkerSafe
<1>. QED  BY <1>1, <1>2, <1>3 DEF WorkerSafe, InDispatch

\* Histories that stand still are within the frame.
LEMMA NoNewEvidence ==
  ASSUME NEW w \in Workers, UNCHANGED <<acked, log>> PROVE HistoryFrame(w)
  BY DEF HistoryFrame

\* What remains to be shown of a step of w.
LEMMA Assemble ==
  ASSUME TypeOK, Safe, NEW w \in Workers, RowsFrame(w), WorkersFrame(w),
         HistoryFrame(w), WorkerSafe(w)', AllRowsSafe'
  PROVE  Safe'
  BY OthersSafe DEF Safe, AllRowsSafe

-----------------------------------------------------------------------------
(* Every action keeps Safe.                                                *)

\* The initial states satisfy the invariant.
LEMMA InitSafe == Init => Safe
  BY DEF Init, Safe, WorkerSafe, RowSafe, InDispatch, Working, Steps

\* Ingest keeps the invariant.
LEMMA IngestSafe ==
  ASSUME TypeOK, Safe, NEW e \in Events, Ingest(e) PROVE Safe'
<1>1. ASSUME NEW w \in Workers PROVE WorkerSafe(w)'
  BY DEF TypeOK, RowsTyped, Ingest, Safe, WorkerSafe, InDispatch, workerVars,
         historyVars
<1>2. ASSUME NEW f \in Events PROVE RowSafe(f)'
  BY DEF TypeOK, RowsTyped, Ingest, Safe, RowSafe, historyVars
<1>. QED  BY <1>1, <1>2 DEF Safe

\* Sweep keeps the invariant.
LEMMA SweepSafe == ASSUME TypeOK, Safe, NEW w \in Workers, Sweep(w) PROVE Safe'
<1>1. RowsFrame(w) /\ NothingGained(w)
  BY RpcSweepFrame, UnchangedFrame DEF Sweep
<1>2. AllRowsSafe'
  BY RpcSweepRowSafe, UnchangedRowSafe DEF Sweep, Safe, AllRowsSafe, historyVars
<1>3. HistoryFrame(w)  BY NoNewEvidence DEF Sweep, historyVars
<1>4. WorkersFrame(w)  BY DEF WorkersFrame, Sweep, TypeOK, WorkersTyped
<1>5. WorkerSafe(w)'
  BY DEF Safe, WorkerSafe, Sweep, TypeOK, WorkersTyped, InDispatch, Working
<1>. QED  BY <1>1, <1>2, <1>3, <1>4, <1>5, Assemble

\* Claim keeps the invariant.
LEMMA ClaimSafe == ASSUME TypeOK, Safe, NEW w \in Workers, Claim(w) PROVE Safe'
<1>1. RowsFrame(w)  BY RpcClaimFrame, UnchangedFrame DEF Claim
<1>2. AllRowsSafe'
  BY RpcClaimRowSafe, UnchangedRowSafe DEF Claim, Safe, AllRowsSafe, historyVars
<1>3. HistoryFrame(w)  BY NoNewEvidence DEF Claim, historyVars
<1>4. WorkersFrame(w)  BY DEF WorkersFrame, Claim, TypeOK, WorkersTyped
<1>5. WorkerSafe(w)'
  <2>. DEFINE S == Oldest(BatchLimit, Claimable)
  <2>1. \A e \in S : e \in Events /\ ~acked[e]
    BY DEF Oldest, Claimable, Safe, RowSafe
  <2>2. batch[w] = {}  BY DEF Safe, WorkerSafe, Claim
  <2>3. \/ batch'[w] = S /\ pc'[w] = IF S = {} THEN "idle" ELSE "batch"
        \/ batch'[w] = {} /\ pc'[w] \in {"idle", "swept"}
    BY <2>2 DEF Claim, TypeOK, WorkersTyped
  <2>. QED  BY <2>1, <2>3 DEF WorkerSafe, InDispatch, Working, Claim, historyVars
<1>. QED  BY <1>1, <1>2, <1>3, <1>4, <1>5, Assemble

\* NotDue keeps the invariant.
LEMMA NotDueSafe ==
  ASSUME TypeOK, Safe, NEW w \in Workers, NEW e \in Events, NotDue(w, e)
  PROVE  Safe'
<1>1. RowsFrame(w) /\ NothingGained(w)
  BY RpcReleaseFrame, UnchangedFrame DEF NotDue
<1>2. AllRowsSafe'
  BY RpcReleaseRowSafe, UnchangedRowSafe DEF NotDue, Safe, AllRowsSafe, historyVars
<1>3. HistoryFrame(w)  BY NoNewEvidence DEF NotDue, historyVars
<1>4. WorkerSafe(w)' /\ WorkersFrame(w)
  BY <1>1, FinishSafe DEF NotDue, historyVars
<1>. QED  BY <1>1, <1>2, <1>3, <1>4, Assemble

\* Ignore keeps the invariant.
LEMMA IgnoreSafe ==
  ASSUME TypeOK, Safe, NEW w \in Workers, NEW e \in Events, Ignore(w, e)
  PROVE  Safe'
<1>0. owner[e] = w => ~acked[e]  BY DEF Ignore, Takes, Safe, WorkerSafe
<1>1. RowsFrame(w) /\ NothingGained(w)
  BY RpcProcessedFrame, UnchangedFrame DEF Ignore
<1>2. AllRowsSafe'
  BY <1>0, RpcIgnoredRowSafe, UnchangedRowSafe
     DEF Ignore, Safe, AllRowsSafe, historyVars
<1>3. HistoryFrame(w)  BY NoNewEvidence DEF Ignore, historyVars
<1>4. WorkerSafe(w)' /\ WorkersFrame(w)
  BY <1>1, FinishSafe, RaiseSafe DEF Ignore, Takes, historyVars
<1>. QED  BY <1>1, <1>2, <1>3, <1>4, Assemble

\* Ambiguous keeps the invariant.
LEMMA AmbiguousSafe ==
  ASSUME TypeOK, Safe, NEW w \in Workers, NEW e \in Events, Ambiguous(w, e)
  PROVE  Safe'
<1>1. RowsFrame(w) /\ NothingGained(w)  BY UnchangedFrame DEF Ambiguous
<1>2. AllRowsSafe'
  BY UnchangedRowSafe DEF Ambiguous, Safe, AllRowsSafe, historyVars
<1>3. HistoryFrame(w)  BY NoNewEvidence DEF Ambiguous, historyVars
<1>4. WorkerSafe(w)' /\ WorkersFrame(w)
  BY <1>1, EnterSafe DEF Ambiguous, Takes, historyVars
<1>. QED  BY <1>1, <1>2, <1>3, <1>4, Assemble

\* Uncorrelated keeps the invariant.
LEMMA UncorrelatedSafe ==
  ASSUME TypeOK, Safe, NEW w \in Workers, NEW e \in Events, Uncorrelated(w, e)
  PROVE  Safe'
<1>1. RowsFrame(w) /\ NothingGained(w)
  BY RpcPayloadFrame, UnchangedFrame DEF Uncorrelated
<1>2. AllRowsSafe'
  BY RpcPayloadRowSafe, UnchangedRowSafe DEF Uncorrelated, Safe, AllRowsSafe
<1>3. HistoryFrame(w)  BY NoNewEvidence DEF Uncorrelated
<1>4. WorkerSafe(w)' /\ WorkersFrame(w)
  <2>1. Enter(w, e, "deferring") \/ Enter(w, e, "rejected")  BY DEF Uncorrelated
  <2>. QED  BY <1>1, <2>1, EnterSafe DEF Uncorrelated, Takes
<1>. QED  BY <1>1, <1>2, <1>3, <1>4, Assemble

\* Defer keeps the invariant.
LEMMA DeferSafe == ASSUME TypeOK, Safe, NEW w \in Workers, Defer(w) PROVE Safe'
<1>0. cur[w] \in Events  BY DEF TypeOK, WorkersTyped, Defer
<1>1. RowsFrame(w) /\ NothingGained(w)
  BY <1>0, RpcReleaseFrame, UnchangedFrame DEF Defer
<1>2. AllRowsSafe'
  BY <1>0, RpcReleaseRowSafe, UnchangedRowSafe
     DEF Defer, Safe, AllRowsSafe, historyVars
<1>3. HistoryFrame(w)  BY NoNewEvidence DEF Defer, historyVars
<1>4. WorkerSafe(w)' /\ WorkersFrame(w)
  BY <1>0, <1>1, FinishSafe DEF Defer, historyVars
<1>. QED  BY <1>1, <1>2, <1>3, <1>4, Assemble

\* Check keeps the invariant.
LEMMA CheckSafe ==
  ASSUME TypeOK, Safe, NEW w \in Workers, NEW e \in Events, Check(w, e)
  PROVE  Safe'
<1>1. RowsFrame(w) /\ NothingGained(w)  BY UnchangedFrame DEF Check
<1>2. AllRowsSafe'
  BY UnchangedRowSafe DEF Check, Safe, AllRowsSafe, historyVars
<1>3. HistoryFrame(w)  BY NoNewEvidence DEF Check, historyVars
<1>4. WorkerSafe(w)' /\ WorkersFrame(w)
  BY <1>1, EnterSafe, RaiseSafe DEF Check, Takes, historyVars
<1>. QED  BY <1>1, <1>2, <1>3, <1>4, Assemble

\* Suppress keeps the invariant.
LEMMA SuppressSafe ==
  ASSUME TypeOK, Safe, NEW w \in Workers, Suppress(w) PROVE Safe'
<1>0. cur[w] \in Events /\ log[cur[w]]
  BY DEF TypeOK, WorkersTyped, Suppress, Safe, WorkerSafe
<1>1. RowsFrame(w) /\ NothingGained(w)
  BY <1>0, RpcProcessedFrame, UnchangedFrame DEF Suppress
<1>2. AllRowsSafe'
  BY <1>0, RpcProcessedRowSafe, UnchangedRowSafe
     DEF Suppress, Safe, AllRowsSafe, historyVars
<1>3. HistoryFrame(w)  BY NoNewEvidence DEF Suppress, historyVars
<1>4. WorkerSafe(w)' /\ WorkersFrame(w)
  BY <1>0, <1>1, FinishSafe, RaiseSafe DEF Suppress, historyVars
<1>. QED  BY <1>1, <1>2, <1>3, <1>4, Assemble

\* The one step after which a worker is dispatching: it saw its own live claim.
LEMMA IntendSafe == ASSUME TypeOK, Safe, NEW w \in Workers, Intend(w) PROVE Safe'
<1>. DEFINE e == cur[w]
<1>0. e \in Events /\ e \in batch[w]
  BY DEF TypeOK, WorkersTyped, Intend, Safe, WorkerSafe, Working, Steps
<1>1. RowsFrame(w) /\ NothingGained(w)
  BY <1>0, RpcIntentFrame, UnchangedFrame DEF Intend
<1>2. AllRowsSafe'
  BY <1>0, RpcIntentRowSafe, UnchangedRowSafe
     DEF Intend, Safe, AllRowsSafe, historyVars
<1>3. HistoryFrame(w)  BY NoNewEvidence DEF Intend, historyVars
<1>4. WorkerSafe(w)' /\ WorkersFrame(w)
  <2>1. CASE Finish(w, e)  BY <2>1, <1>0, <1>1, FinishSafe DEF Intend, historyVars
  <2>2. CASE Raise(w)  BY <2>2, <1>1, RaiseSafe DEF Intend, historyVars
  <2>3. CASE MayIntend(w, e) /\ RpcIntent(w, e) /\ Enter(w, e, "sending")
    <3>1. pc'[w] = "sending" /\ cur'[w] = e /\ batch'[w] = batch[w]
      BY <2>3 DEF Enter, TypeOK, WorkersTyped
    <3>2. WorkersFrame(w)
      BY <2>3 DEF WorkersFrame, Enter, TypeOK, WorkersTyped
    <3>3. owner'[e] = w /\ status'[e] = "dispatching"
      BY <1>0, <2>3 DEF MayIntend, RpcIntent, TypeOK, RowsTyped
    <3>4. \A f \in batch[w] : ~(owner'[f] = w /\ acked'[f])
      <4>. SUFFICES ASSUME NEW f \in batch[w], owner'[f] = w, acked[f] PROVE FALSE
        BY DEF Intend, historyVars
      <4>1. owner[f] = w  BY <2>3 DEF RpcIntent
      <4>. QED  BY <4>1 DEF Safe, WorkerSafe, Intend
    <3>. QED  BY <1>0, <3>1, <3>2, <3>3, <3>4 DEF WorkerSafe, InDispatch
  <2>. QED  BY <2>1, <2>2, <2>3 DEF Intend
<1>. QED  BY <1>1, <1>2, <1>3, <1>4, Assemble

\* What a worker is processing is an event it has in flight.
LEMMA CurInFlight ==
  ASSUME TypeOK, Safe, NEW w \in Workers, pc[w] \in Working
  PROVE  cur[w] \in Events /\ cur[w] \in batch[w]
<1>1. cur[w] \in batch[w]  BY DEF Safe, WorkerSafe
<1>2. batch[w] \subseteq Events  BY DEF TypeOK, WorkersTyped
<1>. QED  BY <1>1, <1>2

\* Telegram's answer: the acceptance, if it comes, is seen by the row's owner.
LEMMA SendSafe == ASSUME TypeOK, Safe, NEW w \in Workers, Send(w) PROVE Safe'
<1>. DEFINE e == cur[w]
<1>0. /\ e \in Events /\ e \in batch[w] /\ UNCHANGED <<rowVars, log>>
      /\ owner[e] = w /\ status[e] \in {"dispatching", "quarantined", "processed"}
  <2>1. e \in Events /\ e \in batch[w]
    BY CurInFlight DEF Send, Working, Steps
  <2>2. InDispatch(w, e) /\ UNCHANGED <<rowVars, log>>  BY DEF Send, InDispatch
  <2>3. WorkerSafe(w)  BY DEF Safe
  <2>. QED  BY <2>1, <2>2, <2>3 DEF WorkerSafe
<1>1. RowsFrame(w) /\ NothingGained(w)  BY <1>0, UnchangedFrame
<1>2. CASE acked' = [acked EXCEPT ![e] = TRUE] /\ Enter(w, e, "acked")
  <2>1. HistoryFrame(w)
    BY <1>0, <1>2 DEF HistoryFrame, TypeOK, HistoryTyped
  <2>2. AllRowsSafe'
    BY <1>0, <1>2 DEF AllRowsSafe, Safe, RowSafe, rowVars, TypeOK, HistoryTyped
  <2>3. pc'[w] = "acked" /\ cur'[w] = e /\ batch'[w] = batch[w] /\ WorkersFrame(w)
    BY <1>2 DEF Enter, WorkersFrame, TypeOK, WorkersTyped
  <2>4. \A f \in batch[w] : owner'[f] = w /\ acked'[f] => f = e
    <3>. SUFFICES ASSUME NEW f \in batch[w], owner[f] = w, acked[f], f # e
                  PROVE  FALSE
      BY <1>0, <1>2 DEF TypeOK, HistoryTyped, WorkersTyped, rowVars
    <3>. QED  BY DEF Safe, WorkerSafe
  <2>5. acked'[e] /\ owner'[e] = w /\ status'[e] = status[e]
    BY <1>0, <1>2 DEF TypeOK, HistoryTyped, rowVars
  <2>6. WorkerSafe(w)'
    BY <1>0, <2>3, <2>4, <2>5 DEF WorkerSafe, InDispatch
  <2>. QED  BY <1>1, <2>1, <2>2, <2>3, <2>6, Assemble
<1>3. CASE acked' = acked
  <2>1. HistoryFrame(w)  BY <1>0, <1>3, NoNewEvidence
  <2>2. AllRowsSafe'  BY <1>0, <1>3, UnchangedRowSafe DEF Safe, AllRowsSafe
  <2>3. CASE Raise(w) \/ Enter(w, e, "rejected")
    BY <1>0, <1>1, <1>3, <2>1, <2>2, <2>3, RaiseSafe, EnterSafe, Assemble DEF Send
  <2>4. CASE Enter(w, e, "retrying")
    <3>1. pc'[w] = "retrying" /\ cur'[w] = e /\ batch'[w] = batch[w] /\ WorkersFrame(w)
      BY <2>4 DEF Enter, WorkersFrame, TypeOK, WorkersTyped
    <3>2. WorkerSafe(w)'
      BY <1>0, <1>3, <3>1 DEF Safe, WorkerSafe, InDispatch, Send, rowVars
    <3>. QED  BY <1>1, <2>1, <2>2, <3>1, <3>2, Assemble
  <2>5. CASE Enter(w, e, "acked")
    <3>1. acked[e]
      BY <1>0, <1>3, <2>5 DEF Send, Enter, Raise, Unwinding, TypeOK, WorkersTyped,
                              HistoryTyped
    <3>. QED  BY <3>1, <1>0 DEF Safe, WorkerSafe, Send
  <2>. QED  BY <2>3, <2>4, <2>5 DEF Send
<1>. QED  BY <1>2, <1>3 DEF Send

\* WriteLog keeps the invariant.
LEMMA WriteLogSafe ==
  ASSUME TypeOK, Safe, NEW w \in Workers, WriteLog(w) PROVE Safe'
<1>. DEFINE e == cur[w]
<1>0. /\ e \in Events /\ e \in batch[w] /\ UNCHANGED <<rowVars, acked>>
      /\ owner[e] = w /\ status[e] \in {"dispatching", "quarantined", "processed"}
      /\ acked[e] /\ log' \in {log, [log EXCEPT ![e] = TRUE]}
  <2>1. e \in Events /\ e \in batch[w]
    BY CurInFlight DEF WriteLog, Working, Steps
  <2>2. InDispatch(w, e) /\ UNCHANGED <<rowVars, acked>>
    BY DEF WriteLog, InDispatch, historyVars
  <2>3. acked[e]  BY DEF Safe, WorkerSafe, WriteLog
  <2>4. log' \in {log, [log EXCEPT ![e] = TRUE]}  BY DEF WriteLog
  <2>5. WorkerSafe(w)  BY DEF Safe
  <2>. QED  BY <2>1, <2>2, <2>3, <2>4, <2>5 DEF WorkerSafe
<1>1. RowsFrame(w) /\ NothingGained(w)  BY <1>0, UnchangedFrame
<1>2. HistoryFrame(w)  BY <1>0 DEF HistoryFrame, TypeOK
<1>3. AllRowsSafe'
  BY <1>0 DEF AllRowsSafe, Safe, RowSafe, rowVars, TypeOK
<1>4. WorkerSafe(w)' /\ WorkersFrame(w)
  <2>1. CASE RaiseAfterSend(w)  BY <1>0, <1>1, <2>1, RaiseSafe
  <2>2. CASE log' = [log EXCEPT ![e] = TRUE] /\ Enter(w, e, "logged")
    <3>1. pc'[w] = "logged" /\ cur'[w] = e /\ batch'[w] = batch[w] /\ WorkersFrame(w)
      BY <2>2 DEF Enter, WorkersFrame, TypeOK, WorkersTyped
    <3>2. log'[e]  BY <1>0, <2>2 DEF TypeOK
    <3>3. \A f \in batch[w] : owner[f] = w /\ acked[f] => f = e
      BY DEF Safe, WorkerSafe
    <3>. QED  BY <1>0, <3>1, <3>2, <3>3 DEF WorkerSafe, InDispatch, rowVars
  <2>. QED  BY <2>1, <2>2 DEF WriteLog
<1>. QED  BY <1>1, <1>2, <1>3, <1>4, Assemble

\* Complete keeps the invariant.
LEMMA CompleteSafe ==
  ASSUME TypeOK, Safe, NEW w \in Workers, Complete(w) PROVE Safe'
<1>0. cur[w] \in Events /\ log[cur[w]]
  BY DEF TypeOK, WorkersTyped, Complete, Safe, WorkerSafe
<1>1. RowsFrame(w) /\ NothingGained(w)
  BY <1>0, RpcProcessedFrame, UnchangedFrame DEF Complete
<1>2. AllRowsSafe'
  BY <1>0, RpcProcessedRowSafe, UnchangedRowSafe
     DEF Complete, Safe, AllRowsSafe, historyVars
<1>3. HistoryFrame(w)  BY NoNewEvidence DEF Complete, historyVars
<1>4. WorkerSafe(w)' /\ WorkersFrame(w)
  BY <1>0, <1>1, FinishSafe, RaiseSafe DEF Complete, historyVars
<1>. QED  BY <1>1, <1>2, <1>3, <1>4, Assemble

\* A worker that gives an event back or up and still owns it has not seen it
\* accepted.
LEMMA RetrySafe == ASSUME TypeOK, Safe, NEW w \in Workers, Retry(w) PROVE Safe'
<1>0. cur[w] \in Events /\ (owner[cur[w]] = w => ~acked[cur[w]])
  <2>1. cur[w] \in Events /\ cur[w] \in batch[w]
    BY CurInFlight DEF Retry, Working, Steps
  <2>. QED  BY <2>1 DEF Safe, WorkerSafe, Retry
<1>1. RowsFrame(w) /\ NothingGained(w)
  BY <1>0, RpcRetryFrame, UnchangedFrame DEF Retry
<1>2. AllRowsSafe'
  BY <1>0, RpcRetryRowSafe, UnchangedRowSafe DEF Retry, Safe, AllRowsSafe
<1>3. HistoryFrame(w)  BY NoNewEvidence DEF Retry
<1>4. WorkerSafe(w)' /\ WorkersFrame(w)
  BY <1>0, <1>1, FinishSafe, RaiseSafe DEF Retry
<1>. QED  BY <1>1, <1>2, <1>3, <1>4, Assemble

\* Fail keeps the invariant.
LEMMA FailSafe == ASSUME TypeOK, Safe, NEW w \in Workers, Fail(w) PROVE Safe'
<1>0. cur[w] \in Events /\ (owner[cur[w]] = w => ~acked[cur[w]])
  <2>1. cur[w] \in Events /\ cur[w] \in batch[w]
    BY CurInFlight DEF Fail, Working, Steps
  <2>. QED  BY <2>1 DEF Safe, WorkerSafe, Fail
<1>1. RowsFrame(w) /\ NothingGained(w)
  BY <1>0, RpcFailedFrame, UnchangedFrame DEF Fail
<1>2. AllRowsSafe'
  BY <1>0, RpcFailedRowSafe, UnchangedRowSafe
     DEF Fail, Safe, AllRowsSafe, historyVars
<1>3. HistoryFrame(w)  BY NoNewEvidence DEF Fail, historyVars
<1>4. WorkerSafe(w)' /\ WorkersFrame(w)
  BY <1>0, <1>1, FinishSafe, RaiseSafe DEF Fail, historyVars
<1>. QED  BY <1>1, <1>2, <1>3, <1>4, Assemble

\* Unwind keeps the invariant.
LEMMA UnwindSafe == ASSUME TypeOK, Safe, NEW w \in Workers, Unwind(w) PROVE Safe'
<1>0. PICK e \in batch[w] : /\ RpcRelease(w, e) \/ UNCHANGED rowVars
                            /\ Unwinding(w, batch[w] \ {e})
  BY DEF Unwind
<1>. e \in Events  BY DEF TypeOK, WorkersTyped
<1>1. RowsFrame(w) /\ NothingGained(w)
  BY <1>0, RpcReleaseFrame, UnchangedFrame
<1>2. AllRowsSafe'
  BY <1>0, RpcReleaseRowSafe, UnchangedRowSafe
     DEF Unwind, Safe, AllRowsSafe, historyVars
<1>3. HistoryFrame(w)  BY NoNewEvidence DEF Unwind, historyVars
<1>4. WorkerSafe(w)' /\ WorkersFrame(w)
  BY <1>0, <1>1, UnwindingSafe DEF Unwind, historyVars
<1>. QED  BY <1>1, <1>2, <1>3, <1>4, Assemble

\* Stops and crashes keep the invariant.
LEMMA StopSafe ==
  ASSUME TypeOK, Safe, NEW w \in Workers, Stop(w) \/ Crash(w) PROVE Safe'
<1>1. RowsFrame(w) /\ NothingGained(w)  BY UnchangedFrame DEF Stop, Crash
<1>2. AllRowsSafe'
  BY UnchangedRowSafe DEF Stop, Crash, Safe, AllRowsSafe, historyVars
<1>3. HistoryFrame(w)  BY NoNewEvidence DEF Stop, Crash, historyVars
<1>4. WorkerSafe(w)' /\ WorkersFrame(w)
  <2>1. {} \in SUBSET batch[w] /\ batch[w] \in SUBSET batch[w]  OBVIOUS
  <2>. QED  BY <1>1, <2>1, UnwindingSafe DEF Stop, Crash, historyVars
<1>. QED  BY <1>1, <1>2, <1>3, <1>4, Assemble

\* Steps that move none of these variables keep the invariant.
LEMMA StandStillSafe ==
  ASSUME Safe, UNCHANGED <<status, owner, attempts, log, acked, pc, cur, batch>>
  PROVE  Safe'
  BY DEF Safe, WorkerSafe, RowSafe, InDispatch

\* Every step, and every stutter, keeps the invariant.
LEMMA StepSafe == TypeOK /\ Safe /\ [Next]_vars => Safe'
<1>. SUFFICES ASSUME TypeOK, Safe, [Next]_vars PROVE Safe'  OBVIOUS
<1>1. ASSUME NEW e \in Events, Ingest(e) PROVE Safe'  BY <1>1, IngestSafe
<1>2. ASSUME NEW w \in Workers, WorkerStep(w) PROVE Safe'
  BY <1>2, SweepSafe, ClaimSafe, DeferSafe, SuppressSafe, IntendSafe, SendSafe,
     WriteLogSafe, CompleteSafe, RetrySafe, FailSafe, UnwindSafe, NotDueSafe,
     IgnoreSafe, AmbiguousSafe, UncorrelatedSafe, CheckSafe
     DEF WorkerStep
<1>3. ASSUME NEW w \in Workers, Stop(w) \/ Crash(w) PROVE Safe'
  BY <1>3, StopSafe
<1>4. CASE Tick  BY <1>4, StandStillSafe DEF Tick, historyVars
<1>5. CASE UNCHANGED vars
  BY <1>5, StandStillSafe DEF vars, rowVars, workerVars, historyVars
<1>. QED  BY <1>1, <1>2, <1>3, <1>4, <1>5 DEF Next

\* For every number of events and workers, lease length and retry limit, and
\* however often workers crash or replies are lost: Safe always holds.
THEOREM AlwaysSafe == Spec => [](TypeOK /\ Safe)
<1>1. Init => TypeOK /\ Safe  BY InitTyped, InitSafe
<1>2. TypeOK /\ Safe /\ [Next]_vars => (TypeOK /\ Safe)'
  BY StepTyped, StepSafe
<1>. QED  BY <1>1, <1>2, PTL DEF Spec

-----------------------------------------------------------------------------
(* What follows from Safe.                                                 *)

\* At most one worker is ever between its intent and its last write about an
\* event, whatever leases end and whoever sweeps and claims meanwhile.
THEOREM OneDispatcher == Spec => []ExclusiveDispatch
<1>1. Safe => ExclusiveDispatch  BY DEF Safe, WorkerSafe, ExclusiveDispatch
<1>. QED  BY <1>1, AlwaysSafe, PTL

\* An alert that Telegram accepted is never queued again, failed or ignored.
THEOREM AcceptedIsKept == Spec => []AckedNeverRequeued
<1>1. Safe => AckedNeverRequeued  BY DEF Safe, RowSafe, AckedNeverRequeued
<1>. QED  BY <1>1, AlwaysSafe, PTL

\* A processed event has its log, and a log its accepted alert.
THEOREM ProcessedMeansAlerted == Spec => []ProcessedIsLogged
<1>1. Safe => ProcessedIsLogged  BY DEF Safe, RowSafe, ProcessedIsLogged
<1>. QED  BY <1>1, AlwaysSafe, PTL

\* No event is dispatched more than MaxAttempts times.
THEOREM DispatchesBounded == Spec => []AttemptsBounded
<1>1. Safe => AttemptsBounded  BY DEF Safe, RowSafe, AttemptsBounded
<1>. QED  BY <1>1, AlwaysSafe, PTL

-----------------------------------------------------------------------------
(* Part 3.  What a step may never do: leave a final status, put an event   *)
(* whose message may have gone out back in the queue, or move an event     *)
(* that another worker holds under a live lease.                           *)

\* Final statuses stay, and a quarantined event leaves for "processed" only.
Final(e) ==
  /\ status[e] \in Settled => status'[e] = status[e]
  /\ status[e] = "quarantined" => \/ status'[e] = "quarantined"
                                  \/ status'[e] = "processed" /\ log[e]

Requeued(e) == status[e] = "dispatching" /\ status'[e] \in {"received", "queued"}

Orderly == \A e \in Events : Final(e) /\ ~Requeued(e)

-----------------------------------------------------------------------------
(* The SQL functions are orderly; only the retry requeues.                 *)

\* Rows that stand still are in order.
LEMMA StillOrderly == ASSUME TypeOK, status' = status PROVE Orderly
  BY DEF Orderly, Final, Requeued

\* The sweep moves dispatching rows to quarantined or processed.
LEMMA RpcSweepOrderly == ASSUME TypeOK, RpcSweep PROVE Orderly
  BY DEF TypeOK, RowsTyped, RpcSweep, SweptSets, ExpiredIntents, AfterSweep,
         Orderly, Final, Requeued, Settled

\* The claim sweeps, and takes rows that wait.
LEMMA RpcClaimOrderly ==
  ASSUME TypeOK, NEW w \in Workers, RpcClaim(w) PROVE Orderly
<1>. SUFFICES ASSUME NEW e \in Events PROVE Final(e) /\ ~Requeued(e)
  BY DEF Orderly
<1>1. \/ status'[e] = status[e]
      \/ status[e] = "dispatching" /\ status'[e] = AfterSweep(e)
      \/ status[e] \in {"received", "queued"} /\ status'[e] = "queued"
  BY DEF TypeOK, RowsTyped, RpcClaim, SweptSets, ExpiredIntents, Oldest, Claimable
<1>. QED  BY <1>1 DEF Final, Requeued, Settled, AfterSweep

\* The intent is recorded for a queued row.
LEMMA RpcIntentOrderly ==
  ASSUME TypeOK, NEW w \in Workers, NEW e \in Events, RpcIntent(w, e) PROVE Orderly
  BY DEF TypeOK, RowsTyped, RpcIntent, MayIntend, Orderly, Final, Requeued, Settled

\* Completion leaves quarantine on the evidence of a log.
LEMMA RpcProcessedOrderly ==
  ASSUME TypeOK, NEW w \in Workers, NEW e \in Events, RpcProcessed(w, e, "processed")
  PROVE  Orderly
  BY DEF TypeOK, RowsTyped, RpcProcessed, MayFinish, Orderly, Final, Requeued, Settled

\* An event that its owner ignores is not in quarantine with a log.
LEMMA RpcIgnoredOrderly ==
  ASSUME TypeOK, NEW w \in Workers, NEW e \in Events, RpcProcessed(w, e, "ignored"),
         owner[e] = w => ~log[e]
  PROVE  Orderly
  BY DEF TypeOK, RowsTyped, RpcProcessed, MayFinish, Orderly, Final, Requeued, Settled

\* Failing an event starts from a claimed row.
LEMMA RpcFailedOrderly ==
  ASSUME TypeOK, NEW w \in Workers, NEW e \in Events, RpcFailed(w, e) PROVE Orderly
  BY DEF TypeOK, RowsTyped, RpcFailed, MayFinish, Orderly, Final, Requeued, Settled

\* A release starts from a queued row.
LEMMA RpcReleaseOrderly ==
  ASSUME TypeOK, NEW w \in Workers, NEW e \in Events, RpcRelease(w, e) PROVE Orderly
  BY DEF TypeOK, RowsTyped, RpcRelease, Orderly, Final, Requeued, Settled

\* A retry requeues its own event and no other.
LEMMA RpcRetryOrderly ==
  ASSUME TypeOK, NEW w \in Workers, NEW e \in Events, RpcRetry(w, e)
  PROVE  \A f \in Events : Final(f) /\ (Requeued(f) => f = e)
  BY DEF TypeOK, RowsTyped, RpcRetry, MayFinish, Final, Requeued, Settled

-----------------------------------------------------------------------------
(* Every action is orderly, but for Retry.                                 *)

\* What a worker does about an event it picks from its batch is orderly.
LEMMA EventOrderly ==
  ASSUME TypeOK, Safe, NEW w \in Workers, NEW e \in Events,
         NotDue(w, e) \/ Ignore(w, e) \/ Ambiguous(w, e) \/ Uncorrelated(w, e)
         \/ Check(w, e)
  PROVE  Orderly
<1>1. CASE NotDue(w, e)
  BY <1>1, RpcReleaseOrderly, StillOrderly DEF NotDue, rowVars
<1>2. CASE Ignore(w, e)
  <2>1. owner[e] = w => ~log[e]
    BY <1>2 DEF Ignore, Takes, Safe, WorkerSafe, RowSafe
  <2>. QED  BY <1>2, <2>1, RpcIgnoredOrderly, StillOrderly DEF Ignore, rowVars
<1>3. CASE Ambiguous(w, e) \/ Check(w, e)
  BY <1>3, StillOrderly DEF Ambiguous, Check, rowVars
<1>4. CASE Uncorrelated(w, e)
  BY <1>4, StillOrderly DEF Uncorrelated, RpcPayload, rowVars
<1>. QED  BY <1>1, <1>2, <1>3, <1>4

\* So is what it does about the event it is processing, unless it retries.
LEMMA CurrentOrderly ==
  ASSUME TypeOK, Safe, NEW w \in Workers,
         Defer(w) \/ Suppress(w) \/ Intend(w) \/ Send(w) \/ WriteLog(w)
         \/ Complete(w) \/ Fail(w)
  PROVE  Orderly
<1>1. cur[w] \in Events
  BY CurInFlight DEF Defer, Suppress, Intend, Send, WriteLog, Complete, Fail,
                     Working, Steps
<1>2. CASE Defer(w)
  BY <1>1, <1>2, RpcReleaseOrderly, StillOrderly DEF Defer, rowVars
<1>3. CASE Suppress(w) \/ Complete(w)
  BY <1>1, <1>3, RpcProcessedOrderly, StillOrderly DEF Suppress, Complete, rowVars
<1>4. CASE Intend(w)
  BY <1>1, <1>4, RpcIntentOrderly, StillOrderly DEF Intend, rowVars
<1>5. CASE Send(w) \/ WriteLog(w)
  BY <1>5, StillOrderly DEF Send, WriteLog, rowVars
<1>6. CASE Fail(w)
  BY <1>1, <1>6, RpcFailedOrderly, StillOrderly DEF Fail, rowVars
<1>. QED  BY <1>2, <1>3, <1>4, <1>5, <1>6

\* Sweeping, claiming, releasing, stopping and dying are orderly.
LEMMA LoopOrderly ==
  ASSUME TypeOK, NEW w \in Workers,
         Sweep(w) \/ Claim(w) \/ Unwind(w) \/ Stop(w) \/ Crash(w)
  PROVE  Orderly
<1>1. batch[w] \subseteq Events  BY DEF TypeOK, WorkersTyped
<1>2. CASE Sweep(w)  BY <1>2, RpcSweepOrderly, StillOrderly DEF Sweep, rowVars
<1>3. CASE Claim(w)  BY <1>3, RpcClaimOrderly, StillOrderly DEF Claim, rowVars
<1>4. CASE Unwind(w)
  BY <1>1, <1>4, RpcReleaseOrderly, StillOrderly DEF Unwind, rowVars
<1>5. CASE Stop(w) \/ Crash(w)  BY <1>5, StillOrderly DEF Stop, Crash, rowVars
<1>. QED  BY <1>2, <1>3, <1>4, <1>5

\* A retry is orderly but for the event of the worker that retries.
LEMMA RetryOrderly ==
  ASSUME TypeOK, Safe, NEW w \in Workers, Retry(w)
  PROVE  \A f \in Events : Final(f) /\ (Requeued(f) => f = cur[w])
<1>1. cur[w] \in Events  BY CurInFlight DEF Retry, Working, Steps
<1>2. CASE RpcRetry(w, cur[w])  BY <1>1, <1>2, RpcRetryOrderly
<1>3. CASE UNCHANGED rowVars
  BY <1>3, StillOrderly DEF Orderly, rowVars
<1>. QED  BY <1>2, <1>3 DEF Retry

\* Every step is orderly, or a retry of the event that is requeued.
LEMMA StepOrderly ==
  ASSUME TypeOK, Safe, [Next]_vars
  PROVE  \A e \in Events :
           /\ Final(e)
           /\ Requeued(e) => \E w \in Workers : pc[w] = "retrying" /\ cur[w] = e
<1>1. ASSUME NEW e \in Events, Ingest(e) PROVE Orderly
  BY <1>1 DEF Ingest, TypeOK, RowsTyped, Orderly, Final, Requeued, Settled
<1>2. CASE Tick \/ UNCHANGED vars
  BY <1>2, StillOrderly DEF Tick, vars, rowVars, Orderly
<1>3. CASE \E w \in Workers : Retry(w)
  BY <1>3, RetryOrderly DEF Retry
<1>4. ASSUME NEW w \in Workers, WorkerStep(w) \/ Stop(w) \/ Crash(w), ~Retry(w)
      PROVE  Orderly
  BY <1>4, EventOrderly, CurrentOrderly, LoopOrderly DEF WorkerStep
<1>. QED  BY <1>1, <1>2, <1>3, <1>4 DEF Next, Orderly

\* Settled events stay settled, and an event leaves quarantine only when its
\* log shows that its alert was delivered.
THEOREM SettledStays == Spec => OutcomesFinal
<1>1. TypeOK /\ Safe /\ [Next]_vars =>
        [\A e \in Events :
           /\ status[e] \in Settled => status'[e] = status[e]
           /\ status[e] = "quarantined" => \/ status'[e] = "quarantined"
                                           \/ status'[e] = "processed" /\ log[e]]_vars
  BY StepOrderly DEF Final
<1>. QED  BY <1>1, AlwaysSafe, PTL DEF Spec, OutcomesFinal

\* Only the worker that was told an attempt may be repeated gives it back.
THEOREM RequeuedByRetry == Spec => OnlyRetriesRequeue
<1>1. TypeOK /\ Safe /\ [Next]_vars =>
        [\A e \in Events :
           status[e] = "dispatching" /\ status'[e] \in {"received", "queued"}
           => \E w \in Workers : pc[w] = "retrying" /\ cur[w] = e]_vars
  BY StepOrderly DEF Requeued
<1>. QED  BY <1>1, AlwaysSafe, PTL DEF Spec, OnlyRetriesRequeue

-----------------------------------------------------------------------------
(* Live claims: a row held under one changes with a step of its holder.    *)

Held(v, e) == owner[e] = v /\ lease[e] > 0 /\ status[e] \in {"queued", "dispatching"}
Changed(e) == <<status[e], owner[e]>>' # <<status[e], owner[e]>>
Moved(v) == <<pc[v], cur[v], batch[v]>>' # <<pc[v], cur[v], batch[v]>>

\* The only row under a live claim that may change is e, held by w.
Touches(w, e) ==
  \A f \in Events : \A v \in Workers : Held(v, f) /\ Changed(f) => v = w /\ f = e

NoneTouched == \A f \in Events : \A v \in Workers : Held(v, f) => ~Changed(f)

Undisturbed == \A f \in Events : \A v \in Workers : Held(v, f) /\ Changed(f) => Moved(v)

\* Rows that stand still are not touched.
LEMMA StillUntouched == ASSUME status' = status, owner' = owner PROVE NoneTouched
  BY DEF NoneTouched, Changed

\* The sweep takes expired intents only.
LEMMA RpcSweepTouches == ASSUME TypeOK, RpcSweep PROVE NoneTouched
<1>. SUFFICES ASSUME NEW f \in Events, NEW v \in Workers, Held(v, f) PROVE ~Changed(f)
  BY DEF NoneTouched
<1>1. lease[f] \in Int /\ ~(lease[f] < 0)  BY DEF Held, TypeOK, RowsTyped
<1>2. f \notin ExpiredIntents  BY <1>1 DEF ExpiredIntents
<1>. QED  BY <1>2 DEF RpcSweep, SweptSets, Changed

\* The claim sweeps, and takes rows without a live claim.
LEMMA RpcClaimTouches == ASSUME TypeOK, NEW w \in Workers, RpcClaim(w) PROVE NoneTouched
<1>. SUFFICES ASSUME NEW f \in Events, NEW v \in Workers, Held(v, f) PROVE ~Changed(f)
  BY DEF NoneTouched
<1>1. lease[f] \in Int /\ ~(lease[f] < 0) /\ status[f] # "received"
  BY DEF Held, TypeOK, RowsTyped
<1>2. f \notin ExpiredIntents  BY <1>1 DEF ExpiredIntents
<1>3. f \notin Oldest(BatchLimit, Claimable)  BY <1>1 DEF Oldest, Claimable
<1>. QED  BY <1>2, <1>3 DEF RpcClaim, SweptSets, Changed

\* The functions that change one row, and those that change none.
OneRow(w, e) ==
  \/ RpcIntent(w, e) \/ RpcFailed(w, e) \/ RpcRelease(w, e) \/ RpcRetry(w, e)
  \/ \E outcome \in {"processed", "ignored"} : RpcProcessed(w, e, outcome)
  \/ UNCHANGED rowVars

\* Each changes its row only for the owner of the row.
LEMMA OneRowTouches ==
  ASSUME TypeOK, NEW w \in Workers, NEW e \in Events, OneRow(w, e)
  PROVE  Touches(w, e)
<1>1. CASE RpcIntent(w, e)
  BY <1>1 DEF RpcIntent, MayIntend, TypeOK, RowsTyped, Touches, Held, Changed
<1>2. CASE RpcFailed(w, e)
  BY <1>2 DEF RpcFailed, MayFinish, TypeOK, RowsTyped, Touches, Held, Changed
<1>3. CASE RpcRelease(w, e)
  BY <1>3 DEF RpcRelease, TypeOK, RowsTyped, Touches, Held, Changed
<1>4. CASE RpcRetry(w, e)
  BY <1>4 DEF RpcRetry, MayFinish, TypeOK, RowsTyped, Touches, Held, Changed
<1>5. CASE \E outcome \in {"processed", "ignored"} : RpcProcessed(w, e, outcome)
  BY <1>5 DEF RpcProcessed, MayFinish, TypeOK, RowsTyped, Touches, Held, Changed
<1>6. CASE UNCHANGED rowVars
  BY <1>6 DEF rowVars, Touches, Held, Changed
<1>. QED  BY <1>1, <1>2, <1>3, <1>4, <1>5, <1>6 DEF OneRow

\* Whoever touches its own row and moves disturbs nobody.
LEMMA TouchesAndMoves ==
  ASSUME TypeOK, NEW w \in Workers, NEW e \in Events, Moved(w), OneRow(w, e)
  PROVE  Undisturbed
<1>1. Touches(w, e)  BY OneRowTouches
<1>. QED  BY <1>1 DEF Undisturbed, Touches

\* Rows that are not touched are undisturbed.
LEMMA UntouchedUndisturbed == ASSUME NoneTouched PROVE Undisturbed
  BY DEF NoneTouched, Undisturbed

\* Leaving an event of the batch is a move.
LEMMA FinishMoves ==
  ASSUME TypeOK, NEW w \in Workers, NEW e \in batch[w], Finish(w, e) PROVE Moved(w)
  BY DEF TypeOK, WorkersTyped, Finish, Moved

\* So is an exception, which leaves the batch for the release of what is in flight.
LEMMA RaiseMoves ==
  ASSUME TypeOK, NEW w \in Workers, NEW rest, Unwinding(w, rest),
         pc[w] \notin {"idle", "unwind"}
  PROVE  Moved(w)
  BY DEF TypeOK, WorkersTyped, Unwinding, Moved

\* What a worker does about an event it picks from its batch disturbs nobody.
LEMMA EventUndisturbed ==
  ASSUME TypeOK, NEW w \in Workers, NEW e \in Events,
         NotDue(w, e) \/ Ignore(w, e) \/ Ambiguous(w, e) \/ Uncorrelated(w, e)
         \/ Check(w, e)
  PROVE  Undisturbed
<1>1. CASE NotDue(w, e)
  <2>1. Moved(w)  BY <1>1, FinishMoves DEF NotDue
  <2>2. OneRow(w, e)  BY <1>1 DEF NotDue, OneRow
  <2>. QED  BY <2>1, <2>2, TouchesAndMoves
<1>2. CASE Ignore(w, e)
  <2>1. Moved(w)  BY <1>2, FinishMoves, RaiseMoves DEF Ignore, Takes, Raise
  <2>2. OneRow(w, e)  BY <1>2 DEF Ignore, OneRow
  <2>. QED  BY <2>1, <2>2, TouchesAndMoves
<1>3. CASE Ambiguous(w, e) \/ Check(w, e)
  BY <1>3, StillUntouched, UntouchedUndisturbed DEF Ambiguous, Check, rowVars
<1>4. CASE Uncorrelated(w, e)
  BY <1>4, StillUntouched, UntouchedUndisturbed DEF Uncorrelated, RpcPayload, rowVars
<1>. QED  BY <1>1, <1>2, <1>3, <1>4

\* Nor does what it does about the event it is processing.
LEMMA CurrentUndisturbed ==
  ASSUME TypeOK, Safe, NEW w \in Workers,
         Defer(w) \/ Suppress(w) \/ Intend(w) \/ Send(w) \/ WriteLog(w)
         \/ Complete(w) \/ Retry(w) \/ Fail(w)
  PROVE  Undisturbed
<1>1. cur[w] \in Events /\ cur[w] \in batch[w]
  BY CurInFlight DEF Defer, Suppress, Intend, Send, WriteLog, Complete, Retry, Fail,
                     Working, Steps
<1>2. CASE Send(w) \/ WriteLog(w)
  BY <1>2, StillUntouched, UntouchedUndisturbed DEF Send, WriteLog, rowVars
<1>3. CASE Defer(w)
  <2>1. Moved(w)
    BY <1>1, <1>3, FinishMoves, RaiseMoves DEF Defer
  <2>2. OneRow(w, cur[w])  BY <1>3 DEF Defer, OneRow
  <2>. QED  BY <1>1, <2>1, <2>2, TouchesAndMoves
<1>4. CASE Suppress(w)
  <2>1. Moved(w)
    BY <1>1, <1>4, FinishMoves, RaiseMoves DEF Suppress, Raise
  <2>2. OneRow(w, cur[w])  BY <1>4 DEF Suppress, OneRow
  <2>. QED  BY <1>1, <2>1, <2>2, TouchesAndMoves
<1>5. CASE Intend(w)
  <2>1. Moved(w)
    <3>1. CASE Enter(w, cur[w], "sending")
      BY <1>5, <3>1 DEF Intend, Enter, Moved, TypeOK, WorkersTyped
    <3>2. CASE Finish(w, cur[w])  BY <1>1, <3>2, FinishMoves
    <3>3. CASE Raise(w)  BY <1>5, <3>3, RaiseMoves DEF Intend, Raise
    <3>. QED  BY <1>5, <3>1, <3>2, <3>3 DEF Intend
  <2>2. OneRow(w, cur[w])  BY <1>5 DEF Intend, OneRow
  <2>. QED  BY <1>1, <2>1, <2>2, TouchesAndMoves
<1>6. CASE Complete(w)
  <2>1. Moved(w)
    BY <1>1, <1>6, FinishMoves, RaiseMoves DEF Complete, RaiseAfterSend
  <2>2. OneRow(w, cur[w])  BY <1>6 DEF Complete, OneRow
  <2>. QED  BY <1>1, <2>1, <2>2, TouchesAndMoves
<1>7. CASE Retry(w)
  <2>1. Moved(w)
    BY <1>1, <1>7, FinishMoves, RaiseMoves DEF Retry, Raise
  <2>2. OneRow(w, cur[w])  BY <1>7 DEF Retry, OneRow
  <2>. QED  BY <1>1, <2>1, <2>2, TouchesAndMoves
<1>8. CASE Fail(w)
  <2>1. Moved(w)
    BY <1>1, <1>8, FinishMoves, RaiseMoves DEF Fail, Raise
  <2>2. OneRow(w, cur[w])  BY <1>8 DEF Fail, OneRow
  <2>. QED  BY <1>1, <2>1, <2>2, TouchesAndMoves
<1>. QED  BY <1>2, <1>3, <1>4, <1>5, <1>6, <1>7, <1>8

\* Sweeping, claiming, releasing, stopping and dying disturb nobody else.
LEMMA LoopUndisturbed ==
  ASSUME TypeOK, NEW w \in Workers,
         Sweep(w) \/ Claim(w) \/ Unwind(w) \/ Stop(w) \/ Crash(w)
  PROVE  Undisturbed
<1>1. CASE Sweep(w)
  BY <1>1, RpcSweepTouches, StillUntouched, UntouchedUndisturbed DEF Sweep, rowVars
<1>2. CASE Claim(w)
  BY <1>2, RpcClaimTouches, StillUntouched, UntouchedUndisturbed DEF Claim, rowVars
<1>3. CASE Unwind(w)
  <2>1. PICK e \in batch[w] : /\ RpcRelease(w, e) \/ UNCHANGED rowVars
                              /\ Unwinding(w, batch[w] \ {e})
    BY <1>3 DEF Unwind
  <2>2. e \in Events  BY DEF TypeOK, WorkersTyped
  <2>3. Moved(w)  BY <2>1 DEF Unwinding, Moved, TypeOK, WorkersTyped
  <2>4. OneRow(w, e)  BY <2>1 DEF OneRow
  <2>. QED  BY <2>2, <2>3, <2>4, TouchesAndMoves
<1>4. CASE Stop(w) \/ Crash(w)
  BY <1>4, StillUntouched, UntouchedUndisturbed DEF Stop, Crash, rowVars
<1>. QED  BY <1>1, <1>2, <1>3, <1>4

\* No step disturbs a row under a live claim of a worker that does not move.
LEMMA StepUndisturbed == ASSUME TypeOK, Safe, [Next]_vars PROVE Undisturbed
<1>1. ASSUME NEW e \in Events, Ingest(e) PROVE NoneTouched
  BY <1>1 DEF Ingest, TypeOK, RowsTyped, NoneTouched, Held, Changed
<1>2. CASE Tick \/ UNCHANGED vars
  BY <1>2, StillUntouched, UntouchedUndisturbed DEF Tick, vars, rowVars
<1>3. ASSUME NEW w \in Workers, WorkerStep(w) \/ Stop(w) \/ Crash(w)
      PROVE  Undisturbed
  BY <1>3, EventUndisturbed, CurrentUndisturbed, LoopUndisturbed DEF WorkerStep
<1>. QED  BY <1>1, <1>2, <1>3, UntouchedUndisturbed DEF Next

\* While a worker's claim is live, no sweep, claim or late write of another one
\* moves the row.
THEOREM LiveClaimHolds == Spec => LiveClaimUndisturbed
<1>1. TypeOK /\ Safe /\ [Next]_vars =>
        [\A e \in Events : \A w \in Workers :
           /\ owner[e] = w /\ lease[e] > 0 /\ status[e] \in {"queued", "dispatching"}
           /\ <<status[e], owner[e]>>' # <<status[e], owner[e]>>
           => <<pc[w], cur[w], batch[w]>>' # <<pc[w], cur[w], batch[w]>>]_vars
  BY StepUndisturbed DEF Undisturbed, Held, Changed, Moved
<1>. QED  BY <1>1, AlwaysSafe, PTL DEF Spec, LiveClaimUndisturbed

-----------------------------------------------------------------------------
(* Part 4.  How often an event is deferred, for prompt workers.  The count *)
(* is kept in the payload and written back from the copy a worker claimed, *)
(* so the bound needs that nobody else deferred the event meanwhile: while *)
(* a worker has an event in flight that it has not taken yet, the event is *)
(* queued for it under a live claim, and its copy is not behind.           *)

Ready(w, e) == owner[e] = w /\ status[e] = "queued" /\ lease[e] > 0

WorkerKeeps(w) ==
  /\ pc[w] \in {"idle", "swept", "batch"} => cur[w] = NoEvent
  /\ pc[w] # "unwind" =>
       \A e \in batch[w] \ {cur[w]} : Ready(w, e) /\ deferrals[e] <= snap[w][e].corr

RowKeeps(e) == deferrals[e] <= corr[e] /\ deferrals[e] < MaxCorrelation

Keeps == (\A w \in Workers : WorkerKeeps(w)) /\ (\A e \in Events : RowKeeps(e))

\* Of the rows that are ready for a worker, only those of S, ready for w, may
\* stop being so.
Spares(w, S) ==
  \A f \in Events : \A v \in Workers :
    Ready(v, f) /\ ~(v = w /\ f \in S) => Ready(v, f)'

\* Only w moves.
OnlyMoves(w) ==
  \A v \in Workers \ {w} : /\ pc'[v] = pc[v] /\ cur'[v] = cur[v]
                           /\ batch'[v] = batch[v] /\ snap'[v] = snap[v]

-----------------------------------------------------------------------------
(* What the SQL functions leave ready.                                     *)

\* Rows that keep their status, owner and lease stay ready.
LEMMA StillReady ==
  ASSUME NEW w \in Workers, NEW S, UNCHANGED <<status, owner, lease>>
  PROVE  Spares(w, S)
  BY DEF Spares, Ready

\* The sweep takes no queued row.
LEMMA RpcSweepSpares ==
  ASSUME TypeOK, NEW w \in Workers, RpcSweep PROVE Spares(w, {})
  BY DEF RpcSweep, SweptSets, ExpiredIntents, Spares, Ready

\* The claim takes a queued row only when its lease has ended.
LEMMA RpcClaimSpares ==
  ASSUME TypeOK, NEW w \in Workers, RpcClaim(w) PROVE Spares(w, {})
<1>. SUFFICES ASSUME NEW f \in Events, NEW v \in Workers, Ready(v, f)
              PROVE  Ready(v, f)'
  BY DEF Spares
<1>1. lease[f] \in Int /\ ~(lease[f] < 0) /\ status[f] = "queued"
  BY DEF Ready, TypeOK, RowsTyped
<1>2. f \notin ExpiredIntents  BY <1>1 DEF ExpiredIntents
<1>3. f \notin Oldest(BatchLimit, Claimable)  BY <1>1 DEF Oldest, Claimable
<1>. QED  BY <1>2, <1>3 DEF RpcClaim, SweptSets, Ready

\* A function that is about one row spares all others.
LEMMA OneRowSpares ==
  ASSUME TypeOK, NEW w \in Workers, NEW e \in Events, OneRow(w, e)
  PROVE  Spares(w, {e})
<1>1. CASE RpcIntent(w, e)
  BY <1>1 DEF RpcIntent, MayIntend, TypeOK, RowsTyped, Spares, Ready
<1>2. CASE RpcFailed(w, e)
  BY <1>2 DEF RpcFailed, MayFinish, TypeOK, RowsTyped, Spares, Ready
<1>3. CASE RpcRelease(w, e)
  BY <1>3 DEF RpcRelease, TypeOK, RowsTyped, Spares, Ready
<1>4. CASE RpcRetry(w, e)
  BY <1>4 DEF RpcRetry, MayFinish, TypeOK, RowsTyped, Spares, Ready
<1>5. CASE \E outcome \in {"processed", "ignored"} : RpcProcessed(w, e, outcome)
  BY <1>5 DEF RpcProcessed, MayFinish, TypeOK, RowsTyped, Spares, Ready
<1>6. CASE UNCHANGED rowVars
  BY <1>6 DEF rowVars, Spares, Ready
<1>. QED  BY <1>1, <1>2, <1>3, <1>4, <1>5, <1>6 DEF OneRow

\* Nor does one write another row's payload.
LEMMA OneRowKeepsCounts ==
  ASSUME NEW w \in Workers, NEW e \in Events, OneRow(w, e) PROVE UNCHANGED corr
  BY DEF OneRow, RpcIntent, RpcFailed, RpcRelease, RpcRetry, RpcProcessed, rowVars

-----------------------------------------------------------------------------
(* The ways a worker moves.                                                *)

\* Going on to the next event: the events left are those it had not taken.
LEMMA FinishKeeps ==
  ASSUME TypeOK, Keeps, NEW w \in Workers, NEW e \in Events, Finish(w, e),
         Spares(w, {e}), UNCHANGED deferrals,
         \/ pc[w] = "batch"
         \/ cur[w] = e /\ pc[w] # "unwind"
  PROVE  WorkerKeeps(w)' /\ OnlyMoves(w)
<1>1. /\ pc'[w] = IF batch[w] \ {e} = {} THEN "idle" ELSE "batch"
      /\ cur'[w] = NoEvent /\ batch'[w] = batch[w] \ {e}
      /\ \A f \in Events \ {e} : snap'[w][f] = snap[w][f]
  BY DEF Finish, TypeOK, WorkersTyped
<1>2. OnlyMoves(w)  BY DEF OnlyMoves, Finish, TypeOK, WorkersTyped
<1>3. ASSUME NEW f \in batch[w], f # e
      PROVE  Ready(w, f)' /\ deferrals'[f] <= snap'[w][f].corr
  <2>1. f \in Events /\ f # NoEvent
    BY DEF TypeOK, WorkersTyped
  <2>2. f \in batch[w] \ {cur[w]} /\ pc[w] # "unwind"
    BY <1>3, <2>1 DEF Keeps, WorkerKeeps
  <2>3. Ready(w, f) /\ deferrals[f] <= snap[w][f].corr
    BY <2>2 DEF Keeps, WorkerKeeps
  <2>. QED  BY <1>1, <1>3, <2>1, <2>3 DEF Spares
<1>. QED  BY <1>1, <1>2, <1>3 DEF WorkerKeeps

\* Unwinding takes nothing any more.
LEMMA UnwindingKeeps ==
  ASSUME TypeOK, NEW w \in Workers, NEW rest, Unwinding(w, rest)
  PROVE  WorkerKeeps(w)' /\ OnlyMoves(w)
<1>1. /\ pc'[w] = IF rest = {} THEN "idle" ELSE "unwind"
      /\ cur'[w] = NoEvent /\ batch'[w] = rest
  BY DEF Unwinding, TypeOK, WorkersTyped
<1>2. OnlyMoves(w)  BY DEF OnlyMoves, Unwinding, TypeOK, WorkersTyped
<1>. QED  BY <1>1, <1>2 DEF WorkerKeeps

\* Taking an event, or going on with it: the others stay ready.
LEMMA EnterKeeps ==
  ASSUME TypeOK, Keeps, NEW w \in Workers, NEW e \in Events,
         NEW step \in Working, Enter(w, e, step), Spares(w, {e}),
         \A f \in Events \ {e} : deferrals'[f] = deferrals[f],
         \/ pc[w] = "batch"
         \/ cur[w] = e /\ pc[w] # "unwind"
  PROVE  WorkerKeeps(w)' /\ OnlyMoves(w)
<1>1. pc'[w] = step /\ cur'[w] = e /\ batch'[w] = batch[w] /\ snap' = snap
  BY DEF Enter, TypeOK, WorkersTyped
<1>2. OnlyMoves(w)  BY DEF OnlyMoves, Enter, TypeOK, WorkersTyped
<1>3. ASSUME NEW f \in batch[w], f # e
      PROVE  Ready(w, f)' /\ deferrals'[f] <= snap'[w][f].corr
  <2>1. f \in Events /\ f # NoEvent
    BY DEF TypeOK, WorkersTyped
  <2>2. f \in batch[w] \ {cur[w]} /\ pc[w] # "unwind"
    BY <1>3, <2>1 DEF Keeps, WorkerKeeps
  <2>3. Ready(w, f) /\ deferrals[f] <= snap[w][f].corr
    BY <2>2 DEF Keeps, WorkerKeeps
  <2>. QED  BY <1>1, <1>3, <2>1, <2>3 DEF Spares
<1>. QED  BY <1>1, <1>2, <1>3 DEF WorkerKeeps, Working

\* What remains to be shown of a step of w that defers nothing.
LEMMA AssembleKeeps ==
  ASSUME TypeOK, Keeps, NEW w \in Workers, NEW S, Spares(w, S), OnlyMoves(w),
         WorkerKeeps(w)', UNCHANGED <<corr, deferrals>>
  PROVE  Keeps'
<1>1. ASSUME NEW v \in Workers, v # w PROVE WorkerKeeps(v)'
  <2>1. batch[v] \subseteq Events  BY DEF TypeOK, WorkersTyped
  <2>. QED  BY <1>1, <2>1 DEF Keeps, WorkerKeeps, OnlyMoves, Spares
<1>2. ASSUME NEW e \in Events PROVE RowKeeps(e)'
  BY DEF Keeps, RowKeeps
<1>. QED  BY <1>1, <1>2 DEF Keeps

\* The same for a step about one row, e.
LEMMA OneRowKeeps ==
  ASSUME TypeOK, Keeps, NEW w \in Workers, NEW e \in Events, OneRow(w, e),
         UNCHANGED deferrals, e \in batch[w],
         \/ pc[w] = "batch"
         \/ cur[w] = e /\ pc[w] # "unwind",
         \/ Finish(w, e) \/ \E rest : Unwinding(w, rest)
         \/ \E step \in Working : Enter(w, e, step)
  PROVE  Keeps'
<1>1. Spares(w, {e}) /\ UNCHANGED corr  BY OneRowSpares, OneRowKeepsCounts
<1>2. WorkerKeeps(w)' /\ OnlyMoves(w)
  BY <1>1, FinishKeeps, UnwindingKeeps, EnterKeeps
<1>. QED  BY <1>1, <1>2, AssembleKeeps

-----------------------------------------------------------------------------
(* Every action keeps the invariant.                                       *)

\* At first nothing is in flight and nothing deferred.
LEMMA InitKeeps == Init => Keeps
  BY DEF Init, Keeps, WorkerKeeps, RowKeeps

\* A new event is in nobody's hands.
LEMMA IngestKeeps ==
  ASSUME TypeOK, Keeps, NEW e \in Events, Ingest(e) PROVE Keeps'
<1>1. \A f \in Events : \A v \in Workers : Ready(v, f) => Ready(v, f)'
  BY DEF Ingest, Ready, TypeOK, RowsTyped
<1>2. ASSUME NEW v \in Workers PROVE WorkerKeeps(v)'
  <2>1. batch[v] \subseteq Events  BY DEF TypeOK, WorkersTyped
  <2>2. UNCHANGED <<pc, cur, batch, snap, deferrals>>
    BY DEF Ingest, workerVars, historyVars
  <2>. QED  BY <1>1, <2>1, <2>2 DEF Keeps, WorkerKeeps
<1>3. ASSUME NEW f \in Events PROVE RowKeeps(f)'
  BY DEF Ingest, historyVars, Keeps, RowKeeps
<1>. QED  BY <1>2, <1>3 DEF Keeps

\* The events a claim brings in are ready, and the copies are their rows.
LEMMA ClaimKeeps ==
  ASSUME TypeOK, Safe, Keeps, NEW w \in Workers, Claim(w) PROVE Keeps'
<1>. DEFINE S == Oldest(BatchLimit, Claimable)
<1>1. Spares(w, {})  BY RpcClaimSpares, StillReady DEF Claim, rowVars
<1>2. UNCHANGED <<corr, deferrals>>
  BY DEF Claim, RpcClaim, rowVars, historyVars
<1>3. OnlyMoves(w)  BY DEF OnlyMoves, Claim, TypeOK, WorkersTyped
<1>4. batch[w] = {} /\ cur[w] = NoEvent /\ cur'[w] = NoEvent
  BY DEF Safe, WorkerSafe, Keeps, WorkerKeeps, Claim
<1>5. ASSUME batch' = batch PROVE WorkerKeeps(w)'
  BY <1>4, <1>5 DEF WorkerKeeps
<1>6. ASSUME /\ RpcClaim(w)
             /\ batch' = [batch EXCEPT ![w] = S]
             /\ snap' = [snap EXCEPT ![w] =
                           [e \in Events |-> IF e \in S THEN Row(e) ELSE Blank]]
      PROVE  WorkerKeeps(w)'
  <2>1. S \subseteq Events  BY DEF Oldest, Claimable
  <2>2. ASSUME NEW e \in S PROVE Ready(w, e)'
    <3>1. e \notin ExpiredIntents  BY DEF ExpiredIntents, Oldest, Claimable
    <3>. QED  BY <1>6, <2>1, <3>1 DEF RpcClaim, SweptSets, Ready
  <2>3. ASSUME NEW e \in S PROVE deferrals'[e] <= snap'[w][e].corr
    <3>1. snap'[w][e].corr = corr[e]
      BY <1>6, <2>1 DEF Row, TypeOK, WorkersTyped
    <3>. QED  BY <1>2, <2>1, <3>1 DEF Keeps, RowKeeps
  <2>4. batch'[w] = S  BY <1>6 DEF TypeOK, WorkersTyped
  <2>. QED  BY <1>4, <2>2, <2>3, <2>4 DEF WorkerKeeps
<1>7. WorkerKeeps(w)'  BY <1>5, <1>6 DEF Claim
<1>. QED  BY <1>1, <1>2, <1>3, <1>7, AssembleKeeps

\* Sweeping, releasing, stopping and dying keep what is in flight ready.
LEMMA LoopKeeps ==
  ASSUME TypeOK, Safe, Keeps, NEW w \in Workers,
         Sweep(w) \/ Claim(w) \/ Unwind(w) \/ Stop(w) \/ Crash(w)
  PROVE  Keeps'
<1>1. CASE Sweep(w)
  <2>1. Spares(w, {})  BY <1>1, RpcSweepSpares, StillReady DEF Sweep, rowVars
  <2>2. UNCHANGED <<corr, deferrals>>
    BY <1>1 DEF Sweep, RpcSweep, rowVars, historyVars
  <2>3. OnlyMoves(w)  BY <1>1 DEF OnlyMoves, Sweep, TypeOK, WorkersTyped
  <2>4. batch'[w] = {} /\ cur'[w] = NoEvent
    BY <1>1 DEF Safe, WorkerSafe, Keeps, WorkerKeeps, Sweep
  <2>5. WorkerKeeps(w)'  BY <2>4 DEF WorkerKeeps
  <2>. QED  BY <2>1, <2>2, <2>3, <2>5, AssembleKeeps
<1>2. CASE Unwind(w)
  <2>1. PICK e \in batch[w] : /\ RpcRelease(w, e) \/ UNCHANGED rowVars
                              /\ Unwinding(w, batch[w] \ {e})
    BY <1>2 DEF Unwind
  <2>2. e \in Events  BY DEF TypeOK, WorkersTyped
  <2>3. OneRow(w, e)  BY <2>1 DEF OneRow
  <2>4. Spares(w, {e}) /\ UNCHANGED corr
    BY <2>2, <2>3, OneRowSpares, OneRowKeepsCounts
  <2>5. WorkerKeeps(w)' /\ OnlyMoves(w)  BY <2>1, UnwindingKeeps
  <2>6. UNCHANGED deferrals  BY <1>2 DEF Unwind, historyVars
  <2>. QED  BY <2>4, <2>5, <2>6, AssembleKeeps
<1>3. CASE Stop(w) \/ Crash(w)
  <2>1. Spares(w, {}) /\ UNCHANGED <<corr, deferrals>>
    BY <1>3, StillReady DEF Stop, Crash, rowVars, historyVars
  <2>2. WorkerKeeps(w)' /\ OnlyMoves(w)
    BY <1>3, UnwindingKeeps DEF Stop, Crash
  <2>. QED  BY <2>1, <2>2, AssembleKeeps
<1>. QED  BY <1>1, <1>2, <1>3, ClaimKeeps

\* So does what a worker does about an event it picks, deferring it apart.
LEMMA EventKeeps ==
  ASSUME TypeOK, Keeps, NEW w \in Workers, NEW e \in Events,
         NotDue(w, e) \/ Ignore(w, e) \/ Ambiguous(w, e) \/ Check(w, e)
  PROVE  Keeps'
<1>1. pc[w] = "batch" /\ e \in batch[w]
  BY DEF NotDue, Ignore, Ambiguous, Check, Takes
<1>2. OneRow(w, e) /\ UNCHANGED deferrals
  BY DEF NotDue, Ignore, Ambiguous, Check, OneRow, historyVars
<1>3. \/ Finish(w, e) \/ \E rest : Unwinding(w, rest)
      \/ \E step \in Working : Enter(w, e, step)
  BY DEF NotDue, Ignore, Ambiguous, Check, Raise, Working, Steps
<1>. QED  BY <1>1, <1>2, <1>3, OneRowKeeps

\* Deferring e: nobody else has it ready, so nobody's copy falls behind, and
\* the count just written is ahead of the deferrals.
LEMMA UncorrelatedKeeps ==
  ASSUME TypeOK, Keeps, NEW w \in Workers, NEW e \in Events, Uncorrelated(w, e)
  PROVE  Keeps'
<1>1. pc[w] = "batch" /\ e \in batch[w] /\ cur[w] = NoEvent /\ e # NoEvent
  BY DEF Uncorrelated, Takes, Keeps, WorkerKeeps
<1>2. Ready(w, e) /\ deferrals[e] <= snap[w][e].corr
  BY <1>1 DEF Keeps, WorkerKeeps
<1>3. /\ deferrals[e] \in Nat /\ snap[w][e].corr \in Nat /\ corr[e] \in Nat
      /\ DOMAIN deferrals = Events /\ DOMAIN corr = Events
  BY DEF TypeOK, HistoryTyped, WorkersTyped, RowsTyped, Snapshots
<1>4. UNCHANGED <<status, owner, lease>>
  BY DEF Uncorrelated, RpcPayload, rowVars
<1>5. Spares(w, {e})  BY <1>4, StillReady
<1>6. \A f \in Events \ {e} : deferrals'[f] = deferrals[f] /\ corr'[f] = corr[f]
  BY <1>3 DEF Uncorrelated, RpcPayload, rowVars
<1>7. \E step \in Working : Enter(w, e, step)
  BY DEF Uncorrelated, Working, Steps
<1>8. WorkerKeeps(w)' /\ OnlyMoves(w)
  BY <1>1, <1>5, <1>6, <1>7, EnterKeeps
<1>9. ASSUME NEW v \in Workers, v # w PROVE WorkerKeeps(v)'
  <2>1. /\ pc'[v] = pc[v] /\ cur'[v] = cur[v]
        /\ batch'[v] = batch[v] /\ snap'[v] = snap[v] /\ batch[v] \subseteq Events
    BY <1>8, <1>9 DEF OnlyMoves, TypeOK, WorkersTyped
  <2>2. ASSUME pc[v] # "unwind", NEW f \in batch[v] \ {cur[v]}
        PROVE  Ready(v, f)' /\ deferrals'[f] <= snap[v][f].corr
    <3>1. Ready(v, f) /\ deferrals[f] <= snap[v][f].corr /\ f \in Events
      BY <2>1, <2>2 DEF Keeps, WorkerKeeps
    <3>2. f # e  BY <1>2, <1>9, <3>1 DEF Ready
    <3>. QED  BY <1>5, <1>6, <1>9, <3>1, <3>2 DEF Spares
  <2>. QED  BY <2>1, <2>2 DEF Keeps, WorkerKeeps
<1>10. RowKeeps(e)'
  <2>1. CASE UNCHANGED <<corr, deferrals>>
    BY <2>1 DEF Keeps, RowKeeps
  <2>2. CASE RpcPayload(w, e) /\ UNCHANGED deferrals
    <3>1. corr'[e] = snap[w][e].corr + 1  BY <1>3, <2>2 DEF RpcPayload
    <3>. QED  BY <1>2, <1>3, <2>2, <3>1 DEF Keeps, RowKeeps
  <2>3. CASE /\ RpcPayload(w, e) /\ MayDefer(w, e)
             /\ deferrals' = [deferrals EXCEPT ![e] = Lesser(@ + 1, MaxCorrelation)]
    <3>1. corr'[e] = snap[w][e].corr + 1  BY <1>3, <2>3 DEF RpcPayload
    <3>2. snap[w][e].corr + 1 < MaxCorrelation  BY <2>3 DEF MayDefer
    <3>3. deferrals'[e] = deferrals[e] + 1
      BY <1>2, <1>3, <2>3, <3>2 DEF Lesser
    <3>. QED  BY <1>2, <1>3, <3>1, <3>2, <3>3 DEF RowKeeps
  <2>. QED  BY <2>1, <2>2, <2>3 DEF Uncorrelated, rowVars
<1>11. ASSUME NEW f \in Events PROVE RowKeeps(f)'
  BY <1>6, <1>10 DEF Keeps, RowKeeps
<1>. QED  BY <1>8, <1>9, <1>11 DEF Keeps

\* What a worker does about the event it is processing.
LEMMA CurrentKeeps ==
  ASSUME TypeOK, Safe, Keeps, NEW w \in Workers,
         Defer(w) \/ Suppress(w) \/ Intend(w) \/ Send(w) \/ WriteLog(w)
         \/ Complete(w) \/ Retry(w) \/ Fail(w)
  PROVE  Keeps'
<1>1. cur[w] \in Events /\ cur[w] \in batch[w] /\ pc[w] # "unwind"
  BY CurInFlight DEF Defer, Suppress, Intend, Send, WriteLog, Complete, Retry, Fail,
                     Working, Steps
<1>2. OneRow(w, cur[w])
  BY DEF Defer, Suppress, Intend, Send, WriteLog, Complete, Retry, Fail, OneRow
<1>3. UNCHANGED deferrals
  BY DEF Defer, Suppress, Intend, Send, WriteLog, Complete, Retry, Fail, historyVars
<1>4. CASE Defer(w) \/ Suppress(w) \/ Complete(w) \/ Retry(w) \/ Fail(w)
  <2>1. Finish(w, cur[w]) \/ \E rest : Unwinding(w, rest)
    BY <1>4 DEF Defer, Suppress, Complete, Retry, Fail, Raise, RaiseAfterSend
  <2>. QED  BY <1>1, <1>2, <1>3, <2>1, OneRowKeeps
<1>5. CASE Intend(w) \/ Send(w) \/ WriteLog(w)
  <2>1. \/ Finish(w, cur[w]) \/ \E rest : Unwinding(w, rest)
        \/ \E step \in Working : Enter(w, cur[w], step)
    BY <1>5 DEF Intend, Send, WriteLog, Raise, RaiseAfterSend, Working, Steps
  <2>. QED  BY <1>1, <1>2, <1>3, <2>1, OneRowKeeps
<1>. QED  BY <1>4, <1>5

\* Time passes only while every event in flight has more than a tick left.
LEMMA TickKeeps == ASSUME TypeOK, Keeps, Prompt, Tick PROVE Keeps'
<1>1. ASSUME NEW v \in Workers PROVE WorkerKeeps(v)'
  <2>1. UNCHANGED <<pc, cur, batch, status, owner, deferrals>>
    BY DEF Tick, historyVars
  <2>2. batch[v] \subseteq Events  BY DEF TypeOK, WorkersTyped
  <2>3. ASSUME pc[v] # "unwind", NEW e \in batch[v] \ {cur[v]}
        PROVE  Ready(v, e)' /\ deferrals[e] <= snap'[v][e].corr
    <3>1. Ready(v, e) /\ deferrals[e] <= snap[v][e].corr /\ e \in Events
      BY <2>2, <2>3 DEF Keeps, WorkerKeeps
    <3>2. lease[e] > 1
      BY <3>1 DEF Tick, InTime, MayFinish, Ready
    <3>3. lease'[e] > 0
      BY <3>1, <3>2 DEF Tick, Countdown, TypeOK, RowsTyped
    <3>4. snap'[v][e].corr = snap[v][e].corr
      <4>1. snap[v][e] \in Snapshots  BY <3>1 DEF TypeOK, WorkersTyped
      <4>2. snap'[v][e] = [snap[v][e] EXCEPT !.backoff = Countdown(@, 0)]
        BY <3>1 DEF Tick
      <4>. QED  BY <4>1, <4>2 DEF Snapshots
    <3>. QED  BY <2>1, <3>1, <3>3, <3>4 DEF Ready
  <2>. QED  BY <2>1, <2>3 DEF Keeps, WorkerKeeps
<1>2. ASSUME NEW e \in Events PROVE RowKeeps(e)'
  BY DEF Tick, historyVars, Keeps, RowKeeps
<1>. QED  BY <1>1, <1>2 DEF Keeps

\* Every step of prompt workers keeps the invariant.
LEMMA StepKeeps ==
  ASSUME TypeOK, Safe, Keeps, Prompt, [Next]_vars PROVE Keeps'
<1>1. CASE UNCHANGED vars
  BY <1>1 DEF vars, rowVars, workerVars, historyVars, Keeps, WorkerKeeps, RowKeeps, Ready
<1>2. ASSUME NEW w \in Workers, WorkerStep(w) \/ Stop(w) \/ Crash(w) PROVE Keeps'
  BY <1>2, LoopKeeps, EventKeeps, UncorrelatedKeeps, CurrentKeeps DEF WorkerStep
<1>. QED  BY <1>1, <1>2, IngestKeeps, TickKeeps DEF Next

\* However many workers crash, err and claim each other's events, an event is
\* sent back for a later correlation at most MaxCorrelation - 1 times, provided
\* that a live worker finishes a batch before its lease ends.
THEOREM DeferralsBounded == ASSUME Prompt PROVE Spec => []CorrelationBounded
<1>1. Init => Keeps  BY InitKeeps
<1>2. TypeOK /\ Safe /\ Keeps /\ [Next]_vars => Keeps'  BY StepKeeps
<1>3. Keeps => CorrelationBounded  BY DEF Keeps, RowKeeps, CorrelationBounded
<1>. QED  BY <1>1, <1>2, <1>3, AlwaysSafe, PTL DEF Spec

-----------------------------------------------------------------------------
(* Part 5.  FailoverEvents implements IncidentAlert.  Only here is Watched *)
(* used, and that it is one of the events.                                 *)

USE WatchedAssumption

AlertStep == Alert!Next \/ UNCHANGED Alert!vars

\* A row's alert changes with its status and its attempts only.
LEMMA StandStill ==
  ASSUME status'[Watched] = status[Watched], attempts'[Watched] = attempts[Watched],
         UNCHANGED <<log, acked>>
  PROVE  AlertStep
  BY DEF AlertStep, Alert!vars

\* Sweeping the watched row confirms its alert or loses track of it.
LEMMA Swept ==
  ASSUME TypeOK, AllRowsSafe, UNCHANGED <<log, acked>>,
         attempts'[Watched] = attempts[Watched], status[Watched] = "dispatching",
         status'[Watched] = AfterSweep(Watched)
  PROVE  AlertStep
  BY DEF AlertStep, Alert!Next, Alert!Confirm, Alert!LoseTrack, Alert!vars, Phase,
         AfterSweep, TypeOK

\* RpcSweep maps to a step of the alert or to a stutter.
LEMMA RpcSweepAlert ==
  ASSUME TypeOK, AllRowsSafe, RpcSweep, UNCHANGED <<log, acked>> PROVE AlertStep
<1>1. \/ status'[Watched] = status[Watched]
      \/ /\ status[Watched] = "dispatching"
         /\ status'[Watched] = AfterSweep(Watched)
  BY DEF TypeOK, RowsTyped, RpcSweep, SweptSets, ExpiredIntents
<1>2. attempts'[Watched] = attempts[Watched]  BY DEF RpcSweep
<1>. QED  BY <1>1, <1>2, Swept, StandStill

\* RpcClaim maps to a step of the alert or to a stutter.
LEMMA RpcClaimAlert ==
  ASSUME TypeOK, AllRowsSafe, NEW w \in Workers, RpcClaim(w),
         UNCHANGED <<log, acked>>
  PROVE  AlertStep
<1>1. \/ status'[Watched] = status[Watched]
      \/ /\ status[Watched] = "dispatching"
         /\ status'[Watched] = AfterSweep(Watched)
      \/ status[Watched] \in {"received", "queued"} /\ status'[Watched] = "queued"
  BY DEF TypeOK, RowsTyped, RpcClaim, SweptSets, ExpiredIntents, Oldest, Claimable
<1>2. attempts'[Watched] = attempts[Watched]  BY DEF RpcClaim
<1>3. CASE status[Watched] \in {"received", "queued"} /\ status'[Watched] = "queued"
  BY <1>2, <1>3 DEF AlertStep, Alert!vars, Phase
<1>. QED  BY <1>1, <1>2, <1>3, Swept, StandStill

\* RpcIntent maps to a step of the alert or to a stutter.
LEMMA RpcIntentAlert ==
  ASSUME TypeOK, AllRowsSafe, NEW w \in Workers, NEW e \in Events,
         RpcIntent(w, e), UNCHANGED <<log, acked>>
  PROVE  AlertStep
<1>1. CASE e = Watched /\ MayIntend(w, e)
  <2>1. /\ status[Watched] = "queued" /\ status'[Watched] = "dispatching"
        /\ attempts'[Watched] = attempts[Watched] + 1
    BY <1>1 DEF RpcIntent, MayIntend, TypeOK, RowsTyped
  <2>2. attempts[Watched] < MaxAttempts  BY <2>1 DEF AllRowsSafe, RowSafe
  <2>. QED  BY <2>1, <2>2 DEF AlertStep, Alert!Next, Alert!Attempt, Phase
<1>2. CASE ~(e = Watched /\ MayIntend(w, e))
  BY <1>2, StandStill DEF RpcIntent, TypeOK, RowsTyped
<1>. QED  BY <1>1, <1>2

\* RpcProcessed maps to a step of the alert or to a stutter.
LEMMA RpcProcessedAlert ==
  ASSUME TypeOK, AllRowsSafe, NEW w \in Workers, NEW e \in Events,
         RpcProcessed(w, e, "processed"), log[e], UNCHANGED <<log, acked>>
  PROVE  AlertStep
<1>0. attempts' = attempts  BY DEF RpcProcessed
<1>1. CASE status'[Watched] = status[Watched]  BY <1>0, <1>1, StandStill
<1>2. CASE status'[Watched] # status[Watched]
  <2>1. e = Watched /\ status'[Watched] = "processed"
    BY <1>2 DEF RpcProcessed, TypeOK, RowsTyped
  <2>2. status[Watched] \in {"dispatching", "quarantined", "processed"}
    BY <2>1 DEF AllRowsSafe, RowSafe
  <2>. QED  BY <1>0, <1>2, <2>1, <2>2 DEF AlertStep, Alert!Next, Alert!Confirm, Phase
<1>. QED  BY <1>1, <1>2

\* Giving an event up: its alert was not accepted.
LEMMA Dropped ==
  ASSUME TypeOK, UNCHANGED <<log, acked>>, attempts' = attempts,
         status[Watched] \in {"received", "queued", "dispatching"},
         status'[Watched] \in {"ignored", "failed"}, ~acked[Watched]
  PROVE  AlertStep
  BY DEF AlertStep, Alert!Next, Alert!Drop, Phase

\* RpcIgnored maps to a step of the alert or to a stutter.
LEMMA RpcIgnoredAlert ==
  ASSUME TypeOK, AllRowsSafe, NEW w \in Workers, NEW e \in Events,
         RpcProcessed(w, e, "ignored"), owner[e] = w => ~acked[e],
         UNCHANGED <<log, acked>>
  PROVE  AlertStep
<1>0. attempts' = attempts  BY DEF RpcProcessed
<1>1. CASE status'[Watched] = status[Watched]  BY <1>0, <1>1, StandStill
<1>2. CASE status'[Watched] # status[Watched]
  <2>1. e = Watched /\ owner[e] = w /\ status'[Watched] = "ignored"
    BY <1>2 DEF RpcProcessed, MayFinish, TypeOK, RowsTyped
  <2>2. ~log[e]  BY <2>1 DEF AllRowsSafe, RowSafe
  <2>3. status[Watched] \in {"dispatching", "queued"}
    BY <1>2, <2>1, <2>2 DEF RpcProcessed, MayFinish
  <2>. QED  BY <1>0, <2>1, <2>3, Dropped
<1>. QED  BY <1>1, <1>2

\* RpcFailed maps to a step of the alert or to a stutter.
LEMMA RpcFailedAlert ==
  ASSUME TypeOK, AllRowsSafe, NEW w \in Workers, NEW e \in Events,
         RpcFailed(w, e), owner[e] = w => ~acked[e], UNCHANGED <<log, acked>>
  PROVE  AlertStep
<1>0. attempts' = attempts  BY DEF RpcFailed
<1>1. CASE status'[Watched] = status[Watched]  BY <1>0, <1>1, StandStill
<1>2. CASE status'[Watched] # status[Watched]
  <2>1. e = Watched /\ owner[e] = w /\ status'[Watched] = "failed"
    BY <1>2 DEF RpcFailed, MayFinish, TypeOK, RowsTyped
  <2>2. status[Watched] \in {"dispatching", "queued"}
    BY <1>2, <2>1 DEF RpcFailed, MayFinish
  <2>. QED  BY <1>0, <2>1, <2>2, Dropped
<1>. QED  BY <1>1, <1>2

\* RpcRelease maps to a step of the alert or to a stutter.
LEMMA RpcReleaseAlert ==
  ASSUME TypeOK, NEW w \in Workers, NEW e \in Events, RpcRelease(w, e),
         UNCHANGED <<log, acked>>
  PROVE  AlertStep
<1>0. attempts' = attempts  BY DEF RpcRelease
<1>1. \/ status'[Watched] = status[Watched]
      \/ status[Watched] = "queued" /\ status'[Watched] = "received"
  BY DEF RpcRelease, TypeOK, RowsTyped
<1>2. CASE status[Watched] = "queued" /\ status'[Watched] = "received"
  BY <1>0, <1>2 DEF AlertStep, Alert!vars, Phase
<1>. QED  BY <1>0, <1>1, <1>2, StandStill

\* RpcRetry maps to a step of the alert or to a stutter.
LEMMA RpcRetryAlert ==
  ASSUME TypeOK, AllRowsSafe, NEW w \in Workers, NEW e \in Events,
         RpcRetry(w, e), owner[e] = w => ~acked[e], UNCHANGED <<log, acked>>
  PROVE  AlertStep
<1>0. attempts' = attempts  BY DEF RpcRetry
<1>1. CASE ~(e = Watched /\ MayFinish(w, e))
  <2>1. status'[Watched] = status[Watched]
    BY <1>1 DEF RpcRetry, TypeOK, RowsTyped
  <2>. QED  BY <1>0, <2>1, StandStill
<1>2. CASE e = Watched /\ MayFinish(w, e)
  <2>1. ~acked[Watched] /\ status[Watched] \in {"dispatching", "queued"}
    BY <1>2 DEF MayFinish
  <2>2. status'[Watched] = IF Exhausted(Watched) THEN "failed" ELSE "received"
    BY <1>2 DEF RpcRetry, TypeOK, RowsTyped
  <2>3. CASE Exhausted(Watched)  BY <1>0, <2>1, <2>2, <2>3, Dropped
  <2>4. CASE ~Exhausted(Watched) /\ status[Watched] = "queued"
    BY <1>0, <2>2, <2>4 DEF AlertStep, Alert!vars, Phase
  <2>5. CASE ~Exhausted(Watched) /\ status[Watched] = "dispatching"
    <3>1. attempts[Watched] < MaxAttempts
      BY <2>5 DEF Exhausted, TypeOK, RowsTyped
    <3>. QED  BY <1>0, <2>1, <2>2, <2>5, <3>1
                 DEF AlertStep, Alert!Next, Alert!GiveBack, Phase
  <2>. QED  BY <2>1, <2>3, <2>4, <2>5
<1>. QED  BY <1>1, <1>2

\* Rows that stand still leave the alert as it is.
LEMMA RowsUnchangedAlert ==
  ASSUME UNCHANGED <<rowVars, log, acked>> PROVE AlertStep
  BY StandStill DEF rowVars

-----------------------------------------------------------------------------
(* Every action is a step of the alert or none.                            *)

\* The initial states map to the initial state of the alert.
LEMMA InitAlert == Init => Alert!Init
  BY DEF Init, Alert!Init, Phase

\* A new row is a pending alert.
LEMMA IngestAlert ==
  ASSUME TypeOK, NEW e \in Events, Ingest(e) PROVE AlertStep
<1>1. CASE e = Watched
  BY <1>1 DEF Ingest, AlertStep, Alert!Next, Alert!Report, Phase, TypeOK,
              RowsTyped, historyVars
<1>2. CASE e # Watched
  BY <1>2, StandStill DEF Ingest, TypeOK, RowsTyped, historyVars
<1>. QED  BY <1>1, <1>2

\* Sweep and claim as the worker makes them.
LEMMA ClaimAndSweepAlert ==
  ASSUME TypeOK, Safe, NEW w \in Workers, Sweep(w) \/ Claim(w) PROVE AlertStep
  BY RpcSweepAlert, RpcClaimAlert, RowsUnchangedAlert
     DEF Sweep, Claim, Safe, AllRowsSafe, historyVars

\* Steps that move no row leave the alert as it is.
LEMMA EventAlert ==
  ASSUME TypeOK, Safe, NEW w \in Workers, NEW e \in Events,
         NotDue(w, e) \/ Ambiguous(w, e) \/ Check(w, e)
  PROVE  AlertStep
  BY RpcReleaseAlert, RowsUnchangedAlert
     DEF NotDue, Ambiguous, Check, historyVars

\* Ignore maps to a step of the alert or to a stutter.
LEMMA IgnoreAlert ==
  ASSUME TypeOK, Safe, NEW w \in Workers, NEW e \in Events, Ignore(w, e)
  PROVE  AlertStep
<1>1. owner[e] = w => ~acked[e]  BY DEF Ignore, Takes, Safe, WorkerSafe
<1>. QED  BY <1>1, RpcIgnoredAlert, RowsUnchangedAlert
             DEF Ignore, Safe, AllRowsSafe, historyVars

\* Uncorrelated maps to a step of the alert or to a stutter.
LEMMA UncorrelatedAlert ==
  ASSUME TypeOK, Safe, NEW w \in Workers, NEW e \in Events, Uncorrelated(w, e)
  PROVE  AlertStep
  BY StandStill, RowsUnchangedAlert DEF Uncorrelated, RpcPayload

\* The last writes about a logged event confirm its alert at most.
LEMMA FinalWriteAlert ==
  ASSUME TypeOK, Safe, NEW w \in Workers, Suppress(w) \/ Complete(w)
  PROVE  AlertStep
<1>1. cur[w] \in Events /\ log[cur[w]]
  BY DEF TypeOK, WorkersTyped, Suppress, Complete, Safe, WorkerSafe
<1>. QED  BY <1>1, RpcProcessedAlert, RowsUnchangedAlert
             DEF Suppress, Complete, Safe, AllRowsSafe, historyVars

\* Failing an event drops its alert at most.
LEMMA GiveUpAlert ==
  ASSUME TypeOK, Safe, NEW w \in Workers, Retry(w) \/ Fail(w) PROVE AlertStep
<1>1. pc[w] \in {"retrying", "rejected"}  BY DEF Retry, Fail
<1>2. cur[w] \in Events /\ cur[w] \in batch[w]
  BY <1>1, CurInFlight DEF Working, Steps
<1>3. owner[cur[w]] = w => ~acked[cur[w]]
  BY <1>1, <1>2 DEF Safe, WorkerSafe
<1>. QED  BY <1>2, <1>3, RpcRetryAlert, RpcFailedAlert, RowsUnchangedAlert
             DEF Retry, Fail, Safe, AllRowsSafe, historyVars

\* Intend maps to a step of the alert or to a stutter.
LEMMA IntendAlert ==
  ASSUME TypeOK, Safe, NEW w \in Workers, Intend(w) PROVE AlertStep
<1>1. cur[w] \in Events  BY CurInFlight DEF Intend, Working, Steps
<1>. QED  BY <1>1, RpcIntentAlert, RowsUnchangedAlert
             DEF Intend, Safe, AllRowsSafe, historyVars

\* Every release leaves a pending alert pending.
LEMMA ReleaseAlert ==
  ASSUME TypeOK, Safe, NEW w \in Workers, Defer(w) \/ Unwind(w) PROVE AlertStep
<1>1. batch[w] \subseteq Events  BY DEF TypeOK, WorkersTyped
<1>2. CASE Defer(w)
  <2>1. cur[w] \in Events  BY <1>2, CurInFlight DEF Defer, Working, Steps
  <2>. QED  BY <1>2, <2>1, RpcReleaseAlert, RowsUnchangedAlert DEF Defer, historyVars
<1>3. CASE Unwind(w)
  BY <1>1, <1>3, RpcReleaseAlert, RowsUnchangedAlert DEF Unwind, historyVars
<1>. QED  BY <1>2, <1>3

\* The acceptance is seen while the row is dispatching or already quarantined.
LEMMA SendAlert ==
  ASSUME TypeOK, Safe, NEW w \in Workers, Send(w) PROVE AlertStep
<1>. DEFINE e == cur[w]
<1>0. e \in Events /\ UNCHANGED <<rowVars, log>>
  BY CurInFlight DEF Send, Working, Steps
<1>1. CASE acked'[Watched] = acked[Watched]
  BY <1>0, <1>1 DEF AlertStep, Alert!vars, rowVars
<1>2. CASE acked'[Watched] # acked[Watched]
  <2>1. e = Watched /\ ~acked[Watched] /\ acked'[Watched]
    BY <1>0, <1>2 DEF Send, TypeOK, HistoryTyped
  <2>2. status[Watched] \in {"dispatching", "quarantined", "processed"}
    BY <1>0, <2>1 DEF Send, Safe, WorkerSafe, InDispatch
  <2>3. status[Watched] # "processed"  BY <2>1 DEF Safe, RowSafe
  <2>4. acked'[Watched] = TRUE  BY <1>0, <1>2 DEF Send, TypeOK, HistoryTyped
  <2>. QED  BY <1>0, <2>1, <2>2, <2>3, <2>4
               DEF AlertStep, Alert!Next, Alert!Accept, Phase, rowVars
<1>. QED  BY <1>1, <1>2

\* WriteLog maps to a step of the alert or to a stutter.
LEMMA WriteLogAlert ==
  ASSUME TypeOK, Safe, NEW w \in Workers, WriteLog(w) PROVE AlertStep
<1>. DEFINE e == cur[w]
<1>0. e \in Events /\ UNCHANGED <<rowVars, acked>>
  BY CurInFlight DEF WriteLog, Working, Steps, historyVars
<1>1. CASE log'[Watched] = log[Watched]
  BY <1>0, <1>1 DEF AlertStep, Alert!vars, rowVars
<1>2. CASE log'[Watched] # log[Watched]
  <2>1. e = Watched /\ log' = [log EXCEPT ![e] = TRUE]
    BY <1>0, <1>2 DEF WriteLog, TypeOK
  <2>2. acked[Watched]  BY <2>1 DEF WriteLog, Safe, WorkerSafe
  <2>3. log'[Watched] = TRUE /\ ~log[Watched]  BY <1>2, <2>1 DEF TypeOK
  <2>. QED  BY <1>0, <2>2, <2>3 DEF AlertStep, Alert!Next, Alert!Record, rowVars
<1>. QED  BY <1>1, <1>2

\* Every step maps to a step of the alert or to a stutter.
LEMMA StepAlert == TypeOK /\ Safe /\ [Next]_vars => [Alert!Next]_(Alert!vars)
<1>. SUFFICES ASSUME TypeOK, Safe, [Next]_vars PROVE AlertStep  BY DEF AlertStep
<1>1. ASSUME NEW e \in Events, Ingest(e) PROVE AlertStep  BY <1>1, IngestAlert
<1>2. ASSUME NEW w \in Workers, WorkerStep(w) PROVE AlertStep
  BY <1>2, ClaimAndSweepAlert, EventAlert, IgnoreAlert, UncorrelatedAlert,
     FinalWriteAlert, GiveUpAlert, IntendAlert, ReleaseAlert, SendAlert,
     WriteLogAlert
     DEF WorkerStep
<1>3. ASSUME NEW w \in Workers, Stop(w) \/ Crash(w) PROVE AlertStep
  BY <1>3, RowsUnchangedAlert DEF Stop, Crash, historyVars
<1>4. CASE Tick  BY <1>4, StandStill DEF Tick, historyVars
<1>5. CASE UNCHANGED vars
  BY <1>5, RowsUnchangedAlert DEF vars, historyVars
<1>. QED  BY <1>1, <1>2, <1>3, <1>4, <1>5 DEF Next

\* Whichever event is watched, and for every instance of the constants, the
\* failover pipeline implements the life of an alert.
THEOREM PipelineImplementsAlert == Spec => ImplementsAlert
<1>1. Spec => [](TypeOK /\ Safe)  BY AlwaysSafe
<1>2. Init => Alert!Init  BY InitAlert
<1>3. TypeOK /\ Safe /\ [Next]_vars => [Alert!Next]_(Alert!vars)  BY StepAlert
<1>. QED  BY <1>1, <1>2, <1>3, PTL DEF Spec, ImplementsAlert, Alert!Spec

=============================================================================
