--------------------------- MODULE DnsAutoFixProofs ---------------------------
(***************************************************************************)
(* What holds of DnsAutoFix for any requests, contents, original zones and *)
(* bounds: the types; that what the merchant had can be recovered from the *)
(* log, whatever crashes, fails or overlaps; and that the zone is what the *)
(* log says as long as nothing does.                                       *)
(***************************************************************************)
EXTENDS DnsAutoFix, TLAPS

(* The inductive invariant.                                                *)

Contents == Values \cup {None}
Statuses == {"APPLYING", "VERIFIED", "FAILED", "ROLLING_BACK", "ROLLED_BACK", "ROLLBACK_FAILED"}
Row == [status : Statuses, value : Values, record : 0..MaxRecords, prev : Contents,
        target : 0..MaxRecords]

\* A request at each of its stages; an operation it is at is one of the log.
Asked == [step : {"validate"}, value : Values]
Looked == [step : {"persist"}, value : Values, record : 0..MaxRecords, prev : Contents]
Sending == [step : {"apply", "refused"}, op : Nat]
Sent == [step : {"applied"}, op : Nat, target : Records]
Undoing == [step : {"mark", "restore", "restored", "unrestored"}, op : Nat, was : Row]
Stages == {Idle} \cup Asked \cup Looked \cup Sending \cup Sent \cup Undoing
HasOperation(j) ==
  job[j].step \in {"apply", "refused", "applied", "mark", "restore", "restored", "unrestored"}

Typed ==
  /\ zone \in [Records -> Contents] /\ own \in [Records -> Contents]
  /\ used \in 0..MaxRecords /\ raced \subseteq Records
  /\ ops \in Seq(Row)
  /\ job \in [Jobs -> Stages]
  /\ \A j \in Jobs : HasOperation(j) => job[j].op \in DOMAIN ops
  /\ faults \in 0..MaxFaults /\ edits \in 0..MaxEdits

\* What a stage is made of, by its name.
LEMMA StageShapes ==
  ASSUME NEW s \in Stages
  PROVE  /\ s.step = "idle" <=> s = Idle
         /\ s.step = "validate" => s \in Asked
         /\ s.step = "persist" => s \in Looked
         /\ s.step \in {"apply", "refused"} => s \in Sending
         /\ s.step = "applied" => s \in Sent
         /\ s.step \in {"mark", "restore", "restored", "unrestored"} => s \in Undoing
BY DEF Stages, Asked, Looked, Sending, Sent, Undoing, Idle

\* Going on within the stages that share a shape.
LEMMA SendingGoes ==
  ASSUME NEW s \in Sending
  PROVE  /\ [s EXCEPT !.step = "refused"] \in Sending
         /\ [s EXCEPT !.step = "refused"].step = "refused"
         /\ [s EXCEPT !.step = "refused"].op = s.op
BY DEF Sending

LEMMA UndoingGoes ==
  ASSUME NEW s \in Undoing, NEW t \in {"restore", "restored", "unrestored"}
  PROVE  /\ [s EXCEPT !.step = t] \in Undoing
         /\ [s EXCEPT !.step = t].step = t
         /\ [s EXCEPT !.step = t].op = s.op /\ [s EXCEPT !.step = t].was = s.was
BY DEF Undoing

-----------------------------------------------------------------------------
(* The log.                                                                *)

\* What happens to the log in one step: nothing, a new status and target of one
\* row, or a row more.
Kept(row, i) == row.record = ops[i].record /\ row.prev = ops[i].prev /\ row.value = ops[i].value
Rewritten(i, row) == ops' = [ops EXCEPT ![i] = row]

LEMMA RewrittenLog ==
  ASSUME ops \in Seq(Row), NEW i \in DOMAIN ops, NEW row \in Row, Rewritten(i, row)
  PROVE  /\ ops' \in Seq(Row) /\ DOMAIN ops' = DOMAIN ops /\ Len(ops') = Len(ops)
         /\ ops'[i] = row
         /\ \A k \in DOMAIN ops : k # i => ops'[k] = ops[k]
BY DEF Rewritten

LEMMA AppendedLog ==
  ASSUME ops \in Seq(Row), NEW row \in Row, ops' = Append(ops, row)
  PROVE  /\ ops' \in Seq(Row) /\ DOMAIN ops' = DOMAIN ops \cup {Len(ops) + 1}
         /\ Len(ops') = Len(ops) + 1 /\ Len(ops) \in Nat /\ DOMAIN ops = 1..Len(ops)
         /\ ops'[Len(ops) + 1] = row
         /\ \A k \in DOMAIN ops : ops'[k] = ops[k]
OBVIOUS

\* A status, or a status and a target, of one row.
LEMMA StatusMade ==
  ASSUME NEW o \in Row, NEW s \in Statuses
  PROVE  LET row == [o EXCEPT !.status = s] IN
         /\ row \in Row /\ row.status = s /\ row.target = o.target
         /\ row.record = o.record /\ row.prev = o.prev /\ row.value = o.value
BY DEF Row

Targeted(o, t) == [o EXCEPT !.status = "VERIFIED", !.target = t]

LEMMA TargetMade ==
  ASSUME NEW o \in Row, NEW t \in 0..MaxRecords
  PROVE  /\ Targeted(o, t) \in Row /\ Targeted(o, t).status = "VERIFIED" /\ Targeted(o, t).target = t
         /\ Targeted(o, t).record = o.record /\ Targeted(o, t).prev = o.prev
         /\ Targeted(o, t).value = o.value
BY DEF Targeted, Row, Statuses

-----------------------------------------------------------------------------
(* The types.                                                              *)

LEMMA Sizes == MaxRecords \in Nat /\ MaxEdits \in Nat /\ MaxFaults \in Nat /\ None \notin Values
BY AutoFixAssumption

LEMMA FaultsTyped ==
  ASSUME faults \in 0..MaxFaults, Fault \/ NoFault PROVE faults' \in 0..MaxFaults
BY Sizes DEF Fault, NoFault

\* A request moves to a stage, and the log keeps the operations it had.
LEMMA JobTyped ==
  ASSUME Typed, NEW j \in Jobs, NEW s \in Stages, job' = [job EXCEPT ![j] = s],
         DOMAIN ops \subseteq DOMAIN ops',
         s.step \in {"apply", "refused", "applied", "mark", "restore", "restored", "unrestored"}
           => s.op \in DOMAIN ops'
  PROVE  /\ job' \in [Jobs -> Stages] /\ job'[j] = s
         /\ \A k \in Jobs : k # j => job'[k] = job[k]
         /\ \A k \in Jobs : HasOperation(k)' => job'[k].op \in DOMAIN ops'
BY DEF Typed, HasOperation

LEMMA StopTyped ==
  ASSUME Typed, NEW j \in Jobs, Stop(j), DOMAIN ops \subseteq DOMAIN ops'
  PROVE  /\ job' \in [Jobs -> Stages] /\ job'[j] = Idle
         /\ \A k \in Jobs : k # j => job'[k] = job[k]
         /\ \A k \in Jobs : HasOperation(k)' => job'[k].op \in DOMAIN ops'
<1>1. Idle \in Stages /\ Idle.step = "idle"
  BY DEF Stages, Idle
<1> QED BY <1>1, JobTyped DEF Stop

\* The merchant's variables and the zone stand still, or move as they may.
LEMMA TypedMoves ==
  ASSUME Typed,
         zone' \in [Records -> Contents], used' \in 0..MaxRecords, UNCHANGED Merchant,
         ops' \in Seq(Row), job' \in [Jobs -> Stages],
         \A k \in Jobs : HasOperation(k)' => job'[k].op \in DOMAIN ops',
         faults' \in 0..MaxFaults
  PROVE  Typed'
BY DEF Typed, Merchant

\* Planning, looking and loading move the request only.
LEMMA PlanTyped ==
  ASSUME Typed, NEW j \in Jobs, NEW v \in Values, Plan(j, v) PROVE Typed'
<1> DEFINE s == [step |-> "validate", value |-> v]
<1>1. s \in Stages /\ s.step = "validate"
  BY DEF Stages, Asked
<1>2. job' = [job EXCEPT ![j] = s] /\ UNCHANGED <<zone, used, ops, faults, Merchant>>
  BY DEF Plan
<1> HIDE DEF s
<1>3. job' \in [Jobs -> Stages] /\ \A k \in Jobs : HasOperation(k)' => job'[k].op \in DOMAIN ops'
  BY <1>1, <1>2, JobTyped
<1> QED BY <1>2, <1>3, TypedMoves DEF Typed

\* What a look leads to.
LEMMA LooksAt ==
  ASSUME Typed, NEW j \in Jobs, Validate(j)
  PROVE  /\ job[j] \in Asked /\ UNCHANGED <<zone, used, ops, Merchant>> /\ faults' \in 0..MaxFaults
         /\ \/ Stop(j)
            \/ \E r \in 0..MaxRecords :
                 /\ r # 0 => r \in Live /\ zone[r] # job[j].value
                 /\ job' = [job EXCEPT ![j] = [step |-> "persist", value |-> job[j].value, record |-> r,
                                               prev |-> IF r = 0 THEN None ELSE zone[r]]]
                 /\ (NoFault /\ (r = 0 => Live = {})) \/ (r = 0 /\ Fault)
<1> DEFINE seen(r) == job' = [job EXCEPT ![j] = [step |-> "persist", value |-> job[j].value,
                                record |-> r, prev |-> IF r = 0 THEN None ELSE zone[r]]]
<1>1. job[j] \in Asked
  BY StageShapes DEF Validate, At, Typed
<1>2. UNCHANGED <<zone, used, ops, Merchant>> /\ faults' \in 0..MaxFaults
  BY FaultsTyped DEF Validate, Typed
<1>3. \/ \E r \in Found : NoFault /\ IF r # 0 /\ zone[r] = job[j].value THEN Stop(j) ELSE seen(r)
      \/ Fault /\ (Stop(j) \/ seen(0))
  BY DEF Validate
<1>4. \A r \in Found : r \in 0..MaxRecords /\ (r # 0 => r \in Live) /\ (r = 0 => Live = {})
  BY Sizes DEF Found, Live, Records
<1>5. 0 \in 0..MaxRecords
  BY Sizes
<1> HIDE DEF seen
<1>6. Stop(j) \/ \E r \in 0..MaxRecords :
         (r # 0 => r \in Live /\ zone[r] # job[j].value) /\ seen(r)
         /\ ((NoFault /\ (r = 0 => Live = {})) \/ (r = 0 /\ Fault))
  <2>1. ASSUME NEW r \in Found, NoFault, IF r # 0 /\ zone[r] = job[j].value THEN Stop(j) ELSE seen(r)
        PROVE  \/ Stop(j)
               \/ /\ r \in 0..MaxRecords /\ (r # 0 => r \in Live /\ zone[r] # job[j].value)
                  /\ seen(r) /\ NoFault /\ (r = 0 => Live = {})
    BY <1>4, <2>1
  <2>2. ASSUME Fault, seen(0)
        PROVE  0 \in 0..MaxRecords /\ seen(0) /\ Fault
    BY <1>5, <2>2
  <2> QED BY <1>3, <2>1, <2>2
<1> QED BY <1>1, <1>2, <1>6 DEF seen

LEMMA ValidateTyped == ASSUME Typed, NEW j \in Jobs, Validate(j) PROVE Typed'
<1>1. /\ job[j] \in Asked /\ UNCHANGED <<zone, used, ops, Merchant>> /\ faults' \in 0..MaxFaults
      /\ \/ Stop(j)
         \/ \E r \in 0..MaxRecords :
              /\ r # 0 => r \in Live
              /\ job' = [job EXCEPT ![j] = [step |-> "persist", value |-> job[j].value, record |-> r,
                                            prev |-> IF r = 0 THEN None ELSE zone[r]]]
  BY LooksAt
<1>2. CASE Stop(j)
  BY <1>1, <1>2, StopTyped, TypedMoves DEF Typed
<1>3. ASSUME NEW r \in 0..MaxRecords, r # 0 => r \in Live,
             job' = [job EXCEPT ![j] = [step |-> "persist", value |-> job[j].value, record |-> r,
                                        prev |-> IF r = 0 THEN None ELSE zone[r]]]
      PROVE  Typed'
  <2> DEFINE s == [step |-> "persist", value |-> job[j].value, record |-> r,
                   prev |-> IF r = 0 THEN None ELSE zone[r]]
  <2>1. job[j].value \in Values /\ (IF r = 0 THEN None ELSE zone[r]) \in Contents
    BY <1>1, <1>3 DEF Asked, Typed, Contents, Live
  <2>2. s \in Stages /\ s.step = "persist"
    BY <2>1 DEF Stages, Looked
  <2>3. job' = [job EXCEPT ![j] = s]
    BY <1>3
  <2> HIDE DEF s
  <2>4. job' \in [Jobs -> Stages] /\ \A k \in Jobs : HasOperation(k)' => job'[k].op \in DOMAIN ops'
    BY <1>1, <2>2, <2>3, JobTyped
  <2> QED BY <1>1, <2>4, TypedMoves DEF Typed
<1> QED BY <1>1, <1>2, <1>3

LEMMA LoadTyped ==
  ASSUME Typed, NEW j \in Jobs, NEW i \in DOMAIN ops, Load(j, i) PROVE Typed'
<1> DEFINE s == [step |-> "mark", op |-> i, was |-> ops[i]]
<1>1. i \in Nat /\ ops[i] \in Row
  BY DEF Typed
<1>2. s \in Stages /\ s.op = i
  BY <1>1 DEF Stages, Undoing
<1>3. job' = [job EXCEPT ![j] = s] /\ UNCHANGED <<zone, used, ops, faults, Merchant>>
  BY DEF Load
<1> HIDE DEF s
<1>4. job' \in [Jobs -> Stages] /\ \A k \in Jobs : HasOperation(k)' => job'[k].op \in DOMAIN ops'
  BY <1>2, <1>3, JobTyped
<1> QED BY <1>3, <1>4, TypedMoves DEF Typed

-----------------------------------------------------------------------------
(* The log grows, and its rows change their status and their target.       *)

\* The operation is a row of the log.
LEMMA OperationMade ==
  ASSUME Typed, NEW j \in Jobs, At(j, "persist")
  PROVE  /\ job[j] \in Looked /\ Operation(j) \in Row
         /\ Operation(j).status = "APPLYING" /\ Operation(j).target = 0
         /\ Operation(j).record = job[j].record /\ Operation(j).prev = job[j].prev
         /\ Operation(j).value = job[j].value
<1>1. job[j] \in Looked
  BY StageShapes DEF At, Typed
<1> QED BY <1>1, Sizes DEF Operation, Row, Looked, Statuses

\* The insertion that succeeds puts the request at its new row; one that fails may
\* have put it there too.
LEMMA Inserts ==
  ASSUME Typed, NEW j \in Jobs, Persist(j)
  PROVE  /\ UNCHANGED <<zone, used, Merchant>> /\ At(j, "persist")
         /\ \/ /\ ops' = Append(ops, Operation(j)) /\ NoFault
               /\ job' = [job EXCEPT ![j] = [step |-> "apply", op |-> Len(ops) + 1]]
            \/ ops' \in {ops, Append(ops, Operation(j))} /\ Stop(j) /\ Fault
BY DEF Persist, Insert

LEMMA PersistTyped == ASSUME Typed, NEW j \in Jobs, Persist(j) PROVE Typed'
<1> DEFINE s == [step |-> "apply", op |-> Len(ops) + 1]
<1>1. ops \in Seq(Row) /\ Operation(j) \in Row
  BY Inserts, OperationMade DEF Typed
<1>2. /\ ops' \in {ops, Append(ops, Operation(j))} /\ faults' \in 0..MaxFaults
      /\ UNCHANGED <<zone, used, Merchant>>
  BY Inserts, FaultsTyped DEF Typed
<1>3. ops' \in Seq(Row) /\ DOMAIN ops \subseteq DOMAIN ops'
  BY <1>1, <1>2, AppendedLog
<1>4. CASE Stop(j)
  BY <1>2, <1>3, <1>4, StopTyped, TypedMoves DEF Typed
<1>5. CASE ops' = Append(ops, Operation(j)) /\ job' = [job EXCEPT ![j] = s]
  <2>1. Len(ops) + 1 \in Nat /\ Len(ops) + 1 \in DOMAIN ops'
    BY <1>1, <1>5, AppendedLog
  <2>2. s \in Stages /\ s.op = Len(ops) + 1
    BY <2>1 DEF Stages, Sending
  <2> HIDE DEF s
  <2>3. job' \in [Jobs -> Stages] /\ \A k \in Jobs : HasOperation(k)' => job'[k].op \in DOMAIN ops'
    BY <1>3, <1>5, <2>1, <2>2, JobTyped
  <2> QED BY <1>2, <1>3, <2>3, TypedMoves DEF Typed
<1> QED BY <1>4, <1>5, Inserts

\* A request rewrites the row of its operation, with a status that says how it went;
\* the target comes with the answer.
Ends(j, row) ==
  LET o == ops[job[j].op] IN
  /\ row \in Row /\ Kept(row, job[j].op)
  /\ \/ At(j, "applied") /\ row.status = "VERIFIED" /\ row.target = job[j].target
     \/ /\ row.target = o.target
        /\ \/ At(j, "refused") /\ row.status = "FAILED"
           \/ At(j, "mark") /\ row.status = "ROLLING_BACK"
           \/ At(j, "restored") /\ row.status = "ROLLED_BACK"
           \/ At(j, "unrestored") /\ row.status = "ROLLBACK_FAILED"

LEMMA Reports ==
  ASSUME Typed, NEW j \in Jobs, Finalize(j) \/ FinalizeRollback(j) \/ Mark(j)
  PROVE  /\ UNCHANGED <<zone, used, Merchant>> /\ HasOperation(j)
         /\ \/ ops' = ops /\ Fault
            \/ (Fault \/ NoFault) /\ \E row : Ends(j, row) /\ Rewritten(job[j].op, row)
         /\ \/ Stop(j) /\ (Fault \/ ~At(j, "mark"))
            \/ At(j, "mark") /\ Goto(j, "restore") /\ NoFault
<1> DEFINE i == job[j].op
           o == ops[i]
<1>1. HasOperation(j)
  BY DEF Finalize, FinalizeRollback, Mark, At, HasOperation
<1>2. o \in Row
  BY <1>1 DEF Typed
<1>3. At(j, "applied") => job[j].target \in 0..MaxRecords
  BY StageShapes, Sizes DEF At, Sent, Records, Typed
<1> HIDE DEF o
<1>4. CASE Finalize(j) /\ At(j, "applied")
  <2>1. Set(j, Targeted(o, job[j].target)) /\ Keep
    BY <1>4 DEF Finalize, Verified, At, Targeted, o
  <2>2. Ends(j, Targeted(o, job[j].target))
    <3> DEFINE row == Targeted(o, job[j].target)
    <3>1. job[j].target \in 0..MaxRecords
      BY <1>3, <1>4
    <3>2. /\ row \in Row /\ row.status = "VERIFIED" /\ row.target = job[j].target
          /\ row.record = o.record /\ row.prev = o.prev /\ row.value = o.value
      BY <1>2, <3>1, TargetMade
    <3> HIDE DEF row
    <3>3. Ends(j, row)
      BY <1>4, <3>2 DEF Ends, Kept, o
    <3> QED BY <3>3 DEF row
  <2> QED BY <1>1, <1>4, <2>1, <2>2 DEF Set, Rewritten, Keep, At
<1>5. CASE Finalize(j) /\ At(j, "refused")
  <2>1. Set(j, [o EXCEPT !.status = "FAILED"]) /\ Keep
    BY <1>5 DEF Finalize, At, o
  <2>2. Ends(j, [o EXCEPT !.status = "FAILED"])
    <3>1. "FAILED" \in Statuses
      BY DEF Statuses
    <3> QED BY <1>2, <1>5, <3>1, StatusMade DEF Ends, Kept, o
  <2> QED BY <1>1, <1>5, <2>1, <2>2 DEF Set, Rewritten, Keep, At
<1>6. CASE FinalizeRollback(j) /\ At(j, "restored")
  <2>1. Set(j, [o EXCEPT !.status = "ROLLED_BACK"]) /\ Keep
    BY <1>6 DEF FinalizeRollback, At, o
  <2>2. Ends(j, [o EXCEPT !.status = "ROLLED_BACK"])
    <3>1. "ROLLED_BACK" \in Statuses
      BY DEF Statuses
    <3> QED BY <1>2, <1>6, <3>1, StatusMade DEF Ends, Kept, o
  <2> QED BY <1>1, <1>6, <2>1, <2>2 DEF Set, Rewritten, Keep, At
<1>7. CASE FinalizeRollback(j) /\ At(j, "unrestored")
  <2>1. Set(j, [o EXCEPT !.status = "ROLLBACK_FAILED"]) /\ Keep
    BY <1>7 DEF FinalizeRollback, At, o
  <2>2. Ends(j, [o EXCEPT !.status = "ROLLBACK_FAILED"])
    <3>1. "ROLLBACK_FAILED" \in Statuses
      BY DEF Statuses
    <3> QED BY <1>2, <1>7, <3>1, StatusMade DEF Ends, Kept, o
  <2> QED BY <1>1, <1>7, <2>1, <2>2 DEF Set, Rewritten, Keep, At
<1>8. CASE Mark(j)
  <2> DEFINE row == [o EXCEPT !.status = "ROLLING_BACK"]
  <2>1. At(j, "mark") /\ Keep
    BY <1>8 DEF Mark
  <2>2. [ops EXCEPT ![i].status = "ROLLING_BACK"] = [ops EXCEPT ![i] = row]
    BY DEF o
  <2>3. Ends(j, row)
    <3>1. "ROLLING_BACK" \in Statuses
      BY DEF Statuses
    <3> QED BY <1>2, <2>1, <3>1, StatusMade DEF Ends, Kept, o
  <2> HIDE DEF row
  <2>4. \/ Rewritten(i, row) /\ Goto(j, "restore") /\ NoFault
        \/ (ops' = ops \/ Rewritten(i, row)) /\ Stop(j) /\ Fault
    BY <1>8, <2>2 DEF Mark, Rewritten
  <2> QED BY <1>1, <2>1, <2>3, <2>4 DEF Keep
<1> QED BY <1>4, <1>5, <1>6, <1>7, <1>8 DEF Finalize, FinalizeRollback

LEMMA ReportTyped ==
  ASSUME Typed, NEW j \in Jobs, Finalize(j) \/ FinalizeRollback(j) \/ Mark(j) PROVE Typed'
<1>1. /\ UNCHANGED <<zone, used, Merchant>> /\ HasOperation(j)
      /\ Fault \/ NoFault
      /\ ops' = ops \/ \E row : Ends(j, row) /\ Rewritten(job[j].op, row)
      /\ Stop(j) \/ (At(j, "mark") /\ Goto(j, "restore"))
  BY Reports
<1>2. job[j].op \in DOMAIN ops /\ ops \in Seq(Row) /\ faults' \in 0..MaxFaults
  BY <1>1, FaultsTyped DEF Typed
<1>3. ops' \in Seq(Row) /\ DOMAIN ops' = DOMAIN ops
  BY <1>1, <1>2, RewrittenLog DEF Ends
<1>4. CASE Stop(j)
  BY <1>1, <1>2, <1>3, <1>4, StopTyped, TypedMoves DEF Typed
<1>5. CASE At(j, "mark") /\ Goto(j, "restore")
  <2> DEFINE s == [job[j] EXCEPT !.step = "restore"]
  <2>1. job[j] \in Undoing /\ job[j] \in Stages
    BY <1>5, StageShapes DEF At, Typed
  <2>2. s \in Stages /\ s.op = job[j].op
    BY <2>1, UndoingGoes DEF Stages
  <2>3. job' = [job EXCEPT ![j] = s]
    BY <1>5 DEF Goto
  <2> HIDE DEF s
  <2>4. job' \in [Jobs -> Stages] /\ \A k \in Jobs : HasOperation(k)' => job'[k].op \in DOMAIN ops'
    BY <1>2, <1>3, <2>2, <2>3, JobTyped
  <2> QED BY <1>1, <1>2, <1>3, <2>4, TypedMoves DEF Typed
<1> QED BY <1>1, <1>4, <1>5

-----------------------------------------------------------------------------
(* The zone.                                                               *)

\* The record an operation writes: the one it found, or a new one.
Writes(o, r) ==
  \/ o.record = r /\ r \in Live /\ used' = used
  \/ o.record = 0 /\ r = used + 1 /\ used < MaxRecords /\ used' = r

LEMMA Applies ==
  ASSUME Typed, NEW j \in Jobs, Apply(j)
  PROVE  LET o == ops[job[j].op] IN
         /\ job[j] \in Sending /\ At(j, "apply") /\ o \in Row /\ UNCHANGED <<ops, Merchant>>
         /\ \/ UNCHANGED Zone /\ Goto(j, "refused") /\ (Fault \/ NoFault)
            \/ \E r \in Records :
                 /\ Writes(o, r) /\ zone' = [zone EXCEPT ![r] = o.value]
                 /\ \/ job' = [job EXCEPT ![j] = [step |-> "applied", op |-> job[j].op, target |-> r]]
                       /\ NoFault
                    \/ Goto(j, "refused") /\ Fault
<1> DEFINE o == ops[job[j].op]
<1>1. job[j] \in Sending /\ At(j, "apply") /\ o \in Row /\ UNCHANGED <<ops, Merchant>>
  <2>1. job[j] \in Sending /\ HasOperation(j)
    BY StageShapes DEF Apply, At, Typed, HasOperation
  <2> QED BY <2>1 DEF Apply, Typed
<1> DEFINE applied(r) == job' = [job EXCEPT ![j] = [step |-> "applied", op |-> job[j].op, target |-> r]]
<1>2. IF o.record # 0
      THEN Call(CanUpdate(o.record), Update(o.record, o.value), applied(o.record), Goto(j, "refused"))
      ELSE Call(CanCreate(o.value), Create(o.value), applied(used + 1), Goto(j, "refused"))
  BY DEF Apply
<1> HIDE DEF o, applied
<1>3. CASE o.record # 0
  <2>1. \/ UNCHANGED Zone /\ Goto(j, "refused") /\ (Fault \/ NoFault)
        \/ /\ o.record \in Live /\ zone' = [zone EXCEPT ![o.record] = o.value] /\ used' = used
           /\ (applied(o.record) /\ NoFault) \/ (Goto(j, "refused") /\ Fault)
    BY <1>2, <1>3 DEF Call, CanUpdate, Update
  <2>2. o.record \in Live => o.record \in Records
    BY DEF Live
  <2> QED BY <1>1, <2>1, <2>2 DEF Writes, o, applied
<1>4. CASE o.record = 0
  <2>1. \/ UNCHANGED Zone /\ Goto(j, "refused") /\ (Fault \/ NoFault)
        \/ /\ used < MaxRecords /\ zone' = [zone EXCEPT ![used + 1] = o.value] /\ used' = used + 1
           /\ (applied(used + 1) /\ NoFault) \/ (Goto(j, "refused") /\ Fault)
    BY <1>2, <1>4 DEF Call, CanCreate, Create
  <2>2. used < MaxRecords => used + 1 \in Records
    BY Sizes DEF Typed, Records
  <2> QED BY <1>1, <1>4, <2>1, <2>2 DEF Writes, o, applied
<1> QED BY <1>3, <1>4

LEMMA ApplyTyped == ASSUME Typed, NEW j \in Jobs, Apply(j) PROVE Typed'
<1> DEFINE o == ops[job[j].op]
           a(r) == [step |-> "applied", op |-> job[j].op, target |-> r]
           b == [job[j] EXCEPT !.step = "refused"]
<1>1. /\ job[j] \in Sending /\ At(j, "apply") /\ o \in Row /\ UNCHANGED <<ops, Merchant>>
      /\ Fault \/ NoFault
  BY Applies
<1>2. /\ \/ UNCHANGED Zone
         \/ \E r \in Records : Writes(o, r) /\ zone' = [zone EXCEPT ![r] = o.value]
      /\ \/ Goto(j, "refused")
         \/ \E r \in Records : job' = [job EXCEPT ![j] = a(r)]
  BY Applies
<1>3. job[j].op \in DOMAIN ops /\ job[j] \in Stages /\ faults' \in 0..MaxFaults
  BY <1>1, FaultsTyped DEF Typed, HasOperation, At
<1>4. zone' \in [Records -> Contents] /\ used' \in 0..MaxRecords
  <2>1. o.value \in Contents
    BY <1>1 DEF Row, Contents
  <2> HIDE DEF o
  <2>2. CASE UNCHANGED Zone
    BY <2>2 DEF Typed, Zone
  <2>3. ASSUME NEW r \in Records, Writes(o, r), zone' = [zone EXCEPT ![r] = o.value]
        PROVE  zone' \in [Records -> Contents] /\ used' \in 0..MaxRecords
    <3>1. zone' \in [Records -> Contents]
      BY <2>1, <2>3 DEF Typed
    <3>2. used' \in 0..MaxRecords
      BY <2>3, Sizes DEF Typed, Writes, Records
    <3> QED BY <3>1, <3>2
  <2> QED BY <1>2, <2>2, <2>3
<1>5. job' \in [Jobs -> Stages] /\ \A k \in Jobs : HasOperation(k)' => job'[k].op \in DOMAIN ops'
  <2>1. CASE Goto(j, "refused")
    <3>1. b \in Stages /\ b.op = job[j].op
      BY <1>1, SendingGoes DEF Stages
    <3>2. job' = [job EXCEPT ![j] = b]
      BY <2>1 DEF Goto
    <3> HIDE DEF b
    <3> QED BY <1>1, <1>3, <3>1, <3>2, JobTyped
  <2>2. ASSUME NEW r \in Records, job' = [job EXCEPT ![j] = a(r)]
        PROVE  job' \in [Jobs -> Stages] /\ \A k \in Jobs : HasOperation(k)' => job'[k].op \in DOMAIN ops'
    <3>1. a(r) \in Stages /\ a(r).op = job[j].op
      BY <1>1 DEF Stages, Sending, Sent
    <3> HIDE DEF a
    <3> QED BY <1>1, <1>3, <2>2, <3>1, JobTyped
  <2> QED BY <1>2, <2>1, <2>2
<1> QED BY <1>1, <1>3, <1>4, <1>5, TypedMoves DEF Typed

\* The record a rollback writes, and what: the created one goes, the changed one gets
\* its content back.
Undone(o) == IF o.record = 0 THEN o.target ELSE o.record
Before(o) == IF o.record = 0 THEN None ELSE o.prev

LEMMA Restores ==
  ASSUME Typed, NEW j \in Jobs, Restore(j)
  PROVE  LET o == job[j].was IN
         /\ job[j] \in Undoing /\ At(j, "restore") /\ UNCHANGED <<used, ops, Merchant>>
         /\ \/ zone' = zone /\ Goto(j, "unrestored") /\ (Fault \/ (NoFault /\ Undone(o) \notin Live))
            \/ /\ Undone(o) \in Live /\ zone' = [zone EXCEPT ![Undone(o)] = Before(o)]
               /\ (Goto(j, "restored") /\ NoFault) \/ (Goto(j, "unrestored") /\ Fault)
<1> DEFINE o == job[j].was
<1>1. job[j] \in Undoing /\ At(j, "restore") /\ UNCHANGED <<ops, Merchant>>
  BY StageShapes DEF Restore, At, Typed
<1>2. IF o.record = 0
      THEN Call(CanDelete(o.target), Delete(o.target), Goto(j, "restored"), Goto(j, "unrestored"))
      ELSE Call(CanUpdate(o.record), Update(o.record, o.prev), Goto(j, "restored"), Goto(j, "unrestored"))
  BY DEF Restore
<1> HIDE DEF o
<1>3. CASE o.record = 0
  BY <1>1, <1>2, <1>3 DEF Call, CanDelete, Delete, Undone, Before, Zone, o
<1>4. CASE o.record # 0
  BY <1>1, <1>2, <1>4 DEF Call, CanUpdate, Update, Undone, Before, Zone, o
<1> QED BY <1>3, <1>4

LEMMA RestoreTyped == ASSUME Typed, NEW j \in Jobs, Restore(j) PROVE Typed'
<1> DEFINE o == job[j].was
<1>1. /\ job[j] \in Undoing /\ At(j, "restore") /\ UNCHANGED <<used, ops, Merchant>>
      /\ zone' = zone \/ (Undone(o) \in Live /\ zone' = [zone EXCEPT ![Undone(o)] = Before(o)])
      /\ Goto(j, "restored") \/ Goto(j, "unrestored")
      /\ Fault \/ NoFault
  BY Restores
<1>2. job[j].op \in DOMAIN ops /\ job[j] \in Stages /\ faults' \in 0..MaxFaults
  BY <1>1, FaultsTyped DEF Typed, HasOperation, At
<1>3. zone' \in [Records -> Contents]
  <2>1. Before(o) \in Contents
    BY <1>1 DEF Undoing, Row, Contents, Before
  <2> HIDE DEF o
  <2> QED BY <1>1, <2>1 DEF Typed
<1>4. ASSUME NEW t \in {"restored", "unrestored"}, Goto(j, t)
      PROVE  job' \in [Jobs -> Stages] /\ \A k \in Jobs : HasOperation(k)' => job'[k].op \in DOMAIN ops'
  <2> DEFINE s == [job[j] EXCEPT !.step = t]
  <2>0. t \in {"restore", "restored", "unrestored"} /\ job[j] \in Undoing
    BY <1>1, <1>4
  <2>1. s \in Undoing /\ s.op = job[j].op
    BY <2>0, UndoingGoes
  <2>2. job' = [job EXCEPT ![j] = s]
    BY <1>4 DEF Goto
  <2> HIDE DEF s
  <2>3. s \in Stages
    BY <2>1 DEF Stages
  <2> QED BY <1>1, <1>2, <2>1, <2>2, <2>3, JobTyped
<1> QED BY <1>1, <1>2, <1>3, <1>4, TypedMoves DEF Typed

LEMMA CrashTyped == ASSUME Typed, NEW j \in Jobs, Crash(j) PROVE Typed'
<1>1. UNCHANGED <<zone, used, ops, Merchant>> /\ Stop(j) /\ faults' \in 0..MaxFaults
  BY FaultsTyped DEF Crash, Typed
<1> QED BY <1>1, StopTyped, TypedMoves DEF Typed

LEMMA EditTyped ==
  ASSUME Typed, NEW r \in Records, NEW v \in Values, Edit(r, v) PROVE Typed'
<1>1. zone' \in [Records -> Contents] /\ own' \in [Records -> Contents]
  BY DEF Edit, Typed, Contents
<1>2. used' \in 0..MaxRecords /\ raced' \subseteq Records /\ edits' \in 0..MaxEdits
  BY Sizes DEF Edit, Typed, Records
<1>3. UNCHANGED <<ops, job, faults>>
  BY DEF Edit
<1> QED BY <1>1, <1>2, <1>3 DEF Typed, HasOperation

LEMMA OthersTyped == ASSUME Typed, Connect \/ Revoke \/ UNCHANGED vars PROVE Typed'
<1>1. UNCHANGED <<zone, used, ops, job, own, raced, faults>> /\ edits' \in 0..MaxEdits
  BY Sizes DEF Connect, Revoke, Credential, vars, Typed
<1> QED BY <1>1 DEF Typed, HasOperation

LEMMA NextTyped == Typed /\ [Next]_vars => Typed'
<1> SUFFICES ASSUME Typed, [Next]_vars PROVE Typed'
  OBVIOUS
<1>1. ASSUME NEW j \in Jobs, NEW v \in Values, Plan(j, v) PROVE Typed'
  BY <1>1, PlanTyped
<1>2. ASSUME NEW j \in Jobs, NEW i \in DOMAIN ops, Load(j, i) PROVE Typed'
  BY <1>2, LoadTyped
<1>3. ASSUME NEW j \in Jobs, Proceed(j) PROVE Typed'
  BY <1>3, ValidateTyped, PersistTyped, ApplyTyped, ReportTyped, RestoreTyped DEF Proceed
<1>4. ASSUME NEW j \in Jobs, Crash(j) PROVE Typed'
  BY <1>4, CrashTyped
<1>5. ASSUME NEW r \in Records, NEW v \in Values, Edit(r, v) PROVE Typed'
  BY <1>5, EditTyped
<1> QED BY <1>1, <1>2, <1>3, <1>4, <1>5, OthersTyped DEF Next

LEMMA InitTyped == Init => Typed
<1> SUFFICES ASSUME Init PROVE Typed
  OBVIOUS
<1>1. PICK o \in Originals : /\ zone = [r \in Records |-> IF r \in DOMAIN o THEN o[r] ELSE None]
                             /\ used = Len(o)
  BY DEF Init
<1>2. o \in Seq(Values) /\ Len(o) <= MaxRecords
  BY AutoFixAssumption
<1>3. zone \in [Records -> Contents] /\ used \in 0..MaxRecords
  BY <1>1, <1>2, Sizes DEF Contents
<1>4. own = zone /\ raced = {} /\ ops = <<>> /\ faults = 0 /\ edits = 0 /\ job = [j \in Jobs |-> Idle]
  BY DEF Init
<1>5. Idle \in Stages /\ Idle.step = "idle"
  BY DEF Stages, Idle
<1> QED BY <1>3, <1>4, <1>5, Sizes DEF Typed, HasOperation

-----------------------------------------------------------------------------
(* What the merchant had can be recovered.                                 *)

\* A snapshot in the log has what the merchant has put into a record.
Evidence(r) == \E i \in DOMAIN ops : ops[i].record = r /\ ops[i].prev = own[r]
Touched(r) == \E i \in DOMAIN ops : ops[i].record = r

\* Nothing of the merchant's is lost with the record.
Disposable(r) == r \in raced \/ own[r] = None

\* The record is there, and once an operation may change it the log has the original.
Recoverable(r) ==
  own[r] # None => /\ zone[r] # None
                   /\ zone[r] = own[r] \/ Evidence(r)
                   /\ Touched(r) => Evidence(r)

\* An operation either overwrites a record that was there, with its snapshot, or creates
\* one, which is not the merchant's.
RowSound(i) ==
  LET o == ops[i] IN
  /\ o.record <= used /\ o.target <= used
  /\ o.status = "VERIFIED" => o.target # 0
  /\ o.record # 0 => o.prev # None
  /\ o.record = 0 /\ o.target # 0 => Disposable(o.target)

\* What a request carries from one call to the next is as good: the snapshot it is about
\* to store, the record it has created, the operation as it has loaded it.
JobSound(j) ==
  LET o == job[j].was IN
  /\ job[j].step = "persist" =>
       /\ job[j].record <= used
       /\ job[j].record # 0 =>
            /\ job[j].prev # None
            /\ \/ Disposable(job[j].record)
               \/ own[job[j].record] = job[j].prev \/ Evidence(job[j].record)
  /\ job[j].step = "applied" =>
       /\ job[j].target <= used
       /\ ops[job[j].op].record = 0 => Disposable(job[j].target)
  /\ job[j].step \in {"mark", "restore", "restored", "unrestored"} =>
       /\ o.record = ops[job[j].op].record
       /\ o.record # 0 => o.prev # None
       /\ o.record = 0 => o.target # 0 /\ Disposable(o.target)

\* Records that were never given out hold nothing.
Fresh == \A r \in Records : r > used => zone[r] = None /\ own[r] = None

Sound ==
  /\ Typed /\ Fresh
  /\ \A i \in DOMAIN ops : RowSound(i)
  /\ \A j \in Jobs : JobSound(j)
  /\ \A r \in Records \ raced : Recoverable(r)

\* The operations that are there keep their record and their snapshot.
LogKept ==
  /\ DOMAIN ops \subseteq DOMAIN ops'
  /\ \A i \in DOMAIN ops : ops'[i].record = ops[i].record /\ ops'[i].prev = ops[i].prev

Framed == LogKept /\ own' = own /\ raced' = raced /\ used <= used'

\* As long as the merchant does nothing, what was sound and did not move is sound.
LEMMA EvidenceStays ==
  ASSUME Framed, NEW r, Evidence(r) PROVE Evidence(r)'
BY DEF Framed, LogKept, Evidence

LEMMA DisposableStays ==
  ASSUME Framed, NEW r, Disposable(r) PROVE Disposable(r)'
BY DEF Framed, Disposable

LEMMA UsedGrows ==
  ASSUME Framed, Typed, Typed', NEW n \in Nat, n <= used PROVE n <= used'
BY Sizes DEF Framed, Typed

LEMMA RowStays ==
  ASSUME Sound, Typed', Framed, NEW i \in DOMAIN ops, ops'[i] = ops[i] PROVE RowSound(i)'
<1>1. RowSound(i) /\ ops[i] \in Row /\ used \in Nat /\ used' \in Nat /\ used <= used'
  BY Sizes DEF Sound, Typed, Framed
<1>2. ops[i].record \in Nat /\ ops[i].target \in Nat
  BY <1>1, Sizes DEF Row
<1> QED BY <1>1, <1>2, DisposableStays DEF RowSound

LEMMA JobStays ==
  ASSUME Sound, Typed', Framed, NEW k \in Jobs, job'[k] = job[k] PROVE JobSound(k)'
<1>1. JobSound(k) /\ job[k] \in Stages /\ used \in Nat /\ used' \in Nat /\ used <= used'
  BY Sizes DEF Sound, Typed, Framed
<1>2. CASE job[k].step = "persist"
  <2>1. job[k] \in Looked
    BY <1>1, <1>2, StageShapes
  <2>2. job[k].record \in Nat
    BY <2>1, Sizes DEF Looked
  <2>3. Evidence(job[k].record) => Evidence(job[k].record)'
    BY EvidenceStays DEF Evidence
  <2>4. Disposable(job[k].record) => Disposable(job[k].record)'
    BY DisposableStays DEF Disposable
  <2> QED BY <1>1, <1>2, <2>2, <2>3, <2>4 DEF JobSound, Framed, Evidence, Disposable
<1>3. CASE job[k].step = "applied"
  <2>1. job[k] \in Sent /\ job[k].op \in DOMAIN ops
    BY <1>1, <1>3, StageShapes DEF Sound, Typed, HasOperation
  <2>2. job[k].target \in Nat /\ ops'[job[k].op].record = ops[job[k].op].record
    BY <2>1, Sizes DEF Sent, Records, Framed, LogKept
  <2> QED BY <1>1, <1>3, <2>2 DEF JobSound, Framed, Disposable
<1>4. CASE job[k].step \in {"mark", "restore", "restored", "unrestored"}
  <2>1. job[k].op \in DOMAIN ops
    BY <1>4 DEF Sound, Typed, HasOperation
  <2>2. ops'[job[k].op].record = ops[job[k].op].record
    BY <2>1 DEF Framed, LogKept
  <2> QED BY <1>1, <1>4, <2>2 DEF JobSound, Framed, Disposable
<1> QED BY <1>2, <1>3, <1>4 DEF JobSound

LEMMA IdleSound == ASSUME NEW j \in Jobs, job'[j] = Idle PROVE JobSound(j)'
BY DEF JobSound, Idle

LEMMA RecordStays ==
  ASSUME Sound, Framed, DOMAIN ops' = DOMAIN ops, NEW r \in Records \ raced, zone'[r] = zone[r]
  PROVE  Recoverable(r)'
<1>1. Recoverable(r) /\ own'[r] = own[r]
  BY DEF Sound, Framed
<1>2. Touched(r)' => Touched(r)
  BY DEF Touched, Framed, LogKept
<1>3. Evidence(r) => Evidence(r)'
  BY EvidenceStays
<1> QED BY <1>1, <1>2, <1>3 DEF Recoverable

\* Steps that leave the log and the zone alone: only one request moves.
LEMMA QuietSound ==
  ASSUME Sound, Typed', UNCHANGED <<zone, used, ops, own, raced>>, NEW j \in Jobs, JobSound(j)',
         \A k \in Jobs : k # j => job'[k] = job[k]
  PROVE  Sound'
<1>1. Framed
  BY Sizes DEF Framed, LogKept, Sound, Typed
<1>2. Fresh'
  BY DEF Sound, Fresh
<1> QED BY <1>1, <1>2, RowStays, JobStays, RecordStays DEF Sound

LEMMA OnlyJob ==
  ASSUME Typed, NEW j \in Jobs, NEW s, job' = [job EXCEPT ![j] = s]
  PROVE  job'[j] = s /\ \A k \in Jobs : k # j => job'[k] = job[k]
BY DEF Typed

LEMMA PlanSound ==
  ASSUME Sound, Typed', NEW j \in Jobs, NEW v \in Values, Plan(j, v) PROVE Sound'
<1>1. job' = [job EXCEPT ![j] = [step |-> "validate", value |-> v]]
      /\ UNCHANGED <<zone, used, ops, own, raced>>
  BY DEF Plan, Merchant
<1>2. job'[j].step = "validate" /\ \A k \in Jobs : k # j => job'[k] = job[k]
  BY <1>1 DEF Sound, Typed
<1>3. JobSound(j)'
  BY <1>2 DEF JobSound
<1> QED BY <1>1, <1>2, <1>3, QuietSound

\* The snapshot that a look makes is what the merchant had, or the log has that.
LEMMA ValidateSound == ASSUME Sound, Typed', NEW j \in Jobs, Validate(j) PROVE Sound'
<1>1. /\ job[j] \in Asked /\ UNCHANGED <<zone, used, ops, own, raced>>
      /\ \/ Stop(j)
         \/ \E r \in 0..MaxRecords :
              /\ r # 0 => r \in Live /\ zone[r] # job[j].value
              /\ job' = [job EXCEPT ![j] = [step |-> "persist", value |-> job[j].value, record |-> r,
                                            prev |-> IF r = 0 THEN None ELSE zone[r]]]
  BY LooksAt DEF Sound, Merchant
<1>2. CASE Stop(j)
  <2>1. job'[j] = Idle /\ \A k \in Jobs : k # j => job'[k] = job[k]
    BY <1>2, OnlyJob DEF Sound, Stop
  <2> QED BY <1>1, <2>1, IdleSound, QuietSound
<1>3. ASSUME NEW r \in 0..MaxRecords, r # 0 => r \in Live,
             job' = [job EXCEPT ![j] = [step |-> "persist", value |-> job[j].value, record |-> r,
                                        prev |-> IF r = 0 THEN None ELSE zone[r]]]
      PROVE  Sound'
  <2>1. /\ job'[j] = [step |-> "persist", value |-> job[j].value, record |-> r,
                      prev |-> IF r = 0 THEN None ELSE zone[r]]
        /\ \A k \in Jobs : k # j => job'[k] = job[k]
    <3>1. job \in [Jobs -> Stages]
      BY DEF Sound, Typed
    <3> QED BY <1>3, <3>1
  <2>2. r <= used
    BY <1>3, Sizes DEF Sound, Fresh, Typed, Live
  <2>3. ASSUME r # 0 PROVE zone[r] # None /\ (Disposable(r) \/ own[r] = zone[r] \/ Evidence(r))
    BY <1>3, <2>3 DEF Sound, Recoverable, Disposable, Live
  <2>4. job'[j].step = "persist" /\ job'[j].record = r /\ (r # 0 => job'[j].prev = zone[r])
    BY <2>1
  <2>5. JobSound(j)'
    BY <1>1, <2>2, <2>3, <2>4 DEF JobSound, Disposable, Evidence
  <2> QED BY <1>1, <2>1, <2>5, QuietSound
<1> QED BY <1>1, <1>2, <1>3

\* What is loaded is a row of the log.
LEMMA LoadSound ==
  ASSUME Sound, Typed', NEW j \in Jobs, NEW i \in DOMAIN ops, Load(j, i) PROVE Sound'
<1>1. /\ job' = [job EXCEPT ![j] = [step |-> "mark", op |-> i, was |-> ops[i]]]
      /\ UNCHANGED <<zone, used, ops, own, raced>> /\ ops[i].status = "VERIFIED"
  BY DEF Load, Merchant, Undoable
<1>2. /\ job'[j].step = "mark" /\ job'[j].op = i /\ job'[j].was = ops[i]
      /\ \A k \in Jobs : k # j => job'[k] = job[k]
  <2>1. job \in [Jobs -> Stages]
    BY DEF Sound, Typed
  <2> QED BY <1>1, <2>1
<1>3. RowSound(i)
  BY DEF Sound
<1>4. JobSound(j)'
  BY <1>1, <1>2, <1>3 DEF JobSound, RowSound, Disposable
<1> QED BY <1>1, <1>2, <1>4, QuietSound

LEMMA CrashSound == ASSUME Sound, Typed', NEW j \in Jobs, Crash(j) PROVE Sound'
<1>1. job'[j] = Idle /\ (\A k \in Jobs : k # j => job'[k] = job[k])
      /\ UNCHANGED <<zone, used, ops, own, raced>>
  BY OnlyJob DEF Crash, Stop, Sound, Merchant
<1> QED BY <1>1, IdleSound, QuietSound

\* The snapshot is stored before anything is written: from then on the record counts as
\* touched, and its original is there.
LEMMA PersistSound == ASSUME Sound, Typed', NEW j \in Jobs, Persist(j) PROVE Sound'
<1>0. PICK n : n = Len(ops) + 1
  OBVIOUS
<1> DEFINE row == Operation(j)
<1>1. /\ UNCHANGED <<zone, used, own, raced>> /\ At(j, "persist")
      /\ \/ /\ ops' = Append(ops, row)
            /\ job' = [job EXCEPT ![j] = [step |-> "apply", op |-> n]]
         \/ ops' \in {ops, Append(ops, row)} /\ Stop(j)
  BY <1>0, Inserts DEF Sound, Merchant
<1>2. /\ row \in Row /\ row.status = "APPLYING" /\ row.target = 0
      /\ row.record = job[j].record /\ row.prev = job[j].prev
  BY <1>1, OperationMade DEF Sound
<1> HIDE DEF row
<1>3. job \in [Jobs -> Stages] /\ ops \in Seq(Row) /\ used \in Nat
  BY Sizes DEF Sound, Typed
<1>4. \A k \in Jobs : k # j => job'[k] = job[k]
  BY <1>1, <1>3 DEF Stop
<1>5. JobSound(j)'
  <2>1. CASE Stop(j)
    BY <2>1, <1>3, IdleSound DEF Stop
  <2>2. CASE job' = [job EXCEPT ![j] = [step |-> "apply", op |-> n]]
    <3>1. job'[j].step = "apply"
      BY <2>2, <1>3
    <3> QED BY <3>1 DEF JobSound
  <2> QED BY <1>1, <2>1, <2>2
<1>6. CASE ops' = ops
  BY <1>1, <1>4, <1>5, <1>6, QuietSound
<1>7. CASE ops' = Append(ops, row)
  <2>1. /\ DOMAIN ops' = DOMAIN ops \cup {n} /\ ops'[n] = row
        /\ \A i \in DOMAIN ops : ops'[i] = ops[i]
    BY <1>0, <1>2, <1>3, <1>7, AppendedLog
  <2>2. Framed /\ Fresh'
    BY <1>1, <1>3, <2>1 DEF Framed, LogKept, Sound, Fresh
  <2>3. /\ job[j].record <= used
        /\ job[j].record # 0 =>
             /\ job[j].prev # None
             /\ \/ Disposable(job[j].record)
                \/ own[job[j].record] = job[j].prev \/ Evidence(job[j].record)
    BY <1>1 DEF Sound, JobSound, At
  <2>4. RowSound(n)'
    BY <1>1, <1>2, <1>3, <2>1, <2>3 DEF RowSound
  <2>5. ASSUME NEW r \in Records \ raced PROVE Recoverable(r)'
    <3>1. Recoverable(r)
      BY DEF Sound
    <3>2. CASE r # job[j].record
      <4>1. Touched(r)' => Touched(r)
        BY <1>2, <2>1, <3>2 DEF Touched
      <4> QED BY <1>1, <2>2, <3>1, <4>1, EvidenceStays DEF Recoverable
    <3>3. CASE r = job[j].record
      <4>1. own[r] = None \/ own[r] = job[j].prev \/ Evidence(r)
        BY <2>3, <3>3 DEF Disposable, Records
      <4>2. own[r] = job[j].prev => Evidence(r)'
        BY <1>1, <1>2, <2>1, <3>3 DEF Evidence
      <4> QED BY <1>1, <2>2, <3>1, <4>1, <4>2, EvidenceStays DEF Recoverable
    <3> QED BY <3>2, <3>3
  <2> QED BY <1>1, <1>4, <1>5, <2>1, <2>2, <2>4, <2>5, RowStays, JobStays DEF Sound
<1> QED BY <1>1, <1>6, <1>7

\* A report changes a status, and gives the created record as the target.
LEMMA ReportSound ==
  ASSUME Sound, Typed', NEW j \in Jobs, Finalize(j) \/ FinalizeRollback(j) \/ Mark(j)
  PROVE  Sound'
<1>0. PICK n : n = job[j].op
  OBVIOUS
<1>1. /\ UNCHANGED <<zone, used, own, raced>> /\ HasOperation(j)
      /\ ops' = ops \/ \E row : Ends(j, row) /\ Rewritten(n, row)
      /\ Stop(j) \/ (At(j, "mark") /\ Goto(j, "restore"))
  BY <1>0, Reports DEF Sound, Merchant
<1>2. /\ job \in [Jobs -> Stages] /\ ops \in Seq(Row) /\ used \in Nat /\ n \in DOMAIN ops
      /\ ops[n] \in Row
  BY <1>0, <1>1, Sizes DEF Sound, Typed
<1>3. \A k \in Jobs : k # j => job'[k] = job[k]
  BY <1>1, <1>2 DEF Stop, Goto
<1>4. CASE ops' = ops
  <2>1. JobSound(j)'
    <3>1. CASE Stop(j)
      BY <3>1, <1>2, IdleSound DEF Stop
    <3>2. CASE At(j, "mark") /\ Goto(j, "restore")
      <4>1. job[j] \in Undoing
        BY <1>2, <3>2, StageShapes DEF At
      <4>2. /\ job'[j].step = "restore" /\ job'[j].op = n /\ job'[j].was = job[j].was
        BY <1>0, <1>2, <3>2, <4>1, UndoingGoes DEF Goto
      <4>3. JobSound(j)
        BY DEF Sound
      <4> QED BY <1>0, <1>1, <1>4, <3>2, <4>2, <4>3 DEF JobSound, At, Disposable
    <3> QED BY <1>1, <3>1, <3>2
  <2> QED BY <1>1, <1>3, <1>4, <2>1, QuietSound
<1>5. ASSUME NEW row, Ends(j, row), Rewritten(n, row) PROVE Sound'
  <2>1. /\ row \in Row /\ row.record = ops[n].record /\ row.prev = ops[n].prev
        /\ \/ At(j, "applied") /\ row.target = job[j].target
           \/ row.target = ops[n].target /\ row.status # "VERIFIED"
    BY <1>0, <1>5 DEF Ends, Kept
  <2>2. /\ DOMAIN ops' = DOMAIN ops /\ ops'[n] = row
        /\ \A i \in DOMAIN ops : i # n => ops'[i] = ops[i]
    BY <1>2, <1>5, <2>1, RewrittenLog
  <2>3. Framed /\ Fresh'
    BY <1>1, <1>2, <2>1, <2>2 DEF Framed, LogKept, Sound, Fresh
  <2>4. RowSound(n)'
    <3>1. RowSound(n) /\ JobSound(j)
      BY <1>2 DEF Sound
    <3>2. At(j, "applied") => job[j].target # 0
      BY <1>2, StageShapes DEF At, Sent, Records
    <3> QED BY <1>0, <1>1, <2>1, <2>2, <3>1, <3>2 DEF RowSound, JobSound, At, Disposable
  <2>5. JobSound(j)'
    <3>1. CASE Stop(j)
      BY <3>1, <1>2, IdleSound DEF Stop
    <3>2. CASE At(j, "mark") /\ Goto(j, "restore")
      <4>1. job[j] \in Undoing
        BY <1>2, <3>2, StageShapes DEF At
      <4>2. /\ job'[j].step = "restore" /\ job'[j].op = n /\ job'[j].was = job[j].was
        BY <1>0, <1>2, <3>2, <4>1, UndoingGoes DEF Goto
      <4>3. JobSound(j)
        BY DEF Sound
      <4> QED BY <1>0, <1>1, <2>1, <2>2, <3>2, <4>2, <4>3 DEF JobSound, At, Disposable
    <3> QED BY <1>1, <3>1, <3>2
  <2> QED BY <1>1, <1>3, <2>2, <2>3, <2>4, <2>5, RowStays, JobStays, RecordStays DEF Sound
<1> QED BY <1>1, <1>4, <1>5

\* The record that is overwritten is touched by the operation, the one that is created
\* never held anything.
LEMMA ApplySound == ASSUME Sound, Typed', NEW j \in Jobs, Apply(j) PROVE Sound'
<1> DEFINE o == ops[job[j].op]
           a(r) == [step |-> "applied", op |-> job[j].op, target |-> r]
<1>1. /\ job[j] \in Sending /\ At(j, "apply") /\ o \in Row /\ UNCHANGED <<ops, own, raced>>
      /\ \/ UNCHANGED Zone /\ Goto(j, "refused")
         \/ \E r \in Records :
              /\ Writes(o, r) /\ zone' = [zone EXCEPT ![r] = o.value]
              /\ job' = [job EXCEPT ![j] = a(r)] \/ Goto(j, "refused")
  BY Applies DEF Sound, Merchant
<1>2. job \in [Jobs -> Stages] /\ used \in Nat /\ job[j].op \in DOMAIN ops
  BY <1>1, Sizes DEF Sound, Typed, HasOperation, At
<1>3. Goto(j, "refused") => JobSound(j)' /\ \A k \in Jobs : k # j => job'[k] = job[k]
  <2>1. Goto(j, "refused") => job'[j].step = "refused" /\ \A k \in Jobs : k # j => job'[k] = job[k]
    BY <1>1, <1>2, SendingGoes DEF Goto
  <2> QED BY <2>1 DEF JobSound
<1>4. CASE UNCHANGED Zone /\ Goto(j, "refused")
  BY <1>1, <1>3, <1>4, QuietSound DEF Zone
<1>5. ASSUME NEW r \in Records, Writes(o, r), zone' = [zone EXCEPT ![r] = o.value],
             job' = [job EXCEPT ![j] = a(r)] \/ Goto(j, "refused")
      PROVE  Sound'
  <2>1. Framed /\ r <= used' /\ used' \in Nat
    <3>1. r \in Live => r <= used
      BY <1>2 DEF Sound, Fresh, Live, Records
    <3> QED BY <1>1, <1>2, <1>5, <3>1, Sizes DEF Framed, LogKept, Writes, Records
  <2>2. zone'[r] = o.value /\ \A x \in Records : x # r => zone'[x] = zone[x]
    BY <1>5 DEF Sound, Typed
  <2>3. Fresh'
    BY <1>1, <1>2, <2>1, <2>2, Sizes DEF Sound, Fresh, Framed, Records
  <2>4. o.record = r \/ (o.record = 0 /\ own[r] = None)
    BY <1>2, <1>5 DEF Writes, Sound, Fresh
  <2>5. ASSUME r \notin raced PROVE Recoverable(r)'
    <3>1. own'[r] = own[r] /\ zone'[r] # None
      BY <1>1, <2>2, Sizes DEF Row
    <3>2. Recoverable(r)
      BY <2>5 DEF Sound
    <3>3. own[r] # None => Evidence(r)
      BY <1>2, <2>4, <3>2 DEF Recoverable, Touched
    <3> QED BY <2>1, <3>1, <3>3, EvidenceStays DEF Recoverable
  <2>6. \A x \in Records \ raced : Recoverable(x)'
    BY <1>1, <2>1, <2>2, <2>5, RecordStays
  <2>7. JobSound(j)' /\ \A k \in Jobs : k # j => job'[k] = job[k]
    <3>1. CASE Goto(j, "refused")
      BY <1>3, <3>1
    <3>2. CASE job' = [job EXCEPT ![j] = a(r)]
      <4>1. /\ job'[j].step = "applied" /\ job'[j].target = r /\ job'[j].op = job[j].op
            /\ \A k \in Jobs : k # j => job'[k] = job[k]
        BY <1>2, <3>2
      <4>2. r # 0
        BY DEF Records
      <4> QED BY <1>1, <2>1, <2>4, <4>1, <4>2 DEF JobSound, Disposable
    <3> QED BY <1>5, <3>1, <3>2
  <2> QED BY <1>1, <2>1, <2>3, <2>6, <2>7, RowStays, JobStays DEF Sound
<1> QED BY <1>1, <1>4, <1>5

\* A rollback deletes what is nobody's, and writes over what the log can give back.
LEMMA RestoreSound == ASSUME Sound, Typed', NEW j \in Jobs, Restore(j) PROVE Sound'
<1> DEFINE o == job[j].was
<1>0. PICK r : r = Undone(o)
  OBVIOUS
<1>1. /\ job[j] \in Undoing /\ At(j, "restore") /\ UNCHANGED <<used, ops, own, raced>>
      /\ zone' = zone \/ (r \in Live /\ zone' = [zone EXCEPT ![r] = Before(o)])
      /\ Goto(j, "restored") \/ Goto(j, "unrestored")
  BY <1>0, Restores DEF Sound, Merchant
<1>2. /\ job \in [Jobs -> Stages] /\ used \in Nat /\ job[j].op \in DOMAIN ops /\ JobSound(j)
      /\ zone \in [Records -> Contents]
  BY <1>1, Sizes DEF Sound, Typed, HasOperation, At
<1>3. /\ job'[j].step \in {"restored", "unrestored"} /\ job'[j].op = job[j].op /\ job'[j].was = o
      /\ \A k \in Jobs : k # j => job'[k] = job[k]
  <2>1. CASE Goto(j, "restored")
    BY <1>1, <1>2, <2>1, UndoingGoes DEF Goto
  <2>2. CASE Goto(j, "unrestored")
    BY <1>1, <1>2, <2>2, UndoingGoes DEF Goto
  <2> QED BY <1>1, <2>1, <2>2
<1>4. JobSound(j)'
  BY <1>1, <1>2, <1>3 DEF JobSound, At, Disposable
<1>5. CASE zone' = zone
  BY <1>1, <1>3, <1>4, <1>5, QuietSound
<1>6. CASE r \in Live /\ zone' = [zone EXCEPT ![r] = Before(o)]
  <2>1. Framed
    BY <1>1, <1>2 DEF Framed, LogKept
  <2>2. r \in Records /\ zone[r] # None
    BY <1>6 DEF Live
  <2>3. zone'[r] = Before(o) /\ \A x \in Records : x # r => zone'[x] = zone[x]
    BY <1>2, <1>6, <2>2
  <2>4. Fresh'
    BY <1>1, <2>2, <2>3 DEF Sound, Fresh
  <2>5. ASSUME r \notin raced PROVE Recoverable(r)'
    <3>1. Recoverable(r) /\ own'[r] = own[r]
      BY <1>1, <2>2, <2>5 DEF Sound
    <3>2. CASE o.record = 0
      BY <1>0, <1>1, <1>2, <2>5, <3>1, <3>2 DEF JobSound, At, Disposable, Recoverable, Undone
    <3>3. CASE o.record # 0
      <4>1. ops[job[j].op].record = r /\ zone'[r] # None
        BY <1>0, <1>1, <1>2, <2>3, <3>3 DEF JobSound, At, Undone, Before
      <4>2. own[r] # None => Evidence(r)
        BY <1>2, <3>1, <4>1 DEF Recoverable, Touched
      <4> QED BY <2>1, <3>1, <4>1, <4>2, EvidenceStays DEF Recoverable
    <3> QED BY <3>2, <3>3
  <2>6. \A x \in Records \ raced : Recoverable(x)'
    BY <1>1, <2>1, <2>3, <2>5, RecordStays
  <2> QED BY <1>1, <1>3, <1>4, <2>1, <2>4, <2>6, RowStays, JobStays DEF Sound
<1> QED BY <1>1, <1>5, <1>6

\* A record that the merchant edits under a request or after an operation is raced, and
\* any other is the merchant's own again.
LEMMA EditSound ==
  ASSUME Sound, Typed', NEW r \in Records, NEW v \in Values, Edit(r, v) PROVE Sound'
<1>1. /\ zone' = [zone EXCEPT ![r] = v] /\ own' = [own EXCEPT ![r] = v]
      /\ UNCHANGED <<ops, job>> /\ (zone[r] = None => r = used + 1)
      /\ used' = IF r > used THEN r ELSE used
      /\ raced' = IF Underway = {} /\ (\A i \in DOMAIN ops : r \notin {ops[i].record, ops[i].target})
                  THEN raced ELSE raced \cup {r}
  BY DEF Edit
<1>2. /\ zone \in [Records -> Contents] /\ own \in [Records -> Contents] /\ used \in Nat
      /\ used' \in Nat /\ used <= used'
  BY <1>1, Sizes DEF Sound, Typed, Records
<1>3. /\ zone'[r] = v /\ own'[r] = v /\ v # None
      /\ \A x \in Records : x # r => zone'[x] = zone[x] /\ own'[x] = own[x]
  BY <1>1, <1>2, Sizes
<1>4. Fresh'
  <2>1. r <= used'
    BY <1>1, <1>2 DEF Records
  <2> QED BY <1>2, <1>3, <2>1 DEF Sound, Fresh, Records
<1>5. ASSUME NEW x \in Records, x \in raced \/ own[x] = None, x # r \/ r \in raced'
      PROVE  x \in raced' \/ own'[x] = None
  BY <1>1, <1>3, <1>5
<1>6. ASSUME NEW i \in DOMAIN ops PROVE RowSound(i)'
  <2>1. RowSound(i) /\ ops[i] \in Row
    BY DEF Sound, Typed
  <2>2. ops[i].target \in 0..MaxRecords /\ ops[i].record \in Nat
    BY <2>1, Sizes DEF Row
  <2>3. ops[i].target = r => r \in raced'
    BY <1>1
  <2>4. ops[i].record <= used' /\ ops[i].target <= used'
    BY <1>2, <2>1, <2>2, Sizes DEF RowSound
  <2>5. ops[i].record = 0 /\ ops[i].target # 0 => Disposable(ops[i].target)'
    BY <1>1, <1>5, <2>1, <2>2, <2>3, Sizes DEF RowSound, Records, Disposable
  <2> QED BY <1>1, <2>1, <2>4, <2>5 DEF RowSound, Disposable
<1>7. ASSUME NEW k \in Jobs PROVE JobSound(k)'
  <2>1. JobSound(k) /\ job[k] \in Stages
    BY DEF Sound, Typed
  <2>2. job[k].step # "idle" => r \in raced'
    BY <1>1, <2>1, StageShapes DEF Underway
  <2>3. CASE job[k].step = "persist"
    <3>1. job[k].record \in 0..MaxRecords
      BY <2>1, <2>3, StageShapes DEF Looked
    <3>2. CASE job[k].record = r
      BY <1>1, <1>2, <2>1, <2>2, <2>3, <3>1, <3>2, Sizes DEF JobSound, Disposable, Records
    <3>3. CASE job[k].record # r
      <4>1. job[k].record # 0 => own'[job[k].record] = own[job[k].record] /\ job[k].record \in Records
        BY <1>3, <3>1, <3>3, Sizes DEF Records
      <4>2. job[k].record <= used'
        BY <1>2, <2>1, <2>3, <3>1, Sizes DEF JobSound
      <4>3. job[k].record # 0 => (Evidence(job[k].record) => Evidence(job[k].record)')
        BY <1>1, <4>1 DEF Evidence
      <4>4. job[k].record # 0 => (Disposable(job[k].record) => Disposable(job[k].record)')
        BY <1>1, <1>5, <2>2, <2>3, <4>1 DEF Disposable
      <4> QED BY <1>1, <2>1, <2>3, <4>1, <4>2, <4>3, <4>4 DEF JobSound, Evidence, Disposable
    <3> QED BY <3>2, <3>3
  <2>4. CASE job[k].step = "applied"
    <3>1. job[k].target \in Records /\ r \in raced'
      BY <2>1, <2>2, <2>4, StageShapes DEF Sent
    <3>2. Disposable(job[k].target) => Disposable(job[k].target)'
      BY <1>1, <1>5, <3>1 DEF Disposable
    <3>3. job[k].target <= used'
      BY <1>2, <2>1, <2>4, <3>1, Sizes DEF JobSound, Records
    <3> QED BY <1>1, <2>1, <2>4, <3>2, <3>3 DEF JobSound, Disposable
  <2>5. CASE job[k].step \in {"mark", "restore", "restored", "unrestored"}
    <3>1. job[k] \in Undoing /\ r \in raced'
      BY <2>1, <2>2, <2>5, StageShapes
    <3>2. job[k].was.target \in 0..MaxRecords
      BY <3>1 DEF Undoing, Row
    <3>3. job[k].was.target # 0 => job[k].was.target \in Records
      BY <3>2, Sizes DEF Records
    <3>4. job[k].was.target # 0 => (Disposable(job[k].was.target) => Disposable(job[k].was.target)')
      BY <1>1, <1>5, <3>1, <3>3 DEF Disposable
    <3> QED BY <1>1, <2>1, <2>5, <3>4 DEF JobSound, Disposable
  <2> QED BY <1>1, <2>3, <2>4, <2>5 DEF JobSound
<1>8. ASSUME NEW x \in Records \ raced' PROVE Recoverable(x)'
  <2>1. x \notin raced
    BY <1>1, <1>8
  <2>2. CASE x = r
    <3>1. ~Touched(x)'
      BY <1>1, <2>2 DEF Touched
    <3> QED BY <1>3, <2>2, <3>1 DEF Recoverable
  <2>3. CASE x # r
    <3>1. Recoverable(x) /\ own'[x] = own[x] /\ zone'[x] = zone[x]
      BY <1>3, <2>1, <2>3 DEF Sound
    <3> QED BY <1>1, <3>1 DEF Recoverable, Evidence, Touched
  <2> QED BY <2>2, <2>3
<1>9. DOMAIN ops' = DOMAIN ops
  BY <1>1
<1> QED BY <1>4, <1>6, <1>7, <1>8, <1>9 DEF Sound

LEMMA OthersSound == ASSUME Sound, Typed', Connect \/ Revoke \/ UNCHANGED vars PROVE Sound'
<1>1. UNCHANGED <<zone, used, ops, job, own, raced>>
  BY DEF Connect, Revoke, Credential, vars
<1>2. Framed
  BY <1>1, Sizes DEF Framed, LogKept, Sound, Typed
<1>3. Fresh'
  BY <1>1 DEF Sound, Fresh
<1> QED BY <1>1, <1>2, <1>3, RowStays, JobStays, RecordStays DEF Sound

LEMMA NextSound == Sound /\ [Next]_vars => Sound'
<1> SUFFICES ASSUME Sound, [Next]_vars PROVE Sound'
  OBVIOUS
<1>0. Typed'
  BY NextTyped DEF Sound
<1>1. ASSUME NEW j \in Jobs, NEW v \in Values, Plan(j, v) PROVE Sound'
  BY <1>0, <1>1, PlanSound
<1>2. ASSUME NEW j \in Jobs, NEW i \in DOMAIN ops, Load(j, i) PROVE Sound'
  BY <1>0, <1>2, LoadSound
<1>3. ASSUME NEW j \in Jobs, Proceed(j) PROVE Sound'
  BY <1>0, <1>3, ValidateSound, PersistSound, ApplySound, ReportSound, RestoreSound DEF Proceed
<1>4. ASSUME NEW j \in Jobs, Crash(j) PROVE Sound'
  BY <1>0, <1>4, CrashSound
<1>5. ASSUME NEW r \in Records, NEW v \in Values, Edit(r, v) PROVE Sound'
  BY <1>0, <1>5, EditSound
<1> QED BY <1>0, <1>1, <1>2, <1>3, <1>4, <1>5, OthersSound DEF Next

LEMMA InitSound == Init => Sound
<1> SUFFICES ASSUME Init PROVE Sound
  OBVIOUS
<1>1. own = zone /\ raced = {} /\ ops = <<>> /\ job = [j \in Jobs |-> Idle]
  BY DEF Init
<1>2. PICK original \in Originals :
        /\ zone = [r \in Records |-> IF r \in DOMAIN original THEN original[r] ELSE None]
        /\ used = Len(original)
  BY DEF Init
<1>3. DOMAIN original = 1..Len(original)
  BY AutoFixAssumption
<1>4. Fresh
  BY <1>1, <1>2, <1>3 DEF Fresh
<1>5. DOMAIN ops = {}
  BY <1>1
<1>6. \A j \in Jobs : JobSound(j)
  BY <1>1 DEF JobSound, Idle
<1>7. \A r \in Records \ raced : Recoverable(r)
  BY <1>1, <1>5 DEF Recoverable, Touched
<1> QED BY <1>4, <1>5, <1>6, <1>7, InitTyped DEF Sound

-----------------------------------------------------------------------------
(* In order: as long as nothing overlaps, fails or is edited, and the      *)
(* latest operation is undone first, the zone is what the log says.        *)

\* The operations that stand on a record, and what they leave there: what the latest of
\* them wrote, or what the merchant had.
Standing(r) == {k \in DOMAIN ops : ops[k].status = "VERIFIED" /\ ops[k].target = r}
Earlier(i, r) == {k \in Standing(r) : k < i}

Says(S, r, v) ==
  IF S = {} THEN v = own[r] ELSE \E i \in S : v = ops[i].value /\ \A k \in S : k <= i

Shows(r, v) == Says(Standing(r), r, v)
Showed(i, r, v) == Says(Earlier(i, r), r, v)

\* What an operation that stands can give back is what the earlier ones left.
Chained(i) ==
  LET o == ops[i] IN
  o.status = "VERIFIED" => Undone(o) = o.target /\ Showed(i, o.target, Before(o))

AtWork(j) == job[j].step # "idle"
Alone == \A j, k \in Jobs : AtWork(j) /\ AtWork(k) => j = k

\* What a request at work knows: the latest operation is its own, and the zone is what
\* its snapshot says, up to the record that it has written and not reported yet.
InStep(j) ==
  LET o == ops[job[j].op]
      was == job[j].was
  IN
  /\ job[j].step = "persist" => (job[j].record # 0 => zone[job[j].record] = job[j].prev)
  /\ job[j].step = "apply" =>
       /\ job[j].op = Len(ops) /\ o.status = "APPLYING"
       /\ o.record # 0 => zone[o.record] = o.prev
  /\ job[j].step = "refused" => o.status = "APPLYING"
  /\ job[j].step = "applied" =>
       /\ job[j].op = Len(ops) /\ o.status = "APPLYING"
       /\ o.record # 0 => job[j].target = o.record
       /\ zone[job[j].target] = o.value /\ Shows(job[j].target, Before(o))
  /\ job[j].step = "mark" =>
       /\ o.status = "VERIFIED" /\ was = o
       /\ \A k \in DOMAIN ops : k > job[j].op => ops[k].status # "VERIFIED"
  /\ job[j].step = "restore" =>
       /\ o.status = "ROLLING_BACK"
       /\ Undone(was) = was.target /\ was.target \in Records
       /\ zone[was.target] = was.value /\ Shows(was.target, Before(was))
  /\ job[j].step = "restored" => o.status = "ROLLING_BACK"
  /\ job[j].step # "unrestored"

\* A record that a request has written, or is about to restore.
InTransit(j, r) ==
  \/ job[j].step = "applied" /\ job[j].target = r
  \/ job[j].step = "restore" /\ job[j].was.target = r

InOrder ==
  /\ Alone
  /\ \A i \in DOMAIN ops : Chained(i)
  /\ \A j \in Jobs : InStep(j)
  /\ \A r \in Records : Shows(r, zone[r]) \/ \E j \in Jobs : InTransit(j, r)

\* The log says the same as before.
SameLog ==
  /\ own' = own
  /\ \A r : Standing(r)' = Standing(r)
  /\ \A k \in DOMAIN ops : ops[k].status = "VERIFIED" => k \in DOMAIN ops' /\ ops'[k] = ops[k]

LEMMA SameShows ==
  ASSUME SameLog, NEW r, NEW v PROVE Shows(r, v)' <=> Shows(r, v)
<1>1. \A k \in Standing(r) : ops'[k].value = ops[k].value
  BY DEF SameLog, Standing
<1>2. Standing(r)' = Standing(r) /\ own' = own
  BY DEF SameLog
<1> QED BY <1>1, <1>2 DEF Shows, Says

LEMMA SameZone ==
  ASSUME SameLog, NEW r, zone'[r] = zone[r], Shows(r, zone[r]) PROVE Shows(r, zone[r])'
<1>1. PICK v : v = zone[r]
  OBVIOUS
<1>2. Shows(r, v)'
  BY <1>1, SameShows
<1> QED BY <1>1, <1>2 DEF Shows, Says

\* What stands before an operation, and what that leaves on the record.
LEMMA ShowedStays ==
  ASSUME NEW i, NEW r, NEW v, own' = own, Earlier(i, r)' = Earlier(i, r),
         \A k \in Earlier(i, r) : ops'[k].value = ops[k].value, Showed(i, r, v)
  PROVE  Showed(i, r, v)'
BY DEF Showed, Says

LEMMA ChainStays ==
  ASSUME NEW i, ops'[i] = ops[i], own' = own, Chained(i),
         Earlier(i, ops[i].target)' = Earlier(i, ops[i].target),
         \A k \in Earlier(i, ops[i].target) : ops'[k].value = ops[k].value
  PROVE  Chained(i)'
<1>1. PICK r, v : r = ops[i].target /\ v = Before(ops[i])
  OBVIOUS
<1>2. CASE ops[i].status = "VERIFIED"
  <2>1. Showed(i, r, v) /\ Undone(ops[i]) = r
    BY <1>1, <1>2 DEF Chained
  <2>2. Earlier(i, r)' = Earlier(i, r)
    BY <1>1 DEF Earlier, Standing
  <2>3. Showed(i, r, v)'
    BY <1>1, <2>1, <2>2, ShowedStays
  <2> QED BY <1>1, <2>1, <2>3 DEF Chained, Showed, Says, Earlier, Standing, Undone, Before
<1> QED BY <1>2 DEF Chained

LEMMA SameChains ==
  ASSUME SameLog, \A i \in DOMAIN ops : Chained(i),
         \A i \in DOMAIN ops' : ops'[i].status = "VERIFIED" => i \in DOMAIN ops /\ ops'[i] = ops[i],
         NEW i \in DOMAIN ops'
  PROVE  Chained(i)'
<1>1. CASE ops'[i].status = "VERIFIED"
  <2>1. i \in DOMAIN ops /\ ops'[i] = ops[i] /\ Chained(i) /\ own' = own
    BY <1>1 DEF SameLog
  <2>2. PICK r : r = ops[i].target
    OBVIOUS
  <2>3. Earlier(i, r)' = Earlier(i, r)
    BY DEF SameLog, Earlier
  <2>4. \A k \in Earlier(i, r) : ops'[k].value = ops[k].value
    BY DEF SameLog, Earlier, Standing
  <2>5. Earlier(i, ops[i].target)' = Earlier(i, ops[i].target)
    BY <2>1, <2>2, <2>3 DEF Earlier, Standing
  <2> QED BY <2>1, <2>2, <2>4, <2>5, ChainStays
<1>2. CASE ops'[i].status # "VERIFIED"
  BY <1>2 DEF Chained
<1> QED BY <1>1, <1>2

\* A log that does not change, grows by an operation that is not verified yet, or has one
\* that is not verified reported as something else.
LEMMA LogSame ==
  ASSUME own' = own, ops' = ops
  PROVE  /\ SameLog
         /\ \A i \in DOMAIN ops' : ops'[i].status = "VERIFIED" => i \in DOMAIN ops /\ ops'[i] = ops[i]
BY DEF SameLog, Standing

LEMMA LogAppended ==
  ASSUME own' = own, ops \in Seq(Row), NEW row \in Row, row.status # "VERIFIED",
         ops' = Append(ops, row)
  PROVE  /\ SameLog
         /\ \A i \in DOMAIN ops' : ops'[i].status = "VERIFIED" => i \in DOMAIN ops /\ ops'[i] = ops[i]
<1>1. PICK n : n = Len(ops) + 1
  OBVIOUS
<1>2. /\ DOMAIN ops' = DOMAIN ops \cup {n} /\ ops'[n] = row
      /\ \A k \in DOMAIN ops : ops'[k] = ops[k]
  BY <1>1, AppendedLog
<1> QED BY <1>2 DEF SameLog, Standing

LEMMA LogReported ==
  ASSUME own' = own, ops \in Seq(Row), NEW n \in DOMAIN ops, NEW row \in Row, Rewritten(n, row),
         ops[n].status # "VERIFIED", row.status # "VERIFIED"
  PROVE  /\ SameLog
         /\ \A i \in DOMAIN ops' : ops'[i].status = "VERIFIED" => i \in DOMAIN ops /\ ops'[i] = ops[i]
<1>1. /\ DOMAIN ops' = DOMAIN ops /\ ops'[n] = row
      /\ \A k \in DOMAIN ops : k # n => ops'[k] = ops[k]
  BY RewrittenLog
<1> QED BY <1>1 DEF SameLog, Standing

\* One request moves, the others are at rest.
LEMMA OneMoves ==
  ASSUME NEW j \in Jobs, \A k \in Jobs : k # j => ~AtWork(k) /\ job'[k] = job[k],
         \A i \in DOMAIN ops' : Chained(i)', InStep(j)',
         \A r \in Records : Shows(r, zone[r])' \/ InTransit(j, r)'
  PROVE  InOrder'
<1>1. Alone'
  BY DEF Alone, AtWork
<1>2. ASSUME NEW k \in Jobs PROVE InStep(k)'
  <2>1. CASE k # j
    <3>1. job'[k].step = "idle"
      BY <2>1 DEF AtWork
    <3> QED BY <3>1 DEF InStep
  <2> QED BY <2>1
<1> QED BY <1>1, <1>2 DEF InOrder

\* A request at work is the only one, and until it writes nothing is in transit.
LEMMA TheOnlyOne ==
  ASSUME Sound, InOrder, NEW j \in Jobs, AtWork(j) \/ Underway = {},
         NEW s, job' = [job EXCEPT ![j] = s]
  PROVE  /\ job'[j] = s
         /\ \A k \in Jobs : k # j => ~AtWork(k) /\ job'[k] = job[k]
         /\ \A r \in Records : Shows(r, zone[r]) \/ InTransit(j, r)
<1>1. job \in [Jobs -> Stages]
  BY DEF Sound, Typed
<1>2. \A k \in Jobs : k # j => ~AtWork(k)
  BY <1>1, StageShapes DEF InOrder, Alone, Underway, AtWork
<1> QED BY <1>1, <1>2 DEF InOrder, InTransit, AtWork

\* The first stages look and store, and change nothing that the log says.
LEMMA PlanInOrder ==
  ASSUME Sound, InOrder, NEW j \in Jobs, NEW v \in Values, Plan(j, v), Underway = {}
  PROVE  InOrder'
<1>1. PICK s : s = [step |-> "validate", value |-> v]
  OBVIOUS
<1>2. job' = [job EXCEPT ![j] = s] /\ UNCHANGED <<zone, ops, own>> /\ job[j] = Idle
  BY <1>1 DEF Plan, Merchant
<1>3. /\ job'[j] = s /\ \A k \in Jobs : k # j => ~AtWork(k) /\ job'[k] = job[k]
      /\ \A r \in Records : Shows(r, zone[r]) \/ InTransit(j, r)
  BY <1>2, TheOnlyOne
<1>4. SameLog /\ \A i \in DOMAIN ops' : Chained(i)'
  BY <1>2, LogSame, SameChains DEF InOrder
<1>5. \A r \in Records : ~InTransit(j, r)
  BY <1>2 DEF InTransit, Idle
<1>6. \A r \in Records : Shows(r, zone[r])'
  BY <1>2, <1>3, <1>4, <1>5, SameZone
<1>7. InStep(j)'
  BY <1>1, <1>3 DEF InStep
<1> QED BY <1>3, <1>4, <1>6, <1>7, OneMoves

LEMMA LoadInOrder ==
  ASSUME Sound, InOrder, NEW j \in Jobs, NEW i \in DOMAIN ops, Load(j, i), Underway = {},
         \A k \in DOMAIN ops : k > i => ops[k].status \notin Undoable
  PROVE  InOrder'
<1>1. PICK s : s = [step |-> "mark", op |-> i, was |-> ops[i]]
  OBVIOUS
<1>2. /\ job' = [job EXCEPT ![j] = s] /\ UNCHANGED <<zone, ops, own>> /\ job[j] = Idle
      /\ ops[i].status = "VERIFIED"
  BY <1>1 DEF Load, Merchant, Undoable
<1>3. /\ job'[j] = s /\ \A k \in Jobs : k # j => ~AtWork(k) /\ job'[k] = job[k]
      /\ \A r \in Records : Shows(r, zone[r]) \/ InTransit(j, r)
  BY <1>2, TheOnlyOne
<1>4. SameLog /\ \A k \in DOMAIN ops' : Chained(k)'
  BY <1>2, LogSame, SameChains DEF InOrder
<1>5. \A r \in Records : ~InTransit(j, r)
  BY <1>2 DEF InTransit, Idle
<1>6. \A r \in Records : Shows(r, zone[r])'
  BY <1>2, <1>3, <1>4, <1>5, SameZone
<1>7. InStep(j)'
  <2>1. job'[j].step = "mark" /\ job'[j].op = i /\ job'[j].was = ops[i]
    BY <1>1, <1>3
  <2> QED BY <1>2, <2>1 DEF InStep, Undoable
<1> QED BY <1>3, <1>4, <1>6, <1>7, OneMoves

LEMMA ValidateInOrder ==
  ASSUME Sound, InOrder, NEW j \in Jobs, Validate(j), ~Fault PROVE InOrder'
<1>1. /\ job[j] \in Asked /\ UNCHANGED <<zone, ops, own>>
      /\ \/ Stop(j)
         \/ \E r \in 0..MaxRecords :
              job' = [job EXCEPT ![j] = [step |-> "persist", value |-> job[j].value, record |-> r,
                                         prev |-> IF r = 0 THEN None ELSE zone[r]]]
  BY LooksAt DEF Sound, Merchant
<1>2. PICK s : /\ job' = [job EXCEPT ![j] = s]
               /\ s.step \in {"idle", "persist"}
               /\ s.step = "persist" => (s.record # 0 => s.prev = zone[s.record])
  <2>1. CASE Stop(j)
    <3>1. Idle.step = "idle"
      BY DEF Idle
    <3> QED BY <2>1, <3>1 DEF Stop
  <2>2. ASSUME NEW r \in 0..MaxRecords,
               job' = [job EXCEPT ![j] = [step |-> "persist", value |-> job[j].value, record |-> r,
                                          prev |-> IF r = 0 THEN None ELSE zone[r]]]
        PROVE  \E s : /\ job' = [job EXCEPT ![j] = s]
                      /\ s.step \in {"idle", "persist"}
                      /\ s.step = "persist" => (s.record # 0 => s.prev = zone[s.record])
    <3>1. PICK s : s = [step |-> "persist", value |-> job[j].value, record |-> r,
                        prev |-> IF r = 0 THEN None ELSE zone[r]]
      OBVIOUS
    <3>2. s.step = "persist" /\ s.record = r /\ s.prev = IF r = 0 THEN None ELSE zone[r]
      BY <3>1
    <3> QED BY <2>2, <3>1, <3>2
  <2> QED BY <1>1, <2>1, <2>2
<1>3. AtWork(j) /\ \A r : ~InTransit(j, r)
  BY <1>1 DEF Asked, AtWork, InTransit
<1>4. /\ job'[j] = s /\ \A k \in Jobs : k # j => ~AtWork(k) /\ job'[k] = job[k]
      /\ \A r \in Records : Shows(r, zone[r]) \/ InTransit(j, r)
  BY <1>2, <1>3, TheOnlyOne
<1>5. SameLog /\ \A i \in DOMAIN ops' : Chained(i)'
  BY <1>1, LogSame, SameChains DEF InOrder
<1>6. \A r \in Records : Shows(r, zone[r])'
  BY <1>1, <1>3, <1>4, <1>5, SameZone
<1>7. InStep(j)'
  BY <1>1, <1>2, <1>4 DEF InStep
<1> QED BY <1>4, <1>5, <1>6, <1>7, OneMoves

LEMMA PersistInOrder ==
  ASSUME Sound, InOrder, NEW j \in Jobs, Persist(j), ~Fault PROVE InOrder'
<1>1. PICK n, s, row : /\ n = Len(ops) + 1 /\ row = Operation(j)
                       /\ s = [step |-> "apply", op |-> n]
  OBVIOUS
<1>2. /\ UNCHANGED <<zone, own>> /\ At(j, "persist")
      /\ ops' = Append(ops, row) /\ job' = [job EXCEPT ![j] = s]
  BY <1>1, Inserts DEF Sound, Merchant
<1>3. /\ row \in Row /\ row.status = "APPLYING"
      /\ row.record = job[j].record /\ row.prev = job[j].prev /\ ops \in Seq(Row)
  BY <1>1, <1>2, OperationMade DEF Sound, Typed
<1>4. AtWork(j) /\ \A r : ~InTransit(j, r)
  BY <1>2 DEF At, AtWork, InTransit
<1>5. /\ job'[j] = s /\ \A k \in Jobs : k # j => ~AtWork(k) /\ job'[k] = job[k]
      /\ \A r \in Records : Shows(r, zone[r]) \/ InTransit(j, r)
  BY <1>2, <1>4, TheOnlyOne
<1>6. SameLog /\ \A i \in DOMAIN ops' : Chained(i)'
  BY <1>2, <1>3, LogAppended, SameChains DEF InOrder
<1>7. \A r \in Records : Shows(r, zone[r])'
  BY <1>2, <1>4, <1>5, <1>6, SameZone
<1>8. InStep(j)'
  <2>1. ops'[n] = row /\ Len(ops') = n
    BY <1>1, <1>2, <1>3, AppendedLog
  <2>2. job'[j].step = "apply" /\ job'[j].op = n
    BY <1>1, <1>5
  <2>3. job[j].record # 0 => zone[job[j].record] = job[j].prev
    BY <1>2 DEF InOrder, InStep, At
  <2> QED BY <1>2, <1>3, <2>1, <2>2, <2>3 DEF InStep
<1> QED BY <1>5, <1>6, <1>7, <1>8, OneMoves

\* The record that is written is in transit; what the log still says of it is what the
\* operation has as its snapshot.
LEMMA ApplyInOrder ==
  ASSUME Sound, InOrder, NEW j \in Jobs, Apply(j), ~Fault PROVE InOrder'
<1>1. PICK n, o : n = job[j].op /\ o = ops[n]
  OBVIOUS
<1>2. /\ job[j] \in Sending /\ At(j, "apply") /\ o \in Row /\ UNCHANGED <<ops, own>>
      /\ \/ UNCHANGED Zone /\ Goto(j, "refused")
         \/ \E r \in Records :
              /\ Writes(o, r) /\ zone' = [zone EXCEPT ![r] = o.value]
              /\ job' = [job EXCEPT ![j] = [step |-> "applied", op |-> n, target |-> r]]
  BY <1>1, Applies DEF Sound, Merchant
<1>3. AtWork(j) /\ \A r : ~InTransit(j, r)
  BY <1>2 DEF At, AtWork, InTransit
<1>4. n = Len(ops) /\ o.status = "APPLYING" /\ (o.record # 0 => zone[o.record] = o.prev)
  BY <1>1, <1>2 DEF InOrder, InStep, At
<1>5. SameLog /\ \A i \in DOMAIN ops' : Chained(i)'
  BY <1>2, LogSame, SameChains DEF InOrder
<1>6. CASE UNCHANGED Zone /\ Goto(j, "refused")
  <2>1. PICK s : s = [job[j] EXCEPT !.step = "refused"]
    OBVIOUS
  <2>2. s.step = "refused" /\ s.op = n /\ job' = [job EXCEPT ![j] = s]
    BY <1>1, <1>2, <1>6, <2>1, SendingGoes DEF Goto
  <2>3. /\ job'[j] = s /\ \A k \in Jobs : k # j => ~AtWork(k) /\ job'[k] = job[k]
        /\ \A r \in Records : Shows(r, zone[r]) \/ InTransit(j, r)
    BY <1>3, <2>2, TheOnlyOne
  <2>4. \A r \in Records : Shows(r, zone[r])'
    BY <1>3, <1>5, <1>6, <2>3, SameZone DEF Zone
  <2>5. InStep(j)'
    BY <1>1, <1>2, <1>4, <2>2, <2>3 DEF InStep
  <2> QED BY <1>5, <2>3, <2>4, <2>5, OneMoves
<1>7. ASSUME NEW r \in Records, Writes(o, r), zone' = [zone EXCEPT ![r] = o.value],
             job' = [job EXCEPT ![j] = [step |-> "applied", op |-> n, target |-> r]]
      PROVE  InOrder'
  <2>1. PICK s : s = [step |-> "applied", op |-> n, target |-> r]
    OBVIOUS
  <2>2. job' = [job EXCEPT ![j] = s] /\ s.step = "applied" /\ s.op = n /\ s.target = r
    BY <1>7, <2>1
  <2>3. /\ job'[j] = s /\ \A k \in Jobs : k # j => ~AtWork(k) /\ job'[k] = job[k]
        /\ \A x \in Records : Shows(x, zone[x]) \/ InTransit(j, x)
    BY <1>3, <2>2, TheOnlyOne
  <2>4. zone'[r] = o.value /\ \A x \in Records : x # r => zone'[x] = zone[x]
    BY <1>7 DEF Sound, Typed
  <2>5. \A x \in Records : Shows(x, zone[x])' \/ InTransit(j, x)'
    <3> TAKE x \in Records
    <3>1. CASE x = r
      BY <2>2, <2>3, <3>1 DEF InTransit
    <3>2. CASE x # r
      BY <1>3, <1>5, <2>3, <2>4, <3>2, SameZone
    <3> QED BY <3>1, <3>2
  <2>6. PICK b : b = Before(o)
    OBVIOUS
  <2>7. Shows(r, b)
    <3>1. CASE o.record = r
      <4>1. b = zone[r]
        BY <1>4, <2>6, <3>1 DEF Before, Records
      <4> QED BY <1>3, <2>3, <4>1
    <3>2. CASE o.record # r
      <4>1. o.record = 0 /\ r = used + 1
        BY <1>7, <3>2 DEF Writes
      <4>2. b = None /\ own[r] = None
        BY <2>6, <4>1 DEF Before, Sound, Fresh, Typed
      <4>3. \A k \in DOMAIN ops : ops[k].target # r
        <5> SUFFICES ASSUME NEW k \in DOMAIN ops, ops[k].target = r PROVE FALSE
          OBVIOUS
        <5>1. ops[k].target <= used /\ used \in Nat
          BY DEF Sound, RowSound, Typed
        <5> QED BY <4>1, <5>1
      <4>4. Standing(r) = {}
        BY <4>3 DEF Standing
      <4> QED BY <4>2, <4>4 DEF Shows, Says
    <3> QED BY <3>1, <3>2
  <2>8. Shows(r, b)'
    BY <1>5, <2>7, SameShows
  <2>9. o.record # 0 => r = o.record
    BY <1>7 DEF Writes
  <2>10. InStep(j)'
    <3>1. job'[j].step = "applied" /\ job'[j].op = n /\ job'[j].target = r /\ ops'[n] = o
      BY <1>1, <1>2, <2>2, <2>3
    <3>2. job'[j].target = r /\ Before(ops[job[j].op])' = b
      BY <2>6, <3>1 DEF Before
    <3>3. Shows(job[j].target, Before(ops[job[j].op]))'
      BY <2>8, <3>2 DEF Shows, Says, Standing
    <3> QED BY <1>2, <1>4, <2>4, <2>9, <3>1, <3>3 DEF InStep
  <2> QED BY <1>5, <2>3, <2>5, <2>10, OneMoves
<1> QED BY <1>2, <1>6, <1>7

\* A request that reports what it did not do, or has undone, changes no standing operation.
LEMMA ReportInOrder ==
  ASSUME Sound, InOrder, NEW j \in Jobs, Finalize(j) \/ FinalizeRollback(j), ~At(j, "applied"),
         ~Fault
  PROVE  InOrder'
<1>1. PICK n, s : n = job[j].op /\ s = Idle
  OBVIOUS
<1>2. PICK row : Ends(j, row) /\ Rewritten(n, row)
  BY <1>1, Reports DEF Sound
<1>3. /\ UNCHANGED <<zone, own>> /\ HasOperation(j) /\ ~At(j, "mark")
      /\ job' = [job EXCEPT ![j] = s]
  BY <1>1, Reports DEF Sound, Merchant, Finalize, FinalizeRollback, At, Stop
<1>4. n \in DOMAIN ops /\ ops \in Seq(Row) /\ row \in Row
  BY <1>1, <1>2, <1>3 DEF Sound, Typed, Ends
<1>5. ops[n].status # "VERIFIED" /\ row.status # "VERIFIED"
  <2>1. InStep(j)
    BY DEF InOrder
  <2>2. job[j].step \in {"refused", "restored"}
    BY <1>2, <1>3, <2>1 DEF Ends, InStep, At
  <2> QED BY <1>1, <1>2, <2>1, <2>2 DEF Ends, InStep, At
<1>6. AtWork(j) /\ \A r : ~InTransit(j, r)
  BY <1>2, <1>3 DEF Ends, At, AtWork, InTransit
<1>7. /\ job'[j] = s /\ \A k \in Jobs : k # j => ~AtWork(k) /\ job'[k] = job[k]
      /\ \A r \in Records : Shows(r, zone[r]) \/ InTransit(j, r)
  BY <1>3, <1>6, TheOnlyOne
<1>8. SameLog /\ \A i \in DOMAIN ops' : Chained(i)'
  BY <1>2, <1>3, <1>4, <1>5, LogReported, SameChains DEF InOrder
<1>9. \A r \in Records : Shows(r, zone[r])'
  BY <1>3, <1>6, <1>7, <1>8, SameZone
<1>10. InStep(j)'
  <2>1. job'[j].step = "idle"
    BY <1>1, <1>7 DEF Idle
  <2> QED BY <2>1 DEF InStep
<1> QED BY <1>7, <1>8, <1>9, <1>10, OneMoves

\* The latest operation stands on the record it has written.
LEMMA VerifyInOrder ==
  ASSUME Sound, InOrder, NEW j \in Jobs, Finalize(j), At(j, "applied"), ~Fault PROVE InOrder'
<1>1. PICK n, o, t, b, s : /\ n = job[j].op /\ o = ops[n] /\ t = job[j].target /\ b = Before(o)
                           /\ s = Idle
  OBVIOUS
<1>2. PICK row : Ends(j, row) /\ Rewritten(n, row)
  BY <1>1, Reports DEF Sound
<1>3. UNCHANGED <<zone, own>> /\ HasOperation(j) /\ job' = [job EXCEPT ![j] = s]
  BY <1>1, Reports DEF Sound, Merchant, At, Stop
<1>4. /\ n \in DOMAIN ops /\ ops \in Seq(Row) /\ row \in Row /\ row.status = "VERIFIED"
      /\ row.target = t /\ row.record = o.record /\ row.prev = o.prev /\ row.value = o.value
  BY <1>1, <1>2, <1>3 DEF Sound, Typed, Ends, Kept, At
<1>5. /\ n = Len(ops) /\ o.status = "APPLYING" /\ (o.record # 0 => t = o.record)
      /\ zone[t] = o.value /\ Shows(t, b)
  <2>1. InStep(j)
    BY DEF InOrder
  <2> QED BY <1>1, <2>1 DEF InStep, At
<1>6. /\ DOMAIN ops' = DOMAIN ops /\ ops'[n] = row
      /\ \A k \in DOMAIN ops : k # n => ops'[k] = ops[k]
  BY <1>2, <1>4, RewrittenLog
<1>7. AtWork(j) /\ \A r : InTransit(j, r) => r = t
  BY <1>1 DEF At, AtWork, InTransit
<1>8. /\ job'[j] = s /\ \A k \in Jobs : k # j => ~AtWork(k) /\ job'[k] = job[k]
      /\ \A r \in Records : Shows(r, zone[r]) \/ InTransit(j, r)
  BY <1>3, <1>7, TheOnlyOne
<1>9. \A i \in DOMAIN ops : i <= n /\ i \in Nat /\ n \in Nat
  BY <1>4, <1>5
<1>10. Standing(t)' = Standing(t) \cup {n}
  BY <1>4, <1>6 DEF Standing
<1>11. \A r : r # t => Standing(r)' = Standing(r)
  BY <1>1, <1>4, <1>5, <1>6 DEF Standing
<1>12. \A r : n \notin Standing(r)
  BY <1>1, <1>5 DEF Standing
<1>13. \A r : \A k \in Standing(r) : ops'[k].value = ops[k].value /\ k # n /\ k \in DOMAIN ops
  BY <1>6, <1>12 DEF Standing
<1>14. ASSUME NEW r \in Records PROVE Shows(r, zone[r])'
  <2>1. CASE r = t
    <3>1. n \in Standing(t)' /\ \A k \in Standing(t)' : k <= n
      BY <1>9, <1>10, <1>13, <1>4
    <3>2. zone'[t] = ops'[n].value
      BY <1>3, <1>4, <1>5, <1>6
    <3> QED BY <2>1, <3>1, <3>2 DEF Shows, Says
  <2>2. CASE r # t
    <3>1. Shows(r, zone[r]) /\ Standing(r)' = Standing(r)
      BY <1>7, <1>8, <1>11, <2>2
    <3> QED BY <1>3, <1>13, <3>1 DEF Shows, Says
  <2> QED BY <2>1, <2>2
<1>15. \A i \in DOMAIN ops : \A r : Earlier(i, r)' = Earlier(i, r)
  <2> TAKE i \in DOMAIN ops
  <2> TAKE r
  <2>1. \A k : k \in Standing(r)' /\ k < i <=> k \in Standing(r) /\ k < i
    BY <1>9, <1>10, <1>11
  <2> QED BY <2>1 DEF Earlier
<1>16. ASSUME NEW i \in DOMAIN ops' PROVE Chained(i)'
  <2>1. CASE i # n
    <3>1. ops'[i] = ops[i] /\ i \in DOMAIN ops /\ Chained(i)
      BY <1>6, <2>1 DEF InOrder
    <3>2. PICK r : r = ops[i].target
      OBVIOUS
    <3>3. \A k \in Earlier(i, r) : ops'[k].value = ops[k].value
      BY <1>13 DEF Earlier
    <3>4. Earlier(i, ops[i].target)' = Earlier(i, ops[i].target)
      BY <1>15, <3>1, <3>2 DEF Earlier, Standing
    <3> QED BY <1>3, <3>1, <3>2, <3>3, <3>4, ChainStays
  <2>2. CASE i = n
    <3>1. Earlier(n, t) = Standing(t)
      <4>1. \A k \in Standing(t) : k < n
        BY <1>9, <1>13
      <4> QED BY <4>1 DEF Earlier
    <3>2. Showed(n, t, b)
      BY <1>5, <3>1 DEF Shows, Showed
    <3>3. Showed(n, t, b)'
      <4>1. \A k \in Earlier(n, t) : ops'[k].value = ops[k].value
        BY <1>13, <3>1
      <4> QED BY <1>3, <1>4, <1>15, <3>2, <4>1, ShowedStays
    <3>4. Undone(row) = t /\ Before(row) = b
      BY <1>1, <1>4, <1>5 DEF Undone, Before
    <3>5. Undone(ops[n])' = t /\ Before(ops[n])' = b /\ ops'[n].target = t
      BY <1>4, <1>6, <3>4 DEF Undone, Before
    <3> QED BY <2>2, <3>3, <3>5 DEF Chained, Showed, Says, Earlier, Standing
  <2> QED BY <2>1, <2>2
<1>17. InStep(j)'
  <2>1. job'[j].step = "idle"
    BY <1>1, <1>8 DEF Idle
  <2> QED BY <2>1 DEF InStep
<1> QED BY <1>8, <1>14, <1>16, <1>17, OneMoves

\* The operation that goes first no longer stands: the log says what was there before.
LEMMA MarkInOrder ==
  ASSUME Sound, InOrder, NEW j \in Jobs, Mark(j), ~Fault PROVE InOrder'
<1>1. PICK n, o, t, b, s : /\ n = job[j].op /\ o = ops[n] /\ t = o.target /\ b = Before(o)
                           /\ s = [job[j] EXCEPT !.step = "restore"]
  OBVIOUS
<1>2. PICK row : Ends(j, row) /\ Rewritten(n, row)
  BY <1>1, Reports DEF Sound
<1>3. /\ UNCHANGED <<zone, own>> /\ HasOperation(j) /\ At(j, "mark")
      /\ job' = [job EXCEPT ![j] = s]
  BY <1>1, Reports DEF Sound, Merchant, Mark, Goto
<1>4. /\ n \in DOMAIN ops /\ ops \in Seq(Row) /\ row \in Row /\ row.status = "ROLLING_BACK"
      /\ o \in Row
  BY <1>1, <1>2, <1>3 DEF Sound, Typed, Ends, At
<1>5. /\ o.status = "VERIFIED" /\ job[j].was = o
      /\ \A k \in DOMAIN ops : k > n => ops[k].status # "VERIFIED"
  <2>1. InStep(j)
    BY DEF InOrder
  <2> QED BY <1>1, <1>3, <2>1 DEF InStep, At
<1>6. /\ DOMAIN ops' = DOMAIN ops /\ ops'[n] = row
      /\ \A k \in DOMAIN ops : k # n => ops'[k] = ops[k]
  BY <1>2, <1>4, RewrittenLog
<1>7. AtWork(j) /\ \A r : ~InTransit(j, r)
  BY <1>3 DEF At, AtWork, InTransit
<1>8. /\ job'[j] = s /\ \A k \in Jobs : k # j => ~AtWork(k) /\ job'[k] = job[k]
      /\ \A r \in Records : Shows(r, zone[r]) \/ InTransit(j, r)
  BY <1>3, <1>7, TheOnlyOne
<1>9. s.step = "restore" /\ s.op = n /\ s.was = o
  <2>1. job[j] \in Undoing
    BY <1>3, StageShapes DEF At, Sound, Typed
  <2> QED BY <1>1, <1>5, <2>1, UndoingGoes
<1>10. \A i \in DOMAIN ops : i \in Nat
  BY <1>4
<1>11. n \in Standing(t) /\ \A r : \A k \in Standing(r) : k \in DOMAIN ops /\ k <= n
  BY <1>1, <1>4, <1>5, <1>10 DEF Standing
<1>12. Undone(o) = t /\ Showed(n, t, b) /\ t \in Records /\ Shows(t, zone[t])
  <2>1. Chained(n) /\ RowSound(n)
    BY <1>4 DEF InOrder, Sound
  <2>2. t \in Records
    BY <1>1, <1>4, <1>5, <2>1, Sizes DEF RowSound, Row, Records
  <2> QED BY <1>1, <1>5, <1>7, <1>8, <2>1, <2>2 DEF Chained
<1>13. Standing(t)' = Earlier(n, t)
  <2>1. \A k : k \in Standing(t)' <=> k \in Standing(t) /\ k # n
    BY <1>4, <1>6 DEF Standing
  <2>2. \A k \in Standing(t) : k # n <=> k < n
    BY <1>4, <1>10, <1>11
  <2> QED BY <2>1, <2>2 DEF Earlier
<1>14. \A r : r # t => Standing(r)' = Standing(r)
  BY <1>1, <1>4, <1>6 DEF Standing
<1>15. zone[t] = o.value
  <2>1. PICK i \in Standing(t) : zone[t] = ops[i].value /\ n <= i
    BY <1>11, <1>12 DEF Shows, Says
  <2>2. i = n
    BY <1>4, <1>10, <1>11, <2>1
  <2> QED BY <1>1, <2>1, <2>2
<1>16. Shows(t, b)'
  <2>1. \A k \in Earlier(n, t) : ops'[k].value = ops[k].value
    BY <1>4, <1>6, <1>10, <1>11 DEF Earlier
  <2> QED BY <1>3, <1>12, <1>13, <2>1 DEF Shows, Showed, Says
<1>17. ASSUME NEW r \in Records PROVE Shows(r, zone[r])' \/ InTransit(j, r)'
  <2>1. CASE r = t
    BY <1>1, <1>8, <1>9, <2>1 DEF InTransit
  <2>2. CASE r # t
    <3>1. Shows(r, zone[r]) /\ Standing(r)' = Standing(r)
      BY <1>7, <1>8, <1>14, <2>2
    <3>2. \A k \in Standing(r) : ops'[k].value = ops[k].value
      BY <1>1, <1>6, <2>2 DEF Standing
    <3> QED BY <1>3, <3>1, <3>2 DEF Shows, Says
  <2> QED BY <2>1, <2>2
<1>18. ASSUME NEW i \in DOMAIN ops' PROVE Chained(i)'
  <2>1. CASE ops'[i].status # "VERIFIED"
    BY <2>1 DEF Chained
  <2>2. CASE ops'[i].status = "VERIFIED"
    <3>1. i # n /\ ops'[i] = ops[i] /\ i \in DOMAIN ops /\ Chained(i) /\ i < n
      <4>1. i # n
        BY <1>4, <1>6, <2>2
      <4>2. ops'[i] = ops[i] /\ i \in DOMAIN ops /\ Chained(i)
        BY <1>6, <4>1 DEF InOrder
      <4>3. ~(i > n)
        BY <1>5, <2>2, <4>2
      <4> QED BY <1>4, <1>10, <4>1, <4>2, <4>3
    <3>2. PICK r : r = ops[i].target
      OBVIOUS
    <3>3. Earlier(i, r)' = Earlier(i, r)
      <4>1. \A k : k \in Standing(r)' /\ k < i <=> k \in Standing(r) /\ k < i
        <5>1. CASE r # t
          BY <1>14, <5>1
        <5>2. CASE r = t
          <6>1. \A k : k \in Standing(t)' <=> k \in Standing(t) /\ k < n
            BY <1>13 DEF Earlier
          <6>2. \A k \in Standing(t) : k < i => k < n
            BY <1>4, <1>10, <1>11, <3>1
          <6> QED BY <5>2, <6>1, <6>2
        <5> QED BY <5>1, <5>2
      <4> QED BY <4>1 DEF Earlier
    <3>4. \A k \in Earlier(i, r) : ops'[k].value = ops[k].value
      BY <1>4, <1>6, <1>10, <1>11, <3>1 DEF Earlier
    <3>5. Earlier(i, ops[i].target)' = Earlier(i, ops[i].target)
      BY <3>1, <3>2, <3>3 DEF Earlier, Standing
    <3> QED BY <1>3, <3>1, <3>2, <3>4, <3>5, ChainStays
  <2> QED BY <2>1, <2>2
<1>19. InStep(j)'
  <2>1. /\ job'[j].step = "restore" /\ job'[j].op = n /\ job'[j].was = o /\ ops'[n] = row
        /\ zone'[t] = o.value
    BY <1>3, <1>6, <1>8, <1>9, <1>15
  <2>2. job'[j].was.target = t /\ Before(job[j].was)' = b /\ Undone(job[j].was)' = t
    BY <1>1, <1>12, <2>1 DEF Before, Undone
  <2>3. Shows(job[j].was.target, Before(job[j].was))'
    BY <1>16, <2>2 DEF Shows, Says, Standing
  <2> QED BY <1>1, <1>4, <1>12, <2>1, <2>2, <2>3 DEF InStep
<1> QED BY <1>8, <1>17, <1>18, <1>19, OneMoves

\* The restored record is what the log says again.
LEMMA RestoreInOrder ==
  ASSUME Sound, InOrder, NEW j \in Jobs, Restore(j), ~Fault PROVE InOrder'
<1>1. PICK n, o, t, b, s : /\ n = job[j].op /\ o = job[j].was /\ t = o.target /\ b = Before(o)
                           /\ s = [job[j] EXCEPT !.step = "restored"]
  OBVIOUS
<1>2. /\ job[j] \in Undoing /\ At(j, "restore") /\ UNCHANGED <<ops, own>>
      /\ \/ Undone(o) \notin Live
         \/ /\ zone' = [zone EXCEPT ![Undone(o)] = b]
            /\ job' = [job EXCEPT ![j] = s]
  BY <1>1, Restores DEF Sound, Merchant, Goto
<1>3. /\ ops[n].status = "ROLLING_BACK" /\ Undone(o) = t /\ t \in Records
      /\ zone[t] = o.value /\ Shows(t, b)
  <2>1. InStep(j)
    BY DEF InOrder
  <2> QED BY <1>1, <1>2, <2>1 DEF InStep, At
<1>4. t \in Live
  <2>1. o.value # None
    BY <1>1, <1>2, Sizes DEF Undoing, Row
  <2> QED BY <1>3, <2>1 DEF Live
<1>5. zone' = [zone EXCEPT ![t] = b] /\ job' = [job EXCEPT ![j] = s]
  BY <1>2, <1>3, <1>4
<1>6. AtWork(j) /\ \A r : InTransit(j, r) => r = t
  BY <1>1, <1>2 DEF At, AtWork, InTransit
<1>7. /\ job'[j] = s /\ \A k \in Jobs : k # j => ~AtWork(k) /\ job'[k] = job[k]
      /\ \A r \in Records : Shows(r, zone[r]) \/ InTransit(j, r)
  BY <1>5, <1>6, TheOnlyOne
<1>8. s.step = "restored" /\ s.op = n
  BY <1>1, <1>2, UndoingGoes
<1>9. SameLog /\ \A i \in DOMAIN ops' : Chained(i)'
  BY <1>2, LogSame, SameChains DEF InOrder
<1>10. zone'[t] = b /\ \A r \in Records : r # t => zone'[r] = zone[r]
  BY <1>3, <1>5 DEF Sound, Typed
<1>11. ASSUME NEW r \in Records PROVE Shows(r, zone[r])'
  <2>1. CASE r = t
    <3>1. Shows(t, b)'
      BY <1>3, <1>9, SameShows
    <3> QED BY <1>10, <2>1, <3>1 DEF Shows, Says
  <2>2. CASE r # t
    BY <1>6, <1>7, <1>9, <1>10, <2>2, SameZone
  <2> QED BY <2>1, <2>2
<1>12. InStep(j)'
  <2>1. job'[j].step = "restored" /\ job'[j].op = n
    BY <1>7, <1>8
  <2> QED BY <1>2, <1>3, <2>1 DEF InStep
<1> QED BY <1>7, <1>9, <1>11, <1>12, OneMoves

\* Every stage of a request goes well or meets a fault, and a fault is never tidy.
LEMMA FaultOrNot == ASSUME NEW j \in Jobs, Proceed(j) PROVE Fault \/ NoFault
<1>1. CASE Validate(j)
  BY <1>1, Zenon DEF Validate
<1>2. CASE Persist(j)
  BY <1>2, Zenon DEF Persist, Insert
<1>3. CASE Apply(j)
  BY <1>3, Zenon DEF Apply, Call
<1>4. CASE Finalize(j) \/ FinalizeRollback(j) \/ Mark(j)
  BY <1>4, Zenon DEF Finalize, FinalizeRollback, Mark, Set
<1>5. CASE Restore(j)
  BY <1>5, Zenon DEF Restore, Call
<1> QED BY <1>1, <1>2, <1>3, <1>4, <1>5, Zenon DEF Proceed

LEMMA FaultUntidy == ASSUME Fault, tidy' PROVE FALSE
BY Zenon DEF Fault

\* Nobody else changes the zone, the log or a request.
LEMMA OthersInOrder ==
  ASSUME InOrder, Connect \/ Revoke \/ UNCHANGED vars PROVE InOrder'
<1>1. UNCHANGED <<zone, ops, job, own>>
  BY DEF Connect, Revoke, Credential, vars
<1> QED BY <1>1 DEF InOrder, Alone, AtWork, Chained, Showed, Shows, Says, Earlier, Standing,
                    Undone, Before, InStep, InTransit

LEMMA NextInOrder == Sound /\ (tidy => InOrder) /\ [Next]_vars => (tidy => InOrder)'
<1> SUFFICES ASSUME Sound, tidy => InOrder, [Next]_vars, tidy' PROVE InOrder'
  OBVIOUS
<1>1. ASSUME NEW j \in Jobs, NEW v \in Values, Plan(j, v) PROVE InOrder'
  <2>1. tidy /\ Underway = {}
    BY <1>1, Zenon DEF Plan
  <2> QED BY <1>1, <2>1, PlanInOrder
<1>2. ASSUME NEW j \in Jobs, NEW i \in DOMAIN ops, Load(j, i) PROVE InOrder'
  <2>1. /\ tidy /\ Underway = {}
        /\ \A k \in DOMAIN ops : k > i => ops[k].status \notin Undoable
    BY <1>2, Zenon DEF Load
  <2> QED BY <1>2, <2>1, LoadInOrder
<1>3. ASSUME NEW j \in Jobs, Proceed(j) PROVE InOrder'
  <2>1. ~Fault
    BY FaultUntidy, Zenon
  <2>2. tidy
    BY <1>3, <2>1, FaultOrNot, Zenon DEF NoFault
  <2>3. InOrder
    BY <2>2, Zenon
  <2>4. CASE Finalize(j)
    <3>1. CASE At(j, "applied")
      BY <2>1, <2>3, <2>4, <3>1, VerifyInOrder
    <3>2. CASE ~At(j, "applied")
      BY <2>1, <2>3, <2>4, <3>2, ReportInOrder
    <3> QED BY <3>1, <3>2
  <2>5. CASE FinalizeRollback(j)
    <3>1. ~At(j, "applied")
      BY <2>5 DEF FinalizeRollback, At
    <3> QED BY <2>1, <2>3, <2>5, <3>1, ReportInOrder
  <2> QED BY <1>3, <2>1, <2>3, <2>4, <2>5, ValidateInOrder, PersistInOrder, ApplyInOrder,
             MarkInOrder, RestoreInOrder, Zenon DEF Proceed
<1>4. ASSUME NEW j \in Jobs, Crash(j) PROVE FALSE
  BY <1>4, FaultUntidy, Zenon DEF Crash
<1>5. ASSUME NEW r \in Records, NEW v \in Values, Edit(r, v) PROVE FALSE
  BY <1>5, Zenon DEF Edit
<1>6. ASSUME Connect \/ Revoke \/ UNCHANGED vars PROVE InOrder'
  <2>1. tidy
    BY <1>6, Zenon DEF Connect, Revoke, Credential, vars
  <2> QED BY <1>6, <2>1, OthersInOrder
<1> QED BY <1>1, <1>2, <1>3, <1>4, <1>5, <1>6, Zenon DEF Next

LEMMA InitInOrder == Init => InOrder
<1> SUFFICES ASSUME Init PROVE InOrder
  OBVIOUS
<1>1. own = zone /\ ops = <<>> /\ job = [j \in Jobs |-> Idle]
  BY DEF Init
<1>2. DOMAIN ops = {} /\ \A j \in Jobs : job[j].step = "idle"
  BY <1>1 DEF Idle
<1>3. \A r \in Records : Shows(r, zone[r])
  BY <1>1, <1>2 DEF Shows, Says, Standing
<1> QED BY <1>2, <1>3 DEF InOrder, Alone, AtWork, InStep

-----------------------------------------------------------------------------
(* The theorems.                                                           *)

THEOREM AlwaysSound == Spec => []Sound
BY InitSound, NextSound, PTL DEF Spec

\* Zone, log and counters keep their types, and a verified operation names its record.
THEOREM AutoFixTyped == Spec => []TypeOK
<1>1. Sound => TypeOK
  <2> SUFFICES ASSUME Sound PROVE TypeOK
    OBVIOUS
  <2>1. \A r \in Live : r <= used
    BY Sizes DEF Sound, Fresh, Typed, Live, Records
  <2>2. ASSUME NEW i \in DOMAIN ops
        PROVE  /\ ops[i].status \in Statuses
               /\ ops[i].record \in 0..used /\ ops[i].target \in 0..used
               /\ ops[i].status = "VERIFIED" => ops[i].target # 0
    <3>1. RowSound(i) /\ ops[i] \in Row /\ used \in Nat
      BY Sizes DEF Sound, Typed
    <3> QED BY <3>1, Sizes DEF RowSound, Row
  <2> QED BY <2>1, <2>2 DEF TypeOK, Statuses, Sound, Typed, Contents
<1> QED BY <1>1, AlwaysSound, PTL

\* Whatever crashes, fails or overlaps, a record of the merchant's is still there, with
\* its content or with a snapshot of it in the log.
THEOREM OriginalsRecoverable == Spec => []OriginalRecoverable
<1>1. Sound => OriginalRecoverable
  BY DEF Sound, OriginalRecoverable, Recoverable, Evidence
<1> QED BY <1>1, AlwaysSound, PTL

\* Without overlaps, failures and edits, and undone in reverse, what the latest operations
\* wrote is there, and every other record is what the merchant had.
THEOREM ZoneKeepsToLog == Spec => []ZoneFollowsLog
<1>1. Init => (tidy => InOrder)
  BY InitInOrder
<1>2. Sound /\ (tidy => InOrder) => ZoneFollowsLog
  <2> SUFFICES ASSUME Sound, InOrder, Underway = {} PROVE \A r \in Records : Shows(r, zone[r])
    <3>1. \A r \in Records :
            Standing(r) = {i \in DOMAIN ops : ops[i].status \in Undoable /\ ops[i].target = r}
      BY DEF Standing, Undoable
    <3> QED BY <3>1, Zenon DEF ZoneFollowsLog, Shows, Says
  <2>1. \A j \in Jobs : job[j].step = "idle"
    BY DEF Underway, Idle
  <2> QED BY <2>1 DEF InOrder, InTransit
<1>3. Spec => [](tidy => InOrder)
  BY <1>1, AlwaysSound, NextInOrder, PTL DEF Spec
<1> QED BY <1>2, <1>3, AlwaysSound, PTL

=============================================================================
