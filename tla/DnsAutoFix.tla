----------------------------- MODULE DnsAutoFix -----------------------------
(***************************************************************************)
(* The repair of one DNS record set of a merchant with one click, and its  *)
(* undoing: plan, validate, snapshot, persist the operation, apply,        *)
(* finalize; load, mark, restore, finalize.  Requests run on different     *)
(* servers, and the merchant changes the zone by hand as well.             *)
(***************************************************************************)
EXTENDS Integers, Sequences, FiniteSets

CONSTANTS
  Jobs,      \* requests under way at a time, each on a server of its own
  Values,    \* contents of records
  Originals, \* what the zone may hold before: contents of its first records
  MaxRecords, MaxOps, MaxEdits, MaxFaults  \* bounds

None == "none"

ASSUME AutoFixAssumption ==
  /\ None \notin Values
  /\ Originals \subseteq Seq(Values) /\ \A o \in Originals : Len(o) <= MaxRecords
  /\ MaxRecords \in Nat /\ MaxOps \in Nat /\ MaxEdits \in Nat /\ MaxFaults \in Nat

VARIABLES
  zone,      \* content of each record id, None where there is no record
  used,      \* record ids given out so far
  connected, \* an active credential of the merchant is stored
  ops,       \* dns_auto_fix_logs, in the order of creation
  job,       \* where each request is
  own,       \* history: what the merchant has put into each record
  raced,     \* history: records edited during a request or after an operation on them
  tidy,      \* history: nothing overlapped, failed or was edited, and the latest was undone first
  edits, faults

vars == <<zone, used, connected, ops, job, own, raced, tidy, edits, faults>>

Records == 1..MaxRecords
Live == {r \in Records : zone[r] # None}

Idle == [step |-> "idle"]
Underway == {j \in Jobs : job[j] # Idle}
InFlight == {"APPLYING", "ROLLING_BACK"}
Undoable == {"VERIFIED"}

Init ==
  /\ \E original \in Originals :
       /\ zone = [r \in Records |-> IF r \in DOMAIN original THEN original[r] ELSE None]
       /\ used = Len(original)
  /\ connected \in BOOLEAN
  /\ ops = <<>>
  /\ job = [j \in Jobs |-> Idle]
  /\ own = zone
  /\ raced = {}
  /\ tidy = TRUE
  /\ edits = 0
  /\ faults = 0

Fault == faults < MaxFaults /\ faults' = faults + 1 /\ tidy' = FALSE
NoFault == UNCHANGED <<faults, tidy>>
At(j, step) == job[j].step = step
Goto(j, step) == job' = [job EXCEPT ![j].step = step]
Stop(j) == job' = [job EXCEPT ![j] = Idle]
Zone == <<zone, used>>
Merchant == <<connected, own, raced, edits>>

-----------------------------------------------------------------------------
(* Cloudflare.                                                             *)

\* POST: a record that is there already, of the same content, is rejected.
CanCreate(v) == v \notin {zone[r] : r \in Live} /\ used < MaxRecords
Create(v) == zone' = [zone EXCEPT ![used + 1] = v] /\ used' = used + 1
\* PUT
CanUpdate(r) == r \in Live
Update(r, v) == zone' = [zone EXCEPT ![r] = v] /\ UNCHANGED used
\* DELETE: a record that is gone is an error.
CanDelete(r) == r \in Live
Delete(r) == zone' = [zone EXCEPT ![r] = None] /\ UNCHANGED used

\* GET, the record it names; 0 where there is none.
Found == IF Live = {} THEN {0} ELSE Live

\* A call takes effect and is answered, is rejected, or its answer is lost.
Call(possible, effect, answered, refused) ==
  \/ possible /\ effect /\ answered /\ NoFault
  \/ ~possible /\ UNCHANGED Zone /\ refused /\ NoFault
  \/ ((possible /\ effect) \/ UNCHANGED Zone) /\ refused /\ Fault

\* The merchant edits the zone by hand.
Edit(r, v) ==
  /\ edits < MaxEdits /\ edits' = edits + 1
  /\ zone[r] # v /\ (zone[r] = None => r = used + 1)
  /\ zone' = [zone EXCEPT ![r] = v] /\ own' = [own EXCEPT ![r] = v]
  /\ used' = IF r > used THEN r ELSE used
  /\ raced' = IF Underway = {} /\ (\A i \in DOMAIN ops : r \notin {ops[i].record, ops[i].target})
              THEN raced ELSE raced \cup {r}
  /\ tidy' = FALSE
  /\ UNCHANGED <<connected, ops, job, faults>>

\* save_credentials and revoke_credentials
Credential(active) ==
  /\ edits < MaxEdits /\ edits' = edits + 1
  /\ connected' = active
  /\ UNCHANGED <<zone, used, ops, job, own, raced, tidy, faults>>
Connect == ~connected /\ Credential(TRUE)
Revoke == connected /\ Credential(FALSE)
HasToken == connected

-----------------------------------------------------------------------------
(* apply_dns_fix                                                           *)

\* No operation on the target may be in flight, and a token must be there.
Plan(j, v) ==
  /\ job[j] = Idle /\ HasToken
  /\ \A i \in DOMAIN ops : ops[i].status \notin InFlight
  /\ job' = [job EXCEPT ![j] = [step |-> "validate", value |-> v]]
  /\ tidy' = (tidy /\ Underway = {})
  /\ UNCHANGED <<zone, used, ops, faults, Merchant>>

\* A look at the records of host and type: the first of them, in Cloudflare's
\* order; an error counts as none.  Nothing is to be done where the content is
\* right.
Validate(j) ==
  LET v == job[j].value IN
  LET seen(r) == job' = [job EXCEPT ![j] =
        [step |-> "persist", value |-> v, record |-> r, prev |-> IF r = 0 THEN None ELSE zone[r]]] IN
  /\ At(j, "validate")
  /\ \/ \E r \in Found : NoFault /\ IF r # 0 /\ zone[r] = v THEN Stop(j) ELSE seen(r)
     \/ Fault /\ (Stop(j) \/ seen(0))
  /\ UNCHANGED <<zone, used, ops, Merchant>>

\* The operation with its snapshot; exists is record # 0.
Operation(j) ==
  [status |-> "APPLYING", value |-> job[j].value, record |-> job[j].record,
   prev |-> job[j].prev, target |-> 0]

\* The snapshot holds the content that is to come.
OperationAfter(j) == [Operation(j) EXCEPT !.prev = job[j].value]

Insert(j, row) ==
  /\ At(j, "persist") /\ Len(ops) < MaxOps
  /\ \/ /\ ops' = Append(ops, row) /\ NoFault
        /\ job' = [job EXCEPT ![j] = [step |-> "apply", op |-> Len(ops) + 1]]
     \/ ops' \in {ops, Append(ops, row)} /\ Stop(j) /\ Fault
  /\ UNCHANGED <<zone, used, Merchant>>
PersistAfter(j) == Insert(j, OperationAfter(j))
Persist(j) == Insert(j, Operation(j))

\* PUT over the record that was found, else POST.
Apply(j) ==
  /\ At(j, "apply")
  /\ LET o == ops[job[j].op] IN
     LET applied(r) == job' = [job EXCEPT ![j] = [step |-> "applied", op |-> job[j].op, target |-> r]] IN
     IF o.record # 0
     THEN Call(CanUpdate(o.record), Update(o.record, o.value), applied(o.record), Goto(j, "refused"))
     ELSE Call(CanCreate(o.value), Create(o.value), applied(used + 1), Goto(j, "refused"))
  /\ UNCHANGED <<ops, Merchant>>

\* update_dns_auto_fix_operation, regardless of what the row holds meanwhile.
Set(j, row) ==
  \/ ops' = [ops EXCEPT ![job[j].op] = row] /\ Stop(j) /\ NoFault
  \/ ops' \in {ops, [ops EXCEPT ![job[j].op] = row]} /\ Stop(j) /\ Fault
Keep == UNCHANGED <<zone, used, Merchant>>

Verified(j) == [ops[job[j].op] EXCEPT !.status = "VERIFIED", !.target = job[j].target]

\* The id of the record is not kept.
FinalizeUntargeted(j) ==
  /\ Keep
  /\ \/ At(j, "applied") /\ Set(j, [ops[job[j].op] EXCEPT !.status = "VERIFIED"])
     \/ At(j, "refused") /\ Set(j, [ops[job[j].op] EXCEPT !.status = "FAILED"])

\* What was refused leaves no trace.
FinalizeSilently(j) ==
  /\ Keep
  /\ \/ /\ At(j, "applied")
        /\ Set(j, Verified(j))
     \/ At(j, "refused") /\ Stop(j) /\ NoFault /\ UNCHANGED ops

Finalize(j) ==
  /\ Keep
  /\ \/ /\ At(j, "applied")
        /\ Set(j, Verified(j))
     \/ /\ At(j, "refused")
        /\ Set(j, [ops[job[j].op] EXCEPT !.status = "FAILED"])

-----------------------------------------------------------------------------
(* rollback_dns_fix                                                        *)

\* The operation as it is loaded decides; the latest that stands should go first.
Load(j, i) ==
  /\ job[j] = Idle /\ HasToken
  /\ ops[i].status \in Undoable
  /\ job' = [job EXCEPT ![j] = [step |-> "mark", op |-> i, was |-> ops[i]]]
  /\ tidy' = (tidy /\ Underway = {} /\ \A k \in DOMAIN ops : k > i => ops[k].status \notin Undoable)
  /\ UNCHANGED <<zone, used, ops, faults, Merchant>>

Mark(j) ==
  /\ At(j, "mark")
  /\ LET marked == [ops EXCEPT ![job[j].op].status = "ROLLING_BACK"] IN
     \/ ops' = marked /\ Goto(j, "restore") /\ NoFault
     \/ ops' \in {ops, marked} /\ Stop(j) /\ Fault
  /\ Keep

\* The changed record gets the content the operation gave it.
RestoreSwapped(j) ==
  /\ At(j, "restore")
  /\ LET o == job[j].was IN
     IF o.record = 0
     THEN Call(CanDelete(o.target), Delete(o.target), Goto(j, "restored"), Goto(j, "unrestored"))
     ELSE Call(CanUpdate(o.record), Update(o.record, o.value), Goto(j, "restored"), Goto(j, "unrestored"))
  /\ UNCHANGED <<ops, Merchant>>

\* The created record is deleted, the changed one gets its previous content.
Restore(j) ==
  /\ At(j, "restore")
  /\ LET o == job[j].was IN
     IF o.record = 0
     THEN Call(CanDelete(o.target), Delete(o.target), Goto(j, "restored"), Goto(j, "unrestored"))
     ELSE Call(CanUpdate(o.record), Update(o.record, o.prev), Goto(j, "restored"), Goto(j, "unrestored"))
  /\ UNCHANGED <<ops, Merchant>>

FinalizeRollback(j) ==
  /\ Keep
  /\ \/ /\ At(j, "restored")
        /\ Set(j, [ops[job[j].op] EXCEPT !.status = "ROLLED_BACK"])
     \/ /\ At(j, "unrestored")
        /\ Set(j, [ops[job[j].op] EXCEPT !.status = "ROLLBACK_FAILED"])

\* A server goes down with the request.
Crash(j) ==
  /\ job[j] # Idle /\ Stop(j) /\ Fault
  /\ UNCHANGED <<zone, used, ops, Merchant>>

Proceed(j) ==
  Validate(j) \/ Persist(j) \/ Apply(j) \/ Finalize(j) \/ Mark(j) \/ Restore(j) \/ FinalizeRollback(j)

Next ==
  \/ \E j \in Jobs :
       \/ \E v \in Values : Plan(j, v)
       \/ \E i \in DOMAIN ops : Load(j, i)
       \/ Proceed(j) \/ Crash(j)
  \/ \E r \in Records, v \in Values : Edit(r, v)
  \/ Connect \/ Revoke

Spec == Init /\ [][Next]_vars

\* Whatever a server has begun it goes on with.
FairSpec == Spec /\ \A j \in Jobs : WF_vars(Proceed(j))

-----------------------------------------------------------------------------
(* Properties.                                                             *)

\* Every variable has its type, and no operation has a record of its own both to
\* restore and to delete.
TypeOK ==
  /\ zone \in [Records -> Values \cup {None}]
  /\ used \in 0..MaxRecords /\ \A r \in Live : r <= used
  /\ \A i \in DOMAIN ops :
       /\ ops[i].status \in {"APPLYING", "VERIFIED", "FAILED", "ROLLING_BACK", "ROLLED_BACK", "ROLLBACK_FAILED"}
       /\ ops[i].record \in 0..used /\ ops[i].target \in 0..used
       /\ ops[i].status = "VERIFIED" => ops[i].target # 0
  /\ faults \in 0..MaxFaults /\ edits \in 0..MaxEdits

\* Whatever crashes, fails or overlaps: a record the merchant has put there is
\* still there, and if its content is not the merchant's the log has that; but
\* for records the merchant edits under a repair, or before undoing an older one.
OriginalRecoverable ==
  \A r \in Records \ raced : own[r] # None =>
    \/ zone[r] = own[r]
    \/ zone[r] # None /\ \E i \in DOMAIN ops : ops[i].record = r /\ ops[i].prev = own[r]

\* One request at a time, undone in reverse, without a failure: what the latest
\* operations wrote is there, and nothing else has changed.
ZoneFollowsLog ==
  tidy /\ Underway = {} =>
    LET standing(r) == {i \in DOMAIN ops : ops[i].status \in Undoable /\ ops[i].target = r}
    IN  \A r \in Records :
          IF standing(r) = {} THEN zone[r] = own[r]
          ELSE \E i \in standing(r) : zone[r] = ops[i].value /\ \A k \in standing(r) : k <= i

\* A target is blocked by an operation in flight only for a while, unless a
\* failure or a crash has left the operation where it is.
Blocked(i) == i \in DOMAIN ops /\ ops[i].status \in InFlight
ReleasedUnlessFault ==
  \A i \in 1..MaxOps : [](Blocked(i) => <>(~Blocked(i) \/ faults > 0))

=============================================================================
