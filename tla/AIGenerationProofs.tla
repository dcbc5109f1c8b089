------------------------- MODULE AIGenerationProofs -------------------------
(***************************************************************************)
(* Slots and credits for any number of requests: how many may run, which   *)
(* slots are left behind, and what the count of a month stands for.        *)
(***************************************************************************)
EXTENDS AIGeneration, FiniteSetTheorems, TLAPS

(* The inductive invariants.                                               *)

Inside == {r \in Requests : pc[r] \notin {"new", "done"}}
LeftBehind == {r \in Requests : pc[r] = "done" /\ lease[r] >= 0}

\* A request has no slot before it asks for one; no more slots are taken than
\* the tier has, and those that outlive their requests cost a fault each.
SlotsSound ==
  /\ \A r \in Requests : pc[r] = "new" => lease[r] = -1
  /\ Cardinality(Active) <= SlotLimit
  /\ Cardinality(LeftBehind) <= faults

\* Under Prompt a request that runs still has its slot.
SlotsOutlast == \A r \in Inside : lease[r] > 0

Accounted(m) == Holding(m) \cup CutRefunds(m)

\* A refund cut short that will not be tried again.
CutForGood(m) == {r \in CutRefunds(m) : pc[r] # "compensating"}

\* A credit that a request may give back twice is missed only once it has been.
Balanced(m) ==
  /\ Cardinality(Holding(m)) <= usage[m] + Cardinality(CutForGood(m))
  /\ usage[m] <= Cardinality(Accounted(m)) + faults

OutcomesFollow ==
  \A r \in Requests :
    /\ pc[r] \in {"new", "admitted", "generating", "recording", "returning"} => outcome[r] = "none"
    /\ pc[r] = "compensating" => outcome[r] \in {"none", "refund cut"}

CreditsSound == OutcomesFollow /\ \A m \in 1..Months : Balanced(m)

-----------------------------------------------------------------------------
(* Counting.                                                               *)

\* Sets that differ at most in r.
LEMMA OneMoves ==
  ASSUME NEW S, NEW T, NEW r, IsFiniteSet(S), \A q : q # r => (q \in S <=> q \in T)
  PROVE  /\ IsFiniteSet(T) /\ Cardinality(S) \in Nat /\ Cardinality(T) \in Nat
         /\ Cardinality(T) = Cardinality(S) + (IF r \in T THEN 1 ELSE 0)
                                            - (IF r \in S THEN 1 ELSE 0)
<1>1. Cardinality(S) \in Nat
  BY FS_CardinalityType
<1>2. CASE r \in T
  <2>1. T = S \cup {r}
    BY <1>2
  <2>2. /\ IsFiniteSet(T)
        /\ Cardinality(T) = IF r \in S THEN Cardinality(S) ELSE Cardinality(S) + 1
    BY <2>1, FS_AddElement
  <2> QED BY <1>1, <1>2, <2>2, FS_CardinalityType
<1>3. CASE r \notin T
  <2>1. T = S \ {r}
    BY <1>3
  <2>2. /\ IsFiniteSet(T)
        /\ Cardinality(T) = IF r \in S THEN Cardinality(S) - 1 ELSE Cardinality(S)
    BY <2>1, FS_RemoveElement
  <2>3. Cardinality(T) \in Nat
    BY <2>2, FS_CardinalityType
  <2> QED BY <1>1, <1>3, <2>2, <2>3
<1> QED BY <1>2, <1>3

LEMMA RequestsCounted ==
  ASSUME NEW S \in SUBSET Requests
  PROVE  IsFiniteSet(S) /\ Cardinality(S) \in Nat
BY AIAssumption, FS_Subset, FS_CardinalityType

LEMMA FewerCounted ==
  ASSUME NEW S \in SUBSET Requests, NEW T \in SUBSET S
  PROVE  Cardinality(T) <= Cardinality(S)
BY RequestsCounted, FS_Subset

-----------------------------------------------------------------------------
(* Types.                                                                  *)

LEMMA InitTyped == Init => TypeOK
BY AIAssumption DEF Init, TypeOK, Steps, Outcomes

LEMMA FaultTyped == ASSUME TypeOK, Fault \/ UNCHANGED faults PROVE faults' \in 0..MaxFaults
BY AIAssumption DEF Fault, TypeOK

LEMMA LeaseTyped ==
  ASSUME TypeOK, NEW r \in Requests, RpcAcquire(r) \/ RpcRelease(r) \/ UNCHANGED lease
  PROVE  lease' \in [Requests -> -1..LeaseTicks]
<1>1. LeaseTicks \in -1..LeaseTicks /\ -1 \in -1..LeaseTicks
  BY AIAssumption
<1>2. lease \in [Requests -> -1..LeaseTicks]
  BY DEF TypeOK
<1> QED BY <1>1, <1>2 DEF RpcAcquire, RpcRelease

LEMMA UsageTyped ==
  ASSUME TypeOK, NEW r \in Requests, RpcConsume \/ RpcRollback(r) \/ UNCHANGED usage
  PROVE  usage' \in [1..Months -> 0..MonthlyLimit]
<1>1. CASE RpcConsume
  <2>1. usage[month] \in 0..MonthlyLimit /\ usage \in [1..Months -> 0..MonthlyLimit]
    BY DEF TypeOK
  <2>2. (IF HasCredit THEN usage[month] + 1 ELSE usage[month]) \in 0..MonthlyLimit
    BY <2>1, AIAssumption DEF HasCredit
  <2> QED BY <1>1, <2>1, <2>2 DEF RpcConsume
<1>2. CASE RpcRollback(r)
  <2>1. usage[period[r]] \in 0..MonthlyLimit /\ usage \in [1..Months -> 0..MonthlyLimit]
    BY DEF TypeOK
  <2>2. (IF usage[period[r]] > 0 THEN usage[period[r]] - 1 ELSE 0) \in 0..MonthlyLimit
    BY <2>1, AIAssumption
  <2> QED BY <1>2, <2>1, <2>2 DEF RpcRollback
<1> QED BY <1>1, <1>2 DEF TypeOK

LEMMA NextTyped == ASSUME TypeOK, [Next]_vars PROVE TypeOK'
<1>1. CASE UNCHANGED vars
  BY <1>1 DEF vars, TypeOK
<1>2. ASSUME NEW r \in Requests, Acquire(r) PROVE TypeOK'
  <2>1. lease' \in [Requests -> -1..LeaseTicks]
    BY <1>2, LeaseTyped DEF Acquire
  <2>2. faults' \in 0..MaxFaults
    BY <1>2, FaultTyped DEF Acquire
  <2> QED BY <1>2, <2>1, <2>2 DEF Acquire, Go, TypeOK, Steps
<1>3. ASSUME NEW r \in Requests, Reserve(r) PROVE TypeOK'
  <2>1. usage' \in [1..Months -> 0..MonthlyLimit]
    BY <1>3, UsageTyped DEF Reserve
  <2>2. faults' \in 0..MaxFaults
    BY <1>3, FaultTyped DEF Reserve
  <2> QED BY <1>3, <2>1, <2>2 DEF Reserve, Refused, Go, TypeOK, Steps
<1>4. ASSUME NEW r \in Requests, Generate(r) PROVE TypeOK'
  BY <1>4 DEF Generate, Go, TypeOK, Steps
<1>5. ASSUME NEW r \in Requests, Record(r) PROVE TypeOK'
  BY <1>5 DEF Record, Go, TypeOK, Steps, Outcomes
<1>6. ASSUME NEW r \in Requests, Return(r) \/ Compensate(r) PROVE TypeOK'
  <2>1. usage' \in [1..Months -> 0..MonthlyLimit]
    BY <1>6, UsageTyped DEF Return, Compensate, GiveBack
  <2>2. faults' \in 0..MaxFaults
    BY <1>6, FaultTyped DEF Return, Compensate, GiveBack
  <2> QED BY <1>6, <2>1, <2>2 DEF Return, Compensate, GiveBack, Go, TypeOK, Steps, Outcomes
<1>7. ASSUME NEW r \in Requests, Release(r) PROVE TypeOK'
  <2>1. lease' \in [Requests -> -1..LeaseTicks]
    BY <1>7, LeaseTyped DEF Release
  <2>2. faults' \in 0..MaxFaults
    BY <1>7, FaultTyped DEF Release
  <2> QED BY <1>7, <2>1, <2>2 DEF Release, Go, TypeOK, Steps
<1>8. ASSUME NEW r \in Requests, Crash(r) PROVE TypeOK'
  <2>1. faults' \in 0..MaxFaults
    BY <1>8, FaultTyped DEF Crash
  <2> QED BY <1>8, <2>1 DEF Crash, Go, TypeOK, Steps
<1>9. CASE Tick
  <2>1. \A r \in Requests : lease[r] \in -1..LeaseTicks
    BY DEF TypeOK
  <2>2. \A r \in Requests : (IF lease[r] >= 0 THEN lease[r] - 1 ELSE -1) \in -1..LeaseTicks
    BY <2>1, AIAssumption
  <2>3. lease' \in [Requests -> -1..LeaseTicks]
    BY <1>9, <2>2 DEF Tick
  <2> QED BY <1>9, <2>3 DEF Tick, TypeOK
<1>10. CASE NextMonth
  BY <1>10, AIAssumption DEF NextMonth, TypeOK
<1> QED BY <1>1, <1>2, <1>3, <1>4, <1>5, <1>6, <1>7, <1>8, <1>9, <1>10 DEF Next

-----------------------------------------------------------------------------
(* Slots.                                                                  *)

LEMMA InitSlots == Init => SlotsSound /\ SlotsOutlast
<1> SUFFICES ASSUME Init PROVE SlotsSound /\ SlotsOutlast
  OBVIOUS
<1>1. Active = {} /\ LeftBehind = {} /\ Inside = {}
  BY DEF Init, Active, LeftBehind, Inside
<1> QED BY <1>1, FS_EmptySet, AIAssumption DEF Init, SlotsSound, SlotsOutlast

\* A request gives its slot up, or loses it to time.
LEMMA SlotsShrink ==
  ASSUME TypeOK, SlotsSound, TypeOK', Active' \subseteq Active, LeftBehind' \subseteq LeftBehind,
         faults' >= faults, \A r \in Requests : pc'[r] = "new" => lease'[r] = -1
  PROVE  SlotsSound'
<1>1. Cardinality(Active') <= Cardinality(Active) /\ Cardinality(LeftBehind') <= Cardinality(LeftBehind)
  BY FewerCounted DEF Active, LeftBehind
<1>2. /\ Active \in SUBSET Requests /\ Active' \in SUBSET Requests
      /\ LeftBehind \in SUBSET Requests /\ LeftBehind' \in SUBSET Requests
  BY DEF Active, LeftBehind
<1>3. /\ Cardinality(Active') \in Nat /\ Cardinality(LeftBehind') \in Nat
      /\ Cardinality(Active) \in Nat /\ Cardinality(LeftBehind) \in Nat
  BY <1>2, RequestsCounted
<1>4. faults \in Nat /\ faults' \in Nat /\ SlotLimit \in Nat
  BY AIAssumption DEF TypeOK
<1>5. Cardinality(Active') <= SlotLimit /\ Cardinality(LeftBehind') <= faults'
  BY <1>1, <1>3, <1>4 DEF SlotsSound
<1> QED BY <1>5 DEF SlotsSound

\* A request that ends by a fault may leave its slot behind.
LEMMA SlotsLeft ==
  ASSUME TypeOK, SlotsSound, TypeOK', NEW r \in Requests, faults' = faults + 1,
         pc' = [pc EXCEPT ![r] = "done"], RpcAcquire(r) \/ UNCHANGED lease
  PROVE  SlotsSound'
<1>1. \A q \in Requests : q # r => lease'[q] = lease[q] /\ pc'[q] = pc[q]
  BY DEF RpcAcquire, TypeOK
<1>2. \A q : q # r => (q \in LeftBehind <=> q \in LeftBehind')
  BY <1>1 DEF LeftBehind
<1>3. \A q : q # r => (q \in Active <=> q \in Active')
  BY <1>1 DEF Active
<1>4. /\ Active \in SUBSET Requests /\ LeftBehind \in SUBSET Requests
      /\ IsFiniteSet(Active) /\ IsFiniteSet(LeftBehind)
  BY RequestsCounted DEF Active, LeftBehind
<1>5. /\ Cardinality(LeftBehind) \in Nat /\ Cardinality(LeftBehind') \in Nat
      /\ Cardinality(LeftBehind') <= Cardinality(LeftBehind) + 1
  BY <1>2, <1>4, OneMoves
<1>6. /\ Cardinality(Active) \in Nat /\ Cardinality(Active') \in Nat
      /\ Cardinality(Active') <= Cardinality(Active) + 1
  BY <1>3, <1>4, OneMoves
<1>7. Cardinality(Active') <= SlotLimit
  <2>1. CASE HasSlot
    BY <1>6, <2>1, AIAssumption DEF HasSlot
  <2>2. CASE ~HasSlot
    <3>1. lease' = lease
      BY <2>2 DEF RpcAcquire, TypeOK
    <3>2. Active' = Active
      BY <3>1 DEF Active
    <3> QED BY <3>2 DEF SlotsSound
  <2> QED BY <2>1, <2>2
<1>8. Cardinality(LeftBehind') <= faults'
  <2>1. faults \in Nat
    BY AIAssumption DEF TypeOK
  <2> QED BY <1>5, <2>1 DEF SlotsSound
<1>9. \A q \in Requests : pc'[q] = "new" => lease'[q] = -1
  BY <1>1 DEF SlotsSound, TypeOK
<1> QED BY <1>7, <1>8, <1>9 DEF SlotsSound

\* A slot is given to a request that runs on.
LEMMA SlotGiven ==
  ASSUME TypeOK, SlotsSound, TypeOK', NEW r \in Requests, HasSlot, RpcAcquire(r),
         pc' = [pc EXCEPT ![r] = "admitted"], UNCHANGED faults
  PROVE  SlotsSound'
<1>1. \A q \in Requests : q # r => lease'[q] = lease[q] /\ pc'[q] = pc[q]
  BY DEF RpcAcquire, TypeOK
<1>2. LeftBehind' \subseteq LeftBehind
  BY <1>1 DEF LeftBehind, TypeOK
<1>3. \A q : q # r => (q \in Active <=> q \in Active')
  BY <1>1 DEF Active
<1>4. /\ Active \in SUBSET Requests /\ LeftBehind \in SUBSET Requests
      /\ IsFiniteSet(Active) /\ IsFiniteSet(LeftBehind)
  BY RequestsCounted DEF Active, LeftBehind
<1>5. /\ Cardinality(Active) \in Nat /\ Cardinality(Active') \in Nat
      /\ Cardinality(Active') <= Cardinality(Active) + 1
  BY <1>3, <1>4, OneMoves
<1>6. Cardinality(Active') <= SlotLimit
  BY <1>5, AIAssumption DEF HasSlot
<1>7. Cardinality(LeftBehind') <= faults'
  <2>1. Cardinality(LeftBehind') <= Cardinality(LeftBehind)
    BY <1>2, <1>4, FewerCounted
  <2>2. Cardinality(LeftBehind') \in Nat /\ Cardinality(LeftBehind) \in Nat
    BY <1>2, <1>4, RequestsCounted
  <2>3. faults \in Nat
    BY AIAssumption DEF TypeOK
  <2> QED BY <2>1, <2>2, <2>3 DEF SlotsSound
<1>8. \A q \in Requests : pc'[q] = "new" => lease'[q] = -1
  BY <1>1 DEF SlotsSound, TypeOK
<1> QED BY <1>6, <1>7, <1>8 DEF SlotsSound

LEMMA NextSlots == ASSUME TypeOK, TypeOK', SlotsSound, [Next]_vars PROVE SlotsSound'
<1> USE DEF Fault
<1>0. faults \in Nat
  BY AIAssumption DEF TypeOK
<1>1. CASE UNCHANGED vars
  BY <1>1 DEF vars, SlotsSound, Active, LeftBehind
<1>2. ASSUME NEW r \in Requests, Acquire(r) PROVE SlotsSound'
  <2>1. CASE HasSlot /\ RpcAcquire(r) /\ Go(r, "admitted") /\ UNCHANGED faults
    BY <2>1, SlotGiven DEF Go
  <2>2. CASE ~HasSlot /\ RpcAcquire(r) /\ Go(r, "done") /\ UNCHANGED faults
    <3>1. lease' = lease /\ lease[r] = -1
      BY <1>2, <2>2 DEF Acquire, RpcAcquire, TypeOK, SlotsSound
    <3>2. \A q \in Requests : pc'[q] = IF q = r THEN "done" ELSE pc[q]
      BY <2>2 DEF Go, TypeOK
    <3>3. Active' = Active
      BY <3>1 DEF Active
    <3>4. LeftBehind' \subseteq LeftBehind
      BY <3>1, <3>2 DEF LeftBehind
    <3>5. \A q \in Requests : pc'[q] = "new" => lease'[q] = -1
      BY <3>1, <3>2 DEF SlotsSound
    <3> QED BY <1>0, <2>2, <3>3, <3>4, <3>5, SlotsShrink
  <2>3. CASE (RpcAcquire(r) \/ UNCHANGED lease) /\ Go(r, "done") /\ Fault
    BY <2>3, SlotsLeft DEF Go
  <2> QED BY <1>2, <2>1, <2>2, <2>3 DEF Acquire
<1>3. ASSUME NEW r \in Requests,
             Reserve(r) \/ Generate(r) \/ Record(r) \/ Return(r) \/ Compensate(r)
      PROVE  SlotsSound'
  <2>0. lease' = lease /\ (faults' = faults \/ faults' = faults + 1)
    BY <1>3 DEF Reserve, Generate, Record, Return, Compensate, GiveBack
  <2>1. lease' = lease /\ faults' >= faults
    BY <1>0, <2>0
  <2>2. \E step \in Steps \ {"new", "done"} : pc[r] # "new" /\ Go(r, step)
    BY <1>3 DEF Reserve, Refused, Generate, Record, Return, Compensate, GiveBack, Steps
  <2>3. \A q \in Requests : /\ pc'[q] = "new" => pc[q] = "new"
                            /\ pc'[q] = "done" => pc[q] = "done"
    BY <2>2 DEF Go, TypeOK
  <2> QED BY <2>1, <2>3, SlotsShrink DEF Active, LeftBehind, SlotsSound
<1>4. ASSUME NEW r \in Requests, Release(r) PROVE SlotsSound'
  <2>1. CASE RpcRelease(r) /\ UNCHANGED faults
    <3>1. /\ lease' = [lease EXCEPT ![r] = -1] /\ pc' = [pc EXCEPT ![r] = "done"]
      BY <1>4, <2>1 DEF Release, RpcRelease, Go
    <3>0. lease'[r] = -1 /\ \A q \in Requests : q # r => lease'[q] = lease[q] /\ pc'[q] = pc[q]
      BY <3>1 DEF TypeOK
    <3>2. Active' \subseteq Active /\ LeftBehind' \subseteq LeftBehind
      BY <3>0 DEF Active, LeftBehind
    <3>3. \A q \in Requests : pc'[q] = "new" => lease'[q] = -1
      BY <3>1 DEF SlotsSound, TypeOK
    <3> QED BY <1>0, <2>1, <3>2, <3>3, SlotsShrink
  <2>2. CASE UNCHANGED lease /\ Fault
    BY <1>4, <2>2, SlotsLeft DEF Release, Go
  <2> QED BY <1>4, <2>1, <2>2 DEF Release
<1>5. ASSUME NEW r \in Requests, Crash(r) PROVE SlotsSound'
  BY <1>5, SlotsLeft DEF Crash, Go
<1>6. CASE Tick
  <2>1. \A r \in Requests : lease'[r] <= lease[r] /\ (lease[r] = -1 => lease'[r] = -1)
    BY <1>6 DEF Tick, TypeOK
  <2>2. \A r \in Requests : lease[r] \in Int /\ lease'[r] \in Int
    BY DEF TypeOK
  <2>3. Active' \subseteq Active /\ LeftBehind' \subseteq LeftBehind
    BY <1>6, <2>1, <2>2 DEF Active, LeftBehind, Tick
  <2>4. \A r \in Requests : pc'[r] = "new" => lease'[r] = -1
    BY <1>6, <2>1 DEF SlotsSound, Tick
  <2>5. faults' >= faults
    BY <1>0, <1>6 DEF Tick
  <2> QED BY <2>3, <2>4, <2>5, SlotsShrink
<1>7. CASE NextMonth
  BY <1>7 DEF NextMonth, SlotsSound, Active, LeftBehind
<1> QED BY <1>1, <1>2, <1>3, <1>4, <1>5, <1>6, <1>7 DEF Next

LEMMA NextOutlast ==
  ASSUME Prompt, TypeOK, SlotsOutlast, [Next]_vars
  PROVE  SlotsOutlast'
<1>1. CASE UNCHANGED vars
  BY <1>1 DEF vars, SlotsOutlast, Inside
<1>2. ASSUME NEW r \in Requests, Acquire(r) PROVE SlotsOutlast'
  <2>1. LeaseTicks > 0
    BY AIAssumption
  <2>2. \A q \in Requests : q # r => lease'[q] = lease[q] /\ pc'[q] = pc[q]
    BY <1>2 DEF Acquire, RpcAcquire, Go, TypeOK
  <2>3. r \in Inside' => lease'[r] = LeaseTicks
    BY <1>2 DEF Acquire, RpcAcquire, Go, TypeOK, Inside
  <2> QED BY <2>1, <2>2, <2>3 DEF SlotsOutlast, Inside
<1>3. ASSUME NEW r \in Requests,
             Reserve(r) \/ Generate(r) \/ Record(r) \/ Return(r) \/ Compensate(r) \/ Crash(r)
      PROVE  SlotsOutlast'
  <2>1. lease' = lease /\ r \in Inside
    BY <1>3 DEF Reserve, Generate, Record, Return, Compensate, Crash, Inside
  <2>2. \A q \in Requests : q # r => pc'[q] = pc[q]
    BY <1>3 DEF Reserve, Generate, Record, Return, Compensate, GiveBack, Crash, Go, TypeOK
  <2> QED BY <2>1, <2>2 DEF SlotsOutlast, Inside
<1>4. ASSUME NEW r \in Requests, Release(r) PROVE SlotsOutlast'
  <2>1. \A q \in Requests : q # r => lease'[q] = lease[q] /\ pc'[q] = pc[q]
    BY <1>4 DEF Release, RpcRelease, Go, TypeOK
  <2>2. pc'[r] = "done"
    BY <1>4 DEF Release, Go, TypeOK
  <2> QED BY <2>1, <2>2 DEF SlotsOutlast, Inside
<1>5. CASE Tick
  <2>1. ASSUME NEW r \in Inside' PROVE lease'[r] > 0
    <3>1. r \in Requests /\ lease[r] > 1 /\ lease'[r] = IF lease[r] >= 0 THEN lease[r] - 1 ELSE -1
      BY <1>5 DEF Tick, Inside
    <3>2. lease[r] \in Int
      BY <3>1 DEF TypeOK
    <3> QED BY <3>1, <3>2
  <2> QED BY <2>1 DEF SlotsOutlast
<1>6. CASE NextMonth
  BY <1>6 DEF NextMonth, SlotsOutlast, Inside
<1> QED BY <1>1, <1>2, <1>3, <1>4, <1>5, <1>6 DEF Next

-----------------------------------------------------------------------------
(* Credits.                                                                *)

LEMMA InitCredits == Init => CreditsSound
<1> SUFFICES ASSUME Init PROVE CreditsSound
  OBVIOUS
<1>1. ASSUME NEW m \in 1..Months PROVE Balanced(m)
  <2>1. Holding(m) = {} /\ CutForGood(m) = {} /\ Accounted(m) = {}
    BY DEF Init, Holding, CutRefunds, CutForGood, Accounted
  <2> QED BY <2>1, FS_EmptySet DEF Init, Balanced
<1> QED BY <1>1 DEF Init, OutcomesFollow, CreditsSound

Only(r) == \A q \in Requests : q # r =>
  pc'[q] = pc[q] /\ outcome'[q] = outcome[q] /\ period'[q] = period[q]

One(S, r) == IF r \in S THEN 1 ELSE 0

\* A step of one request moves that one in or out of what is counted.
LEMMA CreditsCounted ==
  ASSUME NEW r \in Requests, Only(r), NEW m
  PROVE  /\ Cardinality(Holding(m)) \in Nat /\ Cardinality(Holding(m)') \in Nat
         /\ Cardinality(CutForGood(m)) \in Nat /\ Cardinality(CutForGood(m)') \in Nat
         /\ Cardinality(Accounted(m)) \in Nat /\ Cardinality(Accounted(m)') \in Nat
         /\ Cardinality(Holding(m)') =
              Cardinality(Holding(m)) + One(Holding(m)', r) - One(Holding(m), r)
         /\ Cardinality(CutForGood(m)') =
              Cardinality(CutForGood(m)) + One(CutForGood(m)', r) - One(CutForGood(m), r)
         /\ Cardinality(Accounted(m)') =
              Cardinality(Accounted(m)) + One(Accounted(m)', r) - One(Accounted(m), r)
<1>1. IsFiniteSet(Holding(m)) /\ IsFiniteSet(CutForGood(m)) /\ IsFiniteSet(Accounted(m))
  BY RequestsCounted DEF Holding, CutForGood, CutRefunds, Accounted
<1>2. \A q : q # r => (q \in Holding(m) <=> q \in Holding(m)')
  BY DEF Only, Holding
<1>3. \A q : q # r => (q \in CutForGood(m) <=> q \in CutForGood(m)')
  BY DEF Only, CutForGood, CutRefunds
<1>4. \A q : q # r => (q \in Accounted(m) <=> q \in Accounted(m)')
  BY <1>2 DEF Only, CutRefunds, Accounted
<1>5. /\ Cardinality(Holding(m)) \in Nat /\ Cardinality(Holding(m)') \in Nat
      /\ Cardinality(Holding(m)') =
           Cardinality(Holding(m)) + One(Holding(m)', r) - One(Holding(m), r)
  BY <1>1, <1>2, OneMoves DEF One
<1>6. /\ Cardinality(CutForGood(m)) \in Nat /\ Cardinality(CutForGood(m)') \in Nat
      /\ Cardinality(CutForGood(m)') =
           Cardinality(CutForGood(m)) + One(CutForGood(m)', r) - One(CutForGood(m), r)
  BY <1>1, <1>3, OneMoves DEF One
<1>7. /\ Cardinality(Accounted(m)) \in Nat /\ Cardinality(Accounted(m)') \in Nat
      /\ Cardinality(Accounted(m)') =
           Cardinality(Accounted(m)) + One(Accounted(m)', r) - One(Accounted(m), r)
  BY <1>1, <1>4, OneMoves DEF One
<1> QED BY <1>5, <1>6, <1>7

LEMMA Numbers == ASSUME TypeOK, NEW m \in 1..Months PROVE faults \in Nat /\ usage[m] \in Nat
BY AIAssumption DEF TypeOK

\* What a refund does to the count of a month: it may take one credit off the
\* month of the request, and never one that is not there.
LEMMA RefundCounted ==
  ASSUME TypeOK, NEW r \in Requests, NEW m \in 1..Months,
         RpcRollback(r) \/ UNCHANGED usage
  PROVE  /\ usage[m] \in Nat /\ usage'[m] \in Nat /\ usage'[m] <= usage[m]
         /\ period[r] # m \/ UNCHANGED usage => usage'[m] = usage[m]
         /\ usage'[m] = usage[m] \/ usage'[m] = usage[m] - 1
         /\ period[r] = m /\ RpcRollback(r) => usage[m] = 0 \/ usage'[m] = usage[m] - 1
<1>1. usage \in [1..Months -> 0..MonthlyLimit] /\ period[r] \in 1..Months
  BY DEF TypeOK
<1>2. usage[m] \in Nat
  BY Numbers
<1>3. CASE RpcRollback(r)
  <2>1. usage'[m] = IF period[r] = m THEN IF usage[m] > 0 THEN usage[m] - 1 ELSE 0 ELSE usage[m]
    BY <1>1, <1>3 DEF RpcRollback
  <2>2. CASE period[r] = m /\ ~(UNCHANGED usage)
    <3>1. usage'[m] = IF usage[m] > 0 THEN usage[m] - 1 ELSE 0
      BY <2>1, <2>2
    <3> QED BY <1>2, <2>2, <3>1
  <2>3. CASE period[r] = m /\ UNCHANGED usage
    <3>1. usage'[m] = IF usage[m] > 0 THEN usage[m] - 1 ELSE 0
      BY <2>1, <2>3
    <3>2. usage'[m] = usage[m]
      BY <2>3
    <3> QED BY <1>2, <3>1, <3>2
  <2>4. CASE period[r] # m
    <3>1. usage'[m] = usage[m]
      BY <2>1, <2>4
    <3> QED BY <1>2, <2>4, <3>1
  <2> QED BY <2>2, <2>3, <2>4
<1>4. CASE UNCHANGED usage
  <2>1. usage'[m] = usage[m]
    BY <1>4
  <2> QED BY <1>2, <2>1, <1>3
<1> QED BY <1>3, <1>4

\* A request that reserves.
LEMMA ReserveBalances ==
  ASSUME TypeOK, CreditsSound, NEW r \in Requests, Reserve(r), NEW m \in 1..Months
  PROVE  Balanced(m)'
<1>1. Only(r) /\ outcome'[r] = "none" /\ outcome[r] = "none" /\ pc[r] = "admitted"
  BY DEF Reserve, Go, TypeOK, Only, CreditsSound, OutcomesFollow
<1>2. r \notin Holding(m) /\ r \notin CutForGood(m) /\ r \notin Accounted(m)
  BY <1>1 DEF Holding, CutForGood, CutRefunds, Accounted
<1>3. r \notin CutForGood(m)' /\ r \notin CutRefunds(m)'
  BY <1>1 DEF CutForGood, CutRefunds
<1>4. usage[m] \in Nat /\ faults \in Nat /\ usage[month] \in Nat /\ month \in 1..Months
  BY AIAssumption DEF TypeOK
<1>5. CASE RpcConsume /\ Go(r, IF HasCredit THEN "generating" ELSE Refused) /\ UNCHANGED faults
  <2>1. r \in Holding(m)' <=> m = month /\ HasCredit
    BY <1>1, <1>5 DEF Reserve, Refused, Holding, Go, TypeOK
  <2>2. usage'[m] = IF m = month /\ HasCredit THEN usage[m] + 1 ELSE usage[m]
    BY <1>4, <1>5 DEF RpcConsume, TypeOK
  <2>3. One(Holding(m)', r) = One(Accounted(m)', r)
    BY <1>3 DEF One, Accounted
  <2> QED BY <1>1, <1>2, <1>3, <1>4, <1>5, <2>1, <2>2, <2>3, CreditsCounted
          DEF One, Balanced, CreditsSound
<1>6. CASE (RpcConsume \/ UNCHANGED usage) /\ Go(r, Refused) /\ Fault
  <2>1. r \notin Holding(m)' /\ r \notin Accounted(m)'
    BY <1>1, <1>3, <1>6 DEF Refused, Holding, Accounted, Go, TypeOK
  <2>2. usage'[m] = usage[m] \/ usage'[m] = usage[m] + 1
    BY <1>4, <1>6 DEF RpcConsume, TypeOK
  <2>3. faults' = faults + 1
    BY <1>6 DEF Fault
  <2> QED BY <1>1, <1>2, <1>3, <1>4, <2>1, <2>2, <2>3, CreditsCounted
          DEF One, Balanced, CreditsSound
<1> QED BY <1>5, <1>6 DEF Reserve

\* A request that stays what it is to its month.
LEMMA StayBalanced ==
  ASSUME TypeOK, CreditsSound, NEW r \in Requests, Only(r), NEW m \in 1..Months,
         UNCHANGED <<usage, faults>>, r \in Holding(m)' <=> r \in Holding(m),
         r \notin CutRefunds(m), r \notin CutRefunds(m)'
  PROVE  Balanced(m)'
<1>1. r \notin CutForGood(m) /\ r \notin CutForGood(m)'
  BY DEF CutForGood
<1>2. One(Accounted(m)', r) = One(Accounted(m), r) /\ One(Holding(m)', r) = One(Holding(m), r)
  BY DEF One, Accounted
<1>3. usage[m] \in Nat /\ faults \in Nat /\ One(Accounted(m), r) \in Nat /\ One(Holding(m), r) \in Nat
  BY AIAssumption DEF TypeOK, One
<1> QED BY <1>1, <1>2, <1>3, CreditsCounted DEF One, Balanced, CreditsSound

\* A step of r is balanced when what it changes is.
LEMMA Rebalanced ==
  ASSUME NEW r \in Requests, Only(r), NEW m, Balanced(m),
         usage[m] \in Nat, usage'[m] \in Nat, faults \in Nat, faults' \in Nat,
         One(Holding(m)', r) - One(Holding(m), r) + usage[m] - usage'[m]
           <= One(CutForGood(m)', r) - One(CutForGood(m), r),
         \/ usage'[m] = 0
         \/ usage'[m] - usage[m]
              <= One(Accounted(m)', r) - One(Accounted(m), r) + faults' - faults
  PROVE  Balanced(m)'
<1>1. \A S : One(S, r) \in Nat
  BY DEF One
<1>2. /\ One(Holding(m), r) \in Nat /\ One(Holding(m)', r) \in Nat
      /\ One(CutForGood(m), r) \in Nat /\ One(CutForGood(m)', r) \in Nat
      /\ One(Accounted(m), r) \in Nat /\ One(Accounted(m)', r) \in Nat
  BY <1>1
<1> QED BY <1>2, CreditsCounted DEF Balanced

\* A refund: the request holds its credit no longer, or has been refunded in part.
LEMMA GiveBackBalances ==
  ASSUME TypeOK, CreditsSound, NEW r \in Requests, GiveBack(r), UNCHANGED period,
         pc[r] \in {"returning", "compensating"}, NEW m \in 1..Months
  PROVE  Balanced(m)'
<1>1. /\ Only(r) /\ pc'[r] = "closing" /\ period'[r] = period[r]
      /\ outcome'[r] = IF outcome[r] = "none" THEN "given back" ELSE outcome[r]
  BY DEF GiveBack, Go, TypeOK, Only
<1>2. /\ usage[m] \in Nat /\ usage'[m] \in Nat /\ usage'[m] <= usage[m]
      /\ period[r] # m \/ UNCHANGED usage => usage'[m] = usage[m]
      /\ usage'[m] = usage[m] \/ usage'[m] = usage[m] - 1
  BY RefundCounted DEF GiveBack
<1>3. faults \in Nat /\ Balanced(m)
  BY Numbers DEF CreditsSound
<1>4. \/ RpcRollback(r) /\ faults' = faults
      \/ UNCHANGED usage /\ faults' = faults + 1
  BY DEF GiveBack, Fault
<1>5. faults' \in Nat /\ faults' >= faults
  BY <1>3, <1>4
<1>6. Only(r)
  BY <1>1
<1>7. CASE period[r] # m
  <2>1. /\ One(Holding(m), r) = 0 /\ One(CutForGood(m), r) = 0 /\ One(Accounted(m), r) = 0
        /\ One(Holding(m)', r) = 0 /\ One(CutForGood(m)', r) = 0 /\ One(Accounted(m)', r) = 0
    BY <1>1, <1>7 DEF Holding, CutForGood, CutRefunds, Accounted, One
  <2>2. usage'[m] = usage[m]
    BY <1>2, <1>7
  <2>3. usage[m] \in Nat
    BY <1>2
  <2> QED BY <1>3, <1>5, <1>6, <2>1, <2>2, <2>3, Rebalanced
<1>8. CASE period[r] = m /\ outcome[r] = "none"
  <2>1. /\ One(Holding(m), r) = 1 /\ One(CutForGood(m), r) = 0 /\ One(Accounted(m), r) = 1
        /\ One(Holding(m)', r) = 0 /\ One(CutForGood(m)', r) = 0 /\ One(Accounted(m)', r) = 0
    BY <1>1, <1>8 DEF Holding, CutForGood, CutRefunds, Accounted, One
  <2>2. usage'[m] = 0 \/ usage'[m] - usage[m] <= faults' - faults - 1
    <3>1. CASE RpcRollback(r) /\ faults' = faults
      <4>1. usage[m] = 0 \/ usage'[m] = usage[m] - 1
        BY <1>8, <3>1, RefundCounted
      <4>2. usage[m] \in Nat /\ usage'[m] \in Nat /\ usage'[m] <= usage[m]
        BY <1>2
      <4> QED BY <1>3, <3>1, <4>1, <4>2
    <3>2. CASE UNCHANGED usage /\ faults' = faults + 1
      <4>1. usage'[m] = usage[m] /\ usage[m] \in Nat
        BY <1>2, <3>2
      <4> QED BY <1>3, <3>2, <4>1
    <3> QED BY <1>4, <3>1, <3>2
  <2>3. usage[m] \in Nat /\ usage'[m] \in Nat /\ usage[m] - usage'[m] <= 1
    <3>1. usage[m] \in Nat /\ usage'[m] \in Nat /\ (usage'[m] = usage[m] \/ usage'[m] = usage[m] - 1)
      BY <1>2
    <3> QED BY <3>1
  <2> QED BY <1>3, <1>5, <1>6, <2>1, <2>2, <2>3, Rebalanced
<1>9. CASE period[r] = m /\ outcome[r] = "refund cut" /\ pc[r] = "compensating"
  <2>1. /\ One(Holding(m), r) = 0 /\ One(CutForGood(m), r) = 0 /\ One(Accounted(m), r) = 1
        /\ One(Holding(m)', r) = 0 /\ One(CutForGood(m)', r) = 1 /\ One(Accounted(m)', r) = 1
    BY <1>1, <1>9 DEF Holding, CutForGood, CutRefunds, Accounted, One
  <2>2. usage[m] \in Nat /\ usage'[m] \in Nat /\ (usage'[m] = usage[m] \/ usage'[m] = usage[m] - 1)
    BY <1>2
  <2>3. usage[m] - usage'[m] <= 1 /\ usage'[m] - usage[m] <= faults' - faults
    BY <1>3, <1>5, <2>2
  <2> QED BY <1>3, <1>5, <1>6, <2>1, <2>2, <2>3, Rebalanced
<1>10. outcome[r] = "none" \/ (outcome[r] = "refund cut" /\ pc[r] = "compensating")
  BY DEF CreditsSound, OutcomesFollow
<1> QED BY <1>7, <1>8, <1>9, <1>10

\* A refund that the limit cuts short, whether or not it had its effect.
RefundCut(r) ==
  /\ pc[r] = "returning" /\ Go(r, "compensating")
  /\ RpcRollback(r) \/ UNCHANGED usage
  /\ outcome' = [outcome EXCEPT ![r] = "refund cut"]
  /\ UNCHANGED <<faults, period>>

LEMMA CutBalances ==
  ASSUME TypeOK, CreditsSound, NEW r \in Requests, RefundCut(r), NEW m \in 1..Months
  PROVE  Balanced(m)'
<1>1. /\ Only(r) /\ pc'[r] = "compensating" /\ period'[r] = period[r]
      /\ outcome'[r] = "refund cut" /\ outcome[r] = "none"
  BY DEF RefundCut, Go, TypeOK, Only, CreditsSound, OutcomesFollow
<1>2. /\ usage[m] \in Nat /\ usage'[m] \in Nat /\ usage'[m] <= usage[m]
      /\ period[r] # m => usage'[m] = usage[m]
      /\ usage'[m] = usage[m] \/ usage'[m] = usage[m] - 1
  BY RefundCounted DEF RefundCut
<1>3. faults \in Nat /\ faults' = faults /\ Balanced(m) /\ Only(r)
  BY <1>1, Numbers DEF RefundCut, CreditsSound
<1>4. CASE period[r] # m
  <2>1. /\ One(Holding(m), r) = 0 /\ One(CutForGood(m), r) = 0 /\ One(Accounted(m), r) = 0
        /\ One(Holding(m)', r) = 0 /\ One(CutForGood(m)', r) = 0 /\ One(Accounted(m)', r) = 0
    BY <1>1, <1>4 DEF Holding, CutForGood, CutRefunds, Accounted, One
  <2>2. usage'[m] = usage[m] /\ usage[m] \in Nat
    BY <1>2, <1>4
  <2>3. /\ One(Holding(m)', r) - One(Holding(m), r) + usage[m] - usage'[m]
             <= One(CutForGood(m)', r) - One(CutForGood(m), r)
        /\ usage'[m] - usage[m] <= One(Accounted(m)', r) - One(Accounted(m), r) + faults' - faults
        /\ usage[m] \in Nat /\ usage'[m] \in Nat /\ faults' \in Nat
    BY <1>3, <2>1, <2>2
  <2> QED BY <1>3, <2>3, Rebalanced
<1>5. CASE period[r] = m
  <2> pc[r] = "returning"
    BY DEF RefundCut
  <2>1. /\ One(Holding(m), r) = 1 /\ One(CutForGood(m), r) = 0 /\ One(Accounted(m), r) = 1
        /\ One(Holding(m)', r) = 0 /\ One(CutForGood(m)', r) = 0 /\ One(Accounted(m)', r) = 1
    BY <1>1, <1>5 DEF Holding, CutForGood, CutRefunds, Accounted, One
  <2>2. usage[m] \in Nat /\ usage'[m] \in Nat /\ (usage'[m] = usage[m] \/ usage'[m] = usage[m] - 1)
    BY <1>2
  <2>3. /\ One(Holding(m)', r) - One(Holding(m), r) + usage[m] - usage'[m]
             <= One(CutForGood(m)', r) - One(CutForGood(m), r)
        /\ usage'[m] - usage[m] <= One(Accounted(m)', r) - One(Accounted(m), r) + faults' - faults
        /\ usage[m] \in Nat /\ usage'[m] \in Nat /\ faults' \in Nat
    BY <1>3, <2>1, <2>2
  <2> QED BY <1>3, <2>3, Rebalanced
<1> QED BY <1>4, <1>5

\* A process that dies with a credit: one too many from now on, by a fault.
LEMMA CrashBalances ==
  ASSUME TypeOK, CreditsSound, NEW r \in Requests, Crash(r), NEW m \in 1..Months
  PROVE  Balanced(m)'
<1>1. /\ Only(r) /\ pc'[r] = "done" /\ period' = period /\ outcome' = outcome
  BY DEF Crash, Go, TypeOK, Only
<1>2. usage'[m] = usage[m] /\ faults' = faults + 1 /\ faults \in Nat /\ usage[m] \in Nat
  BY AIAssumption DEF Crash, Fault, TypeOK
<1>3. r \in Holding(m)' => r \in Holding(m)
  BY <1>1 DEF Holding
<1>4. r \in CutForGood(m) => r \in CutForGood(m)'
  BY <1>1 DEF CutForGood, CutRefunds
<1> QED BY <1>1, <1>2, <1>3, <1>4, CreditsCounted DEF One, Balanced, CreditsSound

LEMMA NextCredits == ASSUME TypeOK, CreditsSound, [Next]_vars PROVE CreditsSound'
<1>1. CASE UNCHANGED <<pc, outcome, period, usage, faults>>
  BY <1>1 DEF CreditsSound, OutcomesFollow, Balanced, Holding, CutForGood, CutRefunds, Accounted
<1>2. ASSUME NEW r \in Requests, Acquire(r) PROVE CreditsSound'
  <2>1. /\ Only(r) /\ outcome' = outcome /\ outcome[r] = "none" /\ UNCHANGED usage
        /\ pc[r] = "new" /\ pc'[r] \in {"admitted", "done"}
    BY <1>2 DEF Acquire, Go, TypeOK, Only, CreditsSound, OutcomesFollow
  <2>2. ASSUME NEW m \in 1..Months PROVE Balanced(m)'
    <3>1. /\ r \notin Holding(m) /\ r \notin CutForGood(m) /\ r \notin Accounted(m)
          /\ r \notin Holding(m)' /\ r \notin CutForGood(m)' /\ r \notin Accounted(m)'
      BY <2>1 DEF Holding, CutForGood, CutRefunds, Accounted
    <3>2. /\ faults \in Nat /\ usage[m] \in Nat /\ usage'[m] = usage[m]
          /\ faults' = faults \/ faults' = faults + 1
      BY <1>2, <2>1, AIAssumption DEF Acquire, Fault, TypeOK
    <3> QED BY <2>1, <3>1, <3>2, CreditsCounted DEF One, Balanced, CreditsSound
  <2>3. OutcomesFollow'
    BY <2>1 DEF Only, CreditsSound, OutcomesFollow
  <2> QED BY <2>2, <2>3 DEF CreditsSound
<1>3. ASSUME NEW r \in Requests, Reserve(r) PROVE CreditsSound'
  <2>1. OutcomesFollow'
    BY <1>3 DEF Reserve, Refused, Go, TypeOK, CreditsSound, OutcomesFollow
  <2> QED BY <1>3, <2>1, ReserveBalances DEF CreditsSound
<1>4. ASSUME NEW r \in Requests, Generate(r) PROVE CreditsSound'
  <2>1. /\ pc[r] = "generating" /\ outcome' = outcome /\ period' = period /\ outcome[r] = "none"
        /\ \E step \in {"recording", "returning", "compensating"} : Go(r, step)
        /\ UNCHANGED <<usage, faults>>
    BY <1>4 DEF Generate, CreditsSound, OutcomesFollow
  <2>2. Only(r) /\ pc'[r] \in {"recording", "returning", "compensating"}
    BY <2>1 DEF Go, TypeOK, Only
  <2>3. ASSUME NEW m \in 1..Months PROVE Balanced(m)'
    <3>1. /\ r \in Holding(m)' <=> r \in Holding(m)
          /\ r \notin CutRefunds(m) /\ r \notin CutRefunds(m)'
      BY <2>1, <2>2 DEF Holding, CutRefunds
    <3> QED BY <2>1, <2>2, <3>1, StayBalanced
  <2>4. OutcomesFollow'
    BY <2>1, <2>2 DEF Only, CreditsSound, OutcomesFollow
  <2> QED BY <2>3, <2>4 DEF CreditsSound
<1>5. ASSUME NEW r \in Requests, Record(r) PROVE CreditsSound'
  <2>1. /\ pc[r] = "recording" /\ period' = period /\ outcome[r] = "none"
        /\ Only(r) /\ pc'[r] = "closing" /\ outcome'[r] \in {"delivered", "cut"}
        /\ UNCHANGED <<usage, faults>>
    BY <1>5 DEF Record, Go, Only, TypeOK, CreditsSound, OutcomesFollow
  <2>2. ASSUME NEW m \in 1..Months PROVE Balanced(m)'
    <3>1. /\ r \in Holding(m)' <=> r \in Holding(m)
          /\ r \notin CutRefunds(m) /\ r \notin CutRefunds(m)'
      BY <2>1 DEF Holding, CutRefunds
    <3> QED BY <2>1, <3>1, StayBalanced
  <2>3. OutcomesFollow'
    BY <2>1 DEF Only, CreditsSound, OutcomesFollow
  <2> QED BY <2>2, <2>3 DEF CreditsSound
<1>6. ASSUME NEW r \in Requests, Return(r) PROVE CreditsSound'
  <2>1. OutcomesFollow'
    BY <1>6 DEF Return, GiveBack, Go, TypeOK, CreditsSound, OutcomesFollow
  <2> QED BY <1>6, <2>1, GiveBackBalances, CutBalances DEF Return, RefundCut, CreditsSound
<1>7. ASSUME NEW r \in Requests, Compensate(r) PROVE CreditsSound'
  <2>1. OutcomesFollow'
    BY <1>7 DEF Compensate, GiveBack, Go, TypeOK, CreditsSound, OutcomesFollow
  <2> QED BY <1>7, <2>1, GiveBackBalances DEF Compensate, CreditsSound
<1>8. ASSUME NEW r \in Requests, Release(r) PROVE CreditsSound'
  <2>1. /\ pc[r] = "closing" /\ period' = period /\ outcome' = outcome /\ usage' = usage
        /\ Only(r) /\ pc'[r] = "done"
    BY <1>8 DEF Release, Go, Only, TypeOK
  <2>2. ASSUME NEW m \in 1..Months PROVE Balanced(m)'
    <3>1. Holding(m)' = Holding(m) /\ CutForGood(m)' = CutForGood(m) /\ Accounted(m)' = Accounted(m)
      BY <2>1 DEF Only, Holding, CutForGood, CutRefunds, Accounted
    <3>2. /\ faults \in Nat /\ usage[m] \in Nat
          /\ faults' = faults \/ faults' = faults + 1
      BY <1>8, AIAssumption DEF Release, Fault, TypeOK
    <3>3. Cardinality(Accounted(m)) \in Nat
      BY <2>1, CreditsCounted
    <3> QED BY <2>1, <3>1, <3>2, <3>3 DEF Balanced, CreditsSound
  <2>3. OutcomesFollow'
    BY <2>1 DEF Only, CreditsSound, OutcomesFollow
  <2> QED BY <2>2, <2>3 DEF CreditsSound
<1>9. ASSUME NEW r \in Requests, Crash(r) PROVE CreditsSound'
  <2>1. OutcomesFollow'
    BY <1>9 DEF Crash, Go, TypeOK, CreditsSound, OutcomesFollow
  <2> QED BY <1>9, <2>1, CrashBalances DEF CreditsSound
<1> QED BY <1>1, <1>2, <1>3, <1>4, <1>5, <1>6, <1>7, <1>8, <1>9 DEF Next, Tick, NextMonth, vars

-----------------------------------------------------------------------------
(* The theorems.                                                           *)

\* Every variable of a request keeps its type, and no month is overbooked.
THEOREM RequestsTyped == Spec => []TypeOK
BY InitTyped, NextTyped, PTL DEF Spec

\* However requests end, each slot that outlives its request costs a fault.
THEOREM SlotsComeBack == Spec => []SlotsReturned
<1>1. Init => TypeOK /\ SlotsSound
  BY InitTyped, InitSlots
<1>2. TypeOK /\ SlotsSound /\ [Next]_vars => (TypeOK /\ SlotsSound)'
  BY NextTyped, NextSlots
<1>3. SlotsSound => SlotsReturned
  BY DEF SlotsSound, SlotsReturned, LeftBehind
<1> QED BY <1>1, <1>2, <1>3, PTL DEF Spec

\* Requests that end before their slots expire never outnumber the slots of the
\* tier: a running request has a slot that counts.
THEOREM TierHeld == ASSUME Prompt PROVE Spec => []ConcurrencyHeld
<1>1. Init => TypeOK /\ SlotsSound /\ SlotsOutlast
  BY InitTyped, InitSlots
<1>2. TypeOK /\ SlotsSound /\ SlotsOutlast /\ [Next]_vars => (TypeOK /\ SlotsSound /\ SlotsOutlast)'
  BY NextTyped, NextSlots, NextOutlast
<1>3. TypeOK /\ SlotsSound /\ SlotsOutlast => ConcurrencyHeld
  <2> SUFFICES ASSUME TypeOK, SlotsSound, SlotsOutlast PROVE ConcurrencyHeld
    OBVIOUS
  <2>1. \A r \in Inside : r \in Requests /\ lease[r] \in Int /\ lease[r] > 0
    BY DEF SlotsOutlast, Inside, TypeOK
  <2>2. Inside \in SUBSET Active /\ Active \in SUBSET Requests
    BY <2>1 DEF Active
  <2>3. Cardinality(Inside) <= Cardinality(Active)
    BY <2>2, FewerCounted
  <2>4. Cardinality(Inside) \in Nat /\ Cardinality(Active) \in Nat
    BY <2>2, RequestsCounted
  <2> QED BY <2>3, <2>4, AIAssumption DEF SlotsSound, ConcurrencyHeld, Inside
<1> QED BY <1>1, <1>2, <1>3, PTL DEF Spec

\* Whatever is refunded twice, cut short or lost in a crash: a month counts what its
\* requests hold or used, and each difference has a refund cut short or a fault.
THEOREM CreditsAddUp == Spec => []CreditsAccounted
<1>1. Init => TypeOK /\ CreditsSound
  BY InitTyped, InitCredits
<1>2. TypeOK /\ CreditsSound /\ [Next]_vars => (TypeOK /\ CreditsSound)'
  BY NextTyped, NextCredits
<1>3. TypeOK /\ CreditsSound => CreditsAccounted
  <2> SUFFICES ASSUME TypeOK, CreditsSound, NEW m \in 1..Months
               PROVE  /\ Cardinality(Holding(m)) <= usage[m] + Cardinality(CutRefunds(m))
                      /\ usage[m] <= Cardinality(Holding(m) \cup CutRefunds(m)) + faults
    BY DEF CreditsAccounted
  <2>1. CutRefunds(m) \in SUBSET Requests /\ CutForGood(m) \in SUBSET CutRefunds(m)
    BY DEF CutRefunds, CutForGood
  <2>2. Cardinality(CutForGood(m)) <= Cardinality(CutRefunds(m))
    BY <2>1, FewerCounted
  <2>3. Cardinality(CutForGood(m)) \in Nat /\ Cardinality(CutRefunds(m)) \in Nat
    BY <2>1, RequestsCounted
  <2>4. Cardinality(Holding(m)) \in Nat /\ usage[m] \in Nat
    BY RequestsCounted, AIAssumption DEF Holding, TypeOK
  <2> QED BY <2>2, <2>3, <2>4 DEF CreditsSound, Balanced, Accounted
<1> QED BY <1>1, <1>2, <1>3, PTL DEF Spec

=============================================================================
