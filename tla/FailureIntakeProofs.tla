------------------------- MODULE FailureIntakeProofs -------------------------
(***************************************************************************)
(* Whom the failover worker alerts, for any tenants, servers, deliveries   *)
(* and imported events: the verdicts follow the evidence, and the evidence *)
(* is what tenants have registered, however deliveries repeat, servers     *)
(* crash and calls fail.                                                   *)
(***************************************************************************)
EXTENDS FailureIntake, FiniteSetTheorems, TLAPS

(* Part 1.  IncidentFactory's walk through the evidence comes to what the  *)
(* evidence as a whole says, whatever the tenants and the evidence.        *)

\* The sets of tenants that the evidence consists of can be counted.
LEMMA TenantSets ==
  ASSUME NEW S \in SUBSET Tenants
  PROVE  /\ IsFiniteSet(S)
         /\ Cardinality(S) = 1 <=> \E t \in Tenants : S = {t}
         /\ Cardinality(S) > 1 <=> S # {} /\ ~\E t \in Tenants : S = {t}
<1>1. IsFiniteSet(S)
  BY FS_Subset, TenantsAssumption
<1>2. Cardinality(S) \in Nat
  BY <1>1, FS_CardinalityType
<1>3. Cardinality(S) = 0 <=> S = {}
  BY <1>1, FS_EmptySet
<1>4. Cardinality(S) = 1 <=> \E t : S = {t}
  BY <1>1, FS_Singleton
<1>5. (\E t : S = {t}) <=> \E t \in Tenants : S = {t}
  OBVIOUS
<1>6. Cardinality(S) > 1 <=> Cardinality(S) # 0 /\ Cardinality(S) # 1
  BY <1>2
<1>7. Cardinality(S) = 1 <=> \E t \in Tenants : S = {t}
  BY <1>4, <1>5
<1>8. Cardinality(S) > 1 <=> S # {} /\ ~\E t \in Tenants : S = {t}
  BY <1>3, <1>6, <1>7
<1> QED BY <1>1, <1>7, <1>8

\* A set of tenants stands for its only member, or for a conflict.
LEMMA UniqueVerdict ==
  ASSUME NEW S \in SUBSET Tenants, NEW otherwise
  PROVE  /\ S = {} => Unique(S, otherwise) = otherwise
         /\ \A t \in Tenants : S = {t} => Unique(S, otherwise) = t
         /\ S # {} /\ (~\E t \in Tenants : S = {t}) => Unique(S, otherwise) = Ambiguous
<1>1. CASE S = {}
  BY <1>1 DEF Unique
<1>2. ASSUME NEW t \in Tenants, S = {t} PROVE Unique(S, otherwise) = t
  <2>1. Cardinality(S) = 1 /\ S # {}
    BY <1>2, TenantSets
  <2>2. (CHOOSE u \in S : TRUE) = t
    BY <1>2
  <2> QED BY <2>1, <2>2 DEF Unique
<1>3. ASSUME S # {}, ~\E t \in Tenants : S = {t} PROVE Unique(S, otherwise) = Ambiguous
  BY <1>3, TenantSets DEF Unique
<1> QED BY <1>1, <1>2, <1>3

\* The same of the verdict on the evidence as a whole.
LEMMA VerdictOnNames ==
  ASSUME NEW e
  PROVE  /\ Named(e) = {} => Verdict(e) = Uncorrelated
         /\ \A t \in Tenants : Named(e) = {t} => Verdict(e) = t
         /\ Named(e) # {} /\ (~\E t \in Tenants : Named(e) = {t}) => Verdict(e) = Ambiguous
<1>1. ASSUME NEW t \in Tenants, Named(e) = {t} PROVE Verdict(e) = t
  <2>1. (CHOOSE u \in Tenants : Named(e) = {u}) = t
    BY <1>1
  <2> QED BY <1>1, <2>1 DEF Verdict
<1> QED BY <1>1 DEF Verdict

\* The claims and the message, where there are any, are all that counts.
LEMMA NamedByIdentity ==
  ASSUME NEW e
  PROVE  /\ Identified(e) # {} => Named(e) = Identified(e)
         /\ Identified(e) = {} => Named(e) = IF e.order # {} THEN e.order ELSE e.domain
BY DEF Named

\* Whatever the claims, the registry, the orders and the domain say: the incident
\* goes to the tenant that all of the strongest evidence there is agrees on, and to
\* nobody when it does not agree.  This is what the four steps of
\* from_event_and_registry come to.
THEOREM CorrelatesByEvidence == \A e \in Evidence : Correlate(e) = Verdict(e)
<1> SUFFICES ASSUME NEW e \in Evidence PROVE Correlate(e) = Verdict(e)
  OBVIOUS
<1>1. /\ e.claims \in SUBSET Tenants /\ e.order \in SUBSET Tenants
      /\ e.domain \in SUBSET Tenants /\ e.message \in Tenants \cup {Nobody}
  BY DEF Evidence
<1>2. Nobody \notin Tenants
  BY TenantsAssumption
<1>3. CASE Cardinality(e.claims) > 1
  <2>1. e.claims # {} /\ ~\E t \in Tenants : e.claims = {t}
    BY <1>1, <1>3, TenantSets
  <2>2. e.claims \subseteq Named(e)
    BY <2>1, NamedByIdentity DEF Identified
  <2>3. ASSUME NEW t \in Tenants, Named(e) = {t} PROVE FALSE
    BY <2>1, <2>2, <2>3
  <2>4. Named(e) # {}
    BY <2>1, <2>2
  <2> QED BY <1>3, <2>3, <2>4, VerdictOnNames DEF Correlate
<1>4. CASE e.claims = {}
  <2>1. Correlate(e) = ByMessage(e, Nobody)
    <3>1. ~(Cardinality(e.claims) > 1)
      BY <1>1, <1>4, TenantSets
    <3> QED BY <1>4, <3>1 DEF Correlate
  <2>2. CASE e.message # Nobody
    <3>1. Correlate(e) = e.message
      <4>1. {e.message, Nobody} \ {Nobody} = {e.message}
        BY <2>2
      <4>2. Correlate(e) = Unique({e.message}, Ambiguous)
        BY <2>1, <4>1 DEF ByMessage
      <4> QED BY <1>1, <2>2, <4>2, UniqueVerdict
    <3>2. Named(e) = {e.message}
      <4>1. Identified(e) = {e.message}
        BY <1>4, <2>2 DEF Identified
      <4> QED BY <4>1, NamedByIdentity
    <3> QED BY <1>1, <2>2, <3>1, <3>2, VerdictOnNames
  <2>3. CASE e.message = Nobody
    <3>1. Correlate(e) = ByOrder(e)
      <4>1. {e.message, Nobody} \ {Nobody} = {}
        BY <2>3
      <4> QED BY <2>1, <4>1 DEF ByMessage
    <3>2. Named(e) = IF e.order # {} THEN e.order ELSE e.domain
      <4>1. Identified(e) = {}
        BY <1>4, <2>3 DEF Identified
      <4> QED BY <4>1, NamedByIdentity
    <3>3. CASE e.order # {}
      <4>1. Correlate(e) = Unique(e.order, Ambiguous)
        BY <3>1, <3>3 DEF ByOrder
      <4> QED BY <1>1, <3>2, <3>3, <4>1, UniqueVerdict, VerdictOnNames
    <3>4. CASE e.order = {}
      <4>1. Correlate(e) = Unique(e.domain, Uncorrelated)
        BY <3>1, <3>4 DEF ByOrder, ByDomain
      <4> QED BY <1>1, <3>2, <3>4, <4>1, UniqueVerdict, VerdictOnNames
    <3> QED BY <3>3, <3>4
  <2> QED BY <2>2, <2>3
<1>5. CASE \E t \in Tenants : e.claims = {t}
  <2>1. PICK t \in Tenants : e.claims = {t}
    BY <1>5
  <2>2. Correlate(e) = ByMessage(e, t)
    <3>1. ~(Cardinality(e.claims) > 1) /\ e.claims # {}
      BY <1>1, <2>1, TenantSets
    <3>2. (CHOOSE u \in e.claims : TRUE) = t
      BY <2>1
    <3> QED BY <3>1, <3>2 DEF Correlate
  <2>3. CASE e.message \in {Nobody, t}
    <3>1. Named(e) = {t}
      <4>1. Identified(e) = {t}
        BY <2>1, <2>3 DEF Identified
      <4> QED BY <4>1, NamedByIdentity
    <3>2. ByMessage(e, t) = t
      <4>1. {e.message, t} \ {Nobody} = {t}
        BY <1>2, <2>3
      <4>2. ByMessage(e, t) = Unique({t}, Ambiguous)
        BY <4>1 DEF ByMessage
      <4> QED BY <4>2, UniqueVerdict
    <3> QED BY <2>2, <3>1, <3>2, VerdictOnNames
  <2>4. CASE e.message \notin {Nobody, t}
    <3>1. Named(e) # {} /\ ~\E u \in Tenants : Named(e) = {u}
      <4>1. t \in Identified(e) /\ e.message \in Identified(e) /\ e.message # t
        BY <2>1, <2>4 DEF Identified
      <4>2. Named(e) = Identified(e)
        BY <4>1, NamedByIdentity
      <4>3. ASSUME NEW u \in Tenants, Named(e) = {u} PROVE FALSE
        BY <4>1, <4>2, <4>3
      <4> QED BY <4>1, <4>2, <4>3
    <3>2. ByMessage(e, t) = Ambiguous
      <4>1. {e.message, t} \ {Nobody} = {e.message, t} /\ {e.message, t} \in SUBSET Tenants
        BY <1>1, <1>2, <2>4
      <4>2. ByMessage(e, t) = Unique({e.message, t}, Ambiguous)
        BY <4>1 DEF ByMessage
      <4>3. ~\E u \in Tenants : {e.message, t} = {u}
        BY <2>4
      <4> QED BY <4>1, <4>2, <4>3, UniqueVerdict
    <3> QED BY <2>2, <3>1, <3>2, VerdictOnNames
  <2> QED BY <2>3, <2>4
<1> QED BY <1>1, <1>3, <1>4, <1>5, TenantSets

-----------------------------------------------------------------------------
(* Part 2.  The webhook, the registry and the verdicts.                    *)

(* The inductive invariant.                                                *)

\* A tenant found in the registry, or in the memory of a process, is registered.
RegistrySound ==
  /\ registry \in [Names -> Tenants \cup {Nobody}]
  /\ \A pm \in Names : registry[pm] # Nobody => <<pm, registry[pm]>> \in registered
  /\ \A l \in local : <<l[2], l[3]>> \in registered

Jobs == [at : Nat, of : Deliveries, step : {"look", "insert"}, user : Tenants \cup {Nobody}]

\* A server is at an event of a delivery, and the tenant it has found for it is
\* one who registered the message.
JobSound(s) ==
  job[s] # Idle =>
    /\ job[s] \in Jobs
    /\ job[s].at \in DOMAIN Events[job[s].of]
    /\ job[s].step = "insert" /\ job[s].user # Nobody =>
         <<<<Current(s).provider, Current(s).mail>>, job[s].user>> \in registered

JobsSound ==
  /\ due \subseteq Deliveries
  /\ faults \in Nat
  /\ job \in [Servers -> Jobs \cup {Idle}]
  /\ \A s \in Servers : JobSound(s)

\* A row is one of another program, or claims only who registered the message.
RowSound(e) ==
  /\ <<e.provider, e.mail>> \in Names
  /\ e.claims \in SUBSET Tenants /\ e.order \in SUBSET Tenants /\ e.domain \in SUBSET Tenants
  /\ e \in Imports \/ /\ e.order = {} /\ e.domain = {}
                      /\ \A t \in e.claims : <<<<e.provider, e.mail>>, t>> \in registered

StoreSound ==
  /\ \A e \in stored : RowSound(e)
  /\ \A e1, e2 \in stored : e1.key = e2.key => e1 = e2

VerdictsSound ==
  /\ \A v \in verdicts : v.key \in StoredKeys
  /\ AlertsReachTheSender

Sound == RegistrySound /\ JobsSound /\ StoreSound /\ VerdictsSound

-----------------------------------------------------------------------------
(* Facts about the evidence.                                               *)

\* Whoever looks a message up, and whether or not the query fails: nobody is
\* found, or one who registered the message.
LEMMA FoundIsRegistered ==
  ASSUME RegistrySound, NEW s, NEW p, NEW m, <<p, m>> \in Names, NEW error \in BOOLEAN
  PROVE  /\ FindMessage(s, p, m, error) \in Tenants \cup {Nobody}
         /\ FindMessage(s, p, m, error) # Nobody =>
              <<<<p, m>>, FindMessage(s, p, m, error)>> \in registered
<1> DEFINE kept == {t \in Tenants : <<s, <<p, m>>, t>> \in local}
<1>1. CASE ~error /\ registry[<<p, m>>] # Nobody
  BY <1>1 DEF FindMessage, RegistrySound
<1>2. CASE ~(~error /\ registry[<<p, m>>] # Nobody) /\ kept # {}
  <2>1. FindMessage(s, p, m, error) = CHOOSE t \in kept : TRUE
    BY <1>2 DEF FindMessage
  <2>2. (CHOOSE t \in kept : TRUE) \in kept
    BY <1>2
  <2>3. \A t \in kept : t \in Tenants /\ <<<<p, m>>, t>> \in registered
    BY DEF RegistrySound
  <2> QED BY <2>1, <2>2, <2>3
<1>3. CASE ~(~error /\ registry[<<p, m>>] # Nobody) /\ kept = {}
  BY <1>3 DEF FindMessage
<1> QED BY <1>1, <1>2, <1>3

\* The evidence on a stored event is well-formed.
LEMMA EvidenceTyped ==
  ASSUME RegistrySound, NEW e, RowSound(e), NEW error \in BOOLEAN
  PROVE  EvidenceOf(e, error) \in Evidence
BY FoundIsRegistered DEF EvidenceOf, Evidence, RowSound

\* A tenant that a verdict names is named by the evidence.
LEMMA VerdictIsNamed ==
  ASSUME NEW e, Verdict(e) \in Tenants
  PROVE  Verdict(e) \in e.claims \cup {e.message} \cup e.order \cup e.domain
<1>1. Verdict(e) \in Named(e)
  <2>1. Named(e) # {}
    BY VerdictOnNames, TenantsAssumption
  <2>2. PICK t \in Tenants : Named(e) = {t}
    BY <2>1, VerdictOnNames, TenantsAssumption
  <2> QED BY <2>2, VerdictOnNames
<1> QED BY <1>1 DEF Named, Identified

-----------------------------------------------------------------------------
(* Every step preserves the invariant.                                     *)

\* More registrations take nothing from what is known of a row.
LEMMA RowStaysSound ==
  ASSUME NEW e, RowSound(e), registered \subseteq registered'
  PROVE  RowSound(e)'
BY DEF RowSound, Names

LEMMA StoreStays ==
  ASSUME StoreSound, stored' = stored, registered \subseteq registered'
  PROVE  StoreSound'
BY RowStaysSound DEF StoreSound

LEMMA VerdictsStay ==
  ASSUME VerdictsSound, stored' = stored, verdicts' = verdicts, registered \subseteq registered'
  PROVE  VerdictsSound'
BY DEF VerdictsSound, StoredKeys, AlertsReachTheSender

LEMMA RegistryStays ==
  ASSUME RegistrySound, UNCHANGED <<registry, registered, local>>
  PROVE  RegistrySound'
BY DEF RegistrySound, Names

LEMMA JobsStay ==
  ASSUME JobsSound, job' = job, due' \subseteq due, faults' \in Nat,
         registered \subseteq registered'
  PROVE  JobsSound'
BY DEF JobsSound, JobSound, Current, Idle, Jobs

LEMMA FaultCounted == ASSUME JobsSound, Fault \/ NoFault PROVE faults' \in Nat
BY DEF JobsSound, Fault, NoFault

\* The server s goes on; the jobs of the others are as they were.
LEMMA JobMoves ==
  ASSUME JobsSound, NEW s \in Servers, NEW j \in Jobs \cup {Idle},
         job' = [job EXCEPT ![s] = j], due' \subseteq due, faults' \in Nat,
         registered' = registered, JobSound(s)'
  PROVE  JobsSound'
<1>1. job' \in [Servers -> Jobs \cup {Idle}]
  BY DEF JobsSound
<1>2. ASSUME NEW u \in Servers PROVE JobSound(u)'
  <2>1. CASE u = s
    BY <2>1
  <2>2. CASE u # s
    <3>1. job'[u] = job[u]
      BY <2>2 DEF JobsSound
    <3> QED BY <3>1 DEF JobsSound, JobSound, Current, Idle, Jobs
  <2> QED BY <2>1, <2>2
<1> QED BY <1>1, <1>2 DEF JobsSound, Jobs, Idle

\* An answer, or the lack of one, leaves the deliveries that are due.
LEMMA AnswerTakes ==
  ASSUME NEW d, Answer(d) PROVE due' \subseteq due /\ (Fault \/ NoFault)
BY DEF Answer

LEMMA InitSound == Init => Sound
<1> SUFFICES ASSUME Init PROVE Sound
  OBVIOUS
<1>1. RegistrySound
  BY DEF Init, RegistrySound
<1>2. JobsSound
  BY DEF Init, JobsSound, JobSound, Idle
<1>3. StoreSound
  <2>1. \A e \in Imports : RowSound(e)
    BY IntakeAssumption DEF RowSound, Names
  <2> QED BY <2>1 DEF Init, StoreSound
<1>4. VerdictsSound
  BY DEF Init, VerdictsSound, AlertsReachTheSender
<1> QED BY <1>1, <1>2, <1>3, <1>4 DEF Sound

LEMMA GetsOldSound == ASSUME Sound, NEW d \in due, GetsOld(d) PROVE Sound'
<1>1. UNCHANGED <<registry, registered, local, due, stored, job, verdicts, faults>>
  BY DEF GetsOld
<1>2. faults' \in Nat
  BY <1>1 DEF Sound, JobsSound
<1> QED BY <1>1, <1>2, StoreStays, VerdictsStay, RegistryStays, JobsStay DEF Sound

LEMMA RegisterSound == ASSUME Sound, NEW s \in Servers, Register(s) PROVE Sound'
<1>1. /\ UNCHANGED <<due, stored, job, verdicts>> /\ registered \subseteq registered'
      /\ Fault \/ NoFault
  BY DEF Register
<1>2. faults' \in Nat
  BY <1>1, FaultCounted DEF Sound
<1>3. RegistrySound'
  <2>1. PICK pm \in Names, t \in Tenants :
          /\ registered' = registered \cup {<<pm, t>>}
          /\ \/ registry' = [registry EXCEPT ![pm] = t] /\ UNCHANGED local
             \/ local' = local \cup {<<s, pm, t>>} /\ UNCHANGED registry
    BY DEF Register
  <2>2. registry' \in [Names -> Tenants \cup {Nobody}]
    BY <2>1 DEF Sound, RegistrySound
  <2>3. \A n \in Names : registry'[n] # Nobody => <<n, registry'[n]>> \in registered'
    BY <2>1 DEF Sound, RegistrySound
  <2>4. ASSUME NEW l \in local' PROVE <<l[2], l[3]>> \in registered'
    <3>1. CASE l = <<s, pm, t>>
      <4>1. l[2] = pm /\ l[3] = t
        BY <3>1
      <4> QED BY <2>1, <4>1
    <3>2. CASE l \in local
      BY <2>1, <3>2 DEF Sound, RegistrySound
    <3> QED BY <2>1, <3>1, <3>2
  <2> QED BY <2>2, <2>3, <2>4 DEF RegistrySound, Names
<1> QED BY <1>1, <1>2, <1>3, StoreStays, VerdictsStay, JobsStay DEF Sound

LEMMA CrashSound == ASSUME Sound, NEW s \in Servers, Crash(s) PROVE Sound'
<1>1. UNCHANGED <<registry, registered, due, stored, verdicts>> /\ local' \subseteq local /\ Fault
  BY DEF Crash
<1>2. faults' \in Nat
  BY <1>1, FaultCounted DEF Sound
<1>3. job' = [job EXCEPT ![s] = Idle] /\ JobSound(s)'
  BY DEF Crash, Sound, JobsSound, JobSound, Idle
<1>4. JobsSound'
  BY <1>1, <1>2, <1>3, JobMoves DEF Sound
<1>5. RegistrySound'
  BY <1>1 DEF Sound, RegistrySound, Names
<1> QED BY <1>1, <1>4, <1>5, StoreStays, VerdictsStay DEF Sound

LEMMA ReceiveSound == ASSUME Sound, NEW s \in Servers, NEW d \in due, Receive(s, d) PROVE Sound'
<1>1. UNCHANGED <<registry, registered, local, stored, verdicts>>
  BY DEF Receive
<1>2. CASE Len(Events[d]) = 0
  <2>1. Answer(d) /\ job' = job
    BY <1>2 DEF Receive
  <2> QED BY <1>1, <2>1, AnswerTakes, FaultCounted, JobsStay, StoreStays, VerdictsStay,
             RegistryStays DEF Sound
<1>3. CASE Len(Events[d]) # 0
  <2> DEFINE j == [at |-> 1, of |-> d, step |-> "look", user |-> Nobody]
  <2>1. job' = [job EXCEPT ![s] = j] /\ UNCHANGED <<due, faults>>
    BY <1>3 DEF Receive
  <2>2. d \in Deliveries /\ j \in Jobs
    BY DEF Sound, JobsSound, Jobs
  <2>3. 1 \in DOMAIN Events[d]
    BY <1>3, <2>2, EventsAssumption
  <2>4. job'[s] = j
    BY <2>1 DEF Sound, JobsSound
  <2>5. JobSound(s)'
    BY <2>2, <2>3, <2>4 DEF JobSound, Jobs
  <2>6. faults' \in Nat
    BY <2>1 DEF Sound, JobsSound
  <2>7. JobsSound'
    BY <1>1, <2>1, <2>2, <2>5, <2>6, JobMoves DEF Sound
  <2> QED BY <1>1, <2>7, StoreStays, VerdictsStay, RegistryStays DEF Sound
<1> QED BY <1>2, <1>3

\* The event a server is at is about a message the registry may hold.
LEMMA CurrentNamed ==
  ASSUME JobsSound, NEW s \in Servers, job[s] # Idle
  PROVE  /\ job[s] \in Jobs /\ job[s].of \in Deliveries
         /\ job[s].at \in 1..Len(Events[job[s].of]) /\ Len(Events[job[s].of]) \in Nat
         /\ <<Current(s).provider, Current(s).mail>> \in Names
<1>1. /\ job[s] \in Jobs /\ job[s].of \in Deliveries
      /\ job[s].at \in DOMAIN Events[job[s].of]
  BY DEF JobsSound, JobSound, Jobs
<1> QED BY <1>1, EventsAssumption DEF Names, Current

\* Whether the batch goes on, is answered or given up, the server is sound.
LEMMA BatchMoves ==
  ASSUME JobsSound, NEW s \in Servers, job[s] # Idle,
         Continue(s) \/ (GiveUp(s) /\ (Fault \/ NoFault)), registered' = registered
  PROVE  JobsSound'
<1>1. /\ job[s] \in Jobs /\ job[s].of \in Deliveries
      /\ job[s].at \in 1..Len(Events[job[s].of]) /\ Len(Events[job[s].of]) \in Nat
  BY CurrentNamed
<1>2. CASE Advance(s) /\ job[s].at < Len(Events[job[s].of])
  <2> DEFINE n == job[s].at + 1
             j == [job[s] EXCEPT !.at = n, !.step = "look"]
  <2>1. job' = [job EXCEPT ![s] = j] /\ UNCHANGED <<due, faults>>
    BY <1>2 DEF Advance
  <2>2. j \in Jobs /\ j.at = job[s].at + 1 /\ j.of = job[s].of /\ j.step = "look"
    <3>1. n \in Nat
      BY <1>1
    <3> HIDE DEF n
    <3>2. j \in Jobs /\ j.at = n /\ j.of = job[s].of /\ j.step = "look"
      BY <1>1, <3>1 DEF Jobs
    <3> QED BY <3>2 DEF n
  <2>3. j.at \in DOMAIN Events[j.of]
    BY <1>1, <1>2, <2>2, EventsAssumption
  <2>4. job'[s] = j
    BY <2>1 DEF JobsSound
  <2> HIDE DEF j
  <2>5. JobSound(s)'
    BY <2>2, <2>3, <2>4 DEF JobSound, Jobs
  <2>6. faults' \in Nat
    BY <2>1 DEF JobsSound
  <2> QED BY <2>1, <2>2, <2>5, <2>6, JobMoves
<1>3. CASE job' = [job EXCEPT ![s] = Idle] /\ due' \subseteq due /\ (Fault \/ NoFault)
  <2>1. JobSound(s)'
    BY <1>3 DEF JobSound, JobsSound, Idle
  <2> QED BY <1>3, <2>1, FaultCounted, JobMoves
<1> QED BY <1>2, <1>3, AnswerTakes DEF Continue, Finish, GiveUp

LEMMA LookSound == ASSUME Sound, NEW s \in Servers, Look(s) PROVE Sound'
<1>1. UNCHANGED <<registry, registered, local, stored, verdicts>> /\ Here(s, "look")
  BY DEF Look, LookAmong
<1>2. job[s] # Idle
  BY <1>1 DEF Here, Idle
<1>3. JobsSound'
  <2>1. CASE Continue(s) \/ (GiveUp(s) /\ Fault)
    BY <1>1, <1>2, <2>1, BatchMoves DEF Sound
  <2>2. ASSUME NEW error \in BOOLEAN,
               job' = [job EXCEPT ![s].step = "insert",
                         ![s].user = FindMessage(s, Current(s).provider, Current(s).mail, error)],
               Fault \/ NoFault, due' = due
        PROVE  JobsSound'
    <3> DEFINE user == FindMessage(s, Current(s).provider, Current(s).mail, error)
               j == [job[s] EXCEPT !.step = "insert", !.user = user]
    <3>1. job' = [job EXCEPT ![s] = j]
      BY <2>2
    <3>2. job[s] \in Jobs /\ <<Current(s).provider, Current(s).mail>> \in Names
      BY <1>2, CurrentNamed DEF Sound
    <3>3. /\ user \in Tenants \cup {Nobody}
          /\ user # Nobody => <<<<Current(s).provider, Current(s).mail>>, user>> \in registered
      BY <3>2, FoundIsRegistered DEF Sound
    <3> HIDE DEF user
    <3>4. j \in Jobs /\ j.at = job[s].at /\ j.of = job[s].of /\ j.user = user
      BY <3>2, <3>3 DEF Jobs
    <3>5. job'[s] = j
      BY <3>1 DEF Sound, JobsSound
    <3> HIDE DEF j
    <3>6. Current(s)' = Current(s)
      BY <3>4, <3>5 DEF Current
    <3>7. job[s].at \in DOMAIN Events[job[s].of]
      BY <1>2 DEF Sound, JobsSound, JobSound
    <3>8. JobSound(s)'
      BY <1>1, <3>3, <3>4, <3>5, <3>6, <3>7 DEF JobSound, Jobs
    <3> QED BY <1>1, <2>2, <3>1, <3>4, <3>8, FaultCounted, JobMoves DEF Sound
  <2> QED BY <2>1, <2>2 DEF Look, LookAmong
<1> QED BY <1>1, <1>3, StoreStays, VerdictsStay, RegistryStays DEF Sound

\* Storing a row that is sound, of a key that is new, keeps the unique index and
\* concerns no verdict.
LEMMA StoreGrows ==
  ASSUME StoreSound, VerdictsSound, registered' = registered, verdicts' = verdicts,
         NEW r, RowSound(r), r.key \notin StoredKeys, stored' = stored \cup {r}
  PROVE  StoreSound' /\ VerdictsSound'
<1>1. RowSound(r)' /\ \A e \in stored : RowSound(e)'
  BY RowStaysSound DEF StoreSound
<1>2. \A e \in stored : e.key # r.key
  BY DEF StoredKeys
<1>3. \A e1, e2 \in stored' : e1.key = e2.key => e1 = e2
  BY <1>2 DEF StoreSound
<1>4. \A v \in verdicts : v.key \in StoredKeys /\ v.key # r.key
  BY DEF VerdictsSound
<1>5. StoredKeys \subseteq StoredKeys'
  BY DEF StoredKeys
<1>6. AlertsReachTheSender'
  BY <1>4 DEF VerdictsSound, AlertsReachTheSender
<1> QED BY <1>1, <1>3, <1>4, <1>5, <1>6 DEF StoreSound, VerdictsSound

\* The row of the event a server is at claims only who registered the message.
LEMMA InsertedRow ==
  ASSUME JobsSound, NEW s \in Servers, Here(s, "insert")
  PROVE  RowSound(Row(Current(s), job[s].user)) /\ Row(Current(s), job[s].user).key = Current(s).key
<1> DEFINE e == Current(s)
<1>1. job[s] # Idle
  BY DEF Here, Idle
<1>2. job[s].user \in Tenants \cup {Nobody} /\ <<e.provider, e.mail>> \in Names
  BY <1>1, CurrentNamed DEF Jobs
<1>3. job[s].user # Nobody => <<<<e.provider, e.mail>>, job[s].user>> \in registered
  BY <1>1 DEF JobsSound, JobSound, Here
<1> HIDE DEF e
<1>4. RowSound(Row(e, job[s].user)) /\ Row(e, job[s].user).key = e.key
  BY <1>2, <1>3 DEF RowSound, Row
<1> QED BY <1>4 DEF e

LEMMA InsertSound == ASSUME Sound, NEW s \in Servers, Insert(s) PROVE Sound'
<1> DEFINE row == Row(Current(s), job[s].user)
<1>1. UNCHANGED <<registry, registered, local, verdicts>> /\ Here(s, "insert")
  BY DEF Insert
<1>2. job[s] # Idle
  BY <1>1 DEF Here, Idle
<1>3. RowSound(row) /\ row.key = Current(s).key
  BY <1>1, InsertedRow DEF Sound
<1>4. /\ stored' = stored \/ (Current(s).key \notin StoredKeys /\ stored' = stored \cup {row})
      /\ Continue(s) \/ (GiveUp(s) /\ (Fault \/ NoFault))
  BY DEF Insert
<1>5. JobsSound'
  BY <1>1, <1>2, <1>4, BatchMoves DEF Sound
<1> HIDE DEF row
<1>6. StoreSound' /\ VerdictsSound'
  <2>1. CASE stored' = stored
    BY <1>1, <2>1, StoreStays, VerdictsStay DEF Sound
  <2>2. CASE row.key \notin StoredKeys /\ stored' = stored \cup {row}
    BY <1>1, <1>3, <2>2, StoreGrows DEF Sound
  <2> QED BY <1>3, <1>4, <2>1, <2>2
<1> QED BY <1>1, <1>5, <1>6, RegistryStays DEF Sound

\* Whom a verdict on a sound row names has registered the message, or is named
\* by another program.
LEMMA DecidedOnEvidence ==
  ASSUME Sound, NEW e \in stored, NEW error \in BOOLEAN,
         Correlate(EvidenceOf(e, error)) \in Tenants
  PROVE  \/ <<<<e.provider, e.mail>>, Correlate(EvidenceOf(e, error))>> \in registered
         \/ e \in Imports /\ Correlate(EvidenceOf(e, error)) \in e.claims \cup e.order \cup e.domain
<1> DEFINE ev == EvidenceOf(e, error)
           t == Correlate(ev)
           found == FindMessage("worker", e.provider, e.mail, error)
<1>1. RowSound(e) /\ RegistrySound
  BY DEF Sound, StoreSound
<1>2. /\ ev.claims = e.claims /\ ev.message = found
      /\ ev.order = e.order /\ ev.domain = e.domain
  BY DEF EvidenceOf
<1>3. ev \in Evidence
  BY <1>1, EvidenceTyped
<1> HIDE DEF ev, found
<1>4. t \in e.claims \cup {found} \cup e.order \cup e.domain
  <2>1. t = Verdict(ev)
    BY <1>3, CorrelatesByEvidence
  <2>2. Verdict(ev) \in Tenants
    BY <2>1 DEF ev
  <2> QED BY <1>2, <2>1, <2>2, VerdictIsNamed
<1>5. t \in Tenants /\ t # Nobody
  BY TenantsAssumption DEF ev
<1>6. found # Nobody => <<<<e.provider, e.mail>>, found>> \in registered
  BY <1>1, FoundIsRegistered DEF found, RowSound
<1> HIDE DEF t
<1>7. \/ <<<<e.provider, e.mail>>, t>> \in registered
      \/ e \in Imports /\ t \in e.claims \cup e.order \cup e.domain
  BY <1>1, <1>4, <1>5, <1>6 DEF RowSound
<1> QED BY <1>7 DEF t, ev

LEMMA DecideSound == ASSUME Sound, NEW e \in stored, Decide(e) PROVE Sound'
<1>1. UNCHANGED <<registry, registered, local, due, stored, job>> /\ (Fault \/ NoFault)
  BY DEF Decide
<1>2. faults' \in Nat
  BY <1>1, FaultCounted DEF Sound
<1>3. PICK error \in BOOLEAN :
        verdicts' = verdicts \cup {[key |-> e.key, result |-> Correlate(EvidenceOf(e, error))]}
  BY DEF Decide
<1> DEFINE t == Correlate(EvidenceOf(e, error))
<1>4. t \in Tenants =>
        \/ <<<<e.provider, e.mail>>, t>> \in registered
        \/ e \in Imports /\ t \in e.claims \cup e.order \cup e.domain
  BY DecidedOnEvidence
<1>5. verdicts' = verdicts \cup {[key |-> e.key, result |-> t]}
  BY <1>3
<1> HIDE DEF t
<1>6. VerdictsSound'
  <2>1. ASSUME NEW v \in verdicts' PROVE v.key \in StoredKeys'
    BY <1>1, <1>5 DEF Sound, VerdictsSound, StoredKeys
  <2>2. ASSUME NEW v \in verdicts', NEW r \in stored, v.key = r.key, v.result \in Tenants
        PROVE  \/ <<<<r.provider, r.mail>>, v.result>> \in registered
               \/ r \in Imports /\ v.result \in r.claims \cup r.order \cup r.domain
    <3>1. CASE v \in verdicts
      BY <2>2, <3>1 DEF Sound, VerdictsSound, AlertsReachTheSender
    <3>2. CASE v = [key |-> e.key, result |-> t]
      <4>1. r = e /\ v.result = t
        BY <2>2, <3>2 DEF Sound, StoreSound
      <4> QED BY <1>4, <2>2, <4>1
    <3> QED BY <1>5, <3>1, <3>2
  <2> QED BY <1>1, <2>1, <2>2 DEF VerdictsSound, AlertsReachTheSender
<1> QED BY <1>1, <1>2, <1>6, StoreStays, RegistryStays, JobsStay DEF Sound

LEMMA NextSound == Sound /\ [Next]_vars => Sound'
<1> SUFFICES ASSUME Sound, [Next]_vars PROVE Sound'
  OBVIOUS
<1>1. ASSUME NEW s \in Servers, NEW d \in due, Receive(s, d) PROVE Sound'
  BY <1>1, ReceiveSound
<1>2. ASSUME NEW s \in Servers, Proceed(s) PROVE Sound'
  BY <1>2, LookSound, InsertSound DEF Proceed
<1>3. ASSUME NEW s \in Servers, Register(s) PROVE Sound'
  BY <1>3, RegisterSound
<1>4. ASSUME NEW s \in Servers, Crash(s) PROVE Sound'
  BY <1>4, CrashSound
<1>5. ASSUME NEW d \in due, GetsOld(d) PROVE Sound'
  BY <1>5, GetsOldSound
<1>6. ASSUME NEW e \in stored, Decide(e) PROVE Sound'
  BY <1>6, DecideSound
<1>7. CASE UNCHANGED vars
  <2>1. UNCHANGED <<registry, registered, local, due, stored, job, verdicts, faults>>
    BY <1>7 DEF vars
  <2>2. faults' \in Nat
    BY <2>1 DEF Sound, JobsSound
  <2> QED BY <2>1, <2>2, StoreStays, VerdictsStay, RegistryStays, JobsStay DEF Sound
<1> QED BY <1>1, <1>2, <1>3, <1>4, <1>5, <1>6, <1>7 DEF Next

-----------------------------------------------------------------------------
(* What was answered is stored: a server gets to the end of a batch only    *)
(* past events that are in the table, and nothing is deleted from it.      *)

\* All events of the delivery before the n-th have their keys among these.
StoredBefore(d, n, keys) == \A i \in DOMAIN Events[d] : i < n => Events[d][i].key \in keys

PassedStored(s) == job[s] # Idle => StoredBefore(job[s].of, job[s].at, StoredKeys)

Complete ==
  /\ DOMAIN mem = Servers
  /\ \A s \in Servers : mem[s] \subseteq StoredKeys /\ PassedStored(s)
  /\ AnsweredIsStored

\* The table only grows, and what a server does not touch stays passed.
LEMMA StoredStays ==
  ASSUME stored \subseteq stored'
  PROVE  /\ StoredKeys \subseteq StoredKeys'
         /\ \A d \in Deliveries, n \in Nat : StoredBefore(d, n, StoredKeys) => StoredBefore(d, n, StoredKeys')
BY DEF StoredKeys, StoredBefore

\* Going on past an event that is stored, or ending a batch whose last event is
\* stored, keeps all that is passed and answered stored.
LEMMA BatchComplete ==
  ASSUME JobsSound, Complete, NEW s \in Servers, job[s] # Idle,
         stored \subseteq stored',
         \/ Continue(s) /\ Current(s).key \in StoredKeys'
         \/ GiveUp(s)
  PROVE  (\A u \in Servers : PassedStored(u)') /\ AnsweredIsStored'
<1>1. /\ job[s] \in Jobs /\ job[s].of \in Deliveries
      /\ job[s].at \in 1..Len(Events[job[s].of]) /\ Len(Events[job[s].of]) \in Nat
      /\ DOMAIN Events[job[s].of] = 1..Len(Events[job[s].of])
  BY CurrentNamed, EventsAssumption
<1>2. ASSUME NEW u \in Servers, job'[u] = job[u] PROVE PassedStored(u)'
  <2>1. job[u] # Idle => job[u].of \in Deliveries /\ job[u].at \in Nat
    BY DEF JobsSound, JobSound, Jobs
  <2>2. PassedStored(u)
    BY DEF Complete
  <2> QED BY <1>2, <2>1, <2>2, StoredStays DEF PassedStored
<1>3. StoredBefore(job[s].of, job[s].at, StoredKeys')
  <2>1. StoredBefore(job[s].of, job[s].at, StoredKeys)
    BY DEF Complete, PassedStored
  <2> QED BY <1>1, <2>1, StoredStays
<1>4. ASSUME due' = due PROVE AnsweredIsStored'
  BY <1>4, StoredStays DEF Complete, AnsweredIsStored
<1>5. ASSUME NEW u \in Servers, u # s, NEW j, job' = [job EXCEPT ![s] = j] PROVE PassedStored(u)'
  <2>1. job'[u] = job[u]
    BY <1>5 DEF JobsSound
  <2> QED BY <1>2, <2>1
<1>6. ASSUME job' = [job EXCEPT ![s] = Idle] PROVE \A u \in Servers : PassedStored(u)'
  <2>1. PassedStored(s)'
    BY <1>6 DEF PassedStored, JobsSound
  <2> QED BY <1>5, <1>6, <2>1
<1>7. CASE Advance(s) /\ Current(s).key \in StoredKeys'
  <2> DEFINE n == job[s].at + 1
             j == [job[s] EXCEPT !.at = n, !.step = "look"]
  <2>1. job' = [job EXCEPT ![s] = j] /\ due' = due
    BY <1>7 DEF Advance
  <2>2. n \in Nat
    BY <1>1
  <2>3. StoredBefore(job[s].of, n, StoredKeys')
    <3>1. \A i \in 1..Len(Events[job[s].of]) : i < n => i < job[s].at \/ i = job[s].at
      BY <1>1
    <3> QED BY <1>1, <1>3, <1>7, <3>1 DEF StoredBefore, Current
  <2> HIDE DEF n
  <2>4. j.at = n /\ j.of = job[s].of
    BY <1>1, <2>2 DEF Jobs
  <2> HIDE DEF j
  <2>5. job'[s] = j
    BY <2>1 DEF JobsSound
  <2>6. PassedStored(s)'
    BY <2>3, <2>4, <2>5 DEF PassedStored
  <2> QED BY <1>4, <1>5, <2>1, <2>6
<1>8. CASE Finish(s) /\ ~(job[s].at < Len(Events[job[s].of])) /\ Current(s).key \in StoredKeys'
  <2>1. \A i \in DOMAIN Events[job[s].of] : i < job[s].at \/ i = job[s].at
    BY <1>1, <1>8
  <2>2. \A i \in DOMAIN Events[job[s].of] : Events[job[s].of][i].key \in StoredKeys'
    BY <1>3, <1>8, <2>1 DEF StoredBefore, Current
  <2>3. due' = due \/ due' = due \ {job[s].of}
    BY <1>8 DEF Finish, Answer
  <2>4. AnsweredIsStored'
    BY <1>4, <2>2, <2>3, StoredStays DEF Complete, AnsweredIsStored
  <2> QED BY <1>6, <1>8, <2>4 DEF Finish
<1>9. CASE GiveUp(s)
  BY <1>4, <1>6, <1>9 DEF GiveUp
<1> QED BY <1>7, <1>8, <1>9 DEF Continue

\* A step that touches no batch, or ends one in a crash.
LEMMA CompleteStays ==
  ASSUME JobsSound, Complete, stored' = stored, due' = due, DOMAIN mem' = Servers,
         \A s \in Servers : /\ mem'[s] \subseteq mem[s]
                            /\ job'[s] \in {job[s], Idle}
  PROVE  Complete'
<1>1. ASSUME NEW s \in Servers PROVE mem'[s] \subseteq StoredKeys' /\ PassedStored(s)'
  <2>1. job[s] # Idle => job[s].of \in Deliveries /\ job[s].at \in Nat
    BY DEF JobsSound, JobSound, Jobs
  <2> QED BY <2>1, StoredStays DEF Complete, PassedStored
<1>2. AnsweredIsStored'
  BY StoredStays DEF Complete, AnsweredIsStored
<1> QED BY <1>1, <1>2 DEF Complete

LEMMA ReceiveComplete ==
  ASSUME Sound, Complete, NEW s \in Servers, NEW d \in due, Receive(s, d)
  PROVE  Complete'
<1>1. stored' = stored /\ mem' = mem /\ JobsSound /\ d \in Deliveries
  BY DEF Receive, Sound, JobsSound
<1>2. Len(Events[d]) \in Nat /\ DOMAIN Events[d] = 1..Len(Events[d])
  BY <1>1, EventsAssumption
<1>3. CASE Len(Events[d]) = 0
  <2>1. job' = job /\ (due' = due \/ due' = due \ {d})
    BY <1>3 DEF Receive, Answer
  <2>2. DOMAIN Events[d] = {}
    BY <1>2, <1>3
  <2>3. AnsweredIsStored'
    BY <1>1, <2>1, <2>2, StoredStays DEF Complete, AnsweredIsStored
  <2>4. ASSUME NEW u \in Servers PROVE mem'[u] \subseteq StoredKeys' /\ PassedStored(u)'
    <3>1. job[u] # Idle => job[u].of \in Deliveries /\ job[u].at \in Nat
      BY <1>1 DEF JobsSound, JobSound, Jobs
    <3> QED BY <1>1, <2>1, <3>1, StoredStays DEF Complete, PassedStored
  <2> QED BY <1>1, <2>3, <2>4 DEF Complete
<1>4. CASE Len(Events[d]) # 0
  <2> DEFINE j == [at |-> 1, of |-> d, step |-> "look", user |-> Nobody]
  <2>1. job' = [job EXCEPT ![s] = j] /\ due' = due
    BY <1>4 DEF Receive
  <2>2. StoredBefore(d, 1, StoredKeys')
    BY <1>2 DEF StoredBefore
  <2>3. job'[s] = j /\ \A u \in Servers : u # s => job'[u] = job[u]
    BY <1>1, <2>1 DEF JobsSound
  <2>4. PassedStored(s)'
    BY <2>2, <2>3 DEF PassedStored
  <2>5. ASSUME NEW u \in Servers, u # s PROVE PassedStored(u)'
    <3>1. job[u] # Idle => job[u].of \in Deliveries /\ job[u].at \in Nat
      BY <1>1 DEF JobsSound, JobSound, Jobs
    <3> QED BY <1>1, <2>3, <2>5, <3>1, StoredStays DEF Complete, PassedStored
  <2>6. AnsweredIsStored' /\ StoredKeys' = StoredKeys
    BY <1>1, <2>1, StoredStays DEF Complete, AnsweredIsStored, StoredKeys
  <2> QED BY <1>1, <2>4, <2>5, <2>6 DEF Complete
<1> QED BY <1>3, <1>4

LEMMA LookComplete ==
  ASSUME Sound, Complete, NEW s \in Servers, Look(s)
  PROVE  Complete'
<1>1. stored' = stored /\ Here(s, "look") /\ JobsSound
  BY DEF Look, LookAmong, Sound
<1>2. job[s] # Idle
  BY <1>1 DEF Here, Idle
<1>3. StoredKeys' = StoredKeys
  BY <1>1 DEF StoredKeys
<1>4. CASE Current(s).key \in mem[s] \cup StoredKeys /\ Continue(s)
           /\ mem' = [mem EXCEPT ![s] = @ \cup {Current(s).key}]
  <2>1. Current(s).key \in StoredKeys
    BY <1>4 DEF Complete
  <2>2. (\A u \in Servers : PassedStored(u)') /\ AnsweredIsStored'
    BY <1>1, <1>2, <1>3, <1>4, <2>1, BatchComplete
  <2>3. DOMAIN mem' = Servers /\ \A u \in Servers : mem'[u] \subseteq StoredKeys'
    BY <1>3, <1>4, <2>1 DEF Complete
  <2> QED BY <2>2, <2>3 DEF Complete
<1>5. CASE GiveUp(s) /\ mem' = mem
  <2>1. (\A u \in Servers : PassedStored(u)') /\ AnsweredIsStored'
    BY <1>1, <1>2, <1>5, BatchComplete
  <2> QED BY <1>3, <1>5, <2>1 DEF Complete
<1>6. ASSUME NEW user, job' = [job EXCEPT ![s].step = "insert", ![s].user = user],
             due' = due, mem' = mem
      PROVE  Complete'
  <2> DEFINE j == [job[s] EXCEPT !.step = "insert", !.user = user]
  <2>1. job' = [job EXCEPT ![s] = j]
    BY <1>6
  <2>2. job[s] \in Jobs
    BY <1>1, <1>2, CurrentNamed
  <2>3. j.at = job[s].at /\ j.of = job[s].of
    BY <2>2 DEF Jobs
  <2> HIDE DEF j
  <2>4. job'[s] = j /\ \A u \in Servers : u # s => job'[u] = job[u]
    BY <1>1, <2>1 DEF JobsSound
  <2>5. ASSUME NEW u \in Servers PROVE PassedStored(u)'
    <3>1. job[u] # Idle =>
            job[u].of \in Deliveries /\ job[u].at \in Nat /\ StoredBefore(job[u].of, job[u].at, StoredKeys)
      BY <1>1 DEF JobsSound, JobSound, Jobs, Complete, PassedStored
    <3>2. job[u] # Idle => StoredBefore(job[u].of, job[u].at, StoredKeys')
      BY <1>1, <3>1, StoredStays
    <3> QED BY <1>2, <2>3, <2>4, <3>2 DEF PassedStored
  <2>6. AnsweredIsStored'
    BY <1>1, <1>6, StoredStays DEF Complete, AnsweredIsStored
  <2> QED BY <1>3, <1>6, <2>5, <2>6 DEF Complete
<1> QED BY <1>4, <1>5, <1>6 DEF Look, LookAmong

LEMMA InsertComplete ==
  ASSUME Sound, Complete, NEW s \in Servers, Insert(s)
  PROVE  Complete'
<1> DEFINE row == Row(Current(s), job[s].user)
<1>1. Here(s, "insert") /\ JobsSound /\ row.key = Current(s).key
  BY InsertedRow DEF Insert, Sound
<1>2. job[s] # Idle
  BY <1>1 DEF Here, Idle
<1>3. \/ /\ stored' = stored \cup {row} /\ Continue(s)
         /\ mem' = [mem EXCEPT ![s] = @ \cup {Current(s).key}]
      \/ stored \subseteq stored' /\ GiveUp(s) /\ mem' = mem
  BY DEF Insert
<1> HIDE DEF row
<1>4. CASE stored' = stored \cup {row} /\ Continue(s)
           /\ mem' = [mem EXCEPT ![s] = @ \cup {Current(s).key}]
  <2>1. Current(s).key \in StoredKeys' /\ StoredKeys \subseteq StoredKeys'
    BY <1>1, <1>4 DEF StoredKeys
  <2>2. (\A u \in Servers : PassedStored(u)') /\ AnsweredIsStored'
    BY <1>1, <1>2, <1>4, <2>1, BatchComplete
  <2>3. DOMAIN mem' = Servers /\ \A u \in Servers : mem'[u] \subseteq StoredKeys'
    BY <1>4, <2>1 DEF Complete
  <2> QED BY <2>2, <2>3 DEF Complete
<1>5. CASE stored \subseteq stored' /\ GiveUp(s) /\ mem' = mem
  <2>1. StoredKeys \subseteq StoredKeys'
    BY <1>5 DEF StoredKeys
  <2>2. (\A u \in Servers : PassedStored(u)') /\ AnsweredIsStored'
    BY <1>1, <1>2, <1>5, BatchComplete
  <2> QED BY <1>5, <2>1, <2>2 DEF Complete
<1> QED BY <1>3, <1>4, <1>5

LEMMA InitComplete == Init => Complete
BY DEF Init, Complete, PassedStored, AnsweredIsStored, Idle

LEMMA NextComplete == Sound /\ Complete /\ [Next]_vars => Complete'
<1> SUFFICES ASSUME Sound, Complete, [Next]_vars PROVE Complete'
  OBVIOUS
<1>1. ASSUME NEW s \in Servers, NEW d \in due, Receive(s, d) PROVE Complete'
  BY <1>1, ReceiveComplete
<1>2. ASSUME NEW s \in Servers, Proceed(s) PROVE Complete'
  BY <1>2, LookComplete, InsertComplete DEF Proceed
<1>3. ASSUME stored' = stored, due' = due, mem' = mem, job' = job PROVE Complete'
  BY <1>3, CompleteStays DEF Complete, Sound
<1>4. ASSUME NEW s \in Servers, Register(s) PROVE Complete'
  BY <1>3, <1>4 DEF Register
<1>5. ASSUME NEW d \in due, GetsOld(d) PROVE Complete'
  BY <1>3, <1>5 DEF GetsOld
<1>6. ASSUME NEW e \in stored, Decide(e) PROVE Complete'
  BY <1>3, <1>6 DEF Decide
<1>7. ASSUME NEW s \in Servers, Crash(s) PROVE Complete'
  <2>1. stored' = stored /\ due' = due /\ DOMAIN mem' = Servers
    BY <1>7 DEF Crash, Complete
  <2>2. \A u \in Servers : mem'[u] \subseteq mem[u] /\ job'[u] \in {job[u], Idle}
    BY <1>7 DEF Crash, Complete, Sound, JobsSound
  <2> QED BY <2>1, <2>2, CompleteStays DEF Sound
<1>8. CASE UNCHANGED vars
  BY <1>3, <1>8 DEF vars
<1> QED BY <1>1, <1>2, <1>4, <1>5, <1>6, <1>7, <1>8 DEF Next

-----------------------------------------------------------------------------
(* The rest of the type invariant.                                         *)

Counted == old \subseteq Deliveries /\ faults \in 0..MaxFaults

LEMMA NextCounted == Sound /\ Counted /\ [Next]_vars => Counted'
<1> SUFFICES ASSUME Sound, Counted, [Next]_vars PROVE Counted'
  OBVIOUS
<1>1. old' \subseteq Deliveries
  <2>1. CASE \E d \in due : GetsOld(d)
    BY <2>1 DEF GetsOld, Counted, Sound, JobsSound
  <2>2. CASE old' = old
    BY <2>2 DEF Counted
  <2> QED BY <2>1, <2>2
      DEF Next, vars, Receive, Proceed, Look, LookAmong, Insert, Register, Crash, Decide
<1>2. Fault \/ NoFault
  <2>1. ASSUME NEW s \in Servers, Continue(s) PROVE Fault \/ NoFault
    BY <2>1 DEF Continue, Advance, Finish, Answer, NoFault
  <2>2. ASSUME NEW s \in Servers, Look(s) \/ Insert(s) PROVE Fault \/ NoFault
    BY <2>1, <2>2 DEF Look, LookAmong, Insert
  <2>3. ASSUME NEW s \in Servers, NEW d \in due, Receive(s, d) PROVE Fault \/ NoFault
    BY <2>3 DEF Receive, Answer, NoFault
  <2>4. ASSUME NEW s \in Servers, Register(s) \/ Crash(s) PROVE Fault \/ NoFault
    BY <2>4 DEF Register, Crash
  <2>5. ASSUME NEW d \in due, GetsOld(d) PROVE Fault \/ NoFault
    BY <2>5 DEF GetsOld, NoFault
  <2>6. ASSUME NEW e \in stored, Decide(e) PROVE Fault \/ NoFault
    BY <2>6 DEF Decide
  <2>7. CASE UNCHANGED vars
    BY <2>7 DEF vars, NoFault
  <2> QED BY <2>2, <2>3, <2>4, <2>5, <2>6, <2>7 DEF Next, Proceed
<1>3. faults' \in 0..MaxFaults
  BY <1>2, IntakeAssumption DEF Fault, NoFault, Counted
<1> QED BY <1>1, <1>3 DEF Counted

-----------------------------------------------------------------------------
(* The theorems.                                                           *)

\* In every reachable state the table, the registry and the batches under way
\* agree on who registered which message: what the alerts rest on.
THEOREM AlwaysSound == Spec => []Sound
BY InitSound, NextSound, PTL DEF Spec

\* Every variable keeps its type, no two rows have the same key, and a server is
\* always at an event that its delivery has.
THEOREM IntakeTyped == Spec => []TypeOK
<1>1. Init => Counted
  BY IntakeAssumption DEF Init, Counted
<1>2. Sound /\ Counted => TypeOK
  BY DEF Sound, Counted, TypeOK, RegistrySound, StoreSound, JobsSound, JobSound
<1> QED BY <1>1, <1>2, AlwaysSound, NextCounted, PTL DEF Spec

\* The worker never alerts a tenant who has neither registered the message at the
\* event's own provider nor is named by another program's event, whatever is
\* redelivered, stored by two servers, lost in a crash or kept in memory only.
THEOREM AlertsReachSenders == Spec => []AlertsReachTheSender
<1>1. Sound => AlertsReachTheSender
  BY DEF Sound, VerdictsSound
<1> QED BY <1>1, AlwaysSound, PTL

\* Every verdict reached without a failed lookup is what all the evidence of the
\* strongest level says of the event it is about.
THEOREM VerdictsByEvidence == Spec => VerdictsFollowEvidence
<1> DEFINE Followed ==
      \A e \in stored, v \in verdicts' \ verdicts :
        v.key = e.key /\ faults' = faults => v.result = Verdict(EvidenceOf(e, FALSE))
<1>1. Sound /\ [Next]_vars => [Followed]_vars
  <2> SUFFICES ASSUME Sound, Next, NEW e \in stored, NEW v \in verdicts' \ verdicts,
                      v.key = e.key, faults' = faults
               PROVE  v.result = Verdict(EvidenceOf(e, FALSE))
    BY DEF Followed
  <2>1. PICK r \in stored : Decide(r)
    BY DEF Next, Receive, Proceed, Look, LookAmong, Insert, Register, Crash, GetsOld
  <2>2. v = [key |-> r.key, result |-> Correlate(EvidenceOf(r, FALSE))]
    <3>1. faults' # faults + 1
      BY DEF Sound, JobsSound
    <3>2. PICK error \in BOOLEAN :
            /\ verdicts' = verdicts \cup {[key |-> r.key, result |-> Correlate(EvidenceOf(r, error))]}
            /\ IF error THEN Fault ELSE NoFault
      BY <2>1 DEF Decide
    <3>3. error = FALSE
      BY <3>1, <3>2 DEF Fault
    <3> QED BY <3>2, <3>3
  <2>3. r = e
    BY <2>2 DEF Sound, StoreSound
  <2>4. EvidenceOf(e, FALSE) \in Evidence
    BY EvidenceTyped DEF Sound, StoreSound
  <2> QED BY <2>2, <2>3, <2>4, CorrelatesByEvidence
<1> QED BY <1>1, AlwaysSound, PTL DEF Spec, VerdictsFollowEvidence

\* What was answered is stored: however batches are cut short by failing calls and
\* crashes, repeated, or worked on by two servers at once, a delivery is answered
\* only when all its failures are in the table.
THEOREM AnswersMeanStored == Spec => []AnsweredIsStored
<1>1. Complete => AnsweredIsStored
  BY DEF Complete
<1> QED BY <1>1, AlwaysSound, InitComplete, NextComplete, PTL DEF Spec

=============================================================================
