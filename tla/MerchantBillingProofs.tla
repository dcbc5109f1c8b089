------------------------ MODULE MerchantBillingProofs ------------------------
(***************************************************************************)
(* What holds of MerchantBilling for any servers, subscriptions, charges,  *)
(* constraints of the schema and bounds: the types, that the store row     *)
(* follows the installation, that what counts as processed was applied,    *)
(* and that the profile follows the payment.                               *)
(***************************************************************************)
EXTENDS MerchantBilling, FiniteSetTheorems, TLAPS

(* Types.                                                                  *)

Customers == {"none", "main", "other", "mock"} \cup Subs
SubStatuses == {"none", "active", "past_due", "unpaid", "canceled"}
\* What a webhook says of a charge: one that nobody has confirmed sends none.
Ends == {"ACTIVE", "DECLINED", "PAUSED", "CANCELLED", "EXPIRED"}

Numbers == 1..MaxInputs
StripeMessages ==
  [n : Numbers, kind : {"checkout"}, of : Subs, status : {"active"}]
    \cup [n : Numbers, kind : {"updated"}, of : Subs, status : {"active", "past_due", "unpaid"}]
    \cup [n : Numbers, kind : {"deleted"}, of : Subs, status : {"canceled"}]
ChargeMessages == [n : Numbers, kind : {"subscription"}, of : Charges, status : Ends]
ShopMessages == [n : Numbers, kind : {"uninstalled", "redact"}, of : {"shop"}, status : {"none"}]
Messages == StripeMessages \cup ChargeMessages \cup ShopMessages

Tokens == 0..MaxInputs
StripeJobs == [kind : {"stripe"}, step : {"apply", "mark"}, m : StripeMessages]
GuardJobs == [kind : {"guard"}, step : {"write"}]
StoreJobs == [kind : {"connect", "settings"}, step : {"save"}, token : Tokens]
HookJobs == [kind : {"hook"}, step : {"query", "write"}, m : ChargeMessages, token : Tokens,
             status : Ends, at : Nat]
CallbackJobs == [kind : {"callback"}, step : {"write"}, of : Charges, at : Nat]
RedactJobs == [kind : {"redact"}, step : {"purge"}]
CustomerJobs == [kind : {"customer"}, step : {"save"}]
Jobs ==
  {Idle} \cup StripeJobs \cup GuardJobs \cup StoreJobs \cup HookJobs \cup CallbackJobs
    \cup RedactJobs \cup CustomerJobs

\* A message is of the past, and one about a charge comes after its confirmation.
Begun(c) == charge[c] \in Ends
MessageSound(m) == m.n <= sent /\ (m.kind = "subscription" => Begun(m.of))

\* A job knows the state of what it is about as of at.
JobSound(j) ==
  /\ j.kind \in {"stripe", "hook"} => MessageSound(j.m)
  /\ j.kind = "hook" => j.m.n <= j.at /\ j.at <= sent
  /\ j.kind = "callback" => j.at <= sent

AppliedTypes == [m : StripeMessages \cup ChargeMessages, at : Nat]
AppliedSound(a) == a.m.n <= a.at /\ a.at <= sent

RowsTyped ==
  /\ profile \in [status : StatusDomain, paid : BOOLEAN]
  /\ customer \in Customers
  /\ row \in [state : {"none", "active", "revoked"}, token : Tokens]
  /\ excused \in [profile : BOOLEAN, row : BOOLEAN]
  /\ faults \in 0..MaxFaults

ProvidersTyped ==
  /\ stripe \in [Subs -> [status : SubStatuses, payer : Customers]]
  /\ charge \in [Charges -> DOMAIN NextStatus]
  /\ shop \in [installed : BOOLEAN, times : Nat]
  /\ sent \in 0..MaxInputs /\ shop.times <= sent

DueTyped == due \subseteq Messages /\ \A m \in due : MessageSound(m)
MemTyped ==
  /\ recorded \subseteq StripeMessages
  /\ mem \in [Servers -> SUBSET Messages] /\ \A s \in Servers : \A m \in mem[s] : m.n <= sent
AppliedTyped == applied \subseteq AppliedTypes /\ \A a \in applied : AppliedSound(a)
JobsTyped == job \in [Servers -> Jobs] /\ \A s \in Servers : JobSound(job[s])

Typed == RowsTyped /\ ProvidersTyped /\ DueTyped /\ MemTyped /\ AppliedTyped /\ JobsTyped

LEMMA Sizes ==
  /\ MaxInputs \in Nat /\ MaxFaults \in Nat /\ IsFiniteSet(Charges)
  /\ Subs \cap Charges = {} /\ "shop" \notin Subs \cup Charges /\ "nothing" \notin Subs \cup Charges
BY BillingAssumption

LEMMA FaultsTyped ==
  ASSUME faults \in 0..MaxFaults, Fault \/ UNCHANGED faults PROVE faults' \in 0..MaxFaults
BY Sizes DEF Fault

\* A job by its kind.
LEMMA JobShapes ==
  ASSUME NEW j \in Jobs
  PROVE  /\ j.kind = "idle" <=> j = Idle
         /\ j.kind = "stripe" => j \in StripeJobs
         /\ j.kind = "guard" => j \in GuardJobs
         /\ j.kind \in {"connect", "settings"} => j \in StoreJobs
         /\ j.kind = "hook" => j \in HookJobs
         /\ j.kind = "callback" => j \in CallbackJobs
         /\ j.kind = "redact" => j \in RedactJobs
BY DEF Jobs, Idle, StripeJobs, GuardJobs, StoreJobs, HookJobs, CallbackJobs, RedactJobs, CustomerJobs

\* A message by its kind.
LEMMA MessageShapes ==
  ASSUME NEW m \in Messages
  PROVE  /\ m.n \in Nat /\ m.n >= 1 /\ m.n <= MaxInputs
         /\ m.kind \in {"checkout", "updated", "deleted"} => m \in StripeMessages /\ m.of \in Subs
         /\ m.kind = "subscription" => m \in ChargeMessages /\ m.of \in Charges
         /\ m.kind \in {"uninstalled", "redact"} => m.of = "shop"
         /\ m \in StripeMessages => m.kind \in {"checkout", "updated", "deleted"}
         /\ m \in ChargeMessages => m.kind = "subscription"
BY Sizes DEF Messages, StripeMessages, ChargeMessages, ShopMessages, Numbers

\* What a step may do to what is counted: it only grows.
Grown ==
  /\ sent <= sent'
  /\ \A c \in Charges : Begun(c) => Begun(c)'

LEMMA SameGrown == ASSUME ProvidersTyped, UNCHANGED <<charge, sent>> PROVE Grown
BY DEF Grown, Begun, ProvidersTyped

LEMMA MessageStays ==
  ASSUME ProvidersTyped, ProvidersTyped', Grown, NEW m \in Messages, MessageSound(m)
  PROVE  MessageSound(m)'
<1>1. m.n \in Nat /\ sent \in Nat /\ sent' \in Nat /\ (m.kind = "subscription" => m.of \in Charges)
  BY MessageShapes, Sizes DEF ProvidersTyped
<1> QED BY <1>1 DEF MessageSound, Grown

LEMMA JobStays ==
  ASSUME ProvidersTyped, ProvidersTyped', Grown, NEW j \in Jobs, JobSound(j)
  PROVE  JobSound(j)'
<1>1. sent \in Nat /\ sent' \in Nat /\ sent <= sent'
  BY Sizes DEF ProvidersTyped, Grown
<1>2. j.kind \in {"stripe", "hook"} => j.m \in Messages
  BY JobShapes DEF StripeJobs, HookJobs, Messages
<1>3. j.kind \in {"hook", "callback"} => j.at \in Nat
  BY JobShapes DEF HookJobs, CallbackJobs
<1>4. j.kind \in {"stripe", "hook"} => MessageSound(j.m)'
  BY <1>2, MessageStays DEF JobSound
<1> QED BY <1>1, <1>3, <1>4 DEF JobSound

\* The messages and jobs that a step leaves alone.
LEMMA OthersStay ==
  ASSUME Typed, ProvidersTyped', Grown
  PROVE  /\ \A m \in due : MessageSound(m)'
         /\ \A s \in Servers : \A m \in mem[s] : m.n <= sent'
         /\ \A a \in applied : AppliedSound(a)'
         /\ \A s \in Servers, j \in Jobs : j = job[s] => JobSound(j)'
<1>1. sent \in Nat /\ sent' \in Nat /\ sent <= sent'
  BY Sizes DEF Typed, ProvidersTyped, Grown
<1>2. \A m \in due : MessageSound(m)'
  BY MessageStays DEF Typed, DueTyped
<1>3. ASSUME NEW s \in Servers, NEW m \in mem[s] PROVE m.n <= sent'
  <2>1. m \in Messages /\ m.n <= sent
    BY DEF Typed, MemTyped
  <2> QED BY <1>1, <2>1, MessageShapes
<1>4. ASSUME NEW a \in applied PROVE AppliedSound(a)'
  <2>1. a.at \in Nat /\ AppliedSound(a)
    BY DEF Typed, AppliedTyped, AppliedTypes
  <2> QED BY <1>1, <2>1 DEF AppliedSound
<1>5. ASSUME NEW s \in Servers, NEW j \in Jobs, j = job[s] PROVE JobSound(j)'
  BY <1>5, JobStays DEF Typed, JobsTyped
<1> QED BY <1>2, <1>3, <1>4, <1>5

\* One server goes on to its next call.
LEMMA JobMoves ==
  ASSUME Typed, ProvidersTyped', Grown, NEW s \in Servers, NEW j \in Jobs, JobSound(j)', Do(s, j)
  PROVE  JobsTyped'
<1>1. job' \in [Servers -> Jobs] /\ job'[s] = j
      /\ \A t \in Servers : t # s => job'[t] = job[t] /\ job'[t] \in Jobs
  BY DEF Do, Typed, JobsTyped
<1>2. ASSUME NEW t \in Servers PROVE JobSound(job[t])'
  <2>1. PICK k \in Jobs : k = job'[t]
    BY <1>1
  <2>2. CASE t = s
    BY <1>1, <2>1, <2>2 DEF JobSound
  <2>3. CASE t # s
    <3>1. JobSound(k)'
      BY <1>1, <2>1, <2>3, OthersStay
    <3> QED BY <2>1, <3>1 DEF JobSound
  <2> QED BY <2>2, <2>3
<1> QED BY <1>1, <1>2 DEF JobsTyped

LEMMA JobEnds ==
  ASSUME Typed, ProvidersTyped', Grown, NEW s \in Servers, Done(s) PROVE JobsTyped'
<1>1. Idle \in Jobs /\ Idle.kind = "idle"
  BY DEF Jobs, Idle
<1>2. JobSound(Idle)'
  BY <1>1 DEF JobSound, Idle
<1> QED BY <1>1, <1>2, JobMoves DEF Done

LEMMA JobsStay == ASSUME Typed, ProvidersTyped', Grown, UNCHANGED job PROVE JobsTyped'
<1>1. ASSUME NEW s \in Servers PROVE JobSound(job[s])'
  <2>1. PICK j \in Jobs : j = job[s]
    BY DEF Typed, JobsTyped
  <2>2. JobSound(j)'
    BY <2>1, OthersStay
  <2> QED BY <2>1, <2>2 DEF JobSound
<1> QED BY <1>1 DEF Typed, JobsTyped

\* Messages leave, and what was remembered stays or is forgotten.
LEMMA DueLeaves == ASSUME Typed, ProvidersTyped', Grown, due' \subseteq due PROVE DueTyped'
BY OthersStay DEF DueTyped, Typed

LEMMA DueSent ==
  ASSUME Typed, ProvidersTyped', Grown,
         \A m \in due' : m \in due \/ (m \in Messages /\ MessageSound(m)')
  PROVE  DueTyped'
BY OthersStay DEF DueTyped, Typed

LEMMA MemStays ==
  ASSUME Typed, ProvidersTyped', Grown, UNCHANGED <<recorded, mem>> PROVE MemTyped'
BY OthersStay DEF MemTyped, Typed

LEMMA AppliedStays ==
  ASSUME Typed, ProvidersTyped', Grown, UNCHANGED applied PROVE AppliedTyped'
BY OthersStay DEF AppliedTyped, Typed

\* What is excused stays so.
LEMMA ProfileExcused ==
  ASSUME excused \in [profile : BOOLEAN, row : BOOLEAN], NEW c \in BOOLEAN, ExcuseProfile(c)
  PROVE  /\ excused' \in [profile : BOOLEAN, row : BOOLEAN]
         /\ excused'.row = excused.row
         /\ ~excused'.profile => ~excused.profile /\ ~c
BY DEF ExcuseProfile

LEMMA RowExcused ==
  ASSUME excused \in [profile : BOOLEAN, row : BOOLEAN], NEW c \in BOOLEAN, ExcuseRow(c)
  PROVE  /\ excused' \in [profile : BOOLEAN, row : BOOLEAN]
         /\ excused'.profile = excused.profile
         /\ ~excused'.row => ~excused.row /\ ~c
BY DEF ExcuseRow

LEMMA BothExcused ==
  ASSUME ExcuseBoth
  PROVE  excused' \in [profile : BOOLEAN, row : BOOLEAN] /\ excused'.profile /\ excused'.row
BY DEF ExcuseBoth

\* An answer takes the message away, or the server remembers it.
LEMMA Answers ==
  ASSUME Typed, NEW s \in Servers, NEW m \in Messages, m.n <= sent, Answer(s, m)
  PROVE  /\ due' \subseteq due /\ \A x \in due : x # m => x \in due'
         /\ mem' \in [Servers -> SUBSET Messages]
         /\ \A t \in Servers : mem'[t] \subseteq mem[t] \cup {m}
         /\ \A t \in Servers : \A x \in mem'[t] : x.n <= sent
         /\ Fault \/ UNCHANGED faults
<1>1. mem \in [Servers -> SUBSET Messages]
  BY DEF Typed, MemTyped
<1>2. CASE due' = due \ {m} /\ UNCHANGED <<mem, faults>>
  BY <1>1, <1>2 DEF Typed, MemTyped
<1>3. CASE UNCHANGED due /\ Remember(s, m) /\ Fault
  BY <1>1, <1>3 DEF Remember, Typed, MemTyped
<1> QED BY <1>2, <1>3 DEF Answer

-----------------------------------------------------------------------------
(* What the providers do.                                                  *)

LEMMA SentOne ==
  ASSUME ProvidersTyped, NEW m, Send({m})
  PROVE  sent' = sent + 1 /\ sent' \in 0..MaxInputs /\ due' = due \cup {m}
<1>1. Cardinality({m}) = 1
  BY FS_Singleton
<1> QED BY <1>1, Sizes DEF Send, ProvidersTyped

\* Everything but the messages and what the providers know stays.
Outside == UNCHANGED <<database, mem, job, faults, history>>

LEMMA ProvidersAct ==
  ASSUME Typed, Outside, ProvidersTyped', Grown,
         \A m \in due' : m \in due \/ (m \in Messages /\ MessageSound(m)')
  PROVE  Typed'
<1>1. JobsTyped' /\ MemTyped' /\ AppliedTyped' /\ DueTyped'
  BY JobsStay, MemStays, AppliedStays, DueSent DEF Outside, database, history
<1>2. RowsTyped'
  BY DEF Outside, database, history, Typed, RowsTyped
<1> QED BY <1>1, <1>2 DEF Typed

\* Stripe, by what it says of a subscription of the merchant's.
LEMMA StripeTells ==
  ASSUME Typed, StripeSubscribe \/ StripeChange
  PROVE  \E k \in Subs, m \in StripeMessages :
           /\ m.n = sent + 1 /\ m.of = k /\ Send({m}) /\ sent' = sent + 1 /\ due' = due \cup {m}
           /\ stripe' \in [Subs -> [status : SubStatuses, payer : Customers]]
           /\ stripe'[k].status = m.status
           /\ \A x \in Subs : x # k => stripe'[x] = stripe[x]
           /\ UNCHANGED <<charge, shop>> /\ Outside
<1>1. sent + 1 \in Numbers
  <2>1. ASSUME NEW m, Send({m}) PROVE sent + 1 \in Numbers
    <3>1. ProvidersTyped /\ sent \in 0..MaxInputs
      BY DEF Typed, ProvidersTyped
    <3>2. sent + 1 \in 0..MaxInputs
      BY <2>1, <3>1, SentOne
    <3> QED BY <3>1, <3>2, Sizes DEF Numbers
  <2> QED BY <2>1 DEF StripeSubscribe, StripeChange
<1>2. CASE StripeSubscribe
  <2>1. PICK k \in Subs, id \in {"main", "other", "mock"} \cup Subs :
          /\ stripe' = [stripe EXCEPT ![k] =
               [status |-> "active", payer |-> IF id = "mock" THEN k ELSE id]]
          /\ Send({Message("checkout", k, "active")})
    BY <1>2 DEF StripeSubscribe
  <2>2. PICK m : m = Message("checkout", k, "active")
    OBVIOUS
  <2>3. m \in StripeMessages /\ m.n = sent + 1 /\ m.of = k /\ m.status = "active"
    BY <1>1, <2>2 DEF Message, StripeMessages
  <2>4. [status |-> "active", payer |-> IF id = "mock" THEN k ELSE id]
          \in [status : SubStatuses, payer : Customers]
    BY DEF SubStatuses, Customers
  <2>5. /\ stripe' \in [Subs -> [status : SubStatuses, payer : Customers]]
        /\ stripe'[k].status = "active" /\ \A x \in Subs : x # k => stripe'[x] = stripe[x]
    BY <2>1, <2>4 DEF Typed, ProvidersTyped
  <2>6. UNCHANGED <<charge, shop>> /\ Outside
    BY <1>2 DEF StripeSubscribe, Outside
  <2> QED BY <2>1, <2>2, <2>3, <2>5, <2>6, SentOne DEF Typed
<1>3. CASE StripeChange
  <2>1. PICK k \in Subs, status \in {"active", "past_due", "unpaid", "canceled"} :
          /\ stripe' = [stripe EXCEPT ![k].status = status]
          /\ Send({Message(IF status = "canceled" THEN "deleted" ELSE "updated", k, status)})
    BY <1>3 DEF StripeChange
  <2>2. PICK m : m = Message(IF status = "canceled" THEN "deleted" ELSE "updated", k, status)
    OBVIOUS
  <2>3. m \in StripeMessages /\ m.n = sent + 1 /\ m.of = k /\ m.status = status
    BY <1>1, <2>2 DEF Message, StripeMessages
  <2>4. /\ stripe' \in [Subs -> [status : SubStatuses, payer : Customers]]
        /\ stripe'[k].status = status /\ \A x \in Subs : x # k => stripe'[x] = stripe[x]
    BY <2>1 DEF Typed, ProvidersTyped, SubStatuses
  <2>5. UNCHANGED <<charge, shop>> /\ Outside
    BY <1>3 DEF StripeChange, Outside
  <2> QED BY <2>1, <2>2, <2>3, <2>4, <2>5, SentOne DEF Typed
<1> QED BY <1>2, <1>3

\* Shopify, about one charge or, with the app gone, about all that have not ended.
ChargesTold(C) ==
  /\ sent < sent' /\ sent' \in 0..MaxInputs
  /\ charge' \in [Charges -> DOMAIN NextStatus]
  /\ \A c \in C : \E m \in due' : m \in ChargeMessages /\ m.n = sent + 1 /\ m.of = c
  /\ \A c \in Charges \ C : charge'[c] = charge[c]
  /\ \A m \in due' \ due :
       /\ m \in Messages /\ m.n = sent + 1
       /\ \/ m \in ChargeMessages /\ m.of \in C /\ charge'[m.of] = m.status
          \/ m.kind \in {"uninstalled", "redact"}
  /\ due \subseteq due'

LEMMA ShopifyTells ==
  ASSUME Typed, ShopifyChange
  PROVE  (\E C \in SUBSET Charges : ChargesTold(C)) /\ UNCHANGED <<stripe, shop>> /\ Outside
<1>1. PICK c \in Charges : \E status \in NextStatus[charge[c]] :
        /\ charge' = [charge EXCEPT ![c] = status]
        /\ Send({Message("subscription", c, status)})
  BY DEF ShopifyChange
<1>2. PICK status \in NextStatus[charge[c]] :
        /\ charge' = [charge EXCEPT ![c] = status]
        /\ Send({Message("subscription", c, status)})
  BY <1>1
<1>3. charge \in [Charges -> DOMAIN NextStatus]
  BY DEF Typed, ProvidersTyped
<1>4. status \in Ends /\ Ends \subseteq DOMAIN NextStatus
  BY <1>2, <1>3 DEF NextStatus, Ends
<1>5. PICK m : m = Message("subscription", c, status)
  OBVIOUS
<1>6. sent' = sent + 1 /\ sent' \in 0..MaxInputs /\ due' = due \cup {m} /\ sent \in Nat
  <2>1. ProvidersTyped /\ sent \in 0..MaxInputs
    BY DEF Typed, ProvidersTyped
  <2>2. Send({m})
    BY <1>2, <1>5
  <2>3. sent' = sent + 1 /\ sent' \in 0..MaxInputs /\ due' = due \cup {m}
    BY <2>1, <2>2, SentOne
  <2> QED BY <2>1, <2>3, Sizes
<1>7. m \in ChargeMessages /\ m.n = sent + 1 /\ m.of = c /\ m.status = status
  BY <1>4, <1>5, <1>6, Sizes DEF Message, ChargeMessages, Numbers
<1>8. /\ charge' \in [Charges -> DOMAIN NextStatus] /\ charge'[c] = status
      /\ \A x \in Charges : x # c => charge'[x] = charge[x]
  BY <1>2, <1>3, <1>4
<1>9. ChargesTold({c})
  BY <1>6, <1>7, <1>8 DEF ChargesTold, Messages
<1> QED BY <1>9 DEF ShopifyChange, Outside

LEMMA UninstallTells ==
  ASSUME Typed, Uninstall
  PROVE  /\ \E C \in SUBSET Charges : ChargesTold(C)
         /\ \E m \in due' : m.kind = "uninstalled" /\ m.n = sent + 1
         /\ shop' = [shop EXCEPT !.installed = FALSE] /\ UNCHANGED stripe /\ Outside
<1> DEFINE ended == {c \in Charges : charge[c] \in {"ACTIVE", "PAUSED", "PENDING"}}
           told(c) == Message("subscription", c, "CANCELLED")
           gone == Message("uninstalled", "shop", "none")
           news == {told(c) : c \in ended}
<1>1. /\ charge' = [c \in Charges |-> IF c \in ended THEN "CANCELLED" ELSE charge[c]]
      /\ Send({gone} \cup news)
  BY DEF Uninstall
<1>2. IsFiniteSet({gone} \cup news) /\ Cardinality({gone} \cup news) \in Nat \ {0}
  <2>1. IsFiniteSet(ended)
    BY Sizes, FS_Subset
  <2>2. [c \in ended |-> told(c)] \in Surjection(ended, news)
    BY DEF Surjection
  <2>3. IsFiniteSet(news)
    BY <2>1, <2>2, FS_Surjection
  <2>4. IsFiniteSet(news \cup {gone}) /\ news \cup {gone} = {gone} \cup news
    BY <2>3, FS_AddElement
  <2>5. IsFiniteSet({gone} \cup news) /\ {gone} \cup news # {}
    BY <2>4
  <2> QED BY <2>5, FS_EmptySet, FS_CardinalityType
<1>3. /\ sent \in Nat /\ sent' \in 0..MaxInputs /\ sent < sent' /\ sent + 1 \in Numbers
      /\ due' = due \cup ({gone} \cup news)
  <2> DEFINE all == {gone} \cup news
  <2>1. Send(all) /\ Cardinality(all) \in Nat \ {0}
    BY <1>1, <1>2
  <2> HIDE DEF all
  <2>2. PICK n \in Nat \ {0} : n = Cardinality(all)
    BY <2>1
  <2>3. sent + n <= MaxInputs /\ sent' = sent + n /\ due' = due \cup all
    BY <2>1, <2>2 DEF Send
  <2>4. sent \in Nat
    BY Sizes DEF Typed, ProvidersTyped
  <2>5. sent' \in 0..MaxInputs /\ sent < sent' /\ sent + 1 \in Numbers
    BY <2>3, <2>4, Sizes DEF Numbers
  <2> QED BY <2>3, <2>4, <2>5 DEF all
<1>4. gone \in ShopMessages /\ gone.kind = "uninstalled" /\ gone.n = sent + 1
  BY <1>3 DEF Message, ShopMessages
<1>5. \A c \in ended : /\ told(c) \in ChargeMessages /\ told(c).n = sent + 1 /\ told(c).of = c
                       /\ told(c).status = "CANCELLED"
  BY <1>3 DEF Message, ChargeMessages, Ends
<1>6. charge' \in [Charges -> DOMAIN NextStatus]
      /\ \A c \in Charges : charge'[c] = IF c \in ended THEN "CANCELLED" ELSE charge[c]
  BY <1>1 DEF Typed, ProvidersTyped, NextStatus
<1>7. ChargesTold(ended)
  <2>1. \A c \in ended : told(c) \in due'
    BY <1>3
  <2>2. ASSUME NEW m \in due' \ due
        PROVE  /\ m \in Messages /\ m.n = sent + 1
               /\ \/ m \in ChargeMessages /\ m.of \in ended /\ charge'[m.of] = m.status
                  \/ m.kind \in {"uninstalled", "redact"}
    <3>1. CASE m = gone
      BY <1>4, <3>1 DEF Messages
    <3>2. ASSUME NEW c \in ended, m = told(c)
          PROVE  /\ m \in ChargeMessages /\ m.n = sent + 1 /\ m.of = c
                 /\ charge'[m.of] = m.status
      BY <1>5, <1>6, <3>2
    <3>3. m = gone \/ \E c \in ended : m = told(c)
      BY <1>3
    <3> QED BY <3>1, <3>2, <3>3 DEF Messages
  <2> QED BY <1>3, <1>5, <1>6, <2>1, <2>2 DEF ChargesTold
<1>8. shop' = [shop EXCEPT !.installed = FALSE] /\ UNCHANGED stripe /\ Outside
  BY DEF Uninstall, Outside
<1> QED BY <1>3, <1>4, <1>7, <1>8

LEMMA StripeTyped == ASSUME Typed, StripeSubscribe \/ StripeChange PROVE Typed'
<1>1. PICK k \in Subs, m \in StripeMessages :
        /\ m.n = sent + 1 /\ Send({m}) /\ sent' = sent + 1 /\ due' = due \cup {m}
        /\ stripe' \in [Subs -> [status : SubStatuses, payer : Customers]]
        /\ UNCHANGED <<charge, shop>> /\ Outside
  BY StripeTells
<1>2. sent \in Nat /\ sent' \in 0..MaxInputs /\ shop.times <= sent /\ shop.times \in Nat
  <2>1. ProvidersTyped /\ sent \in Nat /\ shop.times <= sent /\ shop.times \in Nat
    BY Sizes DEF Typed, ProvidersTyped
  <2>2. sent' \in 0..MaxInputs
    BY <1>1, <2>1, SentOne
  <2> QED BY <2>1, <2>2
<1>3. ProvidersTyped' /\ Grown
  BY <1>1, <1>2 DEF Typed, ProvidersTyped, Grown, Begun
<1>4. m \in Messages /\ MessageSound(m)'
  BY <1>1, <1>2, MessageShapes DEF MessageSound, Messages
<1> QED BY <1>1, <1>3, <1>4, ProvidersAct

\* A charge that Shopify tells of has been confirmed, or given up.
LEMMA ToldBegun ==
  ASSUME Typed, NEW C \in SUBSET Charges, ChargesTold(C), NEW c \in C
  PROVE  \E m \in due' \ due : m \in ChargeMessages /\ m.n = sent + 1 /\ m.of = c
                               /\ charge'[c] = m.status /\ m.status \in Ends
<1>1. PICK m \in due' : m \in ChargeMessages /\ m.n = sent + 1 /\ m.of = c
  BY DEF ChargesTold
<1>2. m \notin due
  <2>1. m \in due => m.n <= sent
    BY DEF Typed, DueTyped, MessageSound
  <2>2. sent \in Nat
    BY Sizes DEF Typed, ProvidersTyped
  <2> QED BY <1>1, <2>1, <2>2
<1>3. m.kind = "subscription" /\ m.status \in Ends
  BY <1>1 DEF ChargeMessages
<1> QED BY <1>1, <1>2, <1>3 DEF ChargesTold

LEMMA ToldTyped ==
  ASSUME Typed, NEW C \in SUBSET Charges, ChargesTold(C), Outside, UNCHANGED stripe,
         shop' \in [installed : BOOLEAN, times : Nat], shop'.times = shop.times
  PROVE  Typed'
<1>1. sent \in Nat /\ sent' \in Nat /\ sent < sent' /\ sent' \in 0..MaxInputs
      /\ shop.times \in Nat /\ shop.times <= sent
  BY Sizes DEF Typed, ProvidersTyped, ChargesTold
<1>2. Grown
  <2>1. ASSUME NEW c \in Charges, Begun(c) PROVE Begun(c)'
    <3>1. CASE c \in C
      BY <3>1, ToldBegun DEF Begun
    <3>2. CASE c \notin C
      BY <2>1, <3>2 DEF Begun, ChargesTold
    <3> QED BY <3>1, <3>2
  <2> QED BY <1>1, <2>1 DEF Grown
<1>3. ProvidersTyped'
  BY <1>1 DEF Typed, ProvidersTyped, ChargesTold
<1>4. ASSUME NEW m \in due', m \notin due PROVE m \in Messages /\ MessageSound(m)'
  <2>1. /\ m \in Messages /\ m.n = sent + 1
        /\ \/ m \in ChargeMessages /\ m.of \in C /\ charge'[m.of] = m.status
           \/ m.kind \in {"uninstalled", "redact"}
    BY <1>4 DEF ChargesTold
  <2>2. m \in ChargeMessages => m.status \in Ends
    BY DEF ChargeMessages
  <2> QED BY <1>1, <2>1, <2>2 DEF MessageSound, Begun
<1> QED BY <1>2, <1>3, <1>4, ProvidersAct

LEMMA ShopifyTyped == ASSUME Typed, ShopifyChange \/ Uninstall PROVE Typed'
<1>1. PICK C \in SUBSET Charges : ChargesTold(C)
  BY ShopifyTells, UninstallTells
<1>2. /\ UNCHANGED stripe /\ Outside
      /\ shop' \in [installed : BOOLEAN, times : Nat] /\ shop'.times = shop.times
  BY ShopifyTells, UninstallTells DEF Typed, ProvidersTyped
<1> QED BY <1>1, <1>2, ToldTyped

LEMMA RedactTells ==
  ASSUME Typed, Redact
  PROVE  /\ \E m \in ShopMessages : m.kind = "redact" /\ m.n = sent + 1 /\ due' = due \cup {m}
         /\ sent' = sent + 1 /\ sent' \in 0..MaxInputs
         /\ UNCHANGED <<stripe, charge, shop>> /\ Outside
<1>1. PICK m : m = Message("redact", "shop", "none")
  OBVIOUS
<1>2. Send({m}) /\ UNCHANGED <<stripe, charge, shop>> /\ Outside
  BY <1>1 DEF Redact, Outside
<1>3. ProvidersTyped /\ sent \in Nat
  BY Sizes DEF Typed, ProvidersTyped
<1>4. sent' = sent + 1 /\ sent' \in 0..MaxInputs /\ due' = due \cup {m}
  BY <1>2, <1>3, SentOne
<1>5. m \in ShopMessages /\ m.kind = "redact" /\ m.n = sent + 1
  BY <1>1, <1>3, <1>4, Sizes DEF Message, ShopMessages, Numbers
<1> QED BY <1>2, <1>4, <1>5

LEMMA RedactTyped == ASSUME Typed, Redact PROVE Typed'
<1>1. PICK m \in ShopMessages : m.kind = "redact" /\ m.n = sent + 1 /\ due' = due \cup {m}
  BY RedactTells
<1>2. /\ sent' = sent + 1 /\ sent' \in 0..MaxInputs /\ sent \in Nat
      /\ UNCHANGED <<stripe, charge, shop>> /\ Outside
  BY RedactTells, Sizes DEF Typed, ProvidersTyped
<1>3. ProvidersTyped' /\ Grown
  BY <1>2 DEF Typed, ProvidersTyped, Grown, Begun
<1>4. m \in Messages /\ MessageSound(m)'
  BY <1>1, <1>2 DEF MessageSound, Messages
<1> QED BY <1>1, <1>2, <1>3, <1>4, ProvidersAct

LEMMA ChargeTyped == ASSUME Typed, CreateCharge PROVE Typed'
<1>1. PICK c \in Charges : charge[c] = "none" /\ charge' = [charge EXCEPT ![c] = "PENDING"]
  BY DEF CreateCharge
<1>2. Outside /\ UNCHANGED <<stripe, shop, sent, due>>
  BY DEF CreateCharge, Outside
<1>3. ProvidersTyped'
  BY <1>1, <1>2 DEF Typed, ProvidersTyped, NextStatus
<1>4. Grown
  BY <1>1, <1>2, Sizes DEF Typed, ProvidersTyped, Grown, Begun, Ends
<1> QED BY <1>2, <1>3, <1>4, ProvidersAct

-----------------------------------------------------------------------------
(* What the servers do.                                                    *)

LEMMA ProvidersSame ==
  ASSUME Typed, UNCHANGED providers PROVE ProvidersTyped' /\ Grown
BY SameGrown DEF providers, Typed, ProvidersTyped

LEMMA ServerActs ==
  ASSUME Typed, UNCHANGED providers, RowsTyped', due' \subseteq due, MemTyped', AppliedTyped', JobsTyped'
  PROVE  Typed'
BY ProvidersSame, DueLeaves DEF Typed

\* A step that changes no row.
LEMMA RowsStay ==
  ASSUME Typed, UNCHANGED <<profile, customer, row>>, Fault \/ UNCHANGED faults,
         excused' \in [profile : BOOLEAN, row : BOOLEAN]
  PROVE  RowsTyped'
BY FaultsTyped DEF Typed, RowsTyped

\* A step that takes up a message, or drops it.
LEMMA TakesUp ==
  ASSUME Typed, NEW s \in Servers, UNCHANGED <<database, providers, mem, history>>,
         due' \subseteq due, Fault \/ UNCHANGED faults,
         UNCHANGED job \/ \E j \in Jobs : JobSound(j) /\ Do(s, j)
  PROVE  Typed'
<1>1. ProvidersTyped' /\ Grown
  BY ProvidersSame
<1>2. RowsTyped'
  <2>1. excused' \in [profile : BOOLEAN, row : BOOLEAN]
    BY DEF history, Typed, RowsTyped
  <2> QED BY <2>1, RowsStay DEF database
<1>3. JobsTyped'
  <2>1. ASSUME NEW j \in Jobs, JobSound(j), Do(s, j) PROVE JobsTyped'
    <3>1. JobSound(j)'
      BY <1>1, <2>1, JobStays DEF Typed
    <3> QED BY <1>1, <2>1, <3>1, JobMoves
  <2> QED BY <1>1, <2>1, JobsStay
<1> QED BY <1>1, <1>2, <1>3, MemStays, AppliedStays, ServerActs DEF database, history

LEMMA DueSound ==
  ASSUME Typed, NEW m \in due
  PROVE  /\ m \in Messages /\ MessageSound(m)
         /\ m \in StripeEvents => m \in StripeMessages
         /\ m.kind = "subscription" => m \in ChargeMessages
<1>1. m \in Messages /\ MessageSound(m)
  BY DEF Typed, DueTyped
<1> QED BY <1>1, MessageShapes DEF StripeEvents

LEMMA StripeReceiveTyped ==
  ASSUME Typed, NEW s \in Servers, NEW m \in due, StripeReceive(s, m) PROVE Typed'
<1>1. PICK j : j = [kind |-> "stripe", step |-> "apply", m |-> m]
  OBVIOUS
<1>2. /\ UNCHANGED <<database, providers, mem, history>> /\ m \in StripeEvents
      /\ Fault \/ UNCHANGED faults
      /\ \/ due' = due \ {m} /\ UNCHANGED job
         \/ Do(s, j) /\ UNCHANGED due
  BY <1>1 DEF StripeReceive, IsProcessed
<1>3. j \in Jobs /\ JobSound(j)
  <2>1. m \in StripeMessages /\ MessageSound(m)
    BY <1>2, DueSound
  <2> QED BY <1>1, <2>1 DEF Jobs, StripeJobs, JobSound
<1> QED BY <1>2, <1>3, TakesUp

LEMMA ReadTyped ==
  ASSUME Typed, NEW s \in Servers, GuardRead(s) \/ SettingsRead(s) \/ CustomerRead(s) PROVE Typed'
<1>1. CASE GuardRead(s)
  <2>1. PICK j : j = [kind |-> "guard", step |-> "write"]
    OBVIOUS
  <2>2. j \in Jobs /\ JobSound(j)
    BY <2>1 DEF Jobs, GuardJobs, JobSound
  <2> QED BY <1>1, <2>1, <2>2, TakesUp DEF GuardRead
<1>2. CASE SettingsRead(s)
  <2>1. PICK j : j = [kind |-> "settings", step |-> "save", token |-> ActiveToken]
    OBVIOUS
  <2>2. ActiveToken \in Tokens
    BY Sizes DEF ActiveToken, Typed, RowsTyped, Tokens
  <2>3. j \in Jobs /\ JobSound(j)
    BY <2>1, <2>2 DEF Jobs, StoreJobs, JobSound
  <2> QED BY <1>2, <2>1, <2>3, TakesUp DEF SettingsRead
<1>3. CASE CustomerRead(s)
  <2>1. PICK j : j = [kind |-> "customer", step |-> "save"]
    OBVIOUS
  <2>2. j \in Jobs /\ JobSound(j)
    BY <2>1 DEF Jobs, CustomerJobs, JobSound
  <2> QED BY <1>3, <2>1, <2>2, TakesUp DEF CustomerRead
<1> QED BY <1>1, <1>2, <1>3

LEMMA KnownTyped ==
  ASSUME Typed, NEW s \in Servers, NEW m \in due, Known(s, m) PROVE Typed'
BY TakesUp DEF Known

LEMMA RedactedTyped ==
  ASSUME Typed, NEW s \in Servers, NEW m \in due, ShopRedact(s, m) PROVE Typed'
<1>1. PICK j : j = [kind |-> "redact", step |-> "purge"]
  OBVIOUS
<1>2. j \in Jobs /\ JobSound(j)
  BY <1>1 DEF Jobs, RedactJobs, JobSound
<1> QED BY <1>1, <1>2, TakesUp DEF ShopRedact

LEMMA HookTakeTyped ==
  ASSUME Typed, NEW s \in Servers, NEW m \in due, HookTake(s, m) PROVE Typed'
<1>1. PICK j : j = [kind |-> "hook", step |-> IF row.state = "revoked" THEN "write" ELSE "query",
                    m |-> m, token |-> row.token, status |-> m.status, at |-> m.n]
  OBVIOUS
<1>2. m \in ChargeMessages /\ MessageSound(m) /\ m.n \in Nat /\ m.status \in Ends
  BY DueSound, MessageShapes DEF HookTake, ChargeMessages
<1>3. row.token \in Tokens
  BY DEF Typed, RowsTyped
<1>4. j \in HookJobs /\ j.kind = "hook" /\ j.m = m /\ j.at = m.n
  BY <1>1, <1>2, <1>3 DEF HookJobs
<1>5. JobSound(j) /\ j \in Jobs
  BY <1>2, <1>4 DEF JobSound, MessageSound, Jobs
<1> QED BY <1>1, <1>5, TakesUp DEF HookTake

\* What a server has found out about a charge.
Learnt(j, status, at) == [j EXCEPT !.step = "write", !.status = status, !.at = at]
Kept(j) == [j EXCEPT !.step = "write"]

LEMMA HookGoes ==
  ASSUME NEW j \in HookJobs, NEW status \in Ends, NEW at \in Nat
  PROVE  /\ Learnt(j, status, at) \in HookJobs /\ Learnt(j, status, at).m = j.m
         /\ Learnt(j, status, at).status = status /\ Learnt(j, status, at).at = at
         /\ Kept(j) \in HookJobs /\ Kept(j).m = j.m
         /\ Kept(j).status = j.status /\ Kept(j).at = j.at
BY DEF HookJobs, Learnt, Kept

LEMMA HookQueries ==
  ASSUME Typed, NEW s \in Servers, HookQuery(s)
  PROVE  /\ job[s] \in HookJobs
         /\ UNCHANGED <<database, providers, due, mem, history>> /\ (Fault \/ UNCHANGED faults)
         /\ \E j \in HookJobs :
              /\ JobSound(j) /\ Do(s, j) /\ j.m = job[s].m
              /\ \/ j.status = charge[j.m.of] /\ j.at = sent
                 \/ j.status = job[s].status /\ j.at = job[s].at
<1>1. job[s] \in HookJobs /\ JobSound(job[s])
  BY JobShapes DEF HookQuery, At, Typed, JobsTyped
<1>2. /\ job[s].m \in ChargeMessages /\ job[s].m.kind = "subscription" /\ MessageSound(job[s].m)
      /\ job[s].at \in Nat /\ job[s].m.n <= job[s].at /\ job[s].at <= sent /\ job[s].m.n \in Nat
      /\ job[s].kind = "hook" /\ sent \in Nat
  BY <1>1, Sizes, MessageShapes DEF HookJobs, JobSound, Messages, Typed, ProvidersTyped
<1>3. charge[job[s].m.of] \in Ends
  BY <1>2 DEF MessageSound, Begun
<1>4. PICK a, b : a = Learnt(job[s], charge[job[s].m.of], sent) /\ b = Kept(job[s])
  OBVIOUS
<1>5. /\ a \in HookJobs /\ a.m = job[s].m /\ a.status = charge[job[s].m.of] /\ a.at = sent
      /\ b \in HookJobs /\ b.m = job[s].m /\ b.at = job[s].at /\ b.status = job[s].status
  BY <1>1, <1>2, <1>3, <1>4, HookGoes
<1>6. JobSound(a) /\ JobSound(b)
  BY <1>2, <1>5 DEF JobSound, HookJobs, MessageSound
<1>7. /\ UNCHANGED <<database, providers, due, mem, history>> /\ (Fault \/ UNCHANGED faults)
      /\ Do(s, a) \/ Do(s, b)
  BY <1>4 DEF HookQuery, Learnt, Kept
<1> QED BY <1>1, <1>5, <1>6, <1>7

LEMMA HookQueryTyped == ASSUME Typed, NEW s \in Servers, HookQuery(s) PROVE Typed'
<1>1. PICK j \in HookJobs : JobSound(j) /\ Do(s, j)
  BY HookQueries
<1>2. j \in Jobs
  BY DEF Jobs
<1> QED BY <1>1, <1>2, HookQueries, TakesUp

LEMMA CallbackQueryTyped ==
  ASSUME Typed, NEW s \in Servers, NEW c \in Charges, CallbackQuery(s, c) PROVE Typed'
<1>1. PICK j : j = [kind |-> "callback", step |-> "write", of |-> c, at |-> sent]
  OBVIOUS
<1>2. sent \in Nat
  BY Sizes DEF Typed, ProvidersTyped
<1>3. j \in CallbackJobs /\ j.at = sent /\ j.kind = "callback"
  BY <1>1, <1>2 DEF CallbackJobs
<1>4. j \in Jobs /\ JobSound(j)
  BY <1>2, <1>3 DEF Jobs, JobSound
<1> QED BY <1>1, <1>4, TakesUp DEF CallbackQuery

\* An excuse that depends on what happened.
LEMMA Excuses ==
  ASSUME excused \in [profile : BOOLEAN, row : BOOLEAN]
  PROVE  /\ \A m, at, status : Apply(m, at, status) =>
              /\ applied' = applied \cup {[m |-> m, at |-> at]}
              /\ excused' \in [profile : BOOLEAN, row : BOOLEAN] /\ excused'.row = excused.row
              /\ ~excused'.profile => ~excused.profile /\ ~Overtaken(m, at)
              /\ ~excused'.profile /\ status \notin {"active", "ACTIVE"} => ~PaidBeside(m.of)
<1> SUFFICES ASSUME NEW m, NEW at, NEW status, Apply(m, at, status)
             PROVE  /\ applied' = applied \cup {[m |-> m, at |-> at]}
                    /\ excused' \in [profile : BOOLEAN, row : BOOLEAN] /\ excused'.row = excused.row
                    /\ ~excused'.profile => ~excused.profile /\ ~Overtaken(m, at)
                    /\ ~excused'.profile /\ status \notin {"active", "ACTIVE"} => ~PaidBeside(m.of)
  OBVIOUS
<1>1. PICK c \in BOOLEAN :
        c = (Overtaken(m, at) \/ (status \notin {"active", "ACTIVE"} /\ PaidBeside(m.of)))
  OBVIOUS
<1>2. ExcuseProfile(c)
  BY <1>1, Zenon DEF Apply
<1>3. /\ excused' \in [profile : BOOLEAN, row : BOOLEAN] /\ excused'.row = excused.row
      /\ ~excused'.profile => ~excused.profile /\ ~c
  BY <1>2, ProfileExcused
<1> QED BY <1>1, <1>3 DEF Apply

LEMMA EntitlementTyped ==
  ASSUME NEW m \in StripeMessages
  PROVE  /\ Entitlement(m) \in [status : StatusDomain, paid : BOOLEAN]
         /\ Entitlement(m).status = "active" <=> m.status = "active"
BY BillingAssumption DEF Entitlement, StripeMessages

StripeGoes(j) == [j EXCEPT !.step = "mark"]
LEMMA StripeMade ==
  ASSUME NEW j \in StripeJobs
  PROVE  /\ StripeGoes(j) \in StripeJobs /\ StripeGoes(j).m = j.m /\ StripeGoes(j).kind = "stripe"
         /\ StripeGoes(j).step = "mark"
BY DEF StripeJobs, StripeGoes

LEMMA StripeApplies ==
  ASSUME Typed, NEW s \in Servers, StripeApply(s)
  PROVE  LET m == job[s].m IN
         /\ job[s] \in StripeJobs /\ m \in StripeMessages /\ MessageSound(m)
         /\ UNCHANGED <<row, recorded, providers, due, mem>> /\ (Fault \/ UNCHANGED faults)
         /\ \/ /\ profile' = Entitlement(m) /\ customer' \in Customers
               /\ Apply(m, m.n, m.status) /\ Do(s, StripeGoes(job[s]))
            \/ /\ UNCHANGED <<profile, customer, applied>> /\ ExcuseProfile(TRUE)
               /\ Do(s, StripeGoes(job[s]))
            \/ UNCHANGED <<profile, customer, history>> /\ Done(s)
<1>1. /\ job[s] \in StripeJobs /\ job[s].m \in StripeMessages /\ MessageSound(job[s].m)
      /\ job[s].m.kind = "checkout" => job[s].m.of \in Subs
  <2>1. job[s] \in Jobs /\ JobSound(job[s]) /\ job[s].kind = "stripe"
    BY DEF StripeApply, At, Typed, JobsTyped
  <2>2. job[s] \in StripeJobs /\ job[s].m \in StripeMessages
    BY <2>1, JobShapes DEF StripeJobs
  <2> QED BY <2>1, <2>2 DEF JobSound, StripeMessages
<1>2. (IF job[s].m.kind = "checkout" THEN stripe[job[s].m.of].payer ELSE customer) \in Customers
  BY <1>1 DEF Typed, RowsTyped, ProvidersTyped
<1>3. UNCHANGED <<row, recorded, providers, due, mem>> /\ (Fault \/ UNCHANGED faults)
  BY Zenon DEF StripeApply
<1> QED BY <1>1, <1>2, <1>3, Zenon DEF StripeApply, StripeGoes

LEMMA StripeApplyTyped == ASSUME Typed, NEW s \in Servers, StripeApply(s) PROVE Typed'
<1>1. PICK m, j : m = job[s].m /\ j = StripeGoes(job[s])
  OBVIOUS
<1>2. /\ m \in StripeMessages /\ MessageSound(m)
      /\ UNCHANGED <<row, recorded, providers, due, mem>> /\ (Fault \/ UNCHANGED faults)
      /\ \/ /\ profile' = Entitlement(m) /\ customer' \in Customers
            /\ Apply(m, m.n, m.status) /\ Do(s, j)
         \/ UNCHANGED <<profile, customer, applied>> /\ ExcuseProfile(TRUE) /\ Do(s, j)
         \/ UNCHANGED <<profile, customer, history>> /\ Done(s)
  BY <1>1, StripeApplies
<1>3. ProvidersTyped' /\ Grown
  BY <1>2, ProvidersSame
<1>4. JobsTyped'
  <2>1. j \in Jobs /\ JobSound(j)
    <3>1. j \in StripeJobs /\ j.m = m /\ j.kind = "stripe"
      BY <1>1, StripeApplies, StripeMade
    <3> QED BY <1>2, <3>1 DEF Jobs, JobSound
  <2>2. JobSound(j)'
    BY <1>3, <2>1, JobStays DEF Typed
  <2> QED BY <1>2, <1>3, <2>1, <2>2, JobMoves, JobEnds
<1>5. MemTyped'
  BY <1>2, <1>3, MemStays
<1>6. /\ excused' \in [profile : BOOLEAN, row : BOOLEAN]
      /\ Apply(m, m.n, m.status) => applied' = applied \cup {[m |-> m, at |-> m.n]}
  <2>1. excused \in [profile : BOOLEAN, row : BOOLEAN]
    BY DEF Typed, RowsTyped
  <2>2. ExcuseProfile(TRUE) => excused' \in [profile : BOOLEAN, row : BOOLEAN]
    BY <2>1, ProfileExcused
  <2> QED BY <1>2, <2>1, <2>2, Excuses DEF history
<1>7. RowsTyped'
  BY <1>2, <1>6, FaultsTyped, EntitlementTyped DEF Typed, RowsTyped
<1>8. AppliedTyped'
  <2>1. CASE applied' = applied
    BY <1>3, <2>1, AppliedStays
  <2>2. CASE applied' = applied \cup {[m |-> m, at |-> m.n]}
    <3>1. m.n \in Nat /\ m.n <= sent'
      BY <1>2, MessageShapes DEF MessageSound, Messages, providers
    <3>2. [m |-> m, at |-> m.n] \in AppliedTypes /\ AppliedSound([m |-> m, at |-> m.n])'
      BY <1>2, <3>1 DEF AppliedTypes, AppliedSound
    <3> QED BY <1>3, <2>2, <3>2, OthersStay DEF AppliedTyped, Typed
  <2> QED BY <1>2, <1>6, <2>1, <2>2 DEF history
<1> QED BY <1>2, <1>4, <1>5, <1>7, <1>8, ServerActs

LEMMA HookWrites ==
  ASSUME Typed, NEW s \in Servers, HookWrite(s)
  PROVE  LET j == job[s] IN
         /\ j \in HookJobs /\ JobSound(j) /\ MessageSound(j.m)
         /\ UNCHANGED <<customer, row, recorded, providers>> /\ Done(s)
         /\ \/ /\ profile' \in [status : StatusDomain, paid : BOOLEAN]
               /\ profile'.status = "active" <=> j.status = "ACTIVE"
               /\ Apply(j.m, j.at, j.status) /\ Answer(s, j.m)
            \/ UNCHANGED <<profile, due, mem, history>> /\ (Fault \/ UNCHANGED faults)
<1>1. job[s] \in HookJobs /\ JobSound(job[s]) /\ MessageSound(job[s].m)
  <2>1. job[s] \in Jobs /\ JobSound(job[s]) /\ job[s].kind = "hook"
    BY DEF HookWrite, At, Typed, JobsTyped
  <2> QED BY <2>1, JobShapes DEF JobSound
<1>2. UNCHANGED <<customer, row, recorded, providers>> /\ Done(s)
  BY Zenon DEF HookWrite
<1>3. ASSUME Accepted(job[s].status),
             profile' = [status |-> StatusName[job[s].status], paid |-> job[s].status = "ACTIVE"]
      PROVE  /\ profile' \in [status : StatusDomain, paid : BOOLEAN]
             /\ profile'.status = "active" <=> job[s].status = "ACTIVE"
  <2>1. job[s].status \in Ends
    BY <1>1 DEF HookJobs
  <2>2. PICK st : st = job[s].status
    OBVIOUS
  <2>3. StatusName[st] \in StatusDomain /\ (StatusName[st] = "active" <=> st = "ACTIVE")
    BY <1>3, <2>1, <2>2 DEF Accepted, StatusName, Ends
  <2>4. profile' = [status |-> StatusName[st], paid |-> st = "ACTIVE"]
    BY <1>3, <2>2
  <2> QED BY <2>2, <2>3, <2>4
<1> QED BY <1>1, <1>2, <1>3, Zenon DEF HookWrite

LEMMA AnswerTyped ==
  ASSUME Typed, NEW s \in Servers, NEW m \in Messages, m.n <= sent, Answer(s, m),
         UNCHANGED providers, recorded' \subseteq recorded \cup (StripeMessages \cap {m})
  PROVE  MemTyped' /\ due' \subseteq due /\ (Fault \/ UNCHANGED faults)
<1>1. sent' = sent
  BY DEF providers
<1> QED BY <1>1, Answers DEF MemTyped, Typed

LEMMA HookWriteTyped == ASSUME Typed, NEW s \in Servers, HookWrite(s) PROVE Typed'
<1>1. PICK j : j = job[s]
  OBVIOUS
<1>2. /\ j \in HookJobs /\ JobSound(j) /\ MessageSound(j.m)
      /\ UNCHANGED <<customer, row, recorded, providers>> /\ Done(s)
      /\ \/ /\ profile' \in [status : StatusDomain, paid : BOOLEAN]
            /\ Apply(j.m, j.at, j.status) /\ Answer(s, j.m)
         \/ UNCHANGED <<profile, due, mem, history>> /\ (Fault \/ UNCHANGED faults)
  BY <1>1, HookWrites
<1>3. ProvidersTyped' /\ Grown /\ JobsTyped'
  BY <1>2, ProvidersSame, JobEnds
<1>4. excused \in [profile : BOOLEAN, row : BOOLEAN]
  BY DEF Typed, RowsTyped
<1>5. CASE /\ profile' \in [status : StatusDomain, paid : BOOLEAN]
           /\ Apply(j.m, j.at, j.status) /\ Answer(s, j.m)
  <2>1. j.m \in ChargeMessages /\ j.m \in Messages /\ j.at \in Nat
    BY <1>2 DEF HookJobs, Messages
  <2>2. j.m.n <= sent /\ j.m.n <= j.at /\ j.at <= sent /\ j.m.n \in Nat
    BY <1>2, <2>1, MessageShapes DEF HookJobs, JobSound, MessageSound
  <2>3. MemTyped' /\ due' \subseteq due /\ (Fault \/ UNCHANGED faults)
    BY <1>2, <1>5, <2>1, <2>2, AnswerTyped
  <2>4. /\ applied' = applied \cup {[m |-> j.m, at |-> j.at]}
        /\ excused' \in [profile : BOOLEAN, row : BOOLEAN]
    BY <1>4, <1>5, Excuses
  <2>5. AppliedTyped'
    <3>1. sent' = sent
      BY <1>2 DEF providers
    <3>2. [m |-> j.m, at |-> j.at] \in AppliedTypes /\ AppliedSound([m |-> j.m, at |-> j.at])'
      BY <2>1, <2>2, <3>1 DEF AppliedTypes, AppliedSound
    <3> QED BY <1>3, <2>4, <3>2, OthersStay DEF AppliedTyped, Typed
  <2>6. RowsTyped'
    BY <1>2, <1>5, <2>3, <2>4, FaultsTyped DEF Typed, RowsTyped
  <2> QED BY <1>2, <1>3, <2>3, <2>5, <2>6, ServerActs
<1>6. CASE UNCHANGED <<profile, due, mem, history>> /\ (Fault \/ UNCHANGED faults)
  <2>1. RowsTyped'
    BY <1>2, <1>4, <1>6, RowsStay DEF history
  <2> QED BY <1>2, <1>3, <1>6, <2>1, MemStays, AppliedStays, ServerActs DEF history
<1> QED BY <1>2, <1>5, <1>6

LEMMA StripeMarks ==
  ASSUME Typed, NEW s \in Servers, StripeMark(s)
  PROVE  LET m == job[s].m IN
         /\ job[s] \in StripeJobs /\ m \in StripeMessages /\ MessageSound(m)
         /\ UNCHANGED <<profile, customer, row, providers, history>> /\ Done(s)
         /\ \/ recorded' = recorded \cup {m} /\ Answer(s, m)
            \/ UNCHANGED <<recorded, mem>> /\ due' = due \ {m} /\ Fault
<1>1. job[s] \in StripeJobs /\ job[s].m \in StripeMessages /\ MessageSound(job[s].m)
  <2>1. job[s] \in Jobs /\ JobSound(job[s]) /\ job[s].kind = "stripe"
    BY DEF StripeMark, At, Typed, JobsTyped
  <2>2. job[s] \in StripeJobs /\ job[s].m \in StripeMessages
    BY <2>1, JobShapes DEF StripeJobs
  <2> QED BY <2>1, <2>2 DEF JobSound
<1> QED BY <1>1 DEF StripeMark

LEMMA StripeMarkTyped == ASSUME Typed, NEW s \in Servers, StripeMark(s) PROVE Typed'
<1>1. PICK m : m = job[s].m
  OBVIOUS
<1>2. /\ m \in StripeMessages /\ MessageSound(m) /\ m \in Messages
      /\ UNCHANGED <<profile, customer, row, providers, history>> /\ Done(s)
      /\ \/ recorded' = recorded \cup {m} /\ Answer(s, m)
         \/ UNCHANGED <<recorded, mem>> /\ due' = due \ {m} /\ Fault
  BY <1>1, StripeMarks DEF Messages
<1>3. ProvidersTyped' /\ Grown /\ JobsTyped'
  BY <1>2, ProvidersSame, JobEnds
<1>4. MemTyped' /\ due' \subseteq due /\ (Fault \/ UNCHANGED faults)
  <2>1. m.n <= sent
    BY <1>2 DEF MessageSound
  <2>2. CASE recorded' = recorded \cup {m} /\ Answer(s, m)
    BY <1>2, <2>1, <2>2, AnswerTyped
  <2>3. CASE UNCHANGED <<recorded, mem>> /\ due' = due \ {m} /\ Fault
    BY <1>3, <2>3, MemStays
  <2> QED BY <1>2, <2>2, <2>3
<1>5. RowsTyped'
  <2>1. excused' \in [profile : BOOLEAN, row : BOOLEAN]
    BY <1>2 DEF history, Typed, RowsTyped
  <2> QED BY <1>2, <1>4, <2>1, RowsStay
<1> QED BY <1>2, <1>3, <1>4, <1>5, AppliedStays, ServerActs DEF history

\* A step that writes the profile or the store row.
LEMMA RowActs ==
  ASSUME Typed, UNCHANGED <<recorded, providers, applied>>,
         profile' \in [status : StatusDomain, paid : BOOLEAN], customer' \in Customers,
         row' \in [state : {"none", "active", "revoked"}, token : Tokens],
         excused' \in [profile : BOOLEAN, row : BOOLEAN],
         due' \subseteq due, UNCHANGED mem \/ MemTyped', Fault \/ UNCHANGED faults,
         UNCHANGED job \/ \E s \in Servers : Done(s)
  PROVE  Typed'
<1>1. ProvidersTyped' /\ Grown
  BY ProvidersSame
<1>2. RowsTyped'
  BY FaultsTyped DEF Typed, RowsTyped
<1>3. JobsTyped'
  BY <1>1, JobsStay, JobEnds
<1> QED BY <1>1, <1>2, <1>3, MemStays, AppliedStays, ServerActs

LEMMA RowTypes ==
  ASSUME Typed
  PROVE  /\ profile \in [status : StatusDomain, paid : BOOLEAN] /\ customer \in Customers
         /\ row \in [state : {"none", "active", "revoked"}, token : Tokens]
         /\ excused \in [profile : BOOLEAN, row : BOOLEAN]
BY DEF Typed, RowsTyped

LEMMA Excusing ==
  ASSUME Typed
  PROVE  /\ \A c \in BOOLEAN :
              ExcuseProfile(c) \/ ExcuseRow(c) => excused' \in [profile : BOOLEAN, row : BOOLEAN]
         /\ ExcuseBoth => excused' \in [profile : BOOLEAN, row : BOOLEAN]
<1>1. excused \in [profile : BOOLEAN, row : BOOLEAN]
  BY RowTypes
<1> QED BY <1>1, ProfileExcused, RowExcused, BothExcused

LEMMA Stores ==
  ASSUME NEW st \in {"none", "active", "revoked"}, NEW t \in Tokens, Store(st, t)
  PROVE  row' \in [state : {"none", "active", "revoked"}, token : Tokens]
BY DEF Store

LEMMA Revokes ==
  ASSUME Revoke
  PROVE  row' \in [state : {"none", "active", "revoked"}, token : Tokens] /\ row'.state = "revoked"
BY Sizes DEF Revoke, Store, Tokens

LEMMA GuardWriteTyped == ASSUME Typed, NEW s \in Servers, GuardWrite(s) PROVE Typed'
<1>1. profile' \in [status : StatusDomain, paid : BOOLEAN]
  BY RowTypes, BillingAssumption DEF GuardWrite
<1>2. PICK c \in BOOLEAN : c = (profile.status # "trialing")
  OBVIOUS
<1>3. excused' \in [profile : BOOLEAN, row : BOOLEAN]
  BY <1>2, Excusing DEF GuardWrite
<1> QED BY <1>1, <1>3, RowTypes, RowActs DEF GuardWrite

LEMMA CallbackWriteTyped == ASSUME Typed, NEW s \in Servers, CallbackWrite(s) PROVE Typed'
<1>1. profile' \in [status : StatusDomain, paid : BOOLEAN]
  BY BillingAssumption DEF CallbackWrite
<1>2. PICK c \in BOOLEAN : c = Overtaken(job[s], job[s].at)
  BY DEF Overtaken
<1>3. excused' \in [profile : BOOLEAN, row : BOOLEAN]
  BY <1>2, Excusing DEF CallbackWrite
<1> QED BY <1>1, <1>3, RowTypes, RowActs DEF CallbackWrite

LEMMA SaveTokens ==
  ASSUME Typed, NEW s \in Servers, At(s, "connect", "save") \/ At(s, "settings", "save")
  PROVE  job[s] \in StoreJobs /\ job[s].token \in Tokens
<1>1. job[s] \in StoreJobs
  BY JobShapes DEF At, Typed, JobsTyped
<1> QED BY <1>1 DEF StoreJobs

LEMMA ConnectSaveTyped == ASSUME Typed, NEW s \in Servers, ConnectSave(s) PROVE Typed'
<1>1. row' \in [state : {"none", "active", "revoked"}, token : Tokens]
  BY SaveTokens, Stores, RowTypes DEF ConnectSave
<1>2. PICK c \in BOOLEAN : c = ~ValidToken(job[s].token)
  BY DEF ValidToken
<1>3. excused' \in [profile : BOOLEAN, row : BOOLEAN]
  BY <1>2, Excusing DEF ConnectSave
<1> QED BY <1>1, <1>3, RowTypes, RowActs DEF ConnectSave

LEMMA SettingsSaveTyped == ASSUME Typed, NEW s \in Servers, SettingsSave(s) PROVE Typed'
<1>1. row' \in [state : {"none", "active", "revoked"}, token : Tokens]
  BY SaveTokens, Stores DEF SettingsSave
<1>2. PICK c \in BOOLEAN : c = (row # row')
  OBVIOUS
<1>3. excused' \in [profile : BOOLEAN, row : BOOLEAN]
  BY <1>2, Excusing DEF SettingsSave
<1> QED BY <1>1, <1>3, RowTypes, RowActs DEF SettingsSave

LEMMA PurgeTyped == ASSUME Typed, NEW s \in Servers, Purge(s) PROVE Typed'
<1>1. row' \in [state : {"none", "active", "revoked"}, token : Tokens]
  <2>1. 0 \in Tokens
    BY Sizes DEF Tokens
  <2> QED BY <2>1, Stores, RowTypes DEF Purge
<1>2. shop.installed \in BOOLEAN
  BY DEF Typed, ProvidersTyped
<1>3. excused' \in [profile : BOOLEAN, row : BOOLEAN]
  BY <1>2, Excusing, RowTypes DEF Purge
<1> QED BY <1>1, <1>3, RowTypes, RowActs DEF Purge

LEMMA UninstalledTyped ==
  ASSUME Typed, NEW s \in Servers, NEW m \in due, Uninstalled(s, m) PROVE Typed'
<1>1. row' \in [state : {"none", "active", "revoked"}, token : Tokens]
  BY Revokes DEF Uninstalled
<1>2. shop.installed \in BOOLEAN
  BY DEF Typed, ProvidersTyped
<1>3. excused' \in [profile : BOOLEAN, row : BOOLEAN]
  BY <1>2, Excusing DEF Uninstalled
<1>4. m \in Messages /\ m.n <= sent
  BY DueSound DEF MessageSound
<1>5. due' \subseteq due /\ (UNCHANGED mem \/ MemTyped') /\ (Fault \/ UNCHANGED faults)
  <2>1. CASE Answer(s, m)
    <3>1. UNCHANGED <<providers, recorded>>
      BY DEF Uninstalled
    <3> QED BY <1>4, <2>1, <3>1, AnswerTyped
  <2> QED BY <2>1 DEF Uninstalled
<1> QED BY <1>1, <1>3, <1>5, RowTypes, RowActs DEF Uninstalled

LEMMA UntrackedTyped ==
  ASSUME Typed, NEW s \in Servers, NEW m \in due, Untracked(s, m) PROVE Typed'
<1>1. excused' \in [profile : BOOLEAN, row : BOOLEAN]
  BY Excusing DEF Untracked
<1>2. m \in Messages /\ m.n <= sent
  BY DueSound DEF MessageSound
<1>3. UNCHANGED <<profile, customer, row, recorded, providers, job, applied>> /\ Answer(s, m)
  BY DEF Untracked, database
<1>4. due' \subseteq due /\ MemTyped' /\ (Fault \/ UNCHANGED faults)
  BY <1>2, <1>3, AnswerTyped
<1> QED BY <1>1, <1>3, <1>4, RowTypes, RowActs

LEMMA AloneTyped ==
  ASSUME Typed, Disconnect \/ (\E m \in due : TooOld(m)) PROVE Typed'
<1>1. CASE Disconnect
  <2>1. row' \in [state : {"none", "active", "revoked"}, token : Tokens]
    BY <1>1, Revokes DEF Disconnect
  <2>2. excused' \in [profile : BOOLEAN, row : BOOLEAN]
    BY <1>1, Excusing DEF Disconnect
  <2> QED BY <1>1, <2>1, <2>2, RowTypes, RowActs DEF Disconnect
<1>2. ASSUME NEW m \in due, TooOld(m) PROVE Typed'
  <2>1. excused' \in [profile : BOOLEAN, row : BOOLEAN]
    BY <1>2, Excusing DEF TooOld
  <2>2. UNCHANGED <<profile, customer, row, recorded, providers, mem, job, applied>>
        /\ due' \subseteq due /\ Fault
    BY <1>2 DEF TooOld, database
  <2> QED BY <2>1, <2>2, RowTypes, RowActs
<1> QED BY <1>1, <1>2

\* The id of a customer is saved at Stripe and in the profile; all else stays.
LEMMA CustomerSaves ==
  ASSUME NEW s \in Servers, CustomerSave(s)
  PROVE  /\ customer' \in {customer, "main", "other", "mock"} /\ Done(s)
         /\ Fault \/ UNCHANGED faults
         /\ UNCHANGED <<profile, row, recorded, stripe, charge, shop, sent, due, mem>>
         /\ UNCHANGED <<applied, unknown, missed, excused>>
BY DEF CustomerSave, history

LEMMA CustomerSaveTyped == ASSUME Typed, NEW s \in Servers, CustomerSave(s) PROVE Typed'
<1>1. ProvidersTyped' /\ Grown
  BY CustomerSaves, SameGrown DEF Typed, ProvidersTyped
<1>2. RowsTyped'
  <2>1. customer' \in Customers
    BY CustomerSaves, RowTypes DEF Customers
  <2> QED BY <2>1, CustomerSaves, FaultsTyped DEF Typed, RowsTyped
<1>3. JobsTyped' /\ MemTyped' /\ AppliedTyped' /\ DueTyped'
  BY <1>1, CustomerSaves, JobEnds, MemStays, AppliedStays, DueLeaves
<1> QED BY <1>1, <1>2, <1>3 DEF Typed

LEMMA CrashTyped == ASSUME Typed, NEW s \in Servers, Crash(s) PROVE Typed'
<1>1. UNCHANGED <<profile, customer, row, recorded, providers, due, applied>> /\ Done(s) /\ Fault
  BY DEF Crash, database
<1>2. PICK c \in BOOLEAN : c = At(s, "connect", "save")
  BY DEF At
<1>3. excused' \in [profile : BOOLEAN, row : BOOLEAN]
  BY <1>2, Excusing DEF Crash
<1>4. MemTyped'
  <2>1. mem' = [mem EXCEPT ![s] = {}] /\ sent' = sent
    BY <1>1 DEF Crash, providers
  <2> QED BY <1>1, <2>1 DEF MemTyped, Typed
<1> QED BY <1>1, <1>3, <1>4, RowTypes, RowActs

LEMMA InstallTyped == ASSUME Typed, NEW s \in Servers, Install(s) PROVE Typed'
<1>1. /\ sent < MaxInputs /\ sent' = sent + 1 /\ sent \in Nat
      /\ shop' = [installed |-> TRUE, times |-> shop.times + 1]
      /\ shop.times \in Nat /\ shop.times <= sent
      /\ UNCHANGED <<profile, customer, row, recorded, stripe, charge, due, mem, applied>>
  BY Sizes DEF Install, database, Typed, ProvidersTyped
<1>2. ProvidersTyped' /\ Grown
  BY <1>1, Sizes DEF Typed, ProvidersTyped, Grown, Begun
<1>3. PICK j : j = [kind |-> "connect", step |-> "save", token |-> shop.times + 1]
  OBVIOUS
<1>4. j \in Jobs /\ JobSound(j)'
  <2>1. shop.times + 1 \in Tokens
    BY <1>1, Sizes DEF Tokens
  <2> QED BY <1>3, <2>1 DEF Jobs, StoreJobs, JobSound
<1>5. /\ Do(s, j) \/ UNCHANGED job
      /\ Fault \/ UNCHANGED faults
      /\ ExcuseRow(TRUE) \/ UNCHANGED excused
  BY <1>3 DEF Install
<1>6. JobsTyped'
  BY <1>2, <1>4, <1>5, JobMoves, JobsStay
<1>7. RowsTyped'
  BY <1>1, <1>5, Excusing, FaultsTyped, RowTypes DEF RowsTyped, Typed
<1> QED BY <1>1, <1>2, <1>6, <1>7, MemStays, AppliedStays, DueLeaves DEF Typed

LEMMA Stuttering == ASSUME Typed, UNCHANGED vars PROVE Typed'
<1>1. UNCHANGED <<profile, customer, row, recorded, stripe, charge, shop, sent>>
  BY DEF vars, database, providers
<1>2. UNCHANGED <<due, mem, job, faults, applied, excused>>
  BY DEF vars, history
<1> QED BY <1>1, <1>2 DEF Typed, RowsTyped, ProvidersTyped, DueTyped, MemTyped, AppliedTyped, JobsTyped,
           MessageSound, JobSound, AppliedSound, Begun

LEMMA NextTyped == ASSUME Typed, [Next]_vars PROVE Typed'
<1>1. CASE Environment
  BY <1>1, StripeTyped, ShopifyTyped, RedactTyped, ChargeTyped, AloneTyped DEF Environment
<1>2. ASSUME NEW s \in Servers, NEW m \in due, Receive(s, m) PROVE Typed'
  BY <1>2, StripeReceiveTyped, KnownTyped, UntrackedTyped, UninstalledTyped, HookTakeTyped, RedactedTyped
  DEF Receive
<1>3. ASSUME NEW s \in Servers, Proceed(s) PROVE Typed'
  BY <1>3, CustomerSaveTyped, StripeApplyTyped, StripeMarkTyped, GuardWriteTyped, ConnectSaveTyped, SettingsSaveTyped,
     HookQueryTyped, HookWriteTyped, CallbackWriteTyped, PurgeTyped DEF Proceed
<1>4. ASSUME NEW s \in Servers,
             \/ CustomerRead(s) \/ GuardRead(s) \/ Install(s) \/ SettingsRead(s)
             \/ \E c \in Charges : CallbackQuery(s, c)
             \/ Crash(s)
      PROVE  Typed'
  BY <1>4, ReadTyped, InstallTyped, CallbackQueryTyped, CrashTyped
<1> QED BY <1>1, <1>2, <1>3, <1>4, Stuttering DEF Next

LEMMA InitTyped == ASSUME Init PROVE Typed
<1>1. RowsTyped
  BY BillingAssumption, Sizes DEF Init, RowsTyped, Customers, Tokens
<1>2. ProvidersTyped
  BY Sizes DEF Init, ProvidersTyped, SubStatuses, Customers, NextStatus
<1>3. DueTyped /\ MemTyped /\ AppliedTyped
  BY DEF Init, DueTyped, MemTyped, AppliedTyped
<1>4. JobsTyped
  BY DEF Init, JobsTyped, Jobs, JobSound, Idle
<1> QED BY <1>1, <1>2, <1>3, <1>4 DEF Typed

LEMMA TypedTypeOK == ASSUME Typed PROVE TypeOK
<1> DEFINE Sent ==
      [n : 1..MaxInputs, of : {"shop"} \cup Subs \cup Charges,
       kind : {"checkout", "updated", "deleted", "subscription", "uninstalled", "redact"},
       status : {"active", "past_due", "unpaid", "canceled"} \cup DOMAIN NextStatus]
<1>1. row.token \in 0..MaxInputs /\ row \in [state : {"none", "active", "revoked"}, token : 0..MaxInputs]
  BY RowTypes DEF Tokens
<1>2. StripeMessages \subseteq Sent
  BY DEF StripeMessages, Numbers
<1>3. ChargeMessages \subseteq Sent
  BY DEF ChargeMessages, Numbers, Ends, NextStatus
<1>4. ShopMessages \subseteq Sent
  BY DEF ShopMessages, Numbers, NextStatus
<1>5. due \subseteq Sent
  BY <1>2, <1>3, <1>4 DEF Typed, DueTyped, Messages
<1> QED BY <1>1, <1>5 DEF TypeOK, Typed, RowsTyped, ProvidersTyped

LEMMA TypedHolds == Spec => []Typed
<1>1. Init => Typed
  BY InitTyped
<1>2. Typed /\ [Next]_vars => Typed'
  BY NextTyped
<1> QED BY <1>1, <1>2, PTL DEF Spec

\* Whatever the providers call their states, the profile only ever takes a
\* status the table's constraint allows, and the rows, charges and messages
\* have their types.
THEOREM BillingTyped == Spec => []TypeOK
<1>1. Typed => TypeOK
  BY TypedTypeOK
<1> QED BY <1>1, TypedHolds, PTL

-----------------------------------------------------------------------------
(* The store row.                                                          *)

\* The row holds the token of the installation, or a server is about to save it;
\* once the app is gone, the webhook that revokes the row is still to be handled.
Saved == row = [state |-> "active", token |-> shop.times]
Saving(s) == job[s] = [kind |-> "connect", step |-> "save", token |-> shop.times]
Unheard(m) == m.kind = "uninstalled" /\ \A s \in Servers : m \notin mem[s]
StoreSound ==
  ~excused.row =>
    /\ shop.installed => Saved \/ \E s \in Servers : Saving(s)
    /\ ~shop.installed /\ row.state = "active" => \E m \in due : Unheard(m)

\* What leaves the store and the webhooks about it alone.
StoreQuiet ==
  /\ ~excused'.row => ~excused.row
  /\ UNCHANGED <<row, shop>>
  /\ \A s \in Servers : At(s, "connect", "save") => job'[s] = job[s]
  /\ \A m \in due : Unheard(m) => m \in due' /\ Unheard(m)'

LEMMA StoreStays == ASSUME StoreSound, StoreQuiet PROVE StoreSound'
<1>1. \A s \in Servers : Saving(s) => Saving(s)'
  BY DEF StoreQuiet, Saving, At
<1>2. Saved => Saved'
  BY DEF StoreQuiet, Saved
<1> QED BY <1>1, <1>2 DEF StoreSound, StoreQuiet

LEMMA OtherJobs ==
  ASSUME Typed, NEW s \in Servers, NEW j, Do(s, j)
  PROVE  job'[s] = j /\ \A t \in Servers : t # s => job'[t] = job[t]
BY DEF Do, Typed, JobsTyped

LEMMA SavesStay ==
  ASSUME Typed, NEW s \in Servers, ~At(s, "connect", "save"), UNCHANGED job \/ \E j : Do(s, j)
  PROVE  \A t \in Servers : At(t, "connect", "save") => job'[t] = job[t]
BY OtherJobs

LEMMA IdleAt ==
  ASSUME NEW s \in Servers, NEW kind, NEW step, kind # "idle" PROVE job[s] = Idle => ~At(s, kind, step)
BY DEF At, Idle

\* Only webhooks of other kinds leave, or are remembered.
LEMMA UnheardStays ==
  ASSUME Typed, NEW s \in Servers, NEW m \in Messages, m.n <= sent, m.kind # "uninstalled",
         UNCHANGED <<due, mem>> \/ Answer(s, m) \/ (UNCHANGED mem /\ due' = due \ {m})
  PROVE  \A x \in due : Unheard(x) => x \in due' /\ Unheard(x)'
<1> SUFFICES ASSUME NEW x \in due, Unheard(x) PROVE x \in due' /\ Unheard(x)'
  OBVIOUS
<1>1. x # m
  BY DEF Unheard
<1>2. CASE Answer(s, m)
  BY <1>1, <1>2, Answers DEF Unheard
<1> QED BY <1>1, <1>2 DEF Unheard

LEMMA StoreByProviders ==
  ASSUME Typed, StoreSound, Outside, UNCHANGED shop, due \subseteq due' PROVE StoreSound'
BY StoreStays DEF StoreQuiet, Outside, database, history, Unheard

LEMMA StoreUninstall == ASSUME Typed, StoreSound, Uninstall PROVE StoreSound'
<1>1. PICK m \in due' : m.kind = "uninstalled" /\ m.n = sent + 1
  BY UninstallTells
<1>2. Outside /\ shop' = [shop EXCEPT !.installed = FALSE] /\ sent \in Nat
  BY UninstallTells, Sizes DEF Typed, ProvidersTyped
<1>3. ASSUME NEW s \in Servers PROVE m \notin mem'[s]
  BY <1>1, <1>2 DEF Outside, Typed, MemTyped
<1>4. shop'.installed = FALSE /\ Unheard(m)'
  BY <1>1, <1>2, <1>3 DEF Typed, ProvidersTyped, Unheard
<1> QED BY <1>1, <1>4 DEF StoreSound

\* A server that takes up a message, or goes on to its next call.
LEMMA StoreByServer ==
  ASSUME Typed, StoreSound, NEW s \in Servers, NEW m \in Messages, m.n <= sent, m.kind # "uninstalled",
         UNCHANGED <<row, shop>>, ~excused'.row => ~excused.row,
         ~At(s, "connect", "save"), UNCHANGED job \/ \E j : Do(s, j),
         UNCHANGED <<due, mem>> \/ Answer(s, m) \/ (UNCHANGED mem /\ due' = due \ {m})
  PROVE  StoreSound'
<1>1. \A t \in Servers : At(t, "connect", "save") => job'[t] = job[t]
  BY SavesStay
<1>2. \A x \in due : Unheard(x) => x \in due' /\ Unheard(x)'
  BY UnheardStays
<1> QED BY <1>1, <1>2, StoreStays DEF StoreQuiet

LEMMA StoreReceive ==
  ASSUME Typed, StoreSound, NEW s \in Servers, NEW m \in due, Receive(s, m) PROVE StoreSound'
<1>1. m \in Messages /\ m.n <= sent
  BY DueSound DEF MessageSound
<1>2. CASE StripeReceive(s, m) \/ HookTake(s, m) \/ ShopRedact(s, m)
  <2>1. /\ UNCHANGED <<row, shop>> /\ (~excused'.row => ~excused.row)
        /\ UNCHANGED job \/ \E j : Do(s, j)
        /\ UNCHANGED mem /\ (UNCHANGED due \/ due' = due \ {m})
        /\ m.kind # "uninstalled" /\ job[s] = Idle
    BY <1>2 DEF StripeReceive, StripeEvents, HookTake, ShopRedact, database, providers, history
  <2>2. ~At(s, "connect", "save")
    BY <2>1, IdleAt
  <2> QED BY <1>1, <2>1, <2>2, StoreByServer
<1>3. CASE Known(s, m)
  <2>1. /\ UNCHANGED <<row, shop, job, excused, mem>> /\ due' = due \ {m} /\ m \in mem[s]
    BY <1>3 DEF Known, database, providers, history
  <2>2. \A x \in due : Unheard(x) => x \in due' /\ Unheard(x)'
    BY <2>1 DEF Unheard
  <2> QED BY <2>1, <2>2, StoreStays DEF StoreQuiet
<1>4. CASE Untracked(s, m)
  BY <1>4, BothExcused DEF Untracked, StoreSound
<1>5. CASE Uninstalled(s, m)
  <2>1. row'.state = "revoked" /\ shop' = shop
    BY <1>5, Revokes DEF Uninstalled, providers
  <2>2. shop.installed \in BOOLEAN /\ ExcuseRow(shop.installed)
    BY <1>5 DEF Uninstalled, Typed, ProvidersTyped
  <2>3. ~excused'.row => ~shop.installed
    BY <2>2, RowTypes, RowExcused
  <2> QED BY <2>1, <2>3 DEF StoreSound
<1> QED BY <1>2, <1>3, <1>4, <1>5 DEF Receive

LEMMA StoreSaves ==
  ASSUME Typed, StoreSound, NEW s \in Servers, ConnectSave(s) \/ SettingsSave(s) \/ Purge(s)
  PROVE  StoreSound'
<1>1. CASE ConnectSave(s)
  <2>1. PICK c \in BOOLEAN : c = ~ValidToken(job[s].token)
    BY DEF ValidToken
  <2>2. shop' = shop /\ (ExcuseRow(TRUE) \/ (ExcuseRow(c) /\ Store("active", job[s].token)))
    BY <1>1, <2>1 DEF ConnectSave, providers
  <2>3. CASE ExcuseRow(TRUE)
    BY <2>3, RowTypes, RowExcused DEF StoreSound
  <2>4. CASE ExcuseRow(c) /\ Store("active", job[s].token)
    <3>1. ~excused'.row => ValidToken(job[s].token)
      BY <2>1, <2>4, RowTypes, RowExcused
    <3>2. ~excused'.row => Saved' /\ shop'.installed
      BY <2>2, <2>4, <3>1 DEF Saved, Store, ValidToken
    <3> QED BY <3>2 DEF StoreSound
  <2> QED BY <2>2, <2>3, <2>4
<1>2. CASE SettingsSave(s)
  <2>1. PICK c \in BOOLEAN : c = (row # row')
    OBVIOUS
  <2>2. ~excused'.row => ~excused.row /\ UNCHANGED row
    BY <1>2, <2>1, RowTypes, RowExcused DEF SettingsSave
  <2>3. UNCHANGED <<shop, due, mem>> /\ Done(s) /\ ~At(s, "connect", "save")
    BY <1>2 DEF SettingsSave, providers, At
  <2>4. ~excused'.row => StoreQuiet
    BY <2>2, <2>3, SavesStay DEF StoreQuiet, Done, Unheard
  <2> QED BY <2>4, StoreStays DEF StoreSound
<1>3. CASE Purge(s)
  <2>1. UNCHANGED <<shop, due, mem>> /\ Done(s) /\ ~At(s, "connect", "save")
    BY <1>3 DEF Purge, providers, At
  <2>2. CASE UNCHANGED <<row, excused>>
    BY <2>1, <2>2, SavesStay, StoreStays DEF StoreQuiet, Done, Unheard
  <2>3. CASE Store("none", 0) /\ ExcuseRow(shop.installed)
    <3>1. row'.state = "none"
      BY <2>3 DEF Store
    <3>2. shop.installed \in BOOLEAN
      BY DEF Typed, ProvidersTyped
    <3>3. ~excused'.row => ~shop.installed
      BY <2>3, <3>2, RowTypes, RowExcused
    <3> QED BY <2>1, <3>1, <3>3 DEF StoreSound
  <2> QED BY <1>3, <2>2, <2>3 DEF Purge
<1> QED BY <1>1, <1>2, <1>3

LEMMA StoreProceed ==
  ASSUME Typed, StoreSound, NEW s \in Servers,
         \/ CustomerSave(s) \/ StripeApply(s) \/ StripeMark(s) \/ GuardWrite(s)
         \/ HookQuery(s) \/ HookWrite(s) \/ CallbackWrite(s)
  PROVE  StoreSound'
<1>1. ASSUME NEW m \in StripeMessages \cup ChargeMessages
      PROVE  m \in Messages /\ m.kind # "uninstalled"
  BY <1>1 DEF Messages, StripeMessages, ChargeMessages
<1>2. /\ excused \in [profile : BOOLEAN, row : BOOLEAN]
      /\ \A c \in BOOLEAN : ExcuseProfile(c) => excused'.row = excused.row
  BY RowTypes, ProfileExcused
<1>3. CASE StripeApply(s)
  <2>1. /\ job[s].m \in StripeMessages /\ job[s].m.n <= sent
        /\ UNCHANGED <<row, due, mem, providers>> /\ \E j : Do(s, j)
        /\ \/ Apply(job[s].m, job[s].m.n, job[s].m.status)
           \/ ExcuseProfile(TRUE)
           \/ UNCHANGED history
    BY <1>3, StripeApplies DEF MessageSound, Done
  <2>2. UNCHANGED shop /\ excused'.row = excused.row /\ ~At(s, "connect", "save")
    BY <1>2, <1>3, <2>1, Excuses DEF providers, history, StripeApply, At
  <2> QED BY <1>1, <2>1, <2>2, StoreByServer
<1>4. CASE StripeMark(s)
  <2>1. /\ job[s].m \in StripeMessages /\ job[s].m.n <= sent
        /\ UNCHANGED <<row, providers, history>> /\ \E j : Do(s, j)
        /\ Answer(s, job[s].m) \/ (UNCHANGED mem /\ due' = due \ {job[s].m})
    BY <1>4, StripeMarks DEF MessageSound, Done
  <2>2. UNCHANGED <<shop, excused>> /\ ~At(s, "connect", "save")
    BY <1>4, <2>1 DEF providers, history, StripeMark, At
  <2> QED BY <1>1, <2>1, <2>2, StoreByServer
<1>5. CASE HookWrite(s)
  <2>1. /\ job[s].m \in ChargeMessages /\ job[s].m.n <= sent
        /\ UNCHANGED <<row, providers>> /\ \E j : Do(s, j)
        /\ \/ Apply(job[s].m, job[s].at, job[s].status) /\ Answer(s, job[s].m)
           \/ UNCHANGED <<due, mem, history>>
    BY <1>5, HookWrites DEF MessageSound, Done, HookJobs
  <2>2. UNCHANGED shop /\ excused'.row = excused.row /\ ~At(s, "connect", "save")
    BY <1>2, <1>5, <2>1, Excuses DEF providers, history, HookWrite, At
  <2> QED BY <1>1, <2>1, <2>2, StoreByServer
<1>6. CASE GuardWrite(s) \/ CallbackWrite(s) \/ HookQuery(s)
  <2>1. /\ UNCHANGED <<row, shop, due, mem>> /\ \E j : Do(s, j)
        /\ ~At(s, "connect", "save")
    BY <1>6 DEF GuardWrite, CallbackWrite, HookQuery, database, providers, Done, At
  <2>2. PICK c, d \in BOOLEAN : c = (profile.status # "trialing") /\ d = Overtaken(job[s], job[s].at)
    BY DEF Overtaken
  <2>3. ExcuseProfile(c) \/ ExcuseProfile(d) \/ UNCHANGED excused
    BY <1>6, <2>2 DEF GuardWrite, CallbackWrite, HookQuery, history
  <2>4. excused'.row = excused.row
    BY <1>2, <2>3
  <2> QED BY <2>1, <2>4, SavesStay, StoreStays DEF StoreQuiet, Unheard
<1>7. CASE CustomerSave(s)
  <2>1. UNCHANGED <<row, shop, due, mem, excused>> /\ Done(s) /\ ~At(s, "connect", "save")
    BY <1>7, CustomerSaves DEF CustomerSave, At
  <2> QED BY <2>1, SavesStay, StoreStays DEF StoreQuiet, Unheard, Done
<1> QED BY <1>3, <1>4, <1>5, <1>6, <1>7

LEMMA StoreBegins ==
  ASSUME Typed, StoreSound, NEW s \in Servers,
         \/ CustomerRead(s) \/ GuardRead(s) \/ Install(s) \/ SettingsRead(s)
         \/ \E c \in Charges : CallbackQuery(s, c)
         \/ Crash(s)
  PROVE  StoreSound'
<1>1. CASE CustomerRead(s) \/ GuardRead(s) \/ SettingsRead(s) \/ \E c \in Charges : CallbackQuery(s, c)
  <2>1. /\ UNCHANGED <<row, shop, due, mem, excused>> /\ \E j : Do(s, j)
        /\ job[s] = Idle
    BY <1>1 DEF CustomerRead, GuardRead, SettingsRead, CallbackQuery, database, providers, history
  <2> QED BY <2>1, IdleAt, SavesStay, StoreStays DEF StoreQuiet, Unheard
<1>2. CASE Install(s)
  <2>1. /\ shop' = [installed |-> TRUE, times |-> shop.times + 1]
        /\ \/ Do(s, [kind |-> "connect", step |-> "save", token |-> shop.times + 1])
           \/ ExcuseRow(TRUE)
    BY <1>2 DEF Install
  <2>2. CASE Do(s, [kind |-> "connect", step |-> "save", token |-> shop.times + 1])
    BY <2>1, <2>2, OtherJobs DEF StoreSound, Saving
  <2>3. CASE ExcuseRow(TRUE)
    BY <2>3, RowTypes, RowExcused DEF StoreSound
  <2> QED BY <2>1, <2>2, <2>3
<1>3. CASE Crash(s)
  <2>1. PICK c \in BOOLEAN : c = At(s, "connect", "save")
    BY DEF At
  <2>2. /\ UNCHANGED <<row, shop, due>> /\ Done(s) /\ mem' = [mem EXCEPT ![s] = {}]
        /\ ExcuseRow(c)
    BY <1>3, <2>1 DEF Crash, database, providers
  <2>3. ~excused'.row => ~excused.row /\ ~At(s, "connect", "save")
    BY <2>1, <2>2, RowTypes, RowExcused
  <2>4. ASSUME NEW m, Unheard(m) PROVE Unheard(m)'
    BY <2>2, <2>4 DEF Unheard, Typed, MemTyped
  <2>5. ~excused'.row => StoreQuiet
    BY <2>2, <2>3, <2>4, SavesStay DEF StoreQuiet, Done
  <2> QED BY <2>5, StoreStays DEF StoreSound
<1> QED BY <1>1, <1>2, <1>3

LEMMA StoreEnvironment == ASSUME Typed, StoreSound, Environment PROVE StoreSound'
<1>1. CASE StripeSubscribe \/ StripeChange
  BY <1>1, StripeTells, StoreByProviders
<1>2. CASE ShopifyChange
  BY <1>2, ShopifyTells, StoreByProviders DEF ChargesTold
<1>3. CASE Redact
  BY <1>3, RedactTells, StoreByProviders
<1>4. CASE CreateCharge
  BY <1>4, StoreByProviders DEF CreateCharge, Outside
<1>5. CASE Disconnect
  BY <1>5, RowTypes, RowExcused DEF Disconnect, StoreSound
<1>6. CASE \E m \in due : TooOld(m)
  BY <1>6, BothExcused DEF TooOld, StoreSound
<1> QED BY <1>1, <1>2, <1>3, <1>4, <1>5, <1>6, StoreUninstall DEF Environment

LEMMA StoreNext == ASSUME Typed, StoreSound, [Next]_vars PROVE StoreSound'
<1>1. CASE UNCHANGED vars
  BY <1>1 DEF vars, database, providers, history, StoreSound, Saved, Saving, Unheard
<1>2. ASSUME NEW s \in Servers, Proceed(s) PROVE StoreSound'
  BY <1>2, StoreSaves, StoreProceed DEF Proceed
<1> QED BY <1>1, <1>2, StoreReceive, StoreBegins, StoreEnvironment DEF Next

LEMMA StoreRests == ASSUME StoreSound PROVE StoreFollowsInstallation
<1>1. ASSUME AtRest, NEW s \in Servers PROVE ~Saving(s)
  BY <1>1 DEF AtRest, Saving, Idle
<1>2. Saved => row.state = "active" /\ row.token = shop.times
  BY DEF Saved
<1> QED BY <1>1, <1>2 DEF StoreSound, StoreFollowsInstallation, AtRest, ValidToken

\* Once every webhook is answered, the store row is active with the token of the
\* last installation exactly while the app is installed: no crash of a webhook's
\* handler, lost answer or repetition keeps it behind, unless one of the races
\* that StoreFollowsInstallation lists was met on the way.
THEOREM StoreKeepsUp == Spec => []StoreFollowsInstallation
<1>1. Init => StoreSound
  BY DEF Init, StoreSound
<1>2. Typed /\ StoreSound /\ [Next]_vars => StoreSound'
  BY StoreNext
<1>3. StoreSound => StoreFollowsInstallation
  BY StoreRests
<1> QED BY <1>1, <1>2, <1>3, TypedHolds, PTL DEF Spec

-----------------------------------------------------------------------------
(* The profile.                                                            *)

\* Nothing is said of a charge before it is confirmed.
Paying == Subs \cup Charges
Current(x) ==
  IF x \in Subs THEN stripe[x].status ELSE IF charge[x] = "PENDING" THEN "none" ELSE charge[x]
PaidFor(x) == Current(x) \in {"active", "ACTIVE"}

\* Something newer than at is known of x, or under way; the state of x was status
\* at the time at, and is so still unless something newer is.
Newer(x, at) ==
  \/ \E m \in due : m.of = x /\ m.n > at
  \/ \E a \in applied : a.m.of = x /\ a.at > at
Told(x, status, at) == status = Current(x) \/ Newer(x, at)

\* The profile has this message behind it; a message of x is newer than all that
\* the profile has behind it.
Handled(m) == \E a \in applied : a.m.of = m.of /\ a.at >= m.n
Waiting(x) == \E m \in due : m.of = x /\ \A a \in applied : a.m.of = x => a.at < m.n

JobTold(j) ==
  /\ j.kind = "stripe" => Told(j.m.of, j.m.status, j.m.n)
  /\ j.kind = "stripe" /\ j.step = "mark" => \E a \in applied : a.m = j.m
  /\ j.kind = "hook" => Told(j.m.of, j.status, j.at)
  /\ j.kind = "callback" => Told(j.of, "ACTIVE", j.at)

\* What the messages, the servers and the table of events know is so.
Informed ==
  /\ \A m \in due : m.of # "shop" => Told(m.of, m.status, m.n)
  /\ \A s \in Servers : JobTold(job[s])
  /\ \A s \in Servers : \A m \in mem[s] : m.of # "shop" => Handled(m)
  /\ \A m \in recorded : \E a \in applied : a.m = m

\* The profile agrees with what is paid, or a message that will correct it is due.
Agrees ==
  /\ \A x \in Paying : PaidFor(x) => profile.status = "active" \/ Waiting(x)
  /\ profile.status = "active" => \E x \in Paying : PaidFor(x) \/ Waiting(x)

ProfileSound == ~excused.profile => Informed /\ Agrees

\* What a step may do: it tells of what changes, and drops what is handled.
Tells ==
  /\ applied \subseteq applied'
  /\ \A m \in due : m.of # "shop" => m \in due' \/ Handled(m)'
  /\ \A x \in Paying : Current(x)' = Current(x) \/ \E m \in due' : m.of = x /\ m.n > sent

LEMMA PayingSizes ==
  ASSUME Typed
  PROVE  /\ "shop" \notin Paying /\ sent \in Nat
         /\ \A m \in due : m.n \in Nat /\ m.n <= sent /\ (m.of # "shop" => m.of \in Paying)
         /\ \A a \in applied : a.at \in Nat /\ a.at <= sent /\ a.m.n \in Nat /\ a.m.n <= a.at
         /\ \A m \in StripeMessages \cup ChargeMessages : m \in Messages /\ m.of \in Paying /\ m.n \in Nat
<1>1. sent \in Nat
  BY Sizes DEF Typed, ProvidersTyped
<1>2. "shop" \notin Paying
  BY Sizes DEF Paying
<1>3. ASSUME NEW m \in due PROVE m.n \in Nat /\ m.n <= sent /\ (m.of # "shop" => m.of \in Paying)
  <2>1. m \in Messages /\ m.n <= sent /\ m.n \in Nat
    BY DueSound, MessageShapes DEF MessageSound
  <2>2. m.of # "shop" => m.of \in Paying
    BY <2>1 DEF Messages, StripeMessages, ChargeMessages, ShopMessages, Paying
  <2> QED BY <2>1, <2>2
<1>4. ASSUME NEW m \in StripeMessages \cup ChargeMessages
      PROVE  m \in Messages /\ m.of \in Paying /\ m.n \in Nat
  <2>1. m \in Messages
    BY DEF Messages
  <2>2. m.of \in Paying
    BY DEF StripeMessages, ChargeMessages, Paying
  <2> QED BY <2>1, <2>2, MessageShapes
<1>5. ASSUME NEW a \in applied PROVE a.at \in Nat /\ a.at <= sent /\ a.m.n \in Nat /\ a.m.n <= a.at
  <2>1. a \in AppliedTypes /\ AppliedSound(a)
    BY DEF Typed, AppliedTyped
  <2> QED BY <1>4, <2>1 DEF AppliedTypes, AppliedSound
<1> QED BY <1>1, <1>2, <1>3, <1>4, <1>5

LEMMA ToldStays ==
  ASSUME Typed, Typed', Tells,
         NEW x \in Paying, NEW status, NEW at \in Nat, at <= sent, Told(x, status, at)
  PROVE  Told(x, status, at)'
<1>1. CASE status = Current(x)
  <2>1. CASE Current(x)' = Current(x)
    BY <1>1, <2>1 DEF Told
  <2>2. ASSUME NEW m \in due', m.of = x, m.n > sent PROVE Told(x, status, at)'
    <3>1. m.n \in Nat /\ sent \in Nat
      BY PayingSizes, Sizes
      DEF Typed, DueTyped, Messages, StripeMessages, ChargeMessages, ShopMessages, Numbers
    <3>2. m.n > at
      BY <2>2, <3>1
    <3> QED BY <2>2, <3>2 DEF Told, Newer
  <2> QED BY <2>1, <2>2 DEF Tells
<1>2. ASSUME NEW m \in due, m.of = x, m.n > at PROVE Told(x, status, at)'
  <2>1. m.n \in Nat /\ m.of # "shop"
    BY <1>2, PayingSizes
  <2>2. CASE m \in due'
    BY <1>2, <2>2 DEF Told, Newer
  <2>3. CASE Handled(m)'
    <3>1. PICK a \in applied' : a.m.of = x /\ a.at >= m.n
      BY <1>2, <2>3 DEF Handled
    <3>2. a.at \in Nat
      BY DEF Typed, AppliedTyped, AppliedTypes
    <3>3. a.at > at
      BY <1>2, <2>1, <3>1, <3>2
    <3> QED BY <3>1, <3>3 DEF Told, Newer
  <2> QED BY <2>1, <2>2, <2>3 DEF Tells
<1>3. ASSUME NEW a \in applied, a.m.of = x, a.at > at PROVE Told(x, status, at)'
  BY <1>3 DEF Tells, Told, Newer
<1> QED BY <1>1, <1>2, <1>3 DEF Told, Newer

LEMMA JobToldStays ==
  ASSUME Typed, Typed', Tells, NEW j \in Jobs, JobSound(j), JobTold(j)
  PROVE  JobTold(j)'
<1>1. CASE j.kind = "stripe"
  <2>1. j.m \in StripeMessages /\ j.m.n <= sent
    BY <1>1, JobShapes DEF StripeJobs, JobSound, MessageSound
  <2>2. j.m.of \in Paying /\ j.m.n \in Nat
    BY <2>1, PayingSizes
  <2>3. Told(j.m.of, j.m.status, j.m.n)'
    BY <1>1, <2>1, <2>2, ToldStays DEF JobTold
  <2> QED BY <1>1, <2>3 DEF JobTold, Tells
<1>2. CASE j.kind = "hook"
  <2>1. j.m \in ChargeMessages /\ j.at \in Nat /\ j.at <= sent
    BY <1>2, JobShapes DEF HookJobs, JobSound
  <2>2. j.m.of \in Paying
    BY <2>1, PayingSizes
  <2>3. Told(j.m.of, j.status, j.at)'
    BY <1>2, <2>1, <2>2, ToldStays DEF JobTold
  <2> QED BY <1>2, <2>3 DEF JobTold
<1>3. CASE j.kind = "callback"
  <2>1. j.of \in Paying /\ j.at \in Nat /\ j.at <= sent
    BY <1>3, JobShapes DEF CallbackJobs, JobSound, Paying
  <2>2. Told(j.of, "ACTIVE", j.at)'
    BY <1>3, <2>1, ToldStays DEF JobTold
  <2> QED BY <1>3, <2>2 DEF JobTold
<1> QED BY <1>1, <1>2, <1>3 DEF JobTold

LEMMA KnownStays ==
  ASSUME Typed, Typed', Informed, Tells,
         \A m \in due' : m \in due \/ (m.of # "shop" => Told(m.of, m.status, m.n)'),
         \A s \in Servers, j \in Jobs : j = job'[s] => j = job[s] \/ JobTold(j)',
         \A s \in Servers : \A m \in mem'[s] : m \in mem[s] \/ (m.of # "shop" => Handled(m)'),
         \A m \in recorded' : m \in recorded \/ \E a \in applied' : a.m = m
  PROVE  Informed'
<1>1. ASSUME NEW m \in due', m.of # "shop" PROVE Told(m.of, m.status, m.n)'
  <2>1. CASE m \in due
    <3>1. m.n \in Nat /\ m.n <= sent /\ m.of \in Paying
      BY <1>1, <2>1, PayingSizes
    <3> QED BY <1>1, <2>1, <3>1, ToldStays DEF Informed
  <2> QED BY <1>1, <2>1
<1>2. ASSUME NEW s \in Servers PROVE JobTold(job[s])'
  <2>1. PICK j \in Jobs : j = job'[s]
    BY DEF Typed, JobsTyped
  <2>2. JobTold(j)'
    <3>1. CASE j = job[s]
      BY <3>1, JobToldStays DEF Informed, Typed, JobsTyped
    <3> QED BY <2>1, <3>1
  <2> QED BY <2>1, <2>2 DEF JobTold
<1>3. ASSUME NEW s \in Servers, NEW m \in mem'[s], m.of # "shop" PROVE Handled(m)'
  BY <1>3 DEF Informed, Handled, Tells
<1>4. ASSUME NEW m \in recorded' PROVE \E a \in applied' : a.m = m
  BY DEF Informed, Tells
<1> QED BY <1>1, <1>2, <1>3, <1>4 DEF Informed

\* Without a write, the profile agrees as it did.
LEMMA AgreesStays ==
  ASSUME Typed, Typed', Agrees, Tells, UNCHANGED applied,
         profile'.status = "active" <=> profile.status = "active"
  PROVE  Agrees'
<1>1. ASSUME NEW x \in Paying, Waiting(x) PROVE Waiting(x)'
  <2>1. PICK m \in due : m.of = x /\ \A a \in applied : a.m.of = x => a.at < m.n
    BY <1>1 DEF Waiting
  <2>2. m.n \in Nat /\ m.of # "shop" /\ \A a \in applied : a.at \in Nat
    BY <2>1, PayingSizes
  <2>3. m \in due'
    <3>1. ~Handled(m)'
      BY <2>1, <2>2 DEF Handled
    <3> QED BY <2>2, <3>1 DEF Tells
  <2> QED BY <2>1, <2>3 DEF Waiting
<1>2. ASSUME NEW x \in Paying, Current(x)' # Current(x) PROVE Waiting(x)'
  <2>1. PICK m \in due' : m.of = x /\ m.n > sent
    BY <1>2 DEF Tells
  <2>2. m.n \in Nat
    BY Sizes DEF Typed, DueTyped, Messages, StripeMessages, ChargeMessages, ShopMessages, Numbers
  <2>3. \A a \in applied' : a.at < m.n
    BY <2>1, <2>2, PayingSizes
  <2> QED BY <2>1, <2>3 DEF Waiting
<1>3. ASSUME NEW x \in Paying, PaidFor(x) \/ Waiting(x) PROVE (PaidFor(x) \/ Waiting(x))'
  BY <1>1, <1>2, <1>3 DEF PaidFor
<1>4. ASSUME NEW x \in Paying, PaidFor(x)' PROVE profile'.status = "active" \/ Waiting(x)'
  BY <1>1, <1>2, <1>4 DEF PaidFor, Agrees
<1> QED BY <1>3, <1>4 DEF Agrees

\* A write of the state of x as of at, which nothing newer of x has overtaken.
LEMMA AgreesApplied ==
  ASSUME Typed, NEW x \in Paying, NEW at \in Nat, NEW status, Told(x, status, at),
         UNCHANGED <<stripe, charge>>,
         \A a \in applied : a.m.of = x => a.at <= at,
         \A a \in applied' : a.m.of = x => a \in applied \/ a.at = at,
         profile'.status = "active" <=> status \in {"active", "ACTIVE"},
         status \notin {"active", "ACTIVE"} => \A y \in Paying : y # x => ~PaidFor(y),
         \A m \in due : m.of = x /\ m.n > at => m \in due'
  PROVE  Agrees'
<1>1. \A y \in Paying : PaidFor(y)' <=> PaidFor(y)
  BY DEF PaidFor, Current
<1>2. status = Current(x) \/ Waiting(x)'
  <2>1. ASSUME NEW m \in due, m.of = x, m.n > at PROVE Waiting(x)'
    <3>1. m \in due' /\ m.n \in Nat
      BY <2>1, PayingSizes
    <3>2. ASSUME NEW a \in applied', a.m.of = x PROVE a.at < m.n
      <4>1. CASE a \in applied
        BY <2>1, <3>1, <3>2, <4>1, PayingSizes
      <4>2. CASE a.at = at
        BY <2>1, <3>1, <4>2
      <4> QED BY <3>2, <4>1, <4>2
    <3> QED BY <2>1, <3>1, <3>2 DEF Waiting
  <2>2. ~(\E a \in applied : a.m.of = x /\ a.at > at)
    BY PayingSizes
  <2> QED BY <2>1, <2>2 DEF Told, Newer
<1>3. ASSUME NEW y \in Paying, PaidFor(y)' PROVE profile'.status = "active" \/ Waiting(y)'
  <2>1. CASE status \in {"active", "ACTIVE"}
    BY <2>1
  <2>2. CASE status \notin {"active", "ACTIVE"}
    <3>1. y = x
      BY <1>1, <1>3, <2>2
    <3>2. status # Current(x)
      BY <1>1, <1>3, <2>2, <3>1 DEF PaidFor
    <3> QED BY <1>2, <3>1, <3>2
  <2> QED BY <2>1, <2>2
<1>4. ASSUME profile'.status = "active" PROVE (PaidFor(x) \/ Waiting(x))'
  <2>1. CASE status = Current(x)
    BY <1>1, <1>4, <2>1 DEF PaidFor
  <2> QED BY <1>2, <2>1
<1> QED BY <1>3, <1>4 DEF Agrees

LEMMA PaidShapes ==
  ASSUME Typed, NEW y \in Paying
  PROVE  PaidFor(y) <=> \/ y \in Subs /\ stripe[y].status = "active"
                        \/ y \in Charges /\ charge[y] = "ACTIVE"
<1>1. CASE y \in Subs
  <2>1. stripe[y].status \in SubStatuses /\ y \notin Charges
    BY <1>1, Sizes DEF Typed, ProvidersTyped
  <2> QED BY <1>1, <2>1 DEF PaidFor, Current, SubStatuses
<1>2. CASE y \in Charges
  <2>1. charge[y] \in DOMAIN NextStatus /\ y \notin Subs
    BY <1>2, Sizes DEF Typed, ProvidersTyped
  <2> QED BY <1>2, <2>1 DEF PaidFor, Current, NextStatus
<1> QED BY <1>1, <1>2 DEF Paying

LEMMA NothingBeside ==
  ASSUME Typed, NEW x, ~PaidBeside(x) PROVE \A y \in Paying : y # x => ~PaidFor(y)
BY PaidShapes DEF PaidBeside

LEMMA NotOvertaken ==
  ASSUME Typed, NEW m, NEW at \in Nat, ~Overtaken(m, at)
  PROVE  \A a \in applied : a.m.of = m.of => a.at <= at
BY PayingSizes DEF Overtaken

\* The providers tell.
LEMMA ProfileByProviders ==
  ASSUME Typed, Typed', ProfileSound, Outside, due \subseteq due',
         \A x \in Paying : Current(x)' = Current(x) \/ \E m \in due' : m.of = x /\ m.n > sent,
         \A m \in due' : m \in due \/ (m.of # "shop" => m.status = Current(m.of)')
  PROVE  ProfileSound'
<1>1. UNCHANGED <<profile, recorded, mem, job, applied, excused>>
  BY DEF Outside, database, history
<1>2. Tells
  BY <1>1 DEF Tells
<1>3. \A m \in due' : m \in due \/ (m.of # "shop" => Told(m.of, m.status, m.n)')
  BY DEF Told
<1>4. Informed => Informed'
  BY <1>1, <1>2, <1>3, KnownStays
<1>5. Agrees => Agrees'
  BY <1>1, <1>2, AgreesStays
<1> QED BY <1>1, <1>4, <1>5 DEF ProfileSound

LEMMA ProfileStripe ==
  ASSUME Typed, Typed', ProfileSound, StripeSubscribe \/ StripeChange PROVE ProfileSound'
<1>1. PICK k \in Subs, m \in StripeMessages :
        /\ m.n = sent + 1 /\ m.of = k /\ due' = due \cup {m}
        /\ stripe'[k].status = m.status
        /\ \A x \in Subs : x # k => stripe'[x] = stripe[x]
        /\ UNCHANGED charge /\ Outside
  BY StripeTells
<1>2. sent \in Nat
  BY PayingSizes
<1>3. ASSUME NEW x \in Paying PROVE Current(x)' = Current(x) \/ \E y \in due' : y.of = x /\ y.n > sent
  <2>1. CASE x = k
    BY <1>1, <1>2, <2>1
  <2>2. CASE x # k
    BY <1>1, <2>2 DEF Current
  <2> QED BY <2>1, <2>2
<1>4. m.status = Current(m.of)'
  BY <1>1 DEF Current
<1> QED BY <1>1, <1>3, <1>4, ProfileByProviders

LEMMA ProfileShopify ==
  ASSUME Typed, Typed', ProfileSound, ShopifyChange \/ Uninstall PROVE ProfileSound'
<1>1. PICK C \in SUBSET Charges : ChargesTold(C)
  BY ShopifyTells, UninstallTells
<1>2. UNCHANGED stripe /\ Outside /\ due \subseteq due'
  BY <1>1, ShopifyTells, UninstallTells DEF ChargesTold
<1>3. sent \in Nat
  BY PayingSizes
<1>4. ASSUME NEW x \in Paying PROVE Current(x)' = Current(x) \/ \E y \in due' : y.of = x /\ y.n > sent
  <2>1. CASE x \in C
    <3>1. PICK y \in due' : y.n = sent + 1 /\ y.of = x
      BY <1>1, <2>1, ToldBegun
    <3> QED BY <1>3, <3>1
  <2>2. CASE x \notin C
    BY <1>1, <1>2, <2>2 DEF Current, Paying, ChargesTold
  <2> QED BY <2>1, <2>2
<1>5. ASSUME NEW m \in due', m \notin due, m.of # "shop" PROVE m.status = Current(m.of)'
  <2>1. /\ m \in Messages
        /\ \/ m \in ChargeMessages /\ m.of \in C /\ charge'[m.of] = m.status
           \/ m.kind \in {"uninstalled", "redact"}
    BY <1>1, <1>5 DEF ChargesTold
  <2>2. m \in ChargeMessages /\ charge'[m.of] = m.status /\ m.of \in Charges
    BY <1>5, <2>1, MessageShapes
  <2>3. m.of \notin Subs /\ m.status # "PENDING"
    BY <2>2, Sizes DEF ChargeMessages, Ends
  <2> QED BY <2>2, <2>3 DEF Current
<1> QED BY <1>2, <1>4, <1>5, ProfileByProviders

LEMMA ProfileOutside ==
  ASSUME Typed, Typed', ProfileSound, Redact \/ CreateCharge PROVE ProfileSound'
<1>1. CASE Redact
  <2>1. PICK m \in ShopMessages : due' = due \cup {m}
    BY <1>1, RedactTells
  <2>2. m.of = "shop" /\ UNCHANGED <<stripe, charge>> /\ Outside
    BY <1>1, RedactTells DEF ShopMessages
  <2> QED BY <2>1, <2>2, ProfileByProviders DEF Current
<1>2. CASE CreateCharge
  <2>1. PICK c \in Charges : charge[c] = "none" /\ charge' = [charge EXCEPT ![c] = "PENDING"]
    BY <1>2 DEF CreateCharge
  <2>2. UNCHANGED <<stripe, due>> /\ Outside
    BY <1>2 DEF CreateCharge, Outside
  <2>3. \A x \in Paying : Current(x)' = Current(x)
    BY <2>1, <2>2 DEF Current, Paying, Typed, ProvidersTyped
  <2> QED BY <2>2, <2>3, ProfileByProviders
<1> QED BY <1>1, <1>2

\* A step that leaves the profile alone, drops what is handled and knows what is so.
LEMMA ProfileQuiet ==
  ASSUME Typed, Typed', Informed, Agrees, UNCHANGED <<stripe, charge, applied>>,
         profile'.status = "active" <=> profile.status = "active",
         due' \subseteq due, \A m \in due : m.of # "shop" => m \in due' \/ Handled(m),
         UNCHANGED job \/ (\E s \in Servers : \E j \in Jobs : JobSound(j) /\ JobTold(j) /\ Do(s, j)),
         \A s \in Servers : \A m \in mem'[s] : m \in mem[s] \/ (m.of # "shop" => Handled(m)),
         \A m \in recorded' : m \in recorded \/ \E a \in applied : a.m = m
  PROVE  Informed' /\ Agrees'
<1>1. Tells
  BY DEF Tells, Current, Handled
<1>2. ASSUME NEW s \in Servers, NEW j \in Jobs, j = job'[s] PROVE j = job[s] \/ JobTold(j)'
  <2>1. CASE UNCHANGED job
    BY <1>2, <2>1
  <2>2. ASSUME NEW t \in Servers, NEW k \in Jobs, JobSound(k), JobTold(k), Do(t, k)
        PROVE  j = job[s] \/ JobTold(j)'
    <3>1. JobTold(k)'
      BY <1>1, <2>2, JobToldStays
    <3>2. j = job[s] \/ j = k
      BY <1>2, <2>2, OtherJobs
    <3> QED BY <3>1, <3>2
  <2> QED BY <2>1, <2>2
<1>3. \A s \in Servers : \A m \in mem'[s] : m \in mem[s] \/ (m.of # "shop" => Handled(m)')
  BY DEF Handled
<1>4. Informed'
  BY <1>1, <1>2, <1>3, KnownStays
<1> QED BY <1>1, <1>4, AgreesStays

LEMMA IdleKnows == Idle \in Jobs /\ JobSound(Idle) /\ JobTold(Idle)
BY DEF Jobs, Idle, JobSound, JobTold

LEMMA RowExcuseKeeps ==
  ASSUME Typed, NEW c, ExcuseRow(c) PROVE excused'.profile = excused.profile
BY RowTypes DEF ExcuseRow

\* What the server remembers it has handled, and what counts as processed too.
LEMMA SeenHandled ==
  ASSUME Typed, Informed, NEW s \in Servers, NEW m \in due, m.of # "shop", m \in recorded \cup mem[s]
  PROVE  Handled(m)
<1>1. CASE m \in recorded
  <2>1. PICK a \in applied : a.m = m
    BY <1>1 DEF Informed
  <2>2. a.at >= m.n
    BY <2>1, PayingSizes
  <2> QED BY <2>1, <2>2 DEF Handled
<1>2. CASE m \in mem[s]
  BY <1>2 DEF Informed
<1> QED BY <1>1, <1>2

LEMMA ProfileReceive ==
  ASSUME Typed, Typed', ProfileSound, NEW s \in Servers, NEW m \in due, Receive(s, m)
  PROVE  ProfileSound'
<1>1. m \in Messages /\ MessageSound(m) /\ m.n \in Nat /\ m.n <= sent
  BY DueSound, MessageShapes DEF MessageSound
<1>2. CASE StripeReceive(s, m)
  <2>1. PICK j : j = [kind |-> "stripe", step |-> "apply", m |-> m]
    OBVIOUS
  <2>2. /\ UNCHANGED <<database, providers, mem, history>> /\ m \in StripeEvents
        /\ \/ m \in recorded \cup mem[s] /\ due' = due \ {m} /\ UNCHANGED job
           \/ Do(s, j) /\ UNCHANGED due
    BY <1>2, <2>1 DEF StripeReceive, IsProcessed
  <2>3. m \in StripeMessages /\ m.of # "shop"
    BY <2>2, DueSound, PayingSizes
  <2>4. j \in Jobs /\ JobSound(j)
    BY <1>1, <2>1, <2>3 DEF Jobs, StripeJobs, JobSound
  <2>5. Informed => JobTold(j)
    BY <2>1, <2>3 DEF Informed, JobTold
  <2>6. UNCHANGED <<stripe, charge, applied, profile, mem, recorded, excused>>
    BY <2>2 DEF database, providers, history
  <2>7. CASE m \in recorded \cup mem[s] /\ due' = due \ {m} /\ UNCHANGED job
    BY <2>3, <2>6, <2>7, SeenHandled, ProfileQuiet DEF ProfileSound
  <2>8. CASE Do(s, j) /\ UNCHANGED due
    BY <2>4, <2>5, <2>6, <2>8, ProfileQuiet DEF ProfileSound
  <2> QED BY <2>2, <2>7, <2>8
<1>3. CASE Known(s, m)
  <2>1. UNCHANGED <<stripe, charge, applied, profile, mem, recorded, excused, job>>
        /\ due' = due \ {m} /\ m \in mem[s]
    BY <1>3 DEF Known, database, providers, history
  <2> QED BY <2>1, SeenHandled, ProfileQuiet DEF ProfileSound
<1>4. CASE Untracked(s, m)
  BY <1>4, BothExcused DEF Untracked, ProfileSound
<1>5. CASE Uninstalled(s, m)
  <2>1. UNCHANGED <<stripe, charge, applied, profile, recorded, job>> /\ m.of = "shop"
        /\ ExcuseRow(shop.installed) /\ (Answer(s, m) \/ UNCHANGED <<due, mem>>)
    BY <1>1, <1>5, MessageShapes DEF Uninstalled, providers
  <2>2. excused'.profile = excused.profile
    BY <2>1, RowExcuseKeeps
  <2>3. /\ due' \subseteq due /\ \A x \in due : x.of # "shop" => x \in due'
        /\ \A t \in Servers : \A x \in mem'[t] : x \in mem[t] \/ x.of = "shop"
    <3>1. CASE Answer(s, m)
      BY <1>1, <2>1, <3>1, Answers
    <3> QED BY <2>1, <3>1
  <2> QED BY <2>1, <2>2, <2>3, ProfileQuiet DEF ProfileSound
<1>6. CASE HookTake(s, m)
  <2>1. PICK j : j = [kind |-> "hook", step |-> IF row.state = "revoked" THEN "write" ELSE "query",
                      m |-> m, token |-> row.token, status |-> m.status, at |-> m.n]
    OBVIOUS
  <2>2. UNCHANGED <<stripe, charge, applied, profile, mem, recorded, excused, due>> /\ Do(s, j)
        /\ m.kind = "subscription"
    BY <1>6, <2>1 DEF HookTake, database, providers, history
  <2>3. m \in ChargeMessages /\ m.status \in Ends /\ row.token \in Tokens /\ m.of # "shop"
    BY <2>2, DueSound, PayingSizes, RowTypes DEF ChargeMessages
  <2>4. j \in HookJobs /\ j.kind = "hook" /\ j.m = m /\ j.at = m.n /\ j.status = m.status
    BY <1>1, <2>1, <2>3 DEF HookJobs
  <2>5. JobSound(j) /\ j \in Jobs
    BY <1>1, <2>4 DEF JobSound, Jobs
  <2>6. Informed => JobTold(j)
    BY <2>3, <2>4 DEF Informed, JobTold
  <2> QED BY <2>2, <2>5, <2>6, ProfileQuiet DEF ProfileSound
<1>7. CASE ShopRedact(s, m)
  <2>1. PICK j : j = [kind |-> "redact", step |-> "purge"]
    OBVIOUS
  <2>2. j \in Jobs /\ JobSound(j) /\ JobTold(j)
    BY <2>1 DEF Jobs, RedactJobs, JobSound, JobTold
  <2>3. UNCHANGED <<stripe, charge, applied, profile, mem, recorded, excused>> /\ Do(s, j)
        /\ due' = due \ {m} /\ m.of = "shop"
    BY <1>1, <1>7, <2>1, MessageShapes DEF ShopRedact, database, providers, history
  <2> QED BY <2>2, <2>3, ProfileQuiet DEF ProfileSound
<1> QED BY <1>2, <1>3, <1>4, <1>5, <1>6, <1>7 DEF Receive

\* The steps of a server that write the store row, or only read.
LEMMA ProfileOther ==
  ASSUME Typed, Typed', ProfileSound, NEW s \in Servers,
         \/ ConnectSave(s) \/ SettingsSave(s) \/ Purge(s) \/ CustomerSave(s)
         \/ CustomerRead(s) \/ GuardRead(s) \/ Install(s) \/ SettingsRead(s) \/ Crash(s)
  PROVE  ProfileSound'
<1>1. /\ UNCHANGED <<stripe, charge, applied, profile, recorded, due>>
      /\ UNCHANGED excused \/ \E c : ExcuseRow(c)
      /\ UNCHANGED mem \/ mem' = [mem EXCEPT ![s] = {}]
  BY CustomerSaves DEF ConnectSave, SettingsSave, Purge, CustomerRead, GuardRead, Install,
         SettingsRead, Crash, database, providers, history
<1>2. excused'.profile = excused.profile
  BY <1>1, RowExcuseKeeps
<1>3. \A t \in Servers : mem'[t] \subseteq mem[t]
  BY <1>1 DEF Typed, MemTyped
<1>4. UNCHANGED job \/ \E j \in Jobs : JobSound(j) /\ JobTold(j) /\ Do(s, j)
  <2>1. CASE ConnectSave(s) \/ SettingsSave(s) \/ Purge(s) \/ CustomerSave(s) \/ Crash(s)
    BY <2>1, IdleKnows, CustomerSaves DEF ConnectSave, SettingsSave, Purge, Crash, Done
  <2>2. ASSUME NEW j, j.kind \notin {"stripe", "hook", "callback"}, Do(s, j)
        PROVE  j \in Jobs /\ JobSound(j) /\ JobTold(j)
    <3>1. j \in Jobs
      BY <2>2, OtherJobs DEF Typed, JobsTyped
    <3> QED BY <2>2, <3>1 DEF JobSound, JobTold
  <2>3. CASE CustomerRead(s) \/ GuardRead(s) \/ SettingsRead(s) \/ Install(s)
    <3>1. UNCHANGED job \/ \E j : j.kind \notin {"stripe", "hook", "callback"} /\ Do(s, j)
      BY <2>3 DEF CustomerRead, GuardRead, SettingsRead, Install
    <3> QED BY <2>2, <3>1
  <2> QED BY <2>1, <2>3
<1> QED BY <1>1, <1>2, <1>3, <1>4, ProfileQuiet DEF ProfileSound

LEMMA ProfileAlone ==
  ASSUME Typed, Typed', ProfileSound, Disconnect \/ (\E m \in due : TooOld(m))
  PROVE  ProfileSound'
<1>1. CASE Disconnect
  <2>1. /\ UNCHANGED <<stripe, charge, applied, recorded, due, mem, job, profile>>
        /\ ExcuseRow(TRUE)
    BY <1>1 DEF Disconnect, providers, history
  <2>2. excused'.profile = excused.profile
    BY <2>1, RowExcuseKeeps
  <2> QED BY <2>1, <2>2, ProfileQuiet DEF ProfileSound
<1>2. CASE \E m \in due : TooOld(m)
  BY <1>2, BothExcused DEF TooOld, ProfileSound
<1> QED BY <1>1, <1>2

LEMMA ProfileQueries ==
  ASSUME Typed, Typed', ProfileSound, NEW s \in Servers,
         HookQuery(s) \/ \E c \in Charges : CallbackQuery(s, c)
  PROVE  ProfileSound'
<1>1. UNCHANGED <<stripe, charge, applied, profile, mem, recorded, excused, due>>
  BY DEF HookQuery, CallbackQuery, database, providers, history
<1>2. ASSUME Informed PROVE \E j \in Jobs : JobSound(j) /\ JobTold(j) /\ Do(s, j)
  <2>1. CASE HookQuery(s)
    <3>1. PICK j \in HookJobs :
            /\ JobSound(j) /\ Do(s, j) /\ j.m = job[s].m
            /\ \/ j.status = charge[j.m.of] /\ j.at = sent
               \/ j.status = job[s].status /\ j.at = job[s].at
      BY <2>1, HookQueries
    <3>2. j \in Jobs /\ j.kind = "hook" /\ j.m.of \in Charges /\ j.status \in Ends /\ job[s].kind = "hook"
      BY <2>1, HookQueries DEF Jobs, HookJobs, ChargeMessages
    <3>3. Told(j.m.of, j.status, j.at)
      <4>1. CASE j.status = charge[j.m.of]
        <5>1. j.m.of \notin Subs /\ charge[j.m.of] # "PENDING"
          BY <3>2, <4>1, Sizes DEF Ends
        <5> QED BY <4>1, <5>1 DEF Told, Current
      <4>2. CASE j.status = job[s].status /\ j.at = job[s].at
        BY <1>2, <3>1, <3>2, <4>2 DEF Informed, JobTold
      <4> QED BY <3>1, <4>1, <4>2
    <3> QED BY <3>1, <3>2, <3>3 DEF JobTold
  <2>2. ASSUME NEW c \in Charges, CallbackQuery(s, c)
        PROVE  \E j \in Jobs : JobSound(j) /\ JobTold(j) /\ Do(s, j)
    <3>1. PICK j : j = [kind |-> "callback", step |-> "write", of |-> c, at |-> sent]
      OBVIOUS
    <3>2. Do(s, j) /\ charge[c] = "ACTIVE" /\ c \notin Subs
      BY <2>2, <3>1, Sizes DEF CallbackQuery
    <3>3. j \in CallbackJobs /\ j.at = sent /\ j.kind = "callback" /\ j.of = c /\ sent \in Nat
      BY <3>1, PayingSizes DEF CallbackJobs
    <3>4. j \in Jobs /\ JobSound(j)
      BY <3>3 DEF Jobs, JobSound
    <3>5. JobTold(j)
      BY <3>2, <3>3 DEF JobTold, Told, Current
    <3> QED BY <3>2, <3>4, <3>5
  <2> QED BY <2>1, <2>2
<1> QED BY <1>1, <1>2, ProfileQuiet DEF ProfileSound

\* A write of a message that nothing newer has overtaken, and that does not end
\* one of several things paid for.
LEMMA ProfileApplied ==
  ASSUME Typed, Typed', Informed, NEW s \in Servers,
         NEW m \in StripeMessages \cup ChargeMessages, NEW at \in Nat, m.n <= at, at <= sent, NEW status,
         Told(m.of, status, at), UNCHANGED <<stripe, charge, recorded>>,
         applied' = applied \cup {[m |-> m, at |-> at]}, ~Overtaken(m, at),
         profile'.status = "active" <=> status \in {"active", "ACTIVE"},
         status \notin {"active", "ACTIVE"} => ~PaidBeside(m.of),
         UNCHANGED <<due, mem>> \/ (Answer(s, m) /\ m.n <= sent),
         \A t \in Servers, j \in Jobs : j = job'[t] => j = job[t] \/ JobTold(j)'
  PROVE  Informed' /\ Agrees'
<1>1. m \in Messages /\ m.of \in Paying /\ m.n \in Nat
  BY PayingSizes
<1>2. PICK b : b = [m |-> m, at |-> at]
  OBVIOUS
<1>3. b \in applied' /\ b.m = m /\ b.at = at /\ applied' = applied \cup {b}
  BY <1>2
<1>4. Handled(m)'
  BY <1>3 DEF Handled
<1>5. /\ due' \subseteq due /\ \A x \in due : x = m \/ x \in due'
      /\ \A t \in Servers : \A x \in mem'[t] : x \in mem[t] \/ x = m
  <2>1. CASE Answer(s, m) /\ m.n <= sent
    BY <1>1, <2>1, Answers
  <2> QED BY <2>1
<1>6. Tells
  <2>1. \A x \in Paying : Current(x)' = Current(x)
    BY DEF Current
  <2>2. \A x \in due : x \in due' \/ Handled(x)'
    BY <1>4, <1>5
  <2> QED BY <1>3, <2>1, <2>2 DEF Tells
<1>7. Informed'
  <2>1. \A t \in Servers : \A x \in mem'[t] : x \in mem[t] \/ (x.of # "shop" => Handled(x)')
    BY <1>4, <1>5
  <2> QED BY <1>5, <1>6, <2>1, KnownStays
<1>8. Agrees'
  <2>1. \A a \in applied : a.m.of = m.of => a.at <= at
    BY NotOvertaken
  <2>2. status \notin {"active", "ACTIVE"} => \A y \in Paying : y # m.of => ~PaidFor(y)
    BY NothingBeside
  <2>3. \A x \in due : x.of = m.of /\ x.n > at => x \in due'
    <3>1. ~(m.n > at)
      BY <1>1
    <3> QED BY <1>5, <3>1
  <2>4. \A a \in applied' : a.m.of = m.of => a \in applied \/ a.at = at
    BY <1>3
  <2> QED BY <1>1, <2>1, <2>2, <2>3, <2>4, AgreesApplied
<1> QED BY <1>7, <1>8

LEMMA ProfileStripeApply ==
  ASSUME Typed, Typed', ProfileSound, NEW s \in Servers, StripeApply(s) PROVE ProfileSound'
<1>1. PICK m, j : m = job[s].m /\ j = StripeGoes(job[s])
  OBVIOUS
<1>2. /\ m \in StripeMessages /\ MessageSound(m) /\ job[s] \in StripeJobs
      /\ UNCHANGED <<row, recorded, providers, due, mem>>
      /\ \/ /\ profile' = Entitlement(m)
            /\ Apply(m, m.n, m.status) /\ Do(s, j)
         \/ ExcuseProfile(TRUE)
         \/ UNCHANGED <<profile, history>> /\ Done(s)
  BY <1>1, StripeApplies
<1>3. UNCHANGED <<stripe, charge>> /\ m.n \in Nat /\ m.n <= sent /\ m.of \in Paying
  BY <1>2, PayingSizes DEF providers, MessageSound
<1>4. CASE ExcuseProfile(TRUE)
  BY <1>4, RowTypes, ProfileExcused DEF ProfileSound
<1>5. CASE UNCHANGED <<profile, history>> /\ Done(s)
  BY <1>2, <1>3, <1>5, IdleKnows, ProfileQuiet DEF ProfileSound, history, Done
<1>6. CASE profile' = Entitlement(m) /\ Apply(m, m.n, m.status) /\ Do(s, j)
  <2>1. /\ applied' = applied \cup {[m |-> m, at |-> m.n]}
        /\ ~excused'.profile => ~excused.profile /\ ~Overtaken(m, m.n)
        /\ ~excused'.profile /\ m.status \notin {"active", "ACTIVE"} => ~PaidBeside(m.of)
    BY <1>6, RowTypes, Excuses
  <2>2. j \in Jobs /\ j.m = m /\ j.kind = "stripe"
    BY <1>1, <1>2, StripeMade DEF Jobs
  <2>3. profile'.status = "active" <=> m.status \in {"active", "ACTIVE"}
    BY <1>2, <1>6, EntitlementTyped DEF StripeMessages
  <2>4. SUFFICES ASSUME ~excused'.profile PROVE Informed' /\ Agrees'
    BY DEF ProfileSound
  <2>5. Informed /\ Told(m.of, m.status, m.n)
    <3>1. Informed
      BY <2>1, <2>4 DEF ProfileSound
    <3>2. JobTold(job[s]) /\ job[s].kind = "stripe"
      BY <1>2, <3>1 DEF Informed, StripeJobs
    <3> QED BY <1>1, <3>1, <3>2 DEF JobTold
  <2>6. JobTold(j)'
    <3>1. Told(m.of, m.status, m.n)'
      <4>1. Tells
        BY <1>2, <1>3, <2>1 DEF Tells, Current
      <4> QED BY <1>3, <2>5, <4>1, ToldStays
    <3>2. \E a \in applied' : a.m = m
      <4>1. PICK b : b = [m |-> m, at |-> m.n]
        OBVIOUS
      <4>2. b \in applied' /\ b.m = m
        BY <2>1, <4>1
      <4> QED BY <4>2
    <3> QED BY <2>2, <3>1, <3>2 DEF JobTold
  <2>7. \A t \in Servers, k \in Jobs : k = job'[t] => k = job[t] \/ JobTold(k)'
    BY <1>6, <2>6, OtherJobs
  <2> QED BY <1>2, <1>3, <2>1, <2>3, <2>4, <2>5, <2>7, ProfileApplied
<1> QED BY <1>2, <1>4, <1>5, <1>6

LEMMA ProfileHookWrite ==
  ASSUME Typed, Typed', ProfileSound, NEW s \in Servers, HookWrite(s) PROVE ProfileSound'
<1>1. PICK j : j = job[s]
  OBVIOUS
<1>2. /\ j \in HookJobs /\ JobSound(j) /\ MessageSound(j.m)
      /\ UNCHANGED <<recorded, providers>> /\ Done(s)
      /\ \/ /\ profile'.status = "active" <=> j.status = "ACTIVE"
            /\ Apply(j.m, j.at, j.status) /\ Answer(s, j.m)
         \/ UNCHANGED <<profile, due, mem, history>>
  BY <1>1, HookWrites
<1>3. UNCHANGED <<stripe, charge>>
  BY <1>2 DEF providers
<1>4. CASE UNCHANGED <<profile, due, mem, history>>
  BY <1>2, <1>3, <1>4, IdleKnows, ProfileQuiet DEF ProfileSound, history, Done
<1>5. CASE /\ profile'.status = "active" <=> j.status = "ACTIVE"
           /\ Apply(j.m, j.at, j.status) /\ Answer(s, j.m)
  <2>1. /\ applied' = applied \cup {[m |-> j.m, at |-> j.at]}
        /\ ~excused'.profile => ~excused.profile /\ ~Overtaken(j.m, j.at)
        /\ ~excused'.profile /\ j.status \notin {"active", "ACTIVE"} => ~PaidBeside(j.m.of)
    BY <1>5, RowTypes, Excuses
  <2>2. j.m \in ChargeMessages /\ j.at \in Nat /\ j.kind = "hook" /\ j.status \in Ends
    BY <1>2 DEF HookJobs
  <2>3. j.m.n <= j.at /\ j.at <= sent /\ j.m.n <= sent
    BY <1>2, <2>2 DEF JobSound, MessageSound
  <2>4. profile'.status = "active" <=> j.status \in {"active", "ACTIVE"}
    BY <1>5, <2>2 DEF Ends
  <2>5. SUFFICES ASSUME ~excused'.profile PROVE Informed' /\ Agrees'
    BY DEF ProfileSound
  <2>6. Informed /\ Told(j.m.of, j.status, j.at)
    BY <1>1, <2>1, <2>2, <2>5 DEF ProfileSound, Informed, JobTold
  <2>7. \A t \in Servers, k \in Jobs : k = job'[t] => k = job[t] \/ JobTold(k)'
    <3>1. JobTold(Idle)'
      BY DEF JobTold, Idle
    <3> QED BY <1>2, <3>1, OtherJobs DEF Done
  <2>8. PICK m, at, status : m = j.m /\ at = j.at /\ status = j.status
    OBVIOUS
  <2> QED BY <1>2, <1>3, <1>5, <2>1, <2>2, <2>3, <2>4, <2>5, <2>6, <2>7, <2>8, ProfileApplied
<1> QED BY <1>2, <1>4, <1>5

LEMMA ProfileMark ==
  ASSUME Typed, Typed', ProfileSound, NEW s \in Servers, StripeMark(s) PROVE ProfileSound'
<1>1. PICK m : m = job[s].m
  OBVIOUS
<1>2. /\ m \in StripeMessages /\ MessageSound(m) /\ job[s] \in StripeJobs /\ job[s].step = "mark"
      /\ UNCHANGED <<profile, providers, history>> /\ Done(s)
      /\ \/ recorded' = recorded \cup {m} /\ Answer(s, m)
         \/ UNCHANGED <<recorded, mem>> /\ due' = due \ {m}
  BY <1>1, StripeMarks DEF StripeMark, At
<1>3. m \in Messages /\ m.n <= sent /\ UNCHANGED <<stripe, charge, applied, excused>>
  BY <1>2, PayingSizes DEF MessageSound, providers, history
<1>4. Informed => Handled(m) /\ \E a \in applied : a.m = m
  <2>1. ASSUME Informed PROVE \E a \in applied : a.m = m
    BY <1>1, <1>2, <2>1 DEF Informed, JobTold, StripeJobs
  <2>2. ASSUME NEW a \in applied, a.m = m PROVE Handled(m)
    <3>1. a.at >= m.n
      BY <2>2, PayingSizes
    <3> QED BY <2>2, <3>1 DEF Handled
  <2> QED BY <2>1, <2>2
<1>5. /\ due' \subseteq due /\ \A x \in due : x = m \/ x \in due'
      /\ \A t \in Servers : \A x \in mem'[t] : x \in mem[t] \/ x = m
      /\ \A x \in recorded' : x \in recorded \/ x = m
  <2>1. CASE recorded' = recorded \cup {m} /\ Answer(s, m)
    BY <1>3, <2>1, Answers
  <2> QED BY <1>2, <2>1
<1>6. ASSUME Informed, Agrees PROVE Informed' /\ Agrees'
  BY <1>2, <1>3, <1>4, <1>5, <1>6, IdleKnows, ProfileQuiet DEF Done
<1> QED BY <1>3, <1>6 DEF ProfileSound

LEMMA ProfileGuard ==
  ASSUME Typed, Typed', ProfileSound, NEW s \in Servers, GuardWrite(s) PROVE ProfileSound'
<1>1. PICK c \in BOOLEAN : c = (profile.status # "trialing")
  OBVIOUS
<1>2. ~excused'.profile => ~excused.profile /\ profile.status = "trialing"
  BY <1>1, RowTypes, ProfileExcused DEF GuardWrite
<1>3. UNCHANGED <<stripe, charge, applied, due, mem, recorded>> /\ Done(s) /\ profile'.status = "expired"
  BY RowTypes DEF GuardWrite, providers
<1> QED BY <1>2, <1>3, IdleKnows, ProfileQuiet DEF ProfileSound, Done

LEMMA ProfileCallback ==
  ASSUME Typed, Typed', ProfileSound, NEW s \in Servers, CallbackWrite(s) PROVE ProfileSound'
<1>1. PICK j, x, at : j = job[s] /\ x = j.of /\ at = j.at
  OBVIOUS
<1>2. j \in CallbackJobs /\ x \in Paying /\ at \in Nat /\ at <= sent /\ j.kind = "callback"
  BY <1>1, JobShapes DEF CallbackWrite, At, Typed, JobsTyped, CallbackJobs, JobSound, Paying
<1>3. PICK c \in BOOLEAN : c = Overtaken(j, at)
  BY DEF Overtaken
<1>4. ~excused'.profile => ~excused.profile /\ ~Overtaken(j, at)
  BY <1>1, <1>3, RowTypes, ProfileExcused DEF CallbackWrite
<1>5. UNCHANGED <<stripe, charge, applied, due, mem, recorded>> /\ Done(s) /\ profile'.status = "active"
  BY DEF CallbackWrite, providers
<1>6. SUFFICES ASSUME ~excused'.profile PROVE Informed' /\ Agrees'
  BY DEF ProfileSound
<1>7. Informed /\ Agrees /\ Told(x, "ACTIVE", at)
  BY <1>1, <1>2, <1>4, <1>6 DEF ProfileSound, Informed, JobTold
<1>8. \A a \in applied : a.m.of = x => a.at <= at
  BY <1>1, <1>2, <1>4, <1>6, NotOvertaken
<1>9. Agrees'
  BY <1>2, <1>5, <1>7, <1>8, AgreesApplied
<1>10. Informed'
  <2>1. Tells
    BY <1>5 DEF Tells, Current
  <2>2. JobTold(Idle)'
    BY DEF JobTold, Idle
  <2> QED BY <1>5, <1>7, <2>1, <2>2, OtherJobs, KnownStays DEF Done
<1> QED BY <1>9, <1>10

LEMMA ProfileNext == ASSUME Typed, Typed', ProfileSound, [Next]_vars PROVE ProfileSound'
<1>1. CASE UNCHANGED vars
  BY <1>1 DEF vars, database, providers, history, ProfileSound, Informed, Agrees, JobTold, Told, Newer,
              Handled, Waiting, PaidFor, Current
<1>2. CASE Environment
  BY <1>2, ProfileStripe, ProfileShopify, ProfileOutside, ProfileAlone DEF Environment
<1>3. ASSUME NEW s \in Servers, Proceed(s) PROVE ProfileSound'
  BY <1>3, ProfileStripeApply, ProfileMark, ProfileGuard, ProfileOther, ProfileQueries, ProfileHookWrite,
     ProfileCallback DEF Proceed
<1>4. ASSUME NEW s \in Servers,
             \/ CustomerRead(s) \/ GuardRead(s) \/ Install(s) \/ SettingsRead(s)
             \/ \E c \in Charges : CallbackQuery(s, c)
             \/ Crash(s)
      PROVE  ProfileSound'
  BY <1>4, ProfileOther, ProfileQueries
<1> QED BY <1>1, <1>2, <1>3, <1>4, ProfileReceive DEF Next

LEMMA InitSound == ASSUME Init PROVE ProfileSound
<1>1. \A x \in Paying : ~PaidFor(x)
  BY DEF Init, PaidFor, Current, Paying
<1>2. Informed
  BY DEF Init, Informed, JobTold, Idle
<1> QED BY <1>1, <1>2 DEF Init, ProfileSound, Agrees

LEMMA ProfileHolds == Spec => [](Typed /\ ProfileSound)
<1>1. Init => ProfileSound
  BY InitSound
<1>2. Typed /\ Typed' /\ ProfileSound /\ [Next]_vars => ProfileSound'
  BY ProfileNext
<1> QED BY <1>1, <1>2, TypedHolds, PTL DEF Spec

LEMMA ProfileRests == ASSUME Typed, ProfileSound PROVE EntitlementFollowsPayment
<1>1. Paid <=> \E x \in Paying : PaidFor(x)
  BY Sizes, PaidShapes DEF Paid, PaidBeside, Paying
<1>2. ASSUME AtRest, NEW x \in Paying PROVE ~Waiting(x)
  BY <1>2 DEF AtRest, Waiting
<1> QED BY <1>1, <1>2 DEF ProfileSound, Agrees, EntitlementFollowsPayment

\* Once every message of both providers is answered, the merchant is active
\* exactly when one of them is being paid, in whatever order the messages came
\* and however often, unless one of the listed races was met on the way.
THEOREM ProfileFollows == Spec => []EntitlementFollowsPayment
<1>1. Typed /\ ProfileSound => EntitlementFollowsPayment
  BY ProfileRests
<1> QED BY <1>1, ProfileHolds, PTL

-----------------------------------------------------------------------------
(* The table of processed events.                                          *)

\* The event reached the profile, or is one of the two exceptions.
Accounted(m) ==
  (\E a \in applied : a.m = m) \/ (m.kind # "checkout" /\ m \in unknown \cup missed)

\* What is recorded, or about to be, is accounted for, and every lookup that
\* failed has taken a fault.  No race excuses from it.
Marking(s) == At(s, "stripe", "mark")
MissedPaid == IsFiniteSet(missed) /\ Cardinality(missed) <= faults
RecordSound ==
  /\ \A m \in recorded : Accounted(m)
  /\ \A s \in Servers : Marking(s) => Accounted(job[s].m)
  /\ MissedPaid

LEMMA AccountedStays ==
  ASSUME applied \subseteq applied', unknown \subseteq unknown', missed \subseteq missed',
         NEW m, Accounted(m)
  PROVE  Accounted(m)'
BY DEF Accounted

LEMMA FaultsCount ==
  ASSUME Typed, Fault \/ UNCHANGED faults
  PROVE  faults \in Nat /\ faults' \in Nat /\ faults <= faults' /\ (Fault => faults' = faults + 1)
BY Sizes DEF Typed, RowsTyped, Fault

LEMMA MissedStays ==
  ASSUME Typed, MissedPaid, UNCHANGED missed, Fault \/ UNCHANGED faults PROVE MissedPaid'
<1>1. Cardinality(missed) \in Nat
  BY FS_CardinalityType DEF MissedPaid
<1> QED BY <1>1, FaultsCount DEF MissedPaid

\* A step that records nothing and brings no server to the mark.
Unmarked(s) ==
  /\ applied \subseteq applied' /\ UNCHANGED <<recorded, unknown, missed>>
  /\ Fault \/ UNCHANGED faults
  /\ UNCHANGED job \/ \E j : Do(s, j) /\ (j.kind = "stripe" => j.step = "apply")

LEMMA RecordKeeps ==
  ASSUME Typed, RecordSound, NEW s \in Servers, Unmarked(s) PROVE RecordSound'
<1>1. ASSUME NEW m \in recorded' PROVE Accounted(m)'
  BY <1>1, AccountedStays DEF Unmarked, RecordSound
<1>2. ASSUME NEW t \in Servers, Marking(t)' PROVE Accounted(job[t].m)'
  <2>1. job'[t] = job[t]
    BY <1>2 DEF Unmarked, Do, Marking, At, Typed, JobsTyped
  <2>2. Marking(t) /\ Accounted(job[t].m)
    BY <1>2, <2>1 DEF Marking, At, RecordSound
  <2> QED BY <2>1, <2>2, AccountedStays DEF Unmarked, Accounted
<1>3. MissedPaid'
  BY MissedStays DEF Unmarked, RecordSound
<1> QED BY <1>1, <1>2, <1>3 DEF RecordSound

\* The lookup decides: the event is applied, unknown or missed, or comes again.
LEMMA StripeAccounts ==
  ASSUME Typed, NEW s \in Servers, StripeApply(s)
  PROVE  LET m == job[s].m IN
         /\ UNCHANGED recorded /\ (Fault \/ UNCHANGED faults)
         /\ applied \subseteq applied'
         /\ \/ Do(s, StripeGoes(job[s])) /\ UNCHANGED <<unknown, missed>> /\ \E a \in applied' : a.m = m
            \/ /\ Do(s, StripeGoes(job[s])) /\ m.kind # "checkout" /\ unknown' = unknown \cup {m}
               /\ UNCHANGED missed
            \/ /\ Do(s, StripeGoes(job[s])) /\ m.kind # "checkout" /\ missed' = missed \cup {m}
               /\ Fault /\ UNCHANGED unknown
            \/ Done(s) /\ UNCHANGED <<unknown, missed>>
<1>1. PICK m, j : m = job[s].m /\ j = StripeGoes(job[s])
  OBVIOUS
<1>2. /\ UNCHANGED recorded
      /\ \/ Apply(m, m.n, m.status) /\ Do(s, j) /\ UNCHANGED faults
         \/ /\ UNCHANGED applied /\ Do(s, j) /\ m.kind # "checkout"
            /\ \/ missed' = missed \cup {m} /\ Fault /\ UNCHANGED unknown
               \/ unknown' = unknown \cup {m} /\ UNCHANGED <<missed, faults>>
         \/ UNCHANGED history /\ Done(s) /\ Fault
  BY <1>1, Zenon DEF StripeApply, StripeGoes, Resolved
<1>3. CASE Apply(m, m.n, m.status) /\ Do(s, j) /\ UNCHANGED faults
  <2>1. PICK a : a = [m |-> m, at |-> m.n]
    OBVIOUS
  <2>2. applied' = applied \cup {a} /\ a.m = m /\ UNCHANGED <<unknown, missed>>
    BY <1>3, <2>1 DEF Apply
  <2> QED BY <1>1, <1>2, <1>3, <2>2
<1> QED BY <1>1, <1>2, <1>3 DEF history

LEMMA RecordApply ==
  ASSUME Typed, Typed', RecordSound, NEW s \in Servers, StripeApply(s) PROVE RecordSound'
<1>1. PICK m, j : m = job[s].m /\ j = StripeGoes(job[s])
  OBVIOUS
<1>2. /\ UNCHANGED recorded /\ (Fault \/ UNCHANGED faults) /\ applied \subseteq applied'
      /\ \/ /\ Do(s, j)
            /\ \/ UNCHANGED <<unknown, missed>> /\ \E a \in applied' : a.m = m
               \/ m.kind # "checkout" /\ unknown' = unknown \cup {m} /\ UNCHANGED missed
               \/ m.kind # "checkout" /\ missed' = missed \cup {m} /\ Fault /\ UNCHANGED unknown
         \/ Done(s) /\ UNCHANGED <<unknown, missed>>
  BY <1>1, StripeAccounts
<1>3. CASE Done(s) /\ UNCHANGED <<unknown, missed>>
  <2>1. Unmarked(s)
    BY <1>2, <1>3 DEF Unmarked, Done, Idle
  <2> QED BY <2>1, RecordKeeps
<1>4. CASE /\ Do(s, j)
           /\ \/ UNCHANGED <<unknown, missed>> /\ \E a \in applied' : a.m = m
              \/ m.kind # "checkout" /\ unknown' = unknown \cup {m} /\ UNCHANGED missed
              \/ m.kind # "checkout" /\ missed' = missed \cup {m} /\ Fault /\ UNCHANGED unknown
  <2>1. Accounted(m)' /\ unknown \subseteq unknown' /\ missed \subseteq missed'
    BY <1>2, <1>4 DEF Accounted
  <2>2. j.m = m
    BY <1>1, StripeApplies, StripeMade
  <2>3. ASSUME NEW x \in recorded' PROVE Accounted(x)'
    BY <1>2, <2>1, AccountedStays DEF RecordSound
  <2>4. ASSUME NEW t \in Servers, Marking(t)' PROVE Accounted(job[t].m)'
    <3>1. CASE t = s
      BY <1>4, <2>1, <2>2, <3>1 DEF Do, Accounted, Typed, JobsTyped
    <3>2. CASE t # s
      <4>1. job'[t] = job[t]
        BY <1>4, <3>2 DEF Do, Typed, JobsTyped
      <4>2. Accounted(job[t].m)
        BY <2>4, <4>1 DEF Marking, At, RecordSound
      <4> QED BY <1>2, <2>1, <4>1, <4>2, AccountedStays DEF Accounted
    <3> QED BY <3>1, <3>2
  <2>5. MissedPaid'
    <3>1. CASE UNCHANGED missed
      BY <1>2, <3>1, MissedStays DEF RecordSound
    <3>2. CASE missed' = missed \cup {m} /\ Fault
      <4>1. IsFiniteSet(missed) /\ Cardinality(missed) \in Nat /\ Cardinality(missed) <= faults
        BY FS_CardinalityType DEF RecordSound, MissedPaid
      <4>2. /\ IsFiniteSet(missed \cup {m})
            /\ Cardinality(missed \cup {m}) \in {Cardinality(missed), Cardinality(missed) + 1}
        BY <4>1, FS_AddElement
      <4>3. faults \in Nat /\ faults' = faults + 1
        BY <1>2, <3>2, FaultsCount
      <4> QED BY <3>2, <4>1, <4>2, <4>3 DEF MissedPaid
    <3> QED BY <1>2, <1>4, <3>1, <3>2
  <2> QED BY <2>3, <2>4, <2>5 DEF RecordSound
<1> QED BY <1>2, <1>3, <1>4

LEMMA RecordMark ==
  ASSUME Typed, RecordSound, NEW s \in Servers, StripeMark(s) PROVE RecordSound'
<1>1. PICK m : m = job[s].m
  OBVIOUS
<1>2. /\ UNCHANGED history /\ Done(s) /\ Marking(s)
      /\ recorded' = recorded \/ recorded' = recorded \cup {m}
      /\ Fault \/ UNCHANGED faults
  BY <1>1 DEF StripeMark, Answer, Marking
<1>3. Accounted(m)
  BY <1>1, <1>2 DEF RecordSound
<1>4. ASSUME NEW x \in recorded' PROVE Accounted(x)'
  BY <1>2, <1>3, AccountedStays DEF RecordSound, history
<1>5. ASSUME NEW t \in Servers, Marking(t)' PROVE Accounted(job[t].m)'
  <2>1. job'[t] = job[t] /\ Marking(t)
    BY <1>2, <1>5 DEF Done, Do, Idle, Marking, At, Typed, JobsTyped
  <2> QED BY <1>2, <2>1, AccountedStays DEF RecordSound, history, Accounted
<1>6. MissedPaid'
  BY <1>2, MissedStays DEF RecordSound, history
<1> QED BY <1>4, <1>5, <1>6 DEF RecordSound

LEMMA RecordReceive ==
  ASSUME Typed, RecordSound, NEW s \in Servers, NEW m \in due, Receive(s, m) PROVE RecordSound'
<1>1. /\ UNCHANGED <<applied, recorded, unknown, missed>>
      /\ Fault \/ UNCHANGED faults
  BY DEF Receive, StripeReceive, IsProcessed, Known, Untracked, Uninstalled, HookTake, ShopRedact, Answer,
         database, history
<1>2. UNCHANGED job \/ \E j : Do(s, j) /\ (j.kind = "stripe" => j.step = "apply")
  <2>1. PICK a : a = [kind |-> "stripe", step |-> "apply", m |-> m]
    OBVIOUS
  <2>2. PICK h : h = [kind |-> "hook", step |-> IF row.state = "revoked" THEN "write" ELSE "query",
                      m |-> m, token |-> row.token, status |-> m.status, at |-> m.n]
    OBVIOUS
  <2>3. PICK r : r = [kind |-> "redact", step |-> "purge"]
    OBVIOUS
  <2>4. UNCHANGED job \/ Do(s, a) \/ Do(s, h) \/ Do(s, r)
    BY <2>1, <2>2, <2>3 DEF Receive, StripeReceive, Known, Untracked, Uninstalled, HookTake, ShopRedact
  <2>5. a.step = "apply" /\ h.kind = "hook" /\ r.kind = "redact"
    BY <2>1, <2>2, <2>3
  <2> QED BY <2>4, <2>5
<1> QED BY <1>1, <1>2, RecordKeeps DEF Unmarked

\* Every other step of a server.
LEMMA RecordServer ==
  ASSUME Typed, RecordSound, NEW s \in Servers,
         \/ CustomerRead(s) \/ CustomerSave(s) \/ GuardRead(s) \/ GuardWrite(s)
         \/ Install(s) \/ ConnectSave(s) \/ SettingsRead(s) \/ SettingsSave(s)
         \/ HookQuery(s) \/ HookWrite(s) \/ CallbackWrite(s) \/ Purge(s) \/ Crash(s)
         \/ \E c \in Charges : CallbackQuery(s, c)
  PROVE  RecordSound'
<1>1. CASE \/ CustomerRead(s) \/ GuardRead(s) \/ Install(s) \/ SettingsRead(s)
           \/ \E c \in Charges : CallbackQuery(s, c)
  <2>1. /\ UNCHANGED <<applied, recorded, unknown, missed>>
        /\ Fault \/ UNCHANGED faults
    BY <1>1 DEF CustomerRead, GuardRead, Install, SettingsRead, CallbackQuery, database, history
  <2>2. CASE CustomerRead(s) \/ GuardRead(s) \/ Install(s) \/ SettingsRead(s)
    <3>1. PICK a, b, c, d :
            /\ a = [kind |-> "customer", step |-> "save"] /\ b = [kind |-> "guard", step |-> "write"]
            /\ c = [kind |-> "connect", step |-> "save", token |-> shop.times + 1]
            /\ d = [kind |-> "settings", step |-> "save", token |-> ActiveToken]
      OBVIOUS
    <3>2. UNCHANGED job \/ Do(s, a) \/ Do(s, b) \/ Do(s, c) \/ Do(s, d)
      BY <2>2, <3>1 DEF CustomerRead, GuardRead, Install, SettingsRead
    <3>3. "stripe" \notin {a.kind, b.kind, c.kind, d.kind}
      BY <3>1
    <3> QED BY <2>1, <3>2, <3>3, RecordKeeps DEF Unmarked
  <2>3. ASSUME NEW c \in Charges, CallbackQuery(s, c) PROVE RecordSound'
    <3>1. \E j : Do(s, j) /\ j.kind # "stripe"
      BY <2>3 DEF CallbackQuery
    <3> QED BY <2>1, <3>1, RecordKeeps DEF Unmarked
  <2> QED BY <1>1, <2>2, <2>3
<1>2. CASE \/ CustomerSave(s) \/ GuardWrite(s) \/ ConnectSave(s) \/ SettingsSave(s)
           \/ CallbackWrite(s) \/ Purge(s) \/ Crash(s)
  <2>1. /\ UNCHANGED <<applied, recorded, unknown, missed>> /\ Do(s, Idle)
        /\ Fault \/ UNCHANGED faults
    BY <1>2, CustomerSaves DEF GuardWrite, ConnectSave, SettingsSave, CallbackWrite, Purge, Crash,
                               database, Done
  <2> QED BY <2>1, RecordKeeps DEF Unmarked, Idle
<1>3. CASE HookQuery(s)
  <2>1. PICK j \in HookJobs : Do(s, j)
    BY <1>3, HookQueries
  <2>2. UNCHANGED <<applied, recorded, unknown, missed>> /\ (Fault \/ UNCHANGED faults)
    BY <1>3, HookQueries DEF database, history
  <2> QED BY <2>1, <2>2, RecordKeeps DEF Unmarked, HookJobs
<1>4. CASE HookWrite(s)
  <2>1. /\ applied \subseteq applied' /\ UNCHANGED <<recorded, unknown, missed>> /\ Do(s, Idle)
        /\ Fault \/ UNCHANGED faults
    BY <1>4 DEF HookWrite, Apply, Answer, history, Done
  <2> QED BY <2>1, RecordKeeps DEF Unmarked, Idle
<1> QED BY <1>1, <1>2, <1>3, <1>4

\* The providers and the merchant record nothing.
LEMMA RecordOutside ==
  ASSUME Typed, RecordSound, UNCHANGED <<job, applied, recorded, unknown, missed>>, Fault \/ UNCHANGED faults
  PROVE  RecordSound'
<1>1. MissedPaid'
  BY MissedStays DEF RecordSound
<1> QED BY <1>1 DEF RecordSound, Accounted, Marking, At

LEMMA RecordNext == ASSUME Typed, Typed', RecordSound, [Next]_vars PROVE RecordSound'
<1>1. CASE UNCHANGED vars
  BY <1>1, RecordOutside DEF vars, database, history
<1>2. CASE Environment
  <2>1. UNCHANGED <<job, applied, recorded, unknown, missed>> /\ (Fault \/ UNCHANGED faults)
    BY <1>2 DEF Environment, StripeSubscribe, StripeChange, ShopifyChange, Uninstall, Redact, Disconnect,
                CreateCharge, TooOld, database, history
  <2> QED BY <2>1, RecordOutside
<1>3. ASSUME NEW s \in Servers, Proceed(s) PROVE RecordSound'
  BY <1>3, RecordApply, RecordMark, RecordServer DEF Proceed
<1>4. ASSUME NEW s \in Servers,
             \/ CustomerRead(s) \/ GuardRead(s) \/ Install(s) \/ SettingsRead(s)
             \/ \E c \in Charges : CallbackQuery(s, c)
             \/ Crash(s)
      PROVE  RecordSound'
  BY <1>4, RecordServer
<1> QED BY <1>1, <1>2, <1>3, <1>4, RecordReceive DEF Next

\* A Stripe event recorded as processed has reached the profile, whatever races,
\* crashes and repeats there were, except an event of a subscription whose
\* customer nobody had at the lookup, or whose lookup failed: at most as many of
\* these as there were faults.  A checkout is among them never.
THEOREM ProcessedApplied == Spec => []ProcessedWasApplied
<1>1. Init => RecordSound
  BY FS_EmptySet, Sizes DEF Init, RecordSound, MissedPaid, Marking, At, Idle
<1>2. Typed /\ Typed' /\ RecordSound /\ [Next]_vars => RecordSound'
  BY RecordNext
<1>3. RecordSound => ProcessedWasApplied
  BY DEF RecordSound, Accounted, MissedPaid, ProcessedWasApplied
<1> QED BY <1>1, <1>2, <1>3, TypedHolds, PTL DEF Spec

=============================================================================
