-------------------------- MODULE MerchantBilling --------------------------
(***************************************************************************)
(* The entitlement of one merchant and the connection of one Shopify shop: *)
(* Stripe events, Shopify webhooks and callbacks, the trial guard and the  *)
(* store endpoints all write the same profile row and the same store row,  *)
(* and no write is conditional on what its handler has read.               *)
(*                                                                         *)
(* A server runs one request at a time; its steps are the database and     *)
(* Shopify calls of a handler, between which other servers go on.          *)
(***************************************************************************)
EXTENDS Integers, FiniteSets

CONSTANTS
  Servers,        \* processes of the API
  Subs,           \* Stripe subscriptions the merchant may take
  Charges,        \* Shopify app subscriptions
  StatusDomain,   \* the values profiles_subscription_status_check allows
  ShopifyColumns, \* profiles has billing_provider and shopify_charge_id
  SecondTable,    \* a table monitored_stores exists beside shopify_stores
  MaxInputs,      \* bound on events, webhooks and installations
  MaxFaults       \* bound on failing calls, lost answers and crashes

ASSUME BillingAssumption ==
  /\ {"trialing", "active", "past_due", "canceled", "expired"} \subseteq StatusDomain
  /\ {ShopifyColumns, SecondTable} \subseteq BOOLEAN
  /\ {MaxInputs, MaxFaults} \subseteq Nat
  /\ IsFiniteSet(Charges)
  /\ Subs \cap Charges = {} /\ {"shop", "nothing"} \cap (Subs \cup Charges) = {}

VARIABLES
  profile,   \* subscription_status and whether subscription_tier is a paid one
  customer,  \* stripe_customer_id: none, a mock id or an id of Stripe
  row,       \* the store row: its state and the installation of its token
  stripe,    \* Stripe: status and customer of each subscription
  charge,    \* Shopify: status of each app subscription
  shop,      \* Shopify: whether the app is installed, and how often it was
  sent,      \* number of events, webhooks and installations so far
  due,       \* those not yet answered with 200
  recorded,  \* processed_webhook_events
  mem,       \* what each server remembers to have processed
  job,       \* the request each server is at
  faults,    \* faults so far, at most MaxFaults
  sessions,  \* Stripe: the customers that checkout sessions were made for
  applied,   \* history: messages that reached the profile, and as of when
  unknown,   \* history: events looked up when nobody had their customer
  missed,    \* history: events whose lookup failed
  excused    \* history: a known race may have made profile or row differ from
             \* the providers

database == <<profile, customer, row, recorded>>
providers == <<stripe, sessions, charge, shop, sent>>
history == <<applied, unknown, missed, excused>>
vars == <<database, providers, due, mem, job, faults, history>>

Idle == [kind |-> "idle"]

Init ==
  /\ profile = [status |-> "trialing", paid |-> FALSE]
  /\ customer = "none" /\ sessions = {}
  /\ row = [state |-> "none", token |-> 0]
  /\ stripe = [k \in Subs |-> [status |-> "none", payer |-> "none"]]
  /\ charge = [c \in Charges |-> "none"]
  /\ shop = [installed |-> FALSE, times |-> 0]
  /\ sent = 0
  /\ due = {}
  /\ recorded = {}
  /\ mem = [s \in Servers |-> {}]
  /\ job = [s \in Servers |-> Idle]
  /\ faults = 0
  /\ applied = {} /\ unknown = {} /\ missed = {}
  /\ excused = [profile |-> FALSE, row |-> FALSE]

Fault == faults < MaxFaults /\ faults' = faults + 1
ExcuseProfile(condition) == excused' = [excused EXCEPT !.profile = @ \/ condition]
ExcuseRow(condition) == excused' = [excused EXCEPT !.row = @ \/ condition]
ExcuseBoth == excused' = [profile |-> TRUE, row |-> TRUE]

Do(s, j) == job' = [job EXCEPT ![s] = j]
Done(s) == Do(s, Idle)
At(s, kind, step) == job[s].kind = kind /\ job[s].step = step

Remember(s, m) == mem' = [mem EXCEPT ![s] = @ \cup {m}]

\* The server remembers m and answers; the answer may be lost.  (What it
\* remembers of an answered message is never asked for, and left out.)
Answer(s, m) ==
  \/ due' = due \ {m} /\ UNCHANGED <<mem, faults>>
  \/ UNCHANGED due /\ Remember(s, m) /\ Fault

-----------------------------------------------------------------------------
(* What the providers do.                                                  *)

\* What is being paid for, besides x.
PaidBeside(x) ==
  \/ \E k \in Subs \ {x} : stripe[k].status = "active"
  \/ \E c \in Charges \ {x} : charge[c] = "ACTIVE"
Paid == PaidBeside("nothing")

Message(kind, of, status) == [n |-> sent + 1, kind |-> kind, of |-> of, status |-> status]
Send(ms) ==
  /\ sent + Cardinality(ms) <= MaxInputs
  /\ sent' = sent + Cardinality(ms)
  /\ due' = due \cup ms

\* The merchant pays on the page of a checkout session, an old one or one made
\* for the id in the profile.  A session for a mock id gets a customer of its own.
StripeSubscribe ==
  /\ \E k \in Subs, id \in {"main", "other", "mock"} \cup Subs :
       /\ id \in sessions \/ id = customer
       /\ stripe[k].status = "none"
       /\ stripe' = [stripe EXCEPT ![k] =
            [status |-> "active", payer |-> IF id = "mock" THEN k ELSE id]]
       /\ Send({Message("checkout", k, "active")})
  /\ UNCHANGED <<database, sessions, charge, shop, mem, job, faults, history>>

\* A subscription paid in a session without a trial takes no other status.
StripeChange ==
  /\ \E k \in Subs, status \in {"active", "past_due", "unpaid", "canceled"} :
       /\ stripe[k].status \notin {"none", "canceled", status}
       /\ stripe' = [stripe EXCEPT ![k].status = status]
       /\ Send({Message(IF status = "canceled" THEN "deleted" ELSE "updated", k, status)})
  /\ UNCHANGED <<database, sessions, charge, shop, mem, job, faults, history>>

NextStatus ==
  [none |-> {}, PENDING |-> {"ACTIVE", "DECLINED"},
   ACTIVE |-> {"PAUSED", "CANCELLED", "EXPIRED"}, PAUSED |-> {"ACTIVE", "CANCELLED"},
   CANCELLED |-> {}, DECLINED |-> {}, EXPIRED |-> {}]

ShopifyChange ==
  /\ \E c \in Charges : \E status \in NextStatus[charge[c]] :
       /\ charge' = [charge EXCEPT ![c] = status]
       /\ Send({Message("subscription", c, status)})
  /\ UNCHANGED <<database, sessions, stripe, shop, mem, job, faults, history>>

\* Uninstalling the app ends its subscriptions as well.
Uninstall ==
  LET ended == {c \in Charges : charge[c] \in {"ACTIVE", "PAUSED", "PENDING"}} IN
  /\ shop.installed
  /\ shop' = [shop EXCEPT !.installed = FALSE]
  /\ charge' = [c \in Charges |-> IF c \in ended THEN "CANCELLED" ELSE charge[c]]
  /\ Send({Message("uninstalled", "shop", "none")}
          \cup {Message("subscription", c, "CANCELLED") : c \in ended})
  /\ UNCHANGED <<database, sessions, stripe, mem, job, faults, history>>

\* shop/redact comes 48 hours after the app was uninstalled: every other
\* webhook has been answered or is too old by then.
Redact ==
  /\ ~shop.installed /\ shop.times > 0
  /\ \A m \in due : m.kind \notin {"subscription", "uninstalled", "redact"}
  /\ Send({Message("redact", "shop", "none")})
  /\ UNCHANGED <<database, sessions, stripe, charge, shop, mem, job, faults, history>>

\* A webhook that was not answered within 300 seconds is refused ever after.
TooOld(m) ==
  /\ m \in due /\ m.kind \in {"subscription", "uninstalled"}
  /\ Fault
  /\ due' = due \ {m}
  /\ ExcuseBoth
  /\ UNCHANGED <<database, providers, mem, job, applied, unknown, missed>>

-----------------------------------------------------------------------------
(* Stripe.                                                                 *)

\* get_or_create_customer: an id in the profile is never looked up again.
CustomerRead(s) ==
  /\ job[s] = Idle /\ customer = "none"
  /\ Do(s, [kind |-> "customer", step |-> "save"])
  /\ UNCHANGED <<database, providers, due, mem, faults, history>>

\* The id found or made at Stripe is saved over whatever was saved since: two
\* requests that overlap may make one each.  An error saves a mock id, if it can.
CustomerSave(s) ==
  /\ At(s, "customer", "save")
  /\ \/ \E id \in {"main", "other", "mock"} :
          /\ id = "other" => "main" \in sessions
          /\ IF id = "mock" THEN Fault ELSE UNCHANGED faults
          /\ customer' = id /\ sessions' = sessions \cup {id}
     \/ Fault /\ UNCHANGED <<customer, sessions>>
  /\ Done(s)
  /\ UNCHANGED <<profile, row, recorded, stripe, charge, shop, sent, due, mem, history>>

\* A database error leaves it to the memory of the server.
IsProcessed(s, m, seen) ==
  \/ seen = (m \in recorded \cup mem[s]) /\ UNCHANGED faults
  \/ seen = (m \in mem[s]) /\ Fault

StripeEvents == {m \in due : m.kind \in {"checkout", "updated", "deleted"}}

\* The event recorded on receipt.
StripeReceiveMarked(s, m) ==
  /\ job[s] = Idle /\ m \in StripeEvents
  /\ \E seen \in BOOLEAN :
       /\ IsProcessed(s, m, seen)
       /\ IF seen
          THEN due' = due \ {m} /\ UNCHANGED <<job, recorded>>
          ELSE /\ Do(s, [kind |-> "stripe", step |-> "apply", m |-> m])
               /\ recorded' = recorded \cup {m} /\ UNCHANGED due
  /\ UNCHANGED <<profile, customer, row, providers, mem, history>>

StripeReceive(s, m) ==
  /\ job[s] = Idle /\ m \in StripeEvents
  /\ \E seen \in BOOLEAN :
       /\ IsProcessed(s, m, seen)
       /\ IF seen
          THEN due' = due \ {m} /\ UNCHANGED job
          ELSE Do(s, [kind |-> "stripe", step |-> "apply", m |-> m]) /\ UNCHANGED due
  /\ UNCHANGED <<database, providers, mem, history>>

\* Only the session carries the user; an event of a subscription is matched
\* by the customer id in the profile.
Resolved(m) == m.kind = "checkout" \/ customer = stripe[m.of].payer

EntitlementGrace(m) ==
  CASE m.kind = "checkout" -> [status |-> "active", paid |-> TRUE]
    [] m.kind = "deleted" -> [status |-> "canceled", paid |-> FALSE]
    [] m.kind = "updated" /\ m.status = "unpaid" -> [status |-> "expired", paid |-> FALSE]
    [] OTHER -> [status |-> "active", paid |-> TRUE]
Entitlement(m) ==
  CASE m.kind = "checkout" -> [status |-> "active", paid |-> TRUE]
    [] m.kind = "deleted" -> [status |-> "canceled", paid |-> FALSE]
    [] m.kind = "updated" /\ m.status = "unpaid" -> [status |-> "expired", paid |-> FALSE]
    [] OTHER -> [status |-> m.status, paid |-> TRUE]

\* History: m was written as the state of its subscription when at messages
\* had been sent.  A newer state may have been written before, or another
\* subscription may be paid for while m ends its own.
Overtaken(m, at) == \E a \in applied : a.m.of = m.of /\ a.at > at
Apply(m, at, status) ==
  /\ applied' = applied \cup {[m |-> m, at |-> at]}
  /\ ExcuseProfile(\/ Overtaken(m, at)
                   \/ status \notin {"active", "ACTIVE"} /\ PaidBeside(m.of))
  /\ UNCHANGED <<unknown, missed>>

\* Nobody found, or the lookup failed: the event counts as done.  The update
\* failed: 400, and Stripe sends the event again.
StripeApply(s) ==
  LET m == job[s].m IN
  /\ At(s, "stripe", "apply")
  /\ \/ /\ Resolved(m) /\ UNCHANGED faults
        /\ profile' = Entitlement(m)
        /\ customer' = IF m.kind = "checkout" THEN stripe[m.of].payer ELSE customer
        /\ Apply(m, m.n, m.status)
        /\ Do(s, [job[s] EXCEPT !.step = "mark"])
     \/ /\ IF Resolved(m)
           THEN m.kind # "checkout" /\ missed' = missed \cup {m} /\ Fault /\ UNCHANGED unknown
           ELSE unknown' = unknown \cup {m} /\ UNCHANGED <<missed, faults>>
        /\ ExcuseProfile(TRUE)
        /\ Do(s, [job[s] EXCEPT !.step = "mark"])
        /\ UNCHANGED <<profile, customer, applied>>
     \/ /\ Resolved(m) /\ Fault
        /\ Done(s)
        /\ UNCHANGED <<profile, customer, history>>
  /\ UNCHANGED <<row, recorded, providers, due, mem>>

\* A database error is swallowed.
StripeMark(s) ==
  LET m == job[s].m IN
  /\ At(s, "stripe", "mark")
  /\ \/ recorded' = recorded \cup {m} /\ Answer(s, m)
     \/ UNCHANGED <<recorded, mem>> /\ due' = due \ {m} /\ Fault
  /\ Done(s)
  /\ UNCHANGED <<profile, customer, row, providers, history>>

-----------------------------------------------------------------------------
(* The trial guard of every paid operation.                                *)

GuardRead(s) ==
  /\ job[s] = Idle /\ profile.status = "trialing"
  /\ Do(s, [kind |-> "guard", step |-> "write"])
  /\ UNCHANGED <<database, providers, due, mem, faults, history>>

GuardWrite(s) ==
  /\ At(s, "guard", "write")
  /\ profile' = [profile EXCEPT !.status = "expired"]
  /\ ExcuseProfile(profile.status # "trialing")
  /\ Done(s)
  /\ UNCHANGED <<customer, row, recorded, providers, due, mem, faults, applied, unknown, missed>>

-----------------------------------------------------------------------------
(* Connecting and disconnecting the shop.                                  *)

\* Shopify accepts a token of the current installation.
ValidToken(t) == shop.installed /\ t = shop.times

Store(state, token) == row' = [state |-> state, token |-> token]
Revoke == Store("revoked", 0)

\* What get_user_stores and get_store_by_domain find: active rows, any row.
ActiveToken == IF row.state = "active" THEN row.token ELSE 0
Tracked == row.state # "none"

\* The merchant installs the app and comes back with a code, for which a server
\* gets the token of the installation; the call may fail or never come.
Install(s) ==
  /\ job[s] = Idle
  /\ ~shop.installed
  /\ sent < MaxInputs /\ sent' = sent + 1
  /\ shop' = [installed |-> TRUE, times |-> shop.times + 1]
  /\ \/ /\ Do(s, [kind |-> "connect", step |-> "save", token |-> shop.times + 1])
        /\ UNCHANGED <<faults, excused>>
     \/ Fault /\ ExcuseRow(TRUE) /\ UNCHANGED job
  /\ UNCHANGED <<database, sessions, stripe, charge, due, mem, applied, unknown, missed>>

\* A row that exists is left as it is.
ConnectSaveNew(s) ==
  /\ At(s, "connect", "save")
  /\ IF row.state = "none" THEN Store("active", job[s].token) ELSE UNCHANGED row
  /\ ExcuseRow(~ValidToken(job[s].token))
  /\ Done(s)
  /\ UNCHANGED <<profile, customer, recorded, providers, due, mem, faults, applied, unknown, missed>>
ConnectSave(s) ==
  /\ At(s, "connect", "save")
  /\ \/ /\ Store("active", job[s].token)
        /\ ExcuseRow(~ValidToken(job[s].token))
        /\ UNCHANGED faults
     \/ UNCHANGED row /\ Fault /\ ExcuseRow(TRUE)
  /\ Done(s)
  /\ UNCHANGED <<profile, customer, recorded, providers, due, mem, applied, unknown, missed>>

\* update_store_settings reads the active rows and writes one as active, with
\* the token it has read; without one it makes a row with a mock token.
SettingsRead(s) ==
  /\ job[s] = Idle /\ shop.times > 0
  /\ Do(s, [kind |-> "settings", step |-> "save",
            token |-> ActiveToken])
  /\ UNCHANGED <<database, providers, due, mem, faults, history>>

SettingsSave(s) ==
  /\ At(s, "settings", "save")
  /\ Store("active", job[s].token)
  /\ ExcuseRow(row # row')
  /\ Done(s)
  /\ UNCHANGED <<profile, customer, recorded, providers, due, mem, faults, applied, unknown, missed>>

\* disconnect_user_store: Shopify is not told.
Disconnect ==
  /\ row.state = "active"
  /\ Revoke
  /\ ExcuseRow(TRUE)
  /\ UNCHANGED <<profile, customer, recorded, providers, due, mem, job, faults, applied, unknown, missed>>

\* A merchant with a connected shop is sent to Shopify for the payment.
PaysThroughShopify == ValidToken(ActiveToken)
CreateCharge ==
  /\ PaysThroughShopify
  /\ \E c \in Charges :
       charge[c] = "none" /\ charge' = [charge EXCEPT ![c] = "PENDING"]
  /\ UNCHANGED <<database, sessions, stripe, shop, sent, due, mem, job, faults, history>>

-----------------------------------------------------------------------------
(* The webhooks and the billing callback of Shopify.                       *)

\* Redeliveries are known by the memory of the server alone.
Known(s, m) ==
  /\ job[s] = Idle /\ m \in due /\ m.kind \in {"subscription", "uninstalled"}
  /\ m \in mem[s]
  /\ due' = due \ {m}
  /\ UNCHANGED <<database, providers, mem, job, faults, history>>

\* For a shop without a row the lookup goes on to the second table: an error
\* where there is none.
Untracked(s, m) ==
  /\ job[s] = Idle /\ m \in due \ mem[s] /\ m.kind \in {"subscription", "uninstalled"}
  /\ ~Tracked /\ SecondTable
  /\ Answer(s, m)
  /\ ExcuseBoth
  /\ UNCHANGED <<database, providers, job, applied, unknown, missed>>

\* deactivate_store goes on to the second table as well, after the update.
Uninstalled(s, m) ==
  /\ job[s] = Idle /\ m \in due \ mem[s] /\ m.kind = "uninstalled"
  /\ Tracked
  /\ Revoke
  /\ ExcuseRow(shop.installed)
  /\ IF SecondTable
     THEN Answer(s, m)
     ELSE UNCHANGED <<mem, due, faults>>
  /\ UNCHANGED <<profile, customer, recorded, providers, job, applied, unknown, missed>>

HookTake(s, m) ==
  /\ job[s] = Idle /\ m \in due \ mem[s] /\ m.kind = "subscription"
  /\ Tracked
  /\ Do(s, [kind |-> "hook", step |-> IF row.state = "revoked" THEN "write" ELSE "query",
            m |-> m, token |-> row.token, status |-> m.status, at |-> m.n])
  /\ UNCHANGED <<database, providers, due, mem, faults, history>>

\* get_app_subscription: on any error the payload counts.
HookQuery(s) ==
  LET j == job[s] IN
  /\ At(s, "hook", "query")
  /\ \/ /\ ValidToken(j.token)
        /\ Do(s, [j EXCEPT !.step = "write", !.status = charge[j.m.of], !.at = sent])
        /\ UNCHANGED faults
     \/ /\ IF ValidToken(j.token) THEN Fault ELSE UNCHANGED faults
        /\ Do(s, [j EXCEPT !.step = "write"])
  /\ UNCHANGED <<database, providers, due, mem, history>>

StatusName ==
  [ACTIVE |-> "active", CANCELLED |-> "canceled", EXPIRED |-> "expired",
   DECLINED |-> "declined", PAUSED |-> "paused"]

\* An update the schema takes.
AcceptedAny(status) == TRUE
Accepted(status) ==
  StatusName[status] \in StatusDomain /\ (status = "ACTIVE" => ShopifyColumns)

\* An error of the update is a 500 answer: Shopify sends the webhook again.
HookWrite(s) ==
  LET j == job[s] IN
  /\ At(s, "hook", "write")
  /\ \/ /\ Accepted(j.status)
        /\ profile' = [status |-> StatusName[j.status], paid |-> j.status = "ACTIVE"]
        /\ Apply(j.m, j.at, j.status)
        /\ Answer(s, j.m)
     \/ /\ IF Accepted(j.status) THEN Fault ELSE UNCHANGED faults
        /\ UNCHANGED <<profile, due, mem, history>>
  /\ Done(s)
  /\ UNCHANGED <<customer, row, recorded, providers>>

\* shopify_billing_callback: only an active subscription gets past the query.
\* The check for a charge already activated only saves the update.
CallbackQuery(s, c) ==
  /\ job[s] = Idle
  /\ ValidToken(ActiveToken) /\ charge[c] = "ACTIVE"
  /\ ShopifyColumns
  /\ Do(s, [kind |-> "callback", step |-> "write", of |-> c, at |-> sent])
  /\ UNCHANGED <<database, providers, due, mem, faults, history>>

CallbackWrite(s) ==
  /\ At(s, "callback", "write")
  /\ profile' = [status |-> "active", paid |-> TRUE]
  /\ ExcuseProfile(Overtaken(job[s], job[s].at))
  /\ Done(s)
  /\ UNCHANGED <<customer, row, recorded, providers, due, mem, faults, applied, unknown, missed>>

\* shop/redact is answered before the rows are purged; errors are swallowed.
ShopRedact(s, m) ==
  /\ job[s] = Idle /\ m \in due /\ m.kind = "redact"
  /\ due' = due \ {m}
  /\ Do(s, [kind |-> "redact", step |-> "purge"])
  /\ UNCHANGED <<database, providers, mem, faults, history>>

Purge(s) ==
  /\ At(s, "redact", "purge")
  /\ \/ Store("none", 0) /\ ExcuseRow(shop.installed) /\ UNCHANGED faults
     \/ UNCHANGED <<row, excused>> /\ Fault
  /\ Done(s)
  /\ UNCHANGED <<profile, customer, recorded, providers, due, mem, applied, unknown, missed>>

-----------------------------------------------------------------------------

Crash(s) ==
  /\ Fault
  /\ Done(s) /\ mem' = [mem EXCEPT ![s] = {}]
  /\ ExcuseRow(At(s, "connect", "save"))
  /\ UNCHANGED <<database, providers, due, applied, unknown, missed>>

Receive(s, m) ==
  \/ StripeReceive(s, m) \/ Known(s, m) \/ Untracked(s, m) \/ Uninstalled(s, m)
  \/ HookTake(s, m) \/ ShopRedact(s, m)

Proceed(s) ==
  \/ CustomerSave(s) \/ StripeApply(s) \/ StripeMark(s) \/ GuardWrite(s) \/ ConnectSave(s)
  \/ SettingsSave(s) \/ HookQuery(s) \/ HookWrite(s) \/ CallbackWrite(s) \/ Purge(s)

Environment ==
  \/ StripeSubscribe \/ StripeChange \/ ShopifyChange \/ Uninstall \/ Redact
  \/ Disconnect \/ CreateCharge
  \/ \E m \in due : TooOld(m)

Next ==
  \/ Environment
  \/ \E s \in Servers :
       \/ \E m \in due : Receive(s, m)
       \/ Proceed(s)
       \/ CustomerRead(s) \/ GuardRead(s) \/ Install(s) \/ SettingsRead(s)
       \/ \E c \in Charges : CallbackQuery(s, c)
       \/ Crash(s)

Spec == Init /\ [][Next]_vars

-----------------------------------------------------------------------------
(* Properties.                                                             *)

\* The profile, the row and the messages under way have their types: a status is
\* one the table's constraint allows, whatever the providers call theirs.
TypeOK ==
  /\ profile \in [status : StatusDomain, paid : BOOLEAN]
  /\ row \in [state : {"none", "active", "revoked"}, token : 0..MaxInputs]
  /\ charge \in [Charges -> DOMAIN NextStatus]
  /\ due \subseteq
       [n : 1..MaxInputs, of : {"shop"} \cup Subs \cup Charges,
        kind : {"checkout", "updated", "deleted", "subscription", "uninstalled", "redact"},
        status : {"active", "past_due", "unpaid", "canceled"} \cup DOMAIN NextStatus]
  /\ faults \in 0..MaxFaults

AtRest == due = {} /\ \A s \in Servers : job[s] = Idle

\* When every message is answered, the merchant is active exactly when one of
\* the providers is being paid, unless one of the known races happened on the
\* way: a message overtaken by a newer one of the same subscription, the end of
\* one subscription beside another one, an event whose customer nobody had or
\* could not be looked up, the trial guard writing over an activation, a webhook
\* too late or for a shop without a row.  A crash, a lost answer, any other
\* failing call or an event delivered twice to two servers is none of them.
EntitlementFollowsPayment ==
  AtRest /\ ~excused.profile => (Paid <=> profile.status = "active")

\* When every message is answered, the row is active exactly while the app is
\* installed, with the token of that installation, unless a known race happened:
\* a save that writes over a newer row, a webhook too late or for a shop without
\* a row, an uninstallation or a purge handled after the shop came back; or a
\* connection was cut short, or the merchant disconnected it.
StoreFollowsInstallation ==
  AtRest /\ ~excused.row =>
    /\ row.state = "active" <=> shop.installed
    /\ shop.installed => ValidToken(row.token)

\* A Stripe event that counts as processed reached the profile, whatever races,
\* crashes and repeats there were.  The exceptions are events of a subscription
\* that name no user: one looked up when nobody had its customer, and one whose
\* lookup failed, which takes a failing call of its own each time.  A checkout
\* is never lost so.
ProcessedWasApplied ==
  /\ \A m \in recorded :
       (\E a \in applied : a.m = m) \/ (m.kind # "checkout" /\ m \in unknown \cup missed)
  /\ Cardinality(missed) <= faults

=============================================================================
