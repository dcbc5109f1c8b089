------------------------ MODULE IncidentCorrelation ------------------------
(***************************************************************************)
(* Whose incident a delivery failure is.  IncidentFactory goes through the *)
(* evidence in the order of its weight and stops at the first that names a *)
(* tenant; where two pieces it has looked at disagree it fails closed.     *)
(***************************************************************************)
EXTENDS Integers, FiniteSets

CONSTANT Tenants

Ambiguous == "ambiguous"
Uncorrelated == "uncorrelated"
Nobody == "nobody"

ASSUME TenantsAssumption ==
  /\ IsFiniteSet(Tenants)
  /\ Tenants \cap {Ambiguous, Uncorrelated, Nobody} = {}

\* claims: the tenants named by the event and in the five places of its payload;
\* message: the tenant of the message id in the registry; order, domain: those
\* with a message of the same order and recipient, and with the sender's domain.
Evidence == [claims : SUBSET Tenants, message : Tenants \cup {Nobody},
             order : SUBSET Tenants, domain : SUBSET Tenants]

-----------------------------------------------------------------------------

\* get_transactional_message_by_order_and_recipient, get_unique_tenant_for_domain
Unique(tenants, otherwise) ==
  CASE tenants = {} -> otherwise
    [] Cardinality(tenants) = 1 -> CHOOSE t \in tenants : TRUE
    [] OTHER -> Ambiguous

\* Steps 4, 3, 2 and 1 of from_event_and_registry
ByDomain(e) == Unique(e.domain, Uncorrelated)
ByOrder(e) == IF e.order = {} THEN ByDomain(e) ELSE Unique(e.order, Ambiguous)

\* The registry without a look at the claim.
ByMessageUnchecked(e, claimed) ==
  IF {e.message, claimed} = {Nobody} THEN ByOrder(e)
  ELSE IF e.message # Nobody THEN e.message ELSE claimed

ByMessage(e, claimed) ==
  LET named == {e.message, claimed} \ {Nobody}
  IN  IF named = {} THEN ByOrder(e) ELSE Unique(named, Ambiguous)

Correlate(e) ==
  IF Cardinality(e.claims) > 1
  THEN Ambiguous
  ELSE ByMessage(e, IF e.claims = {} THEN Nobody ELSE CHOOSE t \in e.claims : TRUE)

-----------------------------------------------------------------------------
(* What that comes to.                                                     *)

\* The tenants named by the claims and the registry together, else those of
\* the order, else those of the domain.
Identified(e) == e.claims \cup ({e.message} \ {Nobody})
Named(e) ==
  IF Identified(e) # {} THEN Identified(e)
  ELSE IF e.order # {} THEN e.order ELSE e.domain

\* Nobody is alerted on evidence that names two tenants, whichever sources they
\* come from, and the one that is named is alerted.
Verdict(e) ==
  CASE Named(e) = {} -> Uncorrelated
    [] \E t \in Tenants : Named(e) = {t} -> CHOOSE t \in Tenants : Named(e) = {t}
    [] OTHER -> Ambiguous

=============================================================================
