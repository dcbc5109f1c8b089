-------------------------- MODULE VariantSynthesis --------------------------
(***************************************************************************)
(* The variants of an email template that a request for AI content gets:   *)
(* which provider is asked, what is kept of its answer, and what the       *)
(* deterministic fallback offers instead.  A template is the set of its    *)
(* Liquid tags, and a candidate is whether its fields pass the checks and  *)
(* the set of the tags its body holds.                                     *)
(***************************************************************************)
EXTENDS Naturals, Sequences

CONSTANTS
  Templates,  \* templates merchants send: sets of tags
  Answers,    \* answers of the model: each a sequence of candidates
  Count       \* candidates kept of an answer, 3 in the code

ASSUME SynthesisAssumption == Count \in Nat \ {0}

\* Settings of the agent router: disabled, enabled without key or base URL, and
\* usable.
RouterSettings == {"off", "incomplete", "usable"}

\* The provider of a request, resolved anew each time.  The agent router is also
\* disabled when its key is missing; asked all the same it refuses.
Provider(router) ==
  CASE router = "off" -> "heuristic_fallback"
    [] router = "incomplete" -> "disabled"
    [] router = "usable" -> "agent_router"

\* Tags of the fixed bodies of the fallback, whatever the template holds.
FallbackVariants ==
  LET order == {"order.name", "customer.first_name"}
      fixed == << order \cup {"checkout.order_status_url"}, order, order >>
  IN  {fixed[i] : i \in 1..(IF Count < 3 THEN Count ELSE 3)}

\* parse_and_validate_agent_router_response: the first Count candidates whose
\* every field passes; an answer without one is an error, like an answer that
\* cannot be read.
WellFormed(answer) == SelectSeq(answer, LAMBDA c : c.wellFormed)
Parsed(answer) ==
  LET kept == WellFormed(answer)
  IN  {kept[i].tags : i \in 1..(IF Count < Len(kept) THEN Count ELSE Len(kept))}

\* AgentRouterLLMProvider.generate_variants: after a timeout, a network error, an
\* HTTP error or an answer without choices there is none to parse: <<>>.  Every
\* error, and a disabled provider, brings in the fallback.
Candidates(router, answer) ==
  LET parsed == IF Provider(router) = "agent_router" THEN Parsed(answer) ELSE {}
  IN  IF parsed # {} THEN parsed ELSE FallbackVariants

\* validate_liquid_preservation: no tag of the template is missing.
Preserves(template, tags) == template \subseteq tags

\* generate_polymorphic_variants_result
Synthesized(template, router, answer) ==
  {tags \in Candidates(router, answer) : Preserves(template, tags)}

=============================================================================
