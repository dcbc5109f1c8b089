--------------------------- MODULE MCAIGeneration ---------------------------
(***************************************************************************)
(* AIGeneration for TLC: more requests than slots or credits.              *)
(***************************************************************************)
EXTENDS AIGeneration, TLC

\* A template without tags, one whose tags the fallback holds too, and one with a
\* tag of its own.
MCTemplates == {{}, {"order.name"}, {"order.name", "shop.name"}}

\* No answer; candidates that pass with all the tags, or with one corrupted; one
\* that does not pass, before one that does.
MCAnswers ==
  LET Candidate(ok, tags) == [wellFormed |-> ok, tags |-> tags]
      all == {"order.name", "shop.name"}
  IN  { <<>>, <<Candidate(TRUE, all)>>, <<Candidate(TRUE, {"order.name"})>>,
        <<Candidate(FALSE, all), Candidate(TRUE, {"shop.name"})>> }

\* Requests are alike.
Symmetry == Permutations(Requests)

=============================================================================
