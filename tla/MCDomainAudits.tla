--------------------------- MODULE MCDomainAudits ---------------------------
(***************************************************************************)
(* DomainAudits for TLC: a quota of one or two domains, and at most three  *)
(* names that compete for it.                                              *)
(***************************************************************************)
EXTENDS DomainAudits, TLC

\* Domains are alike, and so are workers that are not schedulers.
Symmetry == Permutations(Domains) \cup Permutations(Workers \ Schedulers)

=============================================================================
