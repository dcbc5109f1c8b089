------------------------- MODULE MCMerchantBilling -------------------------
(***************************************************************************)
(* MerchantBilling for TLC.                                                *)
(***************************************************************************)
EXTENDS MerchantBilling, TLC

\* Servers are alike, and so are subscriptions.
Symmetry == Permutations(Servers) \cup Permutations(Subs)

=============================================================================
