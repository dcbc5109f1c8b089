-------------------------- MODULE MCFailoverEvents --------------------------
(***************************************************************************)
(* FailoverEvents for TLC.  The counters are Nat in the type invariant; in *)
(* every run they stay small because attempts and faults are bounded.      *)
(***************************************************************************)
EXTENDS FailoverEvents, TLC

Symmetry == Permutations(Workers)

=============================================================================
