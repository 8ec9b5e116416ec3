---------------------------- MODULE MCReviewGate ----------------------------
(* A small instance of ReviewGate for TLC. *)
EXTENDS ReviewGate, TLC

Symmetry == Permutations(Sha)

=============================================================================
