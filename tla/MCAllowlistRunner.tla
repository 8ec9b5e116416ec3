------------------------- MODULE MCAllowlistRunner -------------------------
(* Small instances of AllowlistRunner for TLC. *)
EXTENDS AllowlistRunner, TLC

Symmetry == Permutations(Run) \cup Permutations(Content)

=============================================================================
