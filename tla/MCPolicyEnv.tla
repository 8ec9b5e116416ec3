---------------------------- MODULE MCPolicyEnv ----------------------------
(* Small instances of PolicyEnv for TLC. *)
EXTENDS PolicyEnv, TLC

Symmetry == Permutations(Worker)

=============================================================================
