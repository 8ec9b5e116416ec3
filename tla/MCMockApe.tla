----------------------------- MODULE MCMockApe -----------------------------
(* A small instance of MockApe for TLC. *)
EXTENDS MockApe, TLC

CONSTANTS
  publish, shell,   \* need a human
  wipe,             \* looks like shell and is destructive
  other,            \* neither refused nor escalated
  bad               \* a body that is no request

MCTraits ==
  [c \in Call |-> CASE c = bad -> {"malformed"}
                 [] c = wipe -> {"escalates", "destructive"}
                 [] c = other -> {}
                 [] OTHER -> {"escalates"}]

Symmetry == Permutations(Token) \cup Permutations(Thread)

=============================================================================
