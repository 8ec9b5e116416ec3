--------------------------- MODULE MCGateOverApe ---------------------------
(* A small instance of GateOverApe for TLC. *)
EXTENDS GateOverApe, TLC

CONSTANTS
  publish,   \* the gate asks, and so does APE
  query,     \* the gate asks, APE allows
  s1

MCSessionOf == [c \in Call |-> s1]
MCHintsOf == [c \in Call |-> IF c = publish THEN {"ask", "deny"} ELSE {"ask"}]
MCTraits == [c \in Call |-> IF c = publish THEN {"escalates"} ELSE {}]

Symmetry == Permutations(Worker) \cup Permutations(Handler) \cup Permutations(Remote)

=============================================================================
