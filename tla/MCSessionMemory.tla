-------------------------- MODULE MCSessionMemory --------------------------
(* Small instances of SessionMemory for TLC. *)
EXTENDS SessionMemory, TLC

CONSTANTS
  rm, rf,    \* the halves of a wipe, each innocent
  glued,     \* a second half that composes in either order
  prose,     \* a draft that talks about a wipe, allowed by its own rules
  post,      \* an outbound call under an ask lock, its long body the first half of a wipe
  note,      \* a benign call
  child      \* a read of .env by a child that does not inherit the gate

MCRule == [c \in Call |-> IF c = post THEN "ask" ELSE "none"]
MCLeft == {rm, post, prose} \cap Call
MCRight == {rf, glued, prose} \cap Call
MCGlued == {glued} \cap Call
MCWipe == {prose} \cap Call
MCSecretRead == {child} \cap Call
MCOutbound == {post} \cap Call
MCBypass == {child} \cap Call

\* A pattern reaches over any calls but a long one.
MCNear ==
  {s \in UNION {[1..n -> Call] : n \in 1..(Window + 1)} :
     \A k \in 2..(Len(s) - 1) : s[k] # post}

Symmetry == Permutations(Worker)

=============================================================================
