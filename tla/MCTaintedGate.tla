--------------------------- MODULE MCTaintedGate ---------------------------
(* Small instances of the gate for TLC, with and without secret reads. *)
EXTENDS TaintedGate, GateApproval, TLC

CONSTANTS
  env,       \* reads a secret (get_secret, load_env), which only strict mode denies
  post,      \* outbound HTTP: ask, or deny once its session is tainted
  publish,   \* under an ask lock always
  s1

MCSessionOf == [c \in Call |-> s1]
MCHintsOf ==
  [c \in Call |-> CASE c = env -> {"none"} [] c = post -> {"ask", "deny"} [] OTHER -> {"ask"}]
MCRuleOf == [c \in Call |-> IF c = env THEN "none" ELSE "ask"]
MCSecretReads == {env} \cap Call
MCOutboundCalls == {post} \cap Call

\* env is a call without agent_id.
MCAnonymous == {env} \cap Call

Symmetry == Permutations(Token) \cup Permutations(Worker)

=============================================================================
