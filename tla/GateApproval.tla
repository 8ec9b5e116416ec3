---------------------------- MODULE GateApproval ----------------------------
(* The approval path of PhoenixGate implements OneShotApproval.              *)
EXTENDS PhoenixGate

\* The token's authority is in the grant store, or in the hands of a thread.
Held(t) ==
  \/ \E c \in Call : grants[c] # NoGrant /\ grants[c].token = t
  \/ \E w \in Worker : basis[w] \in GrantRec /\ basis[w].token = t

StageOf(t) ==
  CASE minted[t] = NoPending -> "new"
    [] minted[t] # NoPending /\ pending[t] # NoPending -> "asked"
    [] minted[t] # NoPending /\ pending[t] = NoPending /\ allowedBy[t] > 0 -> "spent"
    [] minted[t] # NoPending /\ pending[t] = NoPending /\ allowedBy[t] = 0 /\ Held(t) -> "granted"
    [] OTHER -> "void"

AboutOf(t) == IF minted[t] = NoPending THEN NoPending ELSE minted[t].call

Approval == INSTANCE OneShotApproval
  WITH life <- [t \in Token |-> StageOf(t)],
       about <- [t \in Token |-> AboutOf(t)],
       passes <- allowedBy,
       Unbound <- NoPending

\* Every run of the gate is a run of OneShotApproval: a question is put once, its
\* yes lets one call pass, and neither a race of threads, nor an exception, nor a
\* restart brings back what was spent or lost.
ImplementsApproval == Approval!Spec

=============================================================================
