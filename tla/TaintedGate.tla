---------------------------- MODULE TaintedGate ----------------------------
(***************************************************************************)
(* The gate composed with the secret taint of phoenix_locks.py: what lock    *)
(* classify_lock puts on an outbound call depends on what its session read    *)
(* before.  Classification is one step here; SessionMemory has its parts.     *)
(***************************************************************************)
EXTENDS PhoenixGate

CONSTANTS
  RuleOf,        \* the lock of a call in a clean session
  SecretReads,   \* calls that read secrets
  OutboundCalls  \* outbound HTTP calls

ASSUME TaintAssumption ==
  /\ SecretReads \subseteq Call /\ OutboundCalls \subseteq Call
  /\ \A c \in Call : RuleOf[c] \in HintsOf[c]
  /\ \A c \in OutboundCalls : "deny" \in HintsOf[c]

VARIABLE tainted   \* _SESSION_SECRET_TAINT: the sessions that are tainted

tvars == <<vars, tainted>>

TInit == Init /\ tainted = {}

HintNow(c) ==
  IF c \in OutboundCalls /\ SessionOf[c] \in tainted THEN "deny" ELSE RuleOf[c]

\* A secret read taints its session, denied or not, agent or not.
Taint(c) ==
  tainted' = IF c \in SecretReads THEN tainted \cup {SessionOf[c]} ELSE tainted

Classify(w, c) == Begin(w, c, HintNow(c)) /\ Taint(c)

TRestart == Restart /\ tainted' = {}

TNext ==
  \/ \E w \in Worker, c \in Call : Classify(w, c)
  \/ \E w \in Worker : Step(w) /\ UNCHANGED tainted
  \/ Founder /\ UNCHANGED tainted
  \/ Tick /\ UNCHANGED tainted
  \/ TRestart

TSpec == TInit /\ [][TNext]_tvars

=============================================================================
