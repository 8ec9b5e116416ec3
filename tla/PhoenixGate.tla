---------------------------- MODULE PhoenixGate ----------------------------
(***************************************************************************)
(* The approval path of phoenix_gate/gateway.py: worker threads call       *)
(* gate_tool_call, a human (the Founder) calls approve_gate_token, and the  *)
(* two meet in module-level dictionaries guarded by one lock.               *)
(*                                                                         *)
(* Each critical section under _LOCAL_LOCK is one action; the code between  *)
(* two critical sections belongs to the action before it, because it reads  *)
(* and writes only the locals of its thread.  A Call stands for the (tool,  *)
(* args, session, agent) quadruple that call_fingerprint hashes, so a call  *)
(* is its own fingerprint.                                                  *)
(***************************************************************************)
EXTENDS Naturals, FiniteSets

CONSTANTS
  Worker,           \* threads that may be inside gate_tool_call
  Call,             \* tool calls, up to equality of fingerprints
  Session,          \* values of session_id (None is one of them)
  Token,            \* values secrets.token_urlsafe can produce
  SessionOf,        \* the session of a call
  HintsOf,          \* the locks classify_lock may put on a call
  Anonymous,        \* calls that carry no agent_id
  RequireAgentId,   \* require_agent_id_enabled(), sealed at boot
  FloodMax,         \* approval_flood_max(), sealed and pinned
  Ttl,              \* approval_ttl_seconds(), sealed and pinned
  MaxTime,          \* bound: readings of the clock
  MaxRestarts,      \* bound: restarts of the process
  NoToken, ApeToken,        \* no token; a token that lives in APE
  NoPending, NoGrant, ApeGrant  \* absent record; grant_consumed from APE

Hint == {"none", "ask", "deny"}
Decision == {"allow", "ask", "deny"}
PendingRec == [call : Call, issued : Nat]
GrantRec == [call : Call, token : Token, granted : Nat]

ASSUME SessionAssumption ==
  /\ Call # {}
  /\ SessionOf \in [Call -> Session]
  /\ HintsOf \in [Call -> SUBSET Hint]
  /\ Anonymous \subseteq Call
  /\ RequireAgentId \in BOOLEAN

ASSUME BoundAssumption ==
  /\ IsFiniteSet(Token) /\ IsFiniteSet(Worker)
  /\ FloodMax \in Nat \ {0}
  /\ Ttl \in Nat \ {0}
  /\ MaxTime \in Nat
  /\ MaxRestarts \in Nat

ASSUME NullAssumption ==
  /\ NoToken \notin Token /\ ApeToken \notin Token /\ NoToken # ApeToken
  /\ NoPending \notin PendingRec
  /\ NoGrant \notin GrantRec /\ ApeGrant \notin GrantRec /\ NoGrant # ApeGrant

VARIABLES
  pending,    \* _LOCAL_PENDING
  grants,     \* _LOCAL_GRANTS, keyed by fingerprint
  used,       \* _LOCAL_USED_TOKENS
  prompts,    \* _SESSION_APPROVAL_PROMPTS
  now,        \* time.monotonic() and time.time(), in whole steps
  restarts,   \* how often the process was restarted
  \* locals of gate_tool_call, per thread
  pc, call, hint, decision, token, basis,
  \* history, read by no guard but freshness of a minted token
  minted,     \* what each token was ever minted for
  delivered,  \* tokens some caller was handed
  agreed,     \* the calls the Founder's yes to a token was meant for
  allowedBy,  \* how many allow answers rest on each token
  asks        \* NEED_HUMAN answers per session in this process life

store == <<pending, grants, used, prompts>>
frame == <<pc, call, hint, decision, token, basis>>
history == <<minted, delivered, agreed, allowedBy, asks>>
vars == <<store, now, restarts, frame, history>>

NoCall == CHOOSE c \in Call : TRUE

-----------------------------------------------------------------------------
(* The module-level state as the interpreter creates it. *)
EmptyStore ==
  /\ pending = [t \in Token |-> NoPending]
  /\ grants = [c \in Call |-> NoGrant]
  /\ used = {}
  /\ prompts = [s \in Session |-> 0]

IdleFrame ==
  /\ pc = [w \in Worker |-> "idle"]
  /\ call = [w \in Worker |-> NoCall]
  /\ hint = [w \in Worker |-> "none"]
  /\ decision = [w \in Worker |-> "deny"]
  /\ token = [w \in Worker |-> NoToken]
  /\ basis = [w \in Worker |-> NoGrant]

Init ==
  /\ EmptyStore
  /\ IdleFrame
  /\ now = 0
  /\ restarts = 0
  /\ minted = [t \in Token |-> NoPending]
  /\ delivered = {}
  /\ agreed = [t \in Token |-> {}]
  /\ allowedBy = [t \in Token |-> 0]
  /\ asks = [s \in Session |-> 0]

-----------------------------------------------------------------------------
(* gate_tool_call, one action per critical section. *)

\* The thread records a decision and moves on.
Decide(w, d, at) ==
  /\ decision' = [decision EXCEPT ![w] = d]
  /\ pc' = [pc EXCEPT ![w] = at]

\* The frame of w is gone: its caller has an answer or an exception.
Unwind(w) ==
  /\ pc' = [pc EXCEPT ![w] = "idle"]
  /\ call' = [call EXCEPT ![w] = NoCall]
  /\ hint' = [hint EXCEPT ![w] = "none"]
  /\ decision' = [decision EXCEPT ![w] = "deny"]
  /\ token' = [token EXCEPT ![w] = NoToken]
  /\ basis' = [basis EXCEPT ![w] = NoGrant]

AgentMissing(c) == RequireAgentId /\ c \in Anonymous

\* Classification, and the refusal of anonymous callers that comes before any
\* grant is touched.
Begin(w, c, h) ==
  /\ pc[w] = "idle"
  /\ h \in HintsOf[c]
  /\ call' = [call EXCEPT ![w] = c]
  /\ hint' = [hint EXCEPT ![w] = h]
  /\ Decide(w, "deny", IF AgentMissing(c) THEN "receipt" ELSE "consume")
  /\ UNCHANGED <<store, now, restarts, token, basis, history>>

GrantMatches(g, c) == g.call = c

\* Mutant: the grant is read, not popped.
ConsumeGrantPeek(w) ==
  LET g == grants[call[w]] IN
  /\ pc[w] = "consume"
  /\ g # NoGrant
  /\ Decide(w, "allow", "receipt")
  /\ basis' = [basis EXCEPT ![w] = g]
  /\ UNCHANGED <<store, now, restarts, call, hint, token, history>>

PopGrant(c) == grants' = [grants EXCEPT ![c] = NoGrant]

\* The grant leaves the store before the lock's verdict is looked at.
ConsumeGrant(w) ==
  LET g == grants[call[w]] IN
  /\ pc[w] = "consume"
  /\ g # NoGrant
  /\ PopGrant(call[w])
  /\ IF GrantMatches(g, call[w])
       THEN /\ Decide(w, "allow", "receipt")
            /\ basis' = [basis EXCEPT ![w] = g]
       ELSE /\ Decide(w, "deny", "receipt")
            /\ UNCHANGED basis
  /\ UNCHANGED <<pending, used, prompts, now, restarts, call, hint, token,
                 history>>

\* A hard deny goes straight to the receipt, or asks APE for an annotation
\* when the caller's flags want one.
HardDeny(w) ==
  /\ pc[w] = "consume"
  /\ grants[call[w]] = NoGrant
  /\ hint[w] = "deny"
  /\ \E at \in {"receipt", "annotate"} : Decide(w, "deny", at)
  /\ UNCHANGED <<store, now, restarts, call, hint, token, basis, history>>

Annotate(w) ==
  /\ pc[w] = "annotate"
  /\ Decide(w, "deny", "receipt")
  /\ UNCHANGED <<store, now, restarts, call, hint, token, basis, history>>

AskApe(w) ==
  /\ pc[w] = "consume"
  /\ grants[call[w]] = NoGrant
  /\ hint[w] # "deny"
  /\ pc' = [pc EXCEPT ![w] = "verify"]
  /\ UNCHANGED <<store, now, restarts, call, hint, decision, token, basis,
                 history>>

\* What ApeClient.verify can return, once normalised.
ApeReply == [decision : Decision, token : {NoToken, ApeToken}, consumed : BOOLEAN]

\* An ask lock overrides an APE allow, and supplies the token APE left out.
MustMint(h, r) ==
  /\ h = "ask"
  /\ ~r.consumed
  /\ \/ r.decision = "allow"
     \/ r.decision = "ask" /\ r.token = NoToken

\* Mutant: a question that APE asked is not counted as a prompt.
AfterReplyUncounted(h, r) == IF MustMint(h, r) THEN "mint" ELSE "receipt"

AfterReply(h, r) ==
  IF MustMint(h, r) THEN "mint" ELSE IF r.decision = "ask" THEN "prompt" ELSE "receipt"

VerifyReply(w, r) ==
  /\ pc[w] = "verify"
  /\ Decide(w, r.decision, AfterReply(hint[w], r))
  /\ token' = [token EXCEPT ![w] = r.token]
  /\ basis' = [basis EXCEPT ![w] = IF r.consumed THEN ApeGrant ELSE NoGrant]
  /\ UNCHANGED <<store, now, restarts, call, hint, history>>

\* ApeError: unreachable, timeout, HTTP status, bad JSON.
VerifyFails(w) ==
  /\ pc[w] = "verify"
  /\ Decide(w, "deny", "receipt")
  /\ UNCHANGED <<store, now, restarts, call, hint, token, basis, history>>

PendingIn(s) == {t \in Token : pending[t] # NoPending /\ SessionOf[pending[t].call] = s}

\* secrets.token_urlsafe(16) repeats no earlier token, of this process or of
\* one before it.
Fresh(t) == minted[t] = NoPending

MintRefused(w) ==
  /\ pc[w] = "mint"
  /\ Cardinality(PendingIn(SessionOf[call[w]])) >= FloodMax
  /\ Decide(w, "deny", "receipt")
  /\ token' = [token EXCEPT ![w] = NoToken]
  /\ UNCHANGED <<store, now, restarts, call, hint, basis, history>>

\* Mutant: off by one against the cap.
MintAtCap(w, t) ==
  LET rec == [call |-> call[w], issued |-> now] IN
  /\ pc[w] = "mint"
  /\ Cardinality(PendingIn(SessionOf[call[w]])) <= FloodMax
  /\ Fresh(t)
  /\ pending' = [pending EXCEPT ![t] = rec]
  /\ minted' = [minted EXCEPT ![t] = rec]
  /\ token' = [token EXCEPT ![w] = t]
  /\ Decide(w, "ask", "prompt")
  /\ UNCHANGED <<grants, used, prompts, now, restarts, call, hint, basis,
                 delivered, agreed, allowedBy, asks>>

Mint(w, t) ==
  LET rec == [call |-> call[w], issued |-> now] IN
  /\ pc[w] = "mint"
  /\ Cardinality(PendingIn(SessionOf[call[w]])) < FloodMax
  /\ Fresh(t)
  /\ pending' = [pending EXCEPT ![t] = rec]
  /\ minted' = [minted EXCEPT ![t] = rec]
  /\ token' = [token EXCEPT ![w] = t]
  /\ Decide(w, "ask", "prompt")
  /\ UNCHANGED <<grants, used, prompts, now, restarts, call, hint, basis,
                 delivered, agreed, allowedBy, asks>>

\* Mutant: counts without comparing with the cap.
PromptUnchecked(w) ==
  /\ pc[w] = "prompt"
  /\ prompts' = [prompts EXCEPT ![SessionOf[call[w]]] = @ + 1]
  /\ pc' = [pc EXCEPT ![w] = "receipt"]
  /\ UNCHANGED <<pending, grants, used, now, restarts, call, hint, decision,
                 token, basis, history>>

\* A second, separate critical section: the token above is already pending.
Prompt(w) ==
  LET s == SessionOf[call[w]] IN
  /\ pc[w] = "prompt"
  /\ prompts[s] + 1 <= FloodMax
  /\ prompts' = [prompts EXCEPT ![s] = @ + 1]
  /\ pc' = [pc EXCEPT ![w] = "receipt"]
  /\ UNCHANGED <<pending, grants, used, now, restarts, call, hint, decision,
                 token, basis, history>>

\* Mutant: the refusal leaves the minted token in the answer.
PromptRefusedKeepsToken(w) ==
  /\ pc[w] = "prompt"
  /\ prompts[SessionOf[call[w]]] + 1 > FloodMax
  /\ Decide(w, "deny", "receipt")
  /\ UNCHANGED <<store, now, restarts, call, hint, token, basis, history>>

PromptRefused(w) ==
  /\ pc[w] = "prompt"
  /\ prompts[SessionOf[call[w]]] + 1 > FloodMax
  /\ Decide(w, "deny", "receipt")
  /\ token' = [token EXCEPT ![w] = NoToken]
  /\ UNCHANGED <<store, now, restarts, call, hint, basis, history>>

\* write_receipt succeeds and the caller has its GateResult.
Return(w) ==
  /\ pc[w] = "receipt"
  /\ Unwind(w)
  /\ delivered' = delivered \cup ({token[w]} \cap Token)
  /\ allowedBy' = [t \in Token |->
       IF decision[w] = "allow" /\ basis[w] \in GrantRec /\ basis[w].token = t
         THEN allowedBy[t] + 1 ELSE allowedBy[t]]
  /\ asks' = [s \in Session |->
       IF decision[w] = "ask" /\ SessionOf[call[w]] = s THEN asks[s] + 1 ELSE asks[s]]
  /\ UNCHANGED <<store, now, restarts, minted, agreed>>

\* An exception leaves gate_tool_call, and its caller has no answer: a KeyError of
\* the policy lookups before the mint and the prompt, a reply of APE that is not an
\* object, a receipt file that cannot be written.  Nothing is undone, and when only
\* the sidecar failed the token already stands in the receipt for anyone to approve.
Raise(w) ==
  /\ pc[w] \in {"annotate", "verify", "mint", "prompt", "receipt"}
  /\ Unwind(w)
  /\ \/ UNCHANGED delivered
     \/ pc[w] = "receipt" /\ delivered' = delivered \cup ({token[w]} \cap Token)
  /\ UNCHANGED <<store, now, restarts, minted, agreed, allowedBy, asks>>

-----------------------------------------------------------------------------
(* approve_gate_token: one critical section.  scope is the set of calls that *)
(* agree with every expected_* argument the approver supplied.               *)

Expired(t) == now - pending[t].issued > Ttl

Approvable(t) == t \in delivered /\ t \notin used /\ pending[t] # NoPending

\* Mutant: the token stays pending after the yes.
ApproveKeepsPending(t, scope) ==
  LET c == pending[t].call IN
  /\ Approvable(t)
  /\ ~Expired(t)
  /\ c \in scope
  /\ used' = used \cup {t}
  /\ grants' = [grants EXCEPT ![c] = [call |-> c, token |-> t, granted |-> now]]
  /\ agreed' = [agreed EXCEPT ![t] = scope]
  /\ UNCHANGED <<pending, prompts, now, restarts, frame, minted, delivered, allowedBy, asks>>

\* Mutant: a token is approved at any age.
ApproveAnyAge(t, scope) ==
  LET c == pending[t].call IN
  /\ Approvable(t)
  /\ c \in scope
  /\ pending' = [pending EXCEPT ![t] = NoPending]
  /\ used' = used \cup {t}
  /\ grants' = [grants EXCEPT ![c] = [call |-> c, token |-> t, granted |-> now]]
  /\ agreed' = [agreed EXCEPT ![t] = scope]
  /\ UNCHANGED <<prompts, now, restarts, frame, minted, delivered, allowedBy, asks>>

Approve(t, scope) ==
  LET c == pending[t].call IN
  /\ Approvable(t)
  /\ ~Expired(t)
  /\ c \in scope
  /\ pending' = [pending EXCEPT ![t] = NoPending]
  /\ used' = used \cup {t}
  /\ grants' = [grants EXCEPT ![c] = [call |-> c, token |-> t, granted |-> now]]
  /\ agreed' = [agreed EXCEPT ![t] = scope]
  /\ UNCHANGED <<prompts, now, restarts, frame, minted, delivered, allowedBy, asks>>

ApproveExpired(t) ==
  /\ Approvable(t)
  /\ Expired(t)
  /\ pending' = [pending EXCEPT ![t] = NoPending]
  /\ used' = used \cup {t}
  /\ UNCHANGED <<grants, prompts, now, restarts, frame, history>>

-----------------------------------------------------------------------------
(* The environment. *)

Tick ==
  /\ now < MaxTime
  /\ now' = now + 1
  /\ UNCHANGED <<store, restarts, frame, history>>

\* The process dies and is started again: every dictionary is empty, every
\* thread is gone, tokens that were handed out are still known outside.
Restart ==
  /\ restarts < MaxRestarts
  /\ restarts' = restarts + 1
  /\ pending' = [t \in Token |-> NoPending]
  /\ grants' = [c \in Call |-> NoGrant]
  /\ used' = {}
  /\ prompts' = [s \in Session |-> 0]
  /\ pc' = [w \in Worker |-> "idle"]
  /\ call' = [w \in Worker |-> NoCall]
  /\ hint' = [w \in Worker |-> "none"]
  /\ decision' = [w \in Worker |-> "deny"]
  /\ token' = [w \in Worker |-> NoToken]
  /\ basis' = [w \in Worker |-> NoGrant]
  /\ asks' = [s \in Session |-> 0]
  /\ UNCHANGED <<now, minted, delivered, agreed, allowedBy>>

\* What a thread does by itself once its call has begun.
Step(w) ==
  \/ ConsumeGrant(w) \/ HardDeny(w) \/ Annotate(w) \/ AskApe(w)
  \/ \E r \in ApeReply : VerifyReply(w, r)
  \/ VerifyFails(w)
  \/ MintRefused(w) \/ \E t \in Token : Mint(w, t)
  \/ Prompt(w) \/ PromptRefused(w)
  \/ Return(w) \/ Raise(w)

Founder ==
  \E t \in Token : ApproveExpired(t) \/ \E scope \in SUBSET Call : Approve(t, scope)

Next ==
  \/ \E w \in Worker : Step(w) \/ \E c \in Call, h \in Hint : Begin(w, c, h)
  \/ Founder
  \/ Tick
  \/ Restart

Spec == Init /\ [][Next]_vars

-----------------------------------------------------------------------------
(* Properties. *)

\* The domains of the module-level dictionaries, of the threads' locals and of
\* the history.
TypeOK ==
  /\ pending \in [Token -> PendingRec \cup {NoPending}]
  /\ grants \in [Call -> GrantRec \cup {NoGrant}]
  /\ used \in SUBSET Token
  /\ prompts \in [Session -> 0..FloodMax]
  /\ now \in Nat /\ restarts \in Nat
  /\ pc \in [Worker -> {"idle", "consume", "annotate", "verify", "mint", "prompt", "receipt"}]
  /\ call \in [Worker -> Call]
  /\ hint \in [Worker -> Hint]
  /\ decision \in [Worker -> Decision]
  /\ token \in [Worker -> Token \cup {NoToken, ApeToken}]
  /\ basis \in [Worker -> GrantRec \cup {NoGrant, ApeGrant}]
  /\ minted \in [Token -> PendingRec \cup {NoPending}]
  /\ delivered \in SUBSET Token
  /\ agreed \in [Token -> SUBSET Call]
  /\ allowedBy \in [Token -> Nat]
  /\ asks \in [Session -> Nat]

\* One yes of the Founder lets at most one call through, whatever threads race
\* for the grant, however often the token is presented, and across restarts.
OneShot == \A t \in Token : allowedBy[t] <= 1

\* Founded(w): the local grant in w's hands comes from a token that was minted
\* for this very call, approved before it had aged beyond its TTL, by an
\* approver whose expectations covered this call.
Founded(w) ==
  LET t == basis[w].token IN
  /\ basis[w] \in GrantRec
  /\ minted[t].call = call[w]
  /\ basis[w].granted <= minted[t].issued + Ttl
  /\ call[w] \in agreed[t]

\* A call under an ask lock is answered allow only on a founded local grant or
\* on APE's structured grant flag; a call under a deny lock never on APE's word.
AllowIsFounded ==
  \A w \in Worker :
    pc[w] = "receipt" /\ decision[w] = "allow" =>
      \/ Founded(w)
      \/ hint[w] = "none"
      \/ hint[w] = "ask" /\ basis[w] = ApeGrant

\* A phoenix token leaves the gate only in an ask answer to the call it is
\* bound to: a deny, the flood deny after the mint included, carries none.
TokenOnlyWithAsk ==
  \A w \in Worker :
    pc[w] \in {"prompt", "receipt"} /\ token[w] \in Token =>
      decision[w] = "ask" /\ minted[token[w]].call = call[w]

\* Threads that mint at the same time cannot push the pending approvals of a
\* session over the flood cap.
PendingCapped == \A s \in Session : Cardinality(PendingIn(s)) <= FloodMax

\* However tokens are minted, approved, expired or orphaned, a session puts at
\* most FloodMax questions to the Founder in one life of the process.
AskCapped == \A s \in Session : asks[s] <= FloodMax

\* gateway.py:93-94: the pinned TTL keeps a configuration from stretching
\* Founder grants into eternity, so a grant older than the TTL allows nothing.
GrantsExpire ==
  [][\A w \in Worker :
       pc[w] = "consume" /\ pc'[w] = "receipt" /\ decision'[w] = "allow" =>
         now <= basis'[w].granted + Ttl]_vars

=============================================================================
