------------------------------ MODULE GateProofs ------------------------------
(* Proofs, for every value of the constants, about the approval path: of the     *)
(* gate alone, under any reply and any lock; of what the gate implements and    *)
(* what implements the gate, so that what is proved of any reply and any lock   *)
(* holds under the secret taint and over APE; and of the gate over APE, where a *)
(* yes may come from either side, that every allow has its own.                 *)
EXTENDS GateApproval, TaintedGate, GateOverApe, FiniteSetTheorems, TLAPS

-----------------------------------------------------------------------------
(* Type correctness. *)

\* The dictionaries, the locals and the history start in their domains.
LEMMA InitType == Init => TypeOK
<1>1. NoCall \in Call
  BY SessionAssumption DEF NoCall
<1> QED
  BY <1>1, BoundAssumption
  DEF Init, EmptyStore, IdleFrame, TypeOK, Hint, Decision

\* No action takes a variable out of its domain.
LEMMA NextType == TypeOK /\ [Next]_vars => TypeOK'
<1> SUFFICES ASSUME TypeOK, [Next]_vars PROVE TypeOK'
  OBVIOUS
<1> USE SessionAssumption, BoundAssumption DEF TypeOK, Hint, Decision
<1>0. ASSUME NEW w \in Worker, Unwind(w) PROVE
        /\ pc' \in [Worker -> {"idle", "consume", "annotate", "verify", "mint", "prompt", "receipt"}]
        /\ call' \in [Worker -> Call]
        /\ hint' \in [Worker -> Hint]
        /\ decision' \in [Worker -> Decision]
        /\ token' \in [Worker -> Token \cup {NoToken, ApeToken}]
        /\ basis' \in [Worker -> GrantRec \cup {NoGrant, ApeGrant}]
  <2>1. NoCall \in Call
    BY DEF NoCall
  <2> QED
    BY <1>0, <2>1 DEF Unwind
<1>1. ASSUME NEW w \in Worker, NEW c \in Call, NEW h \in Hint, Begin(w, c, h)
      PROVE  TypeOK'
  BY <1>1 DEF Begin, Decide, store, history
<1>2. ASSUME NEW w \in Worker, Step(w) PROVE TypeOK'
  <2>1. CASE ConsumeGrant(w)
    BY <2>1 DEF ConsumeGrant, PopGrant, Decide, history
  <2>2. CASE HardDeny(w)
    BY <2>2 DEF HardDeny, Decide, store, history
  <2>3. CASE Annotate(w)
    BY <2>3 DEF Annotate, Decide, store, history
  <2>4. CASE AskApe(w)
    BY <2>4 DEF AskApe, store, history
  <2>5. ASSUME NEW r \in ApeReply, VerifyReply(w, r) PROVE TypeOK'
    BY <2>5 DEF VerifyReply, AfterReply, ApeReply, Decide, store, history
  <2>6. CASE VerifyFails(w)
    BY <2>6 DEF VerifyFails, Decide, store, history
  <2>7. CASE MintRefused(w)
    BY <2>7 DEF MintRefused, Decide, store, history
  <2>8. ASSUME NEW t \in Token, Mint(w, t) PROVE TypeOK'
    BY <2>8 DEF Mint, Decide, PendingRec
  <2>9. CASE Prompt(w)
    BY <2>9 DEF Prompt, history
  <2>10. CASE PromptRefused(w)
    BY <2>10 DEF PromptRefused, Decide, store, history
  <2>11. CASE Return(w)
    BY <2>11, <1>0 DEF Return, store
  <2>12. CASE Raise(w)
    BY <2>12, <1>0 DEF Raise, store
  <2> QED
    BY <1>2, <2>1, <2>2, <2>3, <2>4, <2>5, <2>6, <2>7, <2>8, <2>9, <2>10, <2>11,
       <2>12 DEF Step
<1>3. ASSUME NEW t \in Token, NEW scope \in SUBSET Call, Approve(t, scope)
      PROVE  TypeOK'
  BY <1>3 DEF Approve, Approvable, frame, PendingRec, GrantRec
<1>4. ASSUME NEW t \in Token, ApproveExpired(t) PROVE TypeOK'
  BY <1>4 DEF ApproveExpired, frame, history
<1>5. CASE Tick
  BY <1>5 DEF Tick, store, frame, history
<1>6. CASE Restart
  BY <1>6 DEF Restart, NoCall
<1>7. CASE UNCHANGED vars
  BY <1>7 DEF vars, store, frame, history
<1> QED
  BY <1>1, <1>2, <1>3, <1>4, <1>5, <1>6, <1>7 DEF Next, Founder

\* Every dictionary, local and history variable stays in its domain.
THEOREM TypeCorrect == Spec => []TypeOK
<1> QED
  BY InitType, NextType, PTL DEF Spec

-----------------------------------------------------------------------------
(* The life of a token.  What makes one yes worth one call is spread over     *)
(* four places a token's authority can be: pending, granted, in a thread's     *)
(* hands, spent.  The invariant says it is in one of them at a time.           *)

\* Pending records are what was minted; authority that is not yet approved has
\* allowed nothing; nothing has allowed twice.
TokenInv ==
  \A t \in Token :
    /\ pending[t] # NoPending => pending[t] = minted[t] /\ allowedBy[t] = 0
    /\ minted[t] = NoPending => allowedBy[t] = 0
    /\ allowedBy[t] <= 1

\* The authority of g is approved, for call c, in time, and not yet spent.
Backed(g, c) ==
  /\ minted[g.token] # NoPending
  /\ minted[g.token].call = c
  /\ pending[g.token] = NoPending
  /\ allowedBy[g.token] = 0
  /\ g.granted <= minted[g.token].issued + Ttl
  /\ c \in agreed[g.token]

GrantInv == \A c \in Call : grants[c] # NoGrant => Backed(grants[c], c)

\* A thread holds a local grant only between its consumption and the answer.
BasisInv ==
  \A w \in Worker :
    basis[w] \in GrantRec =>
      pc[w] = "receipt" /\ decision[w] = "allow" /\ Backed(basis[w], call[w])

\* No two holders of the same authority.
ExclusiveInv ==
  /\ \A w \in Worker, c \in Call :
       basis[w] \in GrantRec /\ grants[c] # NoGrant => basis[w].token # grants[c].token
  /\ \A v, w \in Worker :
       v # w /\ basis[v] \in GrantRec /\ basis[w] \in GrantRec =>
         basis[v].token # basis[w].token

OneShotInv == TokenInv /\ GrantInv /\ BasisInv /\ ExclusiveInv

\* At the start nothing is minted.
LEMMA InitOneShot == Init => OneShotInv
<1> QED
  BY NullAssumption
  DEF Init, EmptyStore, IdleFrame, OneShotInv, TokenInv, GrantInv, BasisInv, ExclusiveInv

\* A step that changes neither a token's life nor a thread's grant, and sends no
\* thread that holds one elsewhere, keeps the invariant.
LEMMA OneShotFrame ==
  ASSUME TypeOK, OneShotInv,
         UNCHANGED <<pending, grants, minted, agreed, allowedBy>>,
         \A w \in Worker : basis'[w] \in GrantRec =>
            /\ basis'[w] = basis[w] /\ pc'[w] = pc[w]
            /\ decision'[w] = decision[w] /\ call'[w] = call[w]
  PROVE  OneShotInv'
<1>1. TokenInv' /\ GrantInv'
  BY DEF OneShotInv, TokenInv, GrantInv, Backed
<1>2. BasisInv'
  BY DEF OneShotInv, BasisInv, Backed
<1>3. ExclusiveInv'
  BY DEF OneShotInv, ExclusiveInv
<1> QED
  BY <1>1, <1>2, <1>3 DEF OneShotInv

\* The pop under the lock moves the authority from the store to one thread.
LEMMA ConsumeOneShot ==
  ASSUME TypeOK, OneShotInv, NEW w \in Worker, ConsumeGrant(w)
  PROVE  OneShotInv'
<1> DEFINE g == grants[call[w]]
<1> USE NullAssumption DEF TypeOK, OneShotInv
<1>1. g \in GrantRec /\ Backed(g, call[w])
  BY DEF ConsumeGrant, PopGrant, GrantInv
<1>2. TokenInv'
  BY DEF ConsumeGrant, PopGrant, TokenInv, history
<1>3. GrantInv'
  BY DEF ConsumeGrant, PopGrant, GrantInv, Backed, history
<1>4. \A v \in Worker : v # w => basis'[v] = basis[v] /\ pc'[v] = pc[v] /\ decision'[v] = decision[v] /\ call'[v] = call[v]
  BY DEF ConsumeGrant, PopGrant, Decide
<1>5. \/ basis'[w] = g /\ pc'[w] = "receipt" /\ decision'[w] = "allow" /\ call'[w] = call[w]
      \/ basis'[w] = basis[w]
  BY DEF ConsumeGrant, PopGrant, Decide
<1>6. basis[w] \notin GrantRec
  BY DEF ConsumeGrant, PopGrant, BasisInv
<1>7. BasisInv'
  BY <1>1, <1>4, <1>5, <1>6 DEF ConsumeGrant, PopGrant, BasisInv, Backed, history
<1>8. ASSUME NEW v \in Worker, NEW c \in Call, basis'[v] \in GrantRec, grants'[c] # NoGrant
      PROVE  basis'[v].token # grants'[c].token
  <2>1. c # call[w] /\ grants'[c] = grants[c]
    BY <1>8 DEF ConsumeGrant, PopGrant
  <2>2. CASE v = w
    <3>1. minted[grants[c].token].call = c
      BY <1>8, <2>1 DEF GrantInv, Backed
    <3>2. minted[g.token].call = call[w]
      BY <1>1 DEF Backed
    <3> QED
      BY <1>5, <1>6, <1>8, <2>1, <2>2, <3>1, <3>2
  <2>3. CASE v # w
    BY <1>4, <1>8, <2>1, <2>3 DEF ExclusiveInv
  <2> QED
    BY <2>2, <2>3
<1>9. ASSUME NEW u \in Worker, NEW v \in Worker, u # v,
             basis'[u] \in GrantRec, basis'[v] \in GrantRec
      PROVE  basis'[u].token # basis'[v].token
  <2>1. call[w] \in Call /\ g # NoGrant
    BY DEF ConsumeGrant, PopGrant
  <2> QED
    BY <1>4, <1>5, <1>6, <1>9, <2>1 DEF ExclusiveInv
<1> QED
  BY <1>2, <1>3, <1>7, <1>8, <1>9 DEF ExclusiveInv

\* A fresh token carries no authority yet, and disturbs no other.
LEMMA MintOneShot ==
  ASSUME TypeOK, OneShotInv, NEW w \in Worker, NEW t \in Token, Mint(w, t)
  PROVE  OneShotInv'
<1> USE NullAssumption DEF TypeOK, OneShotInv
<1>1. TokenInv'
  BY DEF Mint, Fresh, TokenInv, PendingRec
<1>2. \A g \in GrantRec, c \in Call : Backed(g, c) => Backed(g, c)'
  BY DEF Mint, Fresh, Backed, GrantRec
<1>3. GrantInv'
  BY <1>2 DEF Mint, GrantInv
<1>4. BasisInv'
  BY <1>2 DEF Mint, Decide, BasisInv
<1>5. ExclusiveInv'
  BY DEF Mint, ExclusiveInv
<1> QED
  BY <1>1, <1>3, <1>4, <1>5

\* The answer spends the authority in the thread's hands, once.
LEMMA ReturnOneShot ==
  ASSUME TypeOK, OneShotInv, NEW w \in Worker, Return(w)
  PROVE  OneShotInv'
<1> USE NullAssumption DEF TypeOK, OneShotInv
<1>1. \A t \in Token : allowedBy'[t] # allowedBy[t] =>
        /\ basis[w] \in GrantRec /\ basis[w].token = t
        /\ allowedBy'[t] = allowedBy[t] + 1
  BY DEF Return
<1>2. basis[w] \in GrantRec => Backed(basis[w], call[w])
  BY DEF BasisInv
<1>3. TokenInv'
  BY <1>1, <1>2 DEF Return, TokenInv, Backed, store
<1>4. GrantInv'
  BY <1>1 DEF Return, GrantInv, ExclusiveInv, Backed, store, GrantRec
<1>5. \A v \in Worker : basis'[v] \in GrantRec =>
        v # w /\ basis'[v] = basis[v] /\ pc'[v] = pc[v] /\ decision'[v] = decision[v] /\ call'[v] = call[v]
  BY DEF Return, Unwind
<1>6. BasisInv'
  BY <1>1, <1>5 DEF Return, BasisInv, ExclusiveInv, Backed, store, GrantRec
<1>7. ExclusiveInv'
  BY <1>5 DEF Return, ExclusiveInv, store
<1> QED
  BY <1>3, <1>4, <1>6, <1>7

\* A yes turns a pending token into one grant; a grant it overwrites is lost.
LEMMA ApproveOneShot ==
  ASSUME TypeOK, OneShotInv, NEW t \in Token, NEW scope \in SUBSET Call,
         Approve(t, scope)
  PROVE  OneShotInv'
<1> USE NullAssumption, BoundAssumption DEF TypeOK, OneShotInv
<1>1. /\ pending[t] \in PendingRec /\ pending[t] = minted[t] /\ allowedBy[t] = 0
      /\ pending[t].call \in scope
  BY DEF Approve, Approvable, TokenInv
<1>2. PICK c \in Call : c = pending[t].call
  BY <1>1 DEF PendingRec
<1>3. PICK g \in GrantRec : g = [call |-> c, token |-> t, granted |-> now]
  BY DEF GrantRec
<1>4. grants' = [grants EXCEPT ![c] = g]
  BY <1>2, <1>3 DEF Approve
<1>5. Backed(g, c)'
  <2>1. /\ minted' = minted /\ allowedBy' = allowedBy
        /\ pending'[t] = NoPending /\ agreed'[t] = scope
    BY DEF Approve
  <2>2. now <= pending[t].issued + Ttl
    BY <1>1 DEF Approve, Expired, PendingRec
  <2> QED
    BY <1>1, <1>2, <1>3, <2>1, <2>2 DEF Backed
<1>6. \A h \in GrantRec, d \in Call : Backed(h, d) => h.token # t /\ Backed(h, d)'
  BY DEF Approve, Approvable, Backed, GrantRec
<1>7. TokenInv'
  BY DEF Approve, TokenInv
<1>8. GrantInv'
  BY <1>4, <1>5, <1>6 DEF GrantInv
<1>9. BasisInv'
  BY <1>6 DEF Approve, frame, BasisInv
<1>10. ExclusiveInv'
  BY <1>3, <1>4, <1>6 DEF Approve, frame, BasisInv, ExclusiveInv
<1> QED
  BY <1>7, <1>8, <1>9, <1>10

\* An expired token leaves the dictionary with no authority to anyone.
LEMMA ExpireOneShot ==
  ASSUME TypeOK, OneShotInv, NEW t \in Token, ApproveExpired(t)
  PROVE  OneShotInv'
<1> USE NullAssumption DEF TypeOK, OneShotInv
<1>1. TokenInv'
  BY DEF ApproveExpired, TokenInv, history
<1>2. \A g \in GrantRec, d \in Call : Backed(g, d) => Backed(g, d)'
  BY DEF ApproveExpired, Backed, GrantRec, history
<1>3. GrantInv'
  BY <1>2 DEF ApproveExpired, GrantInv
<1>4. BasisInv'
  BY <1>2 DEF ApproveExpired, frame, BasisInv
<1>5. ExclusiveInv'
  BY DEF ApproveExpired, frame, ExclusiveInv
<1> QED
  BY <1>1, <1>3, <1>4, <1>5

\* A restart drops every authority that was not spent.
LEMMA RestartOneShot ==
  ASSUME TypeOK, OneShotInv, Restart
  PROVE  OneShotInv'
<1> QED
  BY NullAssumption
  DEF Restart, TypeOK, OneShotInv, TokenInv, GrantInv, BasisInv, ExclusiveInv

\* The invariant is inductive.
LEMMA NextOneShot == TypeOK /\ OneShotInv /\ [Next]_vars => OneShotInv'
<1> SUFFICES ASSUME TypeOK, OneShotInv, [Next]_vars PROVE OneShotInv'
  OBVIOUS
<1> USE NullAssumption DEF TypeOK
<1>0. \A w \in Worker : pc[w] # "receipt" => basis[w] \notin GrantRec
  BY DEF OneShotInv, BasisInv
<1>1. ASSUME NEW w \in Worker, NEW c \in Call, NEW h \in Hint, Begin(w, c, h)
      PROVE  OneShotInv'
  BY <1>0, <1>1, OneShotFrame DEF Begin, Decide, store, history
<1>2. ASSUME NEW w \in Worker, Step(w) PROVE OneShotInv'
  <2>1. CASE ConsumeGrant(w)
    BY <2>1, ConsumeOneShot
  <2>2. CASE HardDeny(w)
    BY <1>0, <2>2, OneShotFrame DEF HardDeny, Decide, store, history
  <2>3. CASE Annotate(w)
    BY <1>0, <2>3, OneShotFrame DEF Annotate, Decide, store, history
  <2>4. CASE AskApe(w)
    BY <1>0, <2>4, OneShotFrame DEF AskApe, store, history
  <2>5. ASSUME NEW r \in ApeReply, VerifyReply(w, r) PROVE OneShotInv'
    BY <1>0, <2>5, OneShotFrame DEF VerifyReply, Decide, store, history
  <2>6. CASE VerifyFails(w)
    BY <1>0, <2>6, OneShotFrame DEF VerifyFails, Decide, store, history
  <2>7. CASE MintRefused(w)
    BY <1>0, <2>7, OneShotFrame DEF MintRefused, Decide, store, history
  <2>8. ASSUME NEW t \in Token, Mint(w, t) PROVE OneShotInv'
    BY <2>8, MintOneShot
  <2>9. CASE Prompt(w)
    BY <1>0, <2>9, OneShotFrame DEF Prompt, history
  <2>10. CASE PromptRefused(w)
    BY <1>0, <2>10, OneShotFrame DEF PromptRefused, Decide, store, history
  <2>11. CASE Return(w)
    BY <2>11, ReturnOneShot
  <2>12. CASE Raise(w)
    BY <2>12, OneShotFrame DEF Raise, Unwind, store
  <2> QED
    BY <1>2, <2>1, <2>2, <2>3, <2>4, <2>5, <2>6, <2>7, <2>8, <2>9, <2>10, <2>11,
       <2>12 DEF Step
<1>3. ASSUME NEW t \in Token, NEW scope \in SUBSET Call, Approve(t, scope)
      PROVE  OneShotInv'
  BY <1>3, ApproveOneShot
<1>4. ASSUME NEW t \in Token, ApproveExpired(t) PROVE OneShotInv'
  BY <1>4, ExpireOneShot
<1>5. CASE Tick
  BY <1>5, OneShotFrame DEF Tick, store, frame, history
<1>6. CASE Restart
  BY <1>6, RestartOneShot
<1>7. CASE UNCHANGED vars
  BY <1>7, OneShotFrame DEF vars, store, frame, history
<1> QED
  BY <1>1, <1>2, <1>3, <1>4, <1>5, <1>6, <1>7 DEF Next, Founder

\* One yes lets at most one call through (_LOCAL_GRANTS is popped under the lock,
\* a used token is refused, tokens do not repeat).
THEOREM OneShotCorrect == Spec => []OneShot
<1>1. OneShotInv => OneShot
  BY DEF OneShotInv, TokenInv, OneShot
<1> QED
  BY <1>1, InitOneShot, NextOneShot, TypeCorrect, PTL DEF Spec

-----------------------------------------------------------------------------
(* What an answer carries: the ground of an allow, the token of an ask.        *)

\* Where a thread is in gate_tool_call says what its locals can hold.
AnswerInv ==
  \A w \in Worker :
    /\ pc[w] = "verify" => hint[w] # "deny"
    /\ pc[w] = "prompt" => decision[w] = "ask"
    /\ pc[w] = "receipt" /\ decision[w] = "allow" =>
         \/ basis[w] \in GrantRec
         \/ hint[w] = "none"
         \/ hint[w] = "ask" /\ basis[w] = ApeGrant
    /\ token[w] \in Token =>
         /\ pc[w] \in {"prompt", "receipt"}
         /\ decision[w] = "ask"
         /\ minted[token[w]] # NoPending
         /\ minted[token[w]].call = call[w]

\* No thread holds anything at the start.
LEMMA InitAnswer == Init => AnswerInv
<1> QED
  BY NullAssumption DEF Init, EmptyStore, IdleFrame, AnswerInv

\* The invariant is inductive: only the thread that moves has to be looked at,
\* and minting writes no record that was there before.
LEMMA NextAnswer == TypeOK /\ AnswerInv /\ [Next]_vars => AnswerInv'
<1> SUFFICES ASSUME TypeOK, AnswerInv, [Next]_vars PROVE AnswerInv'
  OBVIOUS
<1> USE NullAssumption DEF TypeOK, AnswerInv
<1>1. ASSUME NEW w \in Worker, NEW c \in Call, NEW h \in Hint, Begin(w, c, h)
      PROVE  AnswerInv'
  BY <1>1 DEF Begin, Decide, store, history
<1>2. ASSUME NEW w \in Worker, Step(w) PROVE AnswerInv'
  <2>1. CASE ConsumeGrant(w)
    BY <2>1 DEF ConsumeGrant, PopGrant, Decide, history
  <2>2. CASE HardDeny(w)
    BY <2>2 DEF HardDeny, Decide, store, history
  <2>3. CASE Annotate(w)
    BY <2>3 DEF Annotate, Decide, store, history
  <2>4. CASE AskApe(w)
    BY <2>4 DEF AskApe, store, history
  <2>5. ASSUME NEW r \in ApeReply, VerifyReply(w, r) PROVE AnswerInv'
    BY <2>5 DEF VerifyReply, AfterReply, MustMint, ApeReply, Decide, Hint, Decision,
                store, history
  <2>6. CASE VerifyFails(w)
    BY <2>6 DEF VerifyFails, Decide, store, history
  <2>7. CASE MintRefused(w)
    BY <2>7 DEF MintRefused, Decide, store, history
  <2>8. ASSUME NEW t \in Token, Mint(w, t) PROVE AnswerInv'
    BY <2>8 DEF Mint, Fresh, Decide, PendingRec
  <2>9. CASE Prompt(w)
    BY <2>9 DEF Prompt, history
  <2>10. CASE PromptRefused(w)
    BY <2>10 DEF PromptRefused, Decide, store, history
  <2>11. CASE Return(w)
    BY <2>11 DEF Return, Unwind, store
  <2>12. CASE Raise(w)
    BY <2>12 DEF Raise, Unwind, store
  <2> QED
    BY <1>2, <2>1, <2>2, <2>3, <2>4, <2>5, <2>6, <2>7, <2>8, <2>9, <2>10, <2>11,
       <2>12 DEF Step
<1>3. CASE Founder
  BY <1>3 DEF Founder, Approve, ApproveExpired, frame, history
<1>4. CASE Tick
  BY <1>4 DEF Tick, store, frame, history
<1>5. CASE Restart
  BY <1>5 DEF Restart
<1>6. CASE UNCHANGED vars
  BY <1>6 DEF vars, store, frame, history
<1> QED
  BY <1>1, <1>2, <1>3, <1>4, <1>5, <1>6 DEF Next

\* An allow under a lock rests on a timely yes to this very call, or, under an
\* ask lock, on APE's structured flag.
THEOREM AllowIsFoundedCorrect == Spec => []AllowIsFounded
<1>1. AnswerInv /\ OneShotInv => AllowIsFounded
  BY DEF AnswerInv, OneShotInv, BasisInv, Backed, AllowIsFounded, Founded
<1> QED
  BY <1>1, InitAnswer, NextAnswer, InitOneShot, NextOneShot, TypeCorrect, PTL DEF Spec

\* A phoenix token leaves the gate only in the ask answer it was minted for.
THEOREM TokenOnlyWithAskCorrect == Spec => []TokenOnlyWithAsk
<1>1. AnswerInv => TokenOnlyWithAsk
  BY DEF AnswerInv, TokenOnlyWithAsk
<1> QED
  BY <1>1, InitAnswer, NextAnswer, TypeCorrect, PTL DEF Spec

-----------------------------------------------------------------------------
(* Pending approvals.                                                          *)

\* Only a mint puts a token into _LOCAL_PENDING, and only a token that never was
\* there.
LEMMA PendingStep ==
  ASSUME TypeOK, [Next]_vars
  PROVE  \/ \A t \in Token : pending'[t] = pending[t] \/ pending'[t] = NoPending
         \/ \E w \in Worker, t \in Token : Mint(w, t)
<1> USE DEF TypeOK
<1>1. ASSUME NEW w \in Worker, NEW c \in Call, NEW h \in Hint, Begin(w, c, h)
      PROVE  pending' = pending
  BY <1>1 DEF Begin, store
<1>2. ASSUME NEW w \in Worker, Step(w), \A t \in Token : ~Mint(w, t)
      PROVE  pending' = pending
  BY <1>2 DEF Step, ConsumeGrant, HardDeny, Annotate, AskApe, VerifyReply, VerifyFails,
              MintRefused, Prompt, PromptRefused, Return, Raise, store
<1>3. CASE Founder
  BY <1>3 DEF Founder, Approve, ApproveExpired
<1>4. CASE Tick
  BY <1>4 DEF Tick, store
<1>5. CASE Restart
  BY <1>5 DEF Restart
<1>6. CASE UNCHANGED vars
  BY <1>6 DEF vars, store
<1> QED
  BY <1>1, <1>2, <1>3, <1>4, <1>5, <1>6 DEF Next

\* No interleaving of mints takes a session over its cap: the count and the
\* insertion are one critical section.
THEOREM PendingCappedCorrect == Spec => []PendingCapped
<1>1. Init => PendingCapped
  <2> SUFFICES ASSUME Init, NEW s \in Session
               PROVE  Cardinality(PendingIn(s)) <= FloodMax
    BY DEF PendingCapped
  <2>1. PendingIn(s) = {}
    BY DEF Init, EmptyStore, PendingIn
  <2> QED
    BY <2>1, FS_EmptySet, BoundAssumption
<1>2. TypeOK /\ PendingCapped /\ [Next]_vars => PendingCapped'
  <2> SUFFICES ASSUME TypeOK, PendingCapped, [Next]_vars, NEW s \in Session
               PROVE  Cardinality(PendingIn(s)') <= FloodMax
    BY DEF PendingCapped
  <2>1. IsFiniteSet(PendingIn(s)) /\ Cardinality(PendingIn(s)) \in Nat
    BY FS_Subset, FS_CardinalityType, BoundAssumption DEF PendingIn
  <2>2. Cardinality(PendingIn(s)) <= FloodMax
    BY DEF PendingCapped
  <2>3. CASE \A t \in Token : pending'[t] = pending[t] \/ pending'[t] = NoPending
    <3>1. PendingIn(s)' \subseteq PendingIn(s)
      BY <2>3 DEF PendingIn
    <3>2. Cardinality(PendingIn(s)') <= Cardinality(PendingIn(s)) /\ Cardinality(PendingIn(s)') \in Nat
      BY <3>1, <2>1, FS_Subset, FS_CardinalityType
    <3> QED
      BY <2>1, <2>2, <3>2, BoundAssumption
  <2>4. ASSUME NEW w \in Worker, NEW t \in Token, Mint(w, t)
        PROVE  Cardinality(PendingIn(s)') <= FloodMax
    <3>1. CASE s = SessionOf[call[w]]
      <4>1. PendingIn(s)' = PendingIn(s) \cup {t}
        <5>1. [call |-> call[w], issued |-> now] # NoPending
          BY NullAssumption DEF PendingRec, TypeOK
        <5>2. /\ pending'[t] # NoPending /\ pending'[t].call = call[w]
              /\ \A u \in Token : u # t => pending'[u] = pending[u]
          BY <2>4, <5>1 DEF Mint, TypeOK
        <5> QED
          BY <3>1, <5>2 DEF PendingIn
      <4>2. Cardinality(PendingIn(s)') <= Cardinality(PendingIn(s)) + 1
        <5>1. Cardinality(PendingIn(s) \cup {t}) =
                IF t \in PendingIn(s) THEN Cardinality(PendingIn(s)) ELSE Cardinality(PendingIn(s)) + 1
          BY <2>1, FS_AddElement
        <5> QED
          BY <4>1, <5>1, <2>1
      <4>3. Cardinality(PendingIn(s)) < FloodMax
        BY <2>4, <3>1 DEF Mint
      <4>4. Cardinality(PendingIn(s)') \in Nat
        BY <4>1, <2>1, FS_AddElement, FS_CardinalityType
      <4> QED
        BY <4>2, <4>3, <4>4, <2>1, BoundAssumption
    <3>2. CASE s # SessionOf[call[w]]
      <4>1. PendingIn(s)' \subseteq PendingIn(s)
        BY <2>4, <3>2 DEF Mint, PendingIn, TypeOK
      <4>2. Cardinality(PendingIn(s)') <= Cardinality(PendingIn(s)) /\ Cardinality(PendingIn(s)') \in Nat
        BY <4>1, <2>1, FS_Subset, FS_CardinalityType
      <4> QED
        BY <2>1, <2>2, <4>2, BoundAssumption
    <3> QED
      BY <3>1, <3>2
  <2> QED
    BY <2>3, <2>4, PendingStep
<1> QED
  BY <1>1, <1>2, TypeCorrect, PTL DEF Spec

-----------------------------------------------------------------------------
(* Questions to the Founder.                                                   *)

\* Threads about to hand a question of session s to their caller.
Asking(s) ==
  {w \in Worker : pc[w] = "receipt" /\ decision[w] = "ask" /\ SessionOf[call[w]] = s}

\* Every question asked or about to be was counted as a prompt first.
AskInv == \A s \in Session : asks[s] + Cardinality(Asking(s)) <= prompts[s]

\* Counting facts: sizes are numbers, and a smaller set has a smaller one.
LEMMA AskingSize ==
  ASSUME NEW s \in Session
  PROVE  /\ IsFiniteSet(Asking(s)) /\ Cardinality(Asking(s)) \in Nat
         /\ \A T \in SUBSET Asking(s) :
              Cardinality(T) \in Nat /\ Cardinality(T) <= Cardinality(Asking(s))
<1>1. IsFiniteSet(Asking(s)) /\ Cardinality(Asking(s)) \in Nat
  BY FS_Subset, FS_CardinalityType, BoundAssumption DEF Asking
<1>2. ASSUME NEW T \in SUBSET Asking(s)
      PROVE  Cardinality(T) \in Nat /\ Cardinality(T) <= Cardinality(Asking(s))
  BY <1>1, <1>2, FS_Subset, FS_CardinalityType
<1> QED
  BY <1>1, <1>2

\* A step that starts no new question and counts as before keeps the invariant.
LEMMA AskFrame ==
  ASSUME TypeOK, AskInv, UNCHANGED <<asks, prompts>>,
         \A s \in Session : Asking(s)' \subseteq Asking(s)
  PROVE  AskInv'
<1> SUFFICES ASSUME NEW s \in Session
             PROVE  asks'[s] + Cardinality(Asking(s)') <= prompts'[s]
  BY DEF AskInv
<1>1. Cardinality(Asking(s)') \in Nat /\ Cardinality(Asking(s)') <= Cardinality(Asking(s))
      /\ Cardinality(Asking(s)) \in Nat
  BY AskingSize
<1>2. asks[s] + Cardinality(Asking(s)) <= prompts[s]
  BY DEF AskInv
<1>3. asks[s] \in Nat /\ prompts[s] \in Nat
  BY BoundAssumption DEF TypeOK
<1> QED
  BY <1>1, <1>2, <1>3

\* The prompt is counted as its thread joins those about to ask.
LEMMA PromptAsk ==
  ASSUME TypeOK, AskInv, NEW w \in Worker, Prompt(w)
  PROVE  AskInv'
<1> SUFFICES ASSUME NEW s \in Session
             PROVE  asks'[s] + Cardinality(Asking(s)') <= prompts'[s]
  BY DEF AskInv
<1>1. asks[s] + Cardinality(Asking(s)) <= prompts[s] /\ asks'[s] = asks[s]
  BY DEF AskInv, Prompt, history
<1>2. asks[s] \in Nat /\ prompts[s] \in Nat
  BY BoundAssumption DEF TypeOK
<1>3. CASE SessionOf[call[w]] = s
  <2>1. prompts'[s] = prompts[s] + 1
    BY <1>3 DEF Prompt, TypeOK
  <2>2. Asking(s)' \subseteq Asking(s) \cup {w}
    BY DEF Prompt, Asking, TypeOK
  <2>3. /\ IsFiniteSet(Asking(s) \cup {w})
        /\ Cardinality(Asking(s) \cup {w}) =
             IF w \in Asking(s) THEN Cardinality(Asking(s)) ELSE Cardinality(Asking(s)) + 1
    BY AskingSize, FS_AddElement
  <2>4. Cardinality(Asking(s)') <= Cardinality(Asking(s) \cup {w}) /\ Cardinality(Asking(s)') \in Nat
    BY <2>2, <2>3, FS_Subset, FS_CardinalityType
  <2>5. Cardinality(Asking(s)) \in Nat
    BY AskingSize
  <2> QED
    BY <1>1, <1>2, <2>1, <2>3, <2>4, <2>5
<1>4. CASE SessionOf[call[w]] # s
  <2>1. prompts'[s] = prompts[s]
    BY <1>4 DEF Prompt, TypeOK
  <2>2. Asking(s)' \subseteq Asking(s)
    BY <1>4 DEF Prompt, Asking, TypeOK
  <2>3. Cardinality(Asking(s)') \in Nat /\ Cardinality(Asking(s)') <= Cardinality(Asking(s))
        /\ Cardinality(Asking(s)) \in Nat
    BY <2>2, AskingSize
  <2> QED
    BY <1>1, <1>2, <2>1, <2>3
<1> QED
  BY <1>3, <1>4

\* The answer counts the question as its thread leaves those about to ask.
LEMMA ReturnAsk ==
  ASSUME TypeOK, AskInv, NEW w \in Worker, Return(w)
  PROVE  AskInv'
<1> SUFFICES ASSUME NEW s \in Session
             PROVE  asks'[s] + Cardinality(Asking(s)') <= prompts'[s]
  BY DEF AskInv
<1>1. asks[s] + Cardinality(Asking(s)) <= prompts[s] /\ prompts'[s] = prompts[s]
  BY DEF AskInv, Return, store
<1>2. asks[s] \in Nat /\ prompts[s] \in Nat
  BY BoundAssumption DEF TypeOK
<1>3. Asking(s)' \subseteq Asking(s) \ {w}
  BY DEF Return, Unwind, Asking, TypeOK
<1>4. /\ IsFiniteSet(Asking(s) \ {w})
      /\ Cardinality(Asking(s) \ {w}) =
           IF w \in Asking(s) THEN Cardinality(Asking(s)) - 1 ELSE Cardinality(Asking(s))
  BY AskingSize, FS_RemoveElement
<1>5. Cardinality(Asking(s)') <= Cardinality(Asking(s) \ {w}) /\ Cardinality(Asking(s)') \in Nat
  BY <1>3, <1>4, FS_Subset, FS_CardinalityType
<1>6. asks'[s] = IF w \in Asking(s) THEN asks[s] + 1 ELSE asks[s]
  BY DEF Return, Asking
<1>7. Cardinality(Asking(s)) \in Nat
  BY AskingSize
<1> QED
  BY <1>1, <1>2, <1>4, <1>5, <1>6, <1>7

\* The invariant is inductive.
LEMMA NextAsk == TypeOK /\ AskInv /\ [Next]_vars => AskInv'
<1> SUFFICES ASSUME TypeOK, AskInv, [Next]_vars PROVE AskInv'
  OBVIOUS
<1> USE DEF TypeOK
<1>1. ASSUME NEW w \in Worker, NEW c \in Call, NEW h \in Hint, Begin(w, c, h)
      PROVE  AskInv'
  BY <1>1, AskFrame DEF Begin, Decide, Asking, store, history
<1>2. ASSUME NEW w \in Worker, Step(w) PROVE AskInv'
  <2>1. CASE ConsumeGrant(w)
    BY <2>1, AskFrame DEF ConsumeGrant, PopGrant, Decide, Asking, history
  <2>2. CASE HardDeny(w)
    BY <2>2, AskFrame DEF HardDeny, Decide, Asking, store, history
  <2>3. CASE Annotate(w)
    BY <2>3, AskFrame DEF Annotate, Decide, Asking, store, history
  <2>4. CASE AskApe(w)
    BY <2>4, AskFrame DEF AskApe, Asking, store, history
  <2>5. ASSUME NEW r \in ApeReply, VerifyReply(w, r) PROVE AskInv'
    BY <2>5, AskFrame DEF VerifyReply, AfterReply, Decide, Asking, store, history
  <2>6. CASE VerifyFails(w)
    BY <2>6, AskFrame DEF VerifyFails, Decide, Asking, store, history
  <2>7. CASE MintRefused(w)
    BY <2>7, AskFrame DEF MintRefused, Decide, Asking, store, history
  <2>8. ASSUME NEW t \in Token, Mint(w, t) PROVE AskInv'
    BY <2>8, AskFrame DEF Mint, Decide, Asking
  <2>9. CASE Prompt(w)
    BY <2>9, PromptAsk
  <2>10. CASE PromptRefused(w)
    BY <2>10, AskFrame DEF PromptRefused, Decide, Asking, store, history
  <2>11. CASE Return(w)
    BY <2>11, ReturnAsk
  <2>12. CASE Raise(w)
    BY <2>12, AskFrame DEF Raise, Unwind, Asking, store
  <2> QED
    BY <1>2, <2>1, <2>2, <2>3, <2>4, <2>5, <2>6, <2>7, <2>8, <2>9, <2>10, <2>11,
       <2>12 DEF Step
<1>3. CASE Founder
  BY <1>3, AskFrame DEF Founder, Approve, ApproveExpired, Asking, frame, history
<1>4. CASE Tick
  BY <1>4, AskFrame DEF Tick, Asking, store, frame, history
<1>5. CASE Restart
  <2>1. \A s \in Session : Asking(s)' = {} /\ asks'[s] = 0 /\ prompts'[s] = 0
    BY <1>5 DEF Restart, Asking
  <2>2. \A s \in Session : Cardinality(Asking(s)') = 0
    BY <2>1, FS_EmptySet
  <2> QED
    BY <2>1, <2>2 DEF AskInv
<1>6. CASE UNCHANGED vars
  BY <1>6, AskFrame DEF vars, Asking, store, frame, history
<1> QED
  BY <1>1, <1>2, <1>3, <1>4, <1>5, <1>6 DEF Next

\* A session puts at most FloodMax questions to the Founder in one process life.
THEOREM AskCappedCorrect == Spec => []AskCapped
<1>1. Init => AskInv
  <2> SUFFICES ASSUME Init PROVE AskInv
    OBVIOUS
  <2>1. \A s \in Session : Asking(s) = {} /\ asks[s] = 0 /\ prompts[s] = 0
    BY DEF Init, EmptyStore, IdleFrame, Asking
  <2>2. \A s \in Session : Cardinality(Asking(s)) = 0
    BY <2>1, FS_EmptySet
  <2> QED
    BY <2>1, <2>2 DEF AskInv
<1>2. TypeOK /\ AskInv => AskCapped
  <2> SUFFICES ASSUME TypeOK, AskInv, NEW s \in Session PROVE asks[s] <= FloodMax
    BY DEF AskCapped
  <2>1. asks[s] + Cardinality(Asking(s)) <= prompts[s] /\ Cardinality(Asking(s)) \in Nat
    BY AskingSize DEF AskInv
  <2>2. asks[s] \in Nat /\ prompts[s] \in 0..FloodMax
    BY DEF TypeOK
  <2> QED
    BY <2>1, <2>2, BoundAssumption
<1> QED
  BY <1>1, <1>2, NextAsk, TypeCorrect, PTL DEF Spec

-----------------------------------------------------------------------------
(* What the gate implements. *)

\* A token that is held is approved and unspent.
LEMMA HeldIsBacked ==
  ASSUME TypeOK, OneShotInv, NEW t \in Token, Held(t)
  PROVE  minted[t] # NoPending /\ pending[t] = NoPending /\ allowedBy[t] = 0
<1> QED
  BY DEF Held, OneShotInv, GrantInv, BasisInv, Backed

\* A step that mints nothing, allows nothing and gives no token to a new holder is
\* a step in which tokens are lost.
LEMMA LoseStep ==
  ASSUME TypeOK, OneShotInv, UNCHANGED <<minted, allowedBy>>,
         \A t \in Token : pending'[t] \in {pending[t], NoPending},
         \A t \in Token : Held(t)' => Held(t)
  PROVE  Approval!Next
<1> DEFINE lost == {t \in Token : StageOf(t) \in {"asked", "granted"} /\ StageOf(t)' = "void"}
<1>1. ASSUME NEW t \in Token
      PROVE  StageOf(t)' = IF t \in lost THEN "void" ELSE StageOf(t)
  <2>1. allowedBy[t] \in Nat
    BY DEF TypeOK
  <2>2. pending'[t] \in {pending[t], NoPending} /\ (Held(t)' => Held(t))
    OBVIOUS
  <2>3. minted[t] = NoPending => pending[t] = NoPending
    BY NullAssumption DEF OneShotInv, TokenInv, TypeOK
  <2>4. pending[t] # NoPending => ~Held(t) /\ allowedBy[t] = 0
    BY HeldIsBacked DEF OneShotInv, TokenInv
  <2> QED
    BY <2>1, <2>2, <2>3, <2>4 DEF StageOf
<1>2. \A t \in Token : AboutOf(t)' = AboutOf(t)
  BY DEF AboutOf
<1>3. lost \in SUBSET {t \in Token : StageOf(t) \in {"asked", "granted"}}
  OBVIOUS
<1> HIDE DEF lost
<1>4. [t \in Token |-> StageOf(t)]' = [t \in Token |-> IF t \in lost THEN "void" ELSE [u \in Token |-> StageOf(u)][t]]
  BY <1>1
<1>5. Approval!Lose
  BY <1>2, <1>3, <1>4 DEF Approval!Lose
<1> QED
  BY <1>5 DEF Approval!Next

\* A mint puts the question its token stands for.
LEMMA MintStep ==
  ASSUME TypeOK, OneShotInv, NEW w \in Worker, NEW t \in Token, Mint(w, t)
  PROVE  Approval!Next
<1>1. call[w] \in Call /\ [call |-> call[w], issued |-> now] # NoPending
  BY NullAssumption DEF TypeOK, PendingRec
<1>2. StageOf(t) = "new" /\ StageOf(t)' = "asked" /\ AboutOf(t)' = call[w]
  BY <1>1 DEF Mint, Fresh, StageOf, AboutOf, TypeOK
<1>3. ASSUME NEW u \in Token, u # t
      PROVE  StageOf(u)' = StageOf(u) /\ AboutOf(u)' = AboutOf(u)
  <2>1. minted'[u] = minted[u] /\ pending'[u] = pending[u] /\ allowedBy' = allowedBy
    BY <1>3 DEF Mint, TypeOK
  <2>2. Held(u)' <=> Held(u)
    BY DEF Mint, Held
  <2> QED
    BY <2>1, <2>2 DEF StageOf, AboutOf
<1>4. Approval!Ask(t, call[w])
  <2>1. [u \in Token |-> StageOf(u)]' = [[u \in Token |-> StageOf(u)] EXCEPT ![t] = "asked"]
    BY <1>2, <1>3
  <2>2. [u \in Token |-> AboutOf(u)]' = [[u \in Token |-> AboutOf(u)] EXCEPT ![t] = call[w]]
    BY <1>2, <1>3
  <2> QED
    BY <1>2, <2>1, <2>2 DEF Approval!Ask, Mint
<1> QED
  BY <1>1, <1>4 DEF Approval!Next

\* An answer that rests on a local grant spends it; any other answer spends none.
LEMMA ReturnStep ==
  ASSUME TypeOK, OneShotInv, NEW w \in Worker, Return(w)
  PROVE  Approval!Next
<1>1. CASE basis[w] \notin GrantRec
  <2>1. allowedBy' = allowedBy
    BY <1>1 DEF Return, TypeOK
  <2>2. \A t \in Token : Held(t)' => Held(t)
    BY NullAssumption DEF Return, Unwind, Held, store, TypeOK
  <2> QED
    BY <2>1, <2>2, LoseStep DEF Return, store
<1>2. CASE basis[w] \in GrantRec
  <2>0. PICK t \in Token : t = basis[w].token
    BY <1>2 DEF GrantRec
  <2>1. Held(t) /\ decision[w] = "allow"
    BY <1>2, <2>0 DEF Held, OneShotInv, BasisInv
  <2>2. minted[t] # NoPending /\ pending[t] = NoPending /\ allowedBy[t] = 0
    BY <2>1, HeldIsBacked
  <2>3. /\ UNCHANGED <<pending, grants, minted>>
        /\ allowedBy' = [allowedBy EXCEPT ![t] = @ + 1]
    BY <1>2, <2>0, <2>1 DEF Return, store, TypeOK
  <2>4. StageOf(t) = "granted" /\ StageOf(t)' = "spent"
    <3>1. allowedBy'[t] = 1
      BY <2>1, <2>2, <2>3 DEF TypeOK
    <3> QED
      BY <2>1, <2>2, <2>3, <3>1 DEF StageOf
  <2>5. ASSUME NEW u \in Token, u # t
        PROVE  StageOf(u)' = StageOf(u)
    <3>1. Held(u)' <=> Held(u)
      BY <2>0, <2>3, <2>5, NullAssumption DEF Return, Unwind, Held, TypeOK
    <3>2. allowedBy'[u] = allowedBy[u]
      BY <2>3, <2>5 DEF TypeOK
    <3> QED
      BY <2>3, <3>1, <3>2 DEF StageOf
  <2>6. \A u \in Token : AboutOf(u)' = AboutOf(u)
    BY <2>3 DEF AboutOf
  <2>7. [u \in Token |-> StageOf(u)]' = [[u \in Token |-> StageOf(u)] EXCEPT ![t] = "spent"]
    BY <2>4, <2>5
  <2>8. Approval!Spend(t)
    BY <2>1, <2>3, <2>4, <2>6, <2>7 DEF Approval!Spend
  <2> QED
    BY <2>1, <2>8 DEF Approval!Next
<1> QED
  BY <1>1, <1>2

\* A yes grants its question; the grant it overwrites, if any, is lost.
LEMMA ApproveStep ==
  ASSUME TypeOK, OneShotInv, NEW t \in Token, NEW scope \in SUBSET Call, Approve(t, scope)
  PROVE  Approval!Next
<1> DEFINE c == pending[t].call
           lost == {u \in Token : grants[c] # NoGrant /\ grants[c].token = u}
<1>1. /\ pending[t] # NoPending /\ pending[t] = minted[t] /\ allowedBy[t] = 0
      /\ c \in Call
  BY DEF Approve, Approvable, OneShotInv, TokenInv, TypeOK, PendingRec
<1>2. /\ UNCHANGED <<minted, allowedBy, basis>>
      /\ pending' = [pending EXCEPT ![t] = NoPending]
      /\ grants'[c] = [call |-> c, token |-> t, granted |-> now]
      /\ \A d \in Call : d # c => grants'[d] = grants[d]
  BY <1>1 DEF Approve, frame, TypeOK
<1>3. grants'[c] # NoGrant /\ grants'[c].token = t
  BY <1>1, <1>2, NullAssumption DEF GrantRec, TypeOK
<1>4. StageOf(t) = "asked" /\ StageOf(t)' = "granted"
  <2>1. Held(t)'
    BY <1>1, <1>3 DEF Held
  <2>2. pending'[t] = NoPending
    BY <1>2 DEF TypeOK
  <2> QED
    BY <1>1, <1>2, <2>1, <2>2 DEF StageOf
<1>5. t \notin lost
  BY <1>1 DEF OneShotInv, GrantInv, Backed
<1>6. ASSUME NEW u \in lost
      PROVE  StageOf(u) = "granted" /\ StageOf(u)' = "void" /\ AboutOf(u) = AboutOf(t)
  <2>1. Held(u) /\ u # t /\ minted[u].call = c
    BY <1>1, <1>5 DEF Held, OneShotInv, GrantInv, Backed
  <2>2. minted[u] # NoPending /\ pending[u] = NoPending /\ allowedBy[u] = 0
    BY <2>1, HeldIsBacked
  <2>3. ~Held(u)'
    <3>1. \A d \in Call : d # c /\ grants[d] # NoGrant => grants[d].token # u
      BY <2>1 DEF OneShotInv, GrantInv, Backed
    <3>2. \A v \in Worker : basis[v] \in GrantRec => basis[v].token # u
      BY <1>1 DEF OneShotInv, ExclusiveInv
    <3> QED
      BY <1>2, <1>3, <2>1, <3>1, <3>2 DEF Held
  <2>4. pending'[u] = NoPending
    BY <1>2, <2>1, <2>2 DEF TypeOK
  <2> QED
    BY <1>1, <1>2, <2>1, <2>2, <2>3, <2>4 DEF StageOf, AboutOf
<1>7. ASSUME NEW u \in Token, u # t, u \notin lost
      PROVE  StageOf(u)' = StageOf(u)
  <2>1. Held(u)' <=> Held(u)
    BY <1>1, <1>2, <1>3, <1>7 DEF Held
  <2>2. pending'[u] = pending[u]
    BY <1>2, <1>7 DEF TypeOK
  <2> QED
    BY <1>2, <2>1, <2>2 DEF StageOf
<1>8. \A u \in Token : AboutOf(u)' = AboutOf(u)
  BY <1>2 DEF AboutOf
<1>9. lost \subseteq Token
  OBVIOUS
<1> HIDE DEF lost
<1>10. [u \in Token |-> StageOf(u)]' =
         [u \in Token |-> IF u = t THEN "granted"
                          ELSE IF u \in lost THEN "void" ELSE [v \in Token |-> StageOf(v)][u]]
  BY <1>4, <1>5, <1>6, <1>7
<1>11. lost \in SUBSET {u \in Token : /\ [v \in Token |-> StageOf(v)][u] = "granted"
                                      /\ [v \in Token |-> AboutOf(v)][u] = [v \in Token |-> AboutOf(v)][t]}
  BY <1>6, <1>9
<1>12. Approval!Grant(t)
  BY <1>2, <1>4, <1>8, <1>10, <1>11 DEF Approval!Grant
<1> QED
  BY <1>12 DEF Approval!Next

\* Every other step of the gate loses tokens, or changes nothing that is asked,
\* granted or spent.
LEMMA GateStep ==
  ASSUME TypeOK, OneShotInv, [Next]_vars
  PROVE  Approval!Next \/ UNCHANGED <<pending, grants, basis, minted, allowedBy>>
<1> USE NullAssumption DEF TypeOK
<1>1. ASSUME NEW w \in Worker, NEW c \in Call, NEW h \in Hint, Begin(w, c, h)
      PROVE  Approval!Next
  BY <1>1, LoseStep DEF Begin, Held, store, history
<1>2. ASSUME NEW w \in Worker, Step(w) PROVE Approval!Next
  <2>1. CASE ConsumeGrant(w)
    <3>1. \A t \in Token : Held(t)' => Held(t)
      BY <2>1 DEF ConsumeGrant, PopGrant, Held
    <3> QED
      BY <2>1, <3>1, LoseStep DEF ConsumeGrant, history
  <2>2. CASE HardDeny(w) \/ Annotate(w) \/ AskApe(w) \/ VerifyFails(w) \/ MintRefused(w)
             \/ Prompt(w) \/ PromptRefused(w)
    <3>1. UNCHANGED <<pending, grants, basis, minted, allowedBy>>
      BY <2>2 DEF HardDeny, Annotate, AskApe, VerifyFails, MintRefused, Prompt,
                  PromptRefused, store, history
    <3>2. \A t \in Token : Held(t)' => Held(t)
      BY <3>1 DEF Held
    <3> QED
      BY <3>1, <3>2, LoseStep
  <2>3. ASSUME NEW r \in ApeReply, VerifyReply(w, r) PROVE Approval!Next
    <3>1. \A t \in Token : Held(t)' => Held(t)
      BY <2>3 DEF VerifyReply, Held, store
    <3> QED
      BY <2>3, <3>1, LoseStep DEF VerifyReply, store, history
  <2>4. ASSUME NEW t \in Token, Mint(w, t) PROVE Approval!Next
    BY <2>4, MintStep
  <2>5. CASE Return(w)
    BY <2>5, ReturnStep
  <2>6. CASE Raise(w)
    <3>1. \A t \in Token : Held(t)' => Held(t)
      BY <2>6 DEF Raise, Unwind, Held, store
    <3> QED
      BY <2>6, <3>1, LoseStep DEF Raise, store
  <2> QED
    BY <1>2, <2>1, <2>2, <2>3, <2>4, <2>5, <2>6 DEF Step
<1>3. CASE Founder
  <2>1. ASSUME NEW t \in Token, NEW scope \in SUBSET Call, Approve(t, scope)
        PROVE  Approval!Next
    BY <2>1, ApproveStep
  <2>2. ASSUME NEW t \in Token, ApproveExpired(t) PROVE Approval!Next
    <3>1. \A u \in Token : Held(u)' => Held(u)
      BY <2>2 DEF ApproveExpired, Held, frame
    <3> QED
      BY <2>2, <3>1, LoseStep DEF ApproveExpired, history
  <2> QED
    BY <1>3, <2>1, <2>2 DEF Founder
<1>4. CASE Tick
  BY <1>4 DEF Tick, store, frame, history
<1>5. CASE Restart
  <2>1. \A t \in Token : ~Held(t)'
    BY <1>5 DEF Restart, Held
  <2> QED
    BY <1>5, <2>1, LoseStep DEF Restart
<1>6. CASE UNCHANGED vars
  BY <1>6 DEF vars, store, frame, history
<1> QED
  BY <1>1, <1>2, <1>3, <1>4, <1>5, <1>6 DEF Next

\* Every run of the gate is a run of OneShotApproval.
THEOREM ImplementsApprovalCorrect == Spec => ImplementsApproval
<1>1. Init => Approval!Init
  BY DEF Init, Approval!Init, StageOf, AboutOf
<1>2. UNCHANGED <<pending, grants, basis, minted, allowedBy>> =>
        UNCHANGED <<[t \in Token |-> StageOf(t)], [t \in Token |-> AboutOf(t)], allowedBy>>
  <2> SUFFICES ASSUME UNCHANGED <<pending, grants, basis, minted, allowedBy>>
               PROVE  UNCHANGED <<[t \in Token |-> StageOf(t)], [t \in Token |-> AboutOf(t)], allowedBy>>
    OBVIOUS
  <2>1. \A t \in Token : (Held(t)' <=> Held(t)) /\ AboutOf(t)' = AboutOf(t)
    BY DEF Held, AboutOf
  <2>2. \A t \in Token : StageOf(t)' = StageOf(t)
    BY <2>1 DEF StageOf
  <2> QED
    BY <2>1, <2>2
<1>3. TypeOK /\ OneShotInv /\ [Next]_vars =>
        [Approval!Next]_<<[t \in Token |-> StageOf(t)], [t \in Token |-> AboutOf(t)], allowedBy>>
  BY <1>2, GateStep
<1> QED
  BY <1>1, <1>3, InitOneShot, NextOneShot, TypeCorrect, PTL
  DEF Spec, ImplementsApproval, Approval!Spec

-----------------------------------------------------------------------------
(* The secret taint only narrows what classify_lock answers. *)

LEMMA TNextIsNext == [TNext]_tvars => [Next]_vars
<1> SUFFICES ASSUME [TNext]_tvars PROVE [Next]_vars
  OBVIOUS
<1>1. ASSUME NEW w \in Worker, NEW c \in Call, Classify(w, c) PROVE Next
  <2>1. HintNow(c) \in Hint
    BY TaintAssumption, SessionAssumption DEF HintNow, Hint
  <2> QED
    BY <1>1, <2>1 DEF Classify, Next
<1>2. CASE (\E w \in Worker : Step(w)) \/ Founder \/ Tick
  BY <1>2 DEF Next
<1>3. CASE TRestart
  BY <1>3 DEF TRestart, Next
<1>4. CASE UNCHANGED tvars
  BY <1>4 DEF tvars, vars
<1> QED
  BY <1>1, <1>2, <1>3, <1>4 DEF TNext

\* A gate whose outbound calls are denied once their session read a secret behaves
\* like the gate whose locks are arbitrary.
THEOREM TaintedIsGate == TSpec => Spec
<1>1. TInit => Init
  BY DEF TInit
<1> QED
  BY <1>1, TNextIsNext, PTL DEF TSpec, Spec

\* So a yes allows one call there too, and a call that the taint denies passes, if
\* at all, on the Founder's yes to that call, never on APE's word.
THEOREM TaintedGateCorrect == TSpec => [](OneShot /\ AllowIsFounded)
BY TaintedIsGate, OneShotCorrect, AllowIsFoundedCorrect, PTL


-----------------------------------------------------------------------------
(* The gate over APE. *)

\* The domains of what the link reads of a request.
ApeShape ==
  /\ apePc \in [Handler -> {"idle", "verify", "mint", "approve", "reply"}]
  /\ apeCall \in [Handler -> Call]
  /\ apeToken \in [Handler -> Remote \cup {NoToken}]
  /\ apeAnswer \in [Handler -> APE!Answer]
  /\ listening \in [Handler -> BOOLEAN]

\* Where a handler stands that works on a verification, and what it may answer.
Verifies(r) ==
  /\ apePc[r] \in {"verify", "mint", "reply"}
  /\ apePc[r] = "reply" => apeAnswer[r] \in {"allow", "deny", "flood", "ask"}
  /\ apePc[r] = "reply" /\ apeAnswer[r] = "ask" => apeToken[r] \in Remote

\* A thread waits for a handler of its own, exactly when it stands at a request, and
\* has a token of APE only later.
Waits(w) ==
  /\ asked[w] # NoHandler <=> pc[w] \in {"verify", "annotate"}
  /\ asked[w] # NoHandler =>
       /\ Verifies(asked[w]) /\ listening[asked[w]] /\ apeCall[asked[w]] = call[w]
       /\ \A v \in Worker \ {w} : asked[v] # asked[w]
  /\ token[w] = ApeToken => pc[w] \in {"mint", "prompt", "receipt"}

LinkInv == LinkTypeOK /\ ApeShape /\ \A w \in Worker : Waits(w)

LEMMA InitLink == CInit => LinkInv
<1> SUFFICES ASSUME CInit PROVE LinkInv
  OBVIOUS
<1>1. APE!NoCall \in Call
  BY SessionAssumption DEF APE!NoCall
<1>2. ApeShape
  BY <1>1 DEF CInit, APE!Init, ApeShape, APE!Answer
<1>3. ASSUME NEW w \in Worker PROVE Waits(w)
  BY NullAssumption DEF CInit, Init, IdleFrame, Waits
<1>4. LinkTypeOK
  BY NullAssumption DEF CInit, Init, IdleFrame, LinkTypeOK
<1> QED
  BY <1>2, <1>3, <1>4 DEF LinkInv

\* A handler changes its own request only, and a verification stays one until it is
\* answered.
LEMMA HandleLink ==
  ASSUME ApeShape, NEW r \in Handler, APE!Handle(r)
  PROVE  /\ ApeShape'
         /\ \A h \in Handler \ {r} :
              /\ apePc'[h] = apePc[h] /\ apeAnswer'[h] = apeAnswer[h] /\ apeCall'[h] = apeCall[h]
              /\ apeToken'[h] = apeToken[h] /\ listening'[h] = listening[h]
         /\ apePc[r] # "reply" => apeCall' = apeCall /\ listening' = listening
         /\ apePc[r] \in {"verify", "mint"} =>
              /\ apePc'[r] \in {"mint", "reply"}
              /\ apePc'[r] = "reply" => apeAnswer'[r] \in {"allow", "deny", "flood", "ask"}
              /\ apePc'[r] = "reply" /\ apeAnswer'[r] = "ask" => apeToken'[r] \in Remote
<1> USE DEF ApeShape, APE!Reply, APE!Answer
<1>1. CASE APE!Malformed(r)
  BY <1>1 DEF APE!Malformed
<1>2. CASE APE!Consume(r)
  BY <1>2 DEF APE!Consume
<1>3. CASE APE!Judge(r)
  <2>1. APE!EvaluatePolicy(apeCall[r]) \in {"deny", "require_approval", "allow"}
    BY DEF APE!EvaluatePolicy
  <2> QED
    BY <1>3, <2>1 DEF APE!Judge
<1>4. CASE APE!RefuseMint(r)
  BY <1>4 DEF APE!RefuseMint
<1>5. CASE APE!Mint(r)
  <2>1. PICK t \in Remote : apeToken' = [apeToken EXCEPT ![r] = t]
    BY <1>5 DEF APE!Mint
  <2> QED
    BY <1>5, <2>1 DEF APE!Mint
<1>6. CASE APE!RefuseApproval(r)
  BY <1>6 DEF APE!RefuseApproval
<1>7. CASE APE!Approve(r)
  BY <1>7 DEF APE!Approve
<1>8. CASE APE!Finish(r)
  <2>1. APE!NoCall \in Call
    BY SessionAssumption DEF APE!NoCall
  <2> QED
    BY <1>8, <2>1 DEF APE!Finish
<1> QED
  BY <1>1, <1>2, <1>3, <1>4, <1>5, <1>6, <1>7, <1>8 DEF APE!Handle

\* A thread whose request and whose place in the gate do not change waits as before.
LEMMA StillWaits ==
  ASSUME LinkInv, NEW w \in Worker,
         asked'[w] = asked[w], pc'[w] = pc[w], call'[w] = call[w], token'[w] = token[w],
         \A v \in Worker \ {w} : asked'[v] # NoHandler => asked'[v] = asked[v] \/ asked'[v] # asked[w],
         asked[w] # NoHandler => Verifies(asked[w])'
           /\ listening'[asked[w]] = listening[asked[w]] /\ apeCall'[asked[w]] = apeCall[asked[w]]
  PROVE  Waits(w)'
<1> QED
  BY DEF LinkInv, Waits, Verifies

\* What a handler in waiting answers is a reply the gate can take.
LEMMA ReplyIsReply ==
  ASSUME LinkInv, NEW w \in Worker, asked[w] # NoHandler,
         apePc[asked[w]] = "reply", ~StatusFails(asked[w])
  PROVE  ReplyOf(asked[w]) \in ApeReply
<1>1. Verifies(asked[w])
  BY DEF LinkInv, Waits
<1>2. apeAnswer[asked[w]] \in {"allow", "deny", "ask"}
  BY <1>1 DEF Verifies, StatusFails
<1> QED
  BY <1>2 DEF ReplyOf, ApeReply, Decision

\* Every step of the gate over APE is a step of the gate, the clock's second reading
\* in an approval included.
LEMMA CNextIsNext == TypeOK /\ LinkInv /\ [CNext]_cvars => [Next]_vars
<1> SUFFICES ASSUME TypeOK, LinkInv, [CNext]_cvars PROVE [Next]_vars
  OBVIOUS
<1>1. ASSUME NEW w \in Worker, NEW c \in Call, NEW h \in Hint, Enter(w, c, h) PROVE Next
  BY <1>1 DEF Enter, Next
<1>2. ASSUME NEW w \in Worker, Step(w) PROVE Next
  BY <1>2 DEF Next
<1>3. ASSUME NEW w \in Worker, Ask(w) PROVE Step(w)
  BY <1>3 DEF Ask, Step
<1>4. ASSUME NEW w \in Worker, Deliver(w) PROVE Step(w)
  <2>1. asked[w] # NoHandler /\ apePc[asked[w]] = "reply"
    BY <1>4 DEF Deliver, APE!Finish
  <2>2. CASE ~StatusFails(asked[w]) /\ VerifyReply(w, ReplyOf(asked[w]))
    BY <2>1, <2>2, ReplyIsReply DEF Step
  <2>3. CASE Annotate(w) \/ VerifyFails(w)
    BY <2>3 DEF Step
  <2> QED
    BY <1>4, <2>2, <2>3 DEF Deliver
<1>5. ASSUME NEW w \in Worker, TimeOut(w) \/ Inside(w) \/ Leave(w) \/ Fail(w) PROVE Step(w)
  BY <1>5 DEF TimeOut, Inside, Leave, Fail, Step
<1>6. ASSUME NEW r \in Handler, Serve(r) PROVE [Next]_vars
  <2>1. UNCHANGED <<store, restarts, frame, history>>
    BY <1>6 DEF Serve
  <2>2. now' = now \/ (now' = now + 1 /\ now' <= MaxTime)
    BY <1>6 DEF Serve, APE!Handle, APE!Malformed, APE!Consume, APE!Judge, APE!RefuseMint,
       APE!Mint, APE!RefuseApproval, APE!Approve, APE!Finish
  <2>3. now \in Nat /\ MaxTime \in Nat
    BY BoundAssumption DEF TypeOK
  <2>4. CASE now' = now
    BY <2>1, <2>4 DEF vars
  <2>5. CASE now' = now + 1 /\ now' <= MaxTime
    <3>1. now < MaxTime
      BY <2>3, <2>5
    <3> QED
      BY <2>1, <2>5, <3>1 DEF Tick, Next
  <2> QED
    BY <2>2, <2>4, <2>5
<1>7. ASSUME NEW t \in Remote, ApproveAtApe(t) PROVE UNCHANGED vars
  BY <1>7 DEF ApproveAtApe, APE!PostApprove, APE!Send, vars
<1>8. Alone \/ GateRestarts => Next
  BY DEF Alone, GateRestarts, Next
<1>9. UNCHANGED cvars => UNCHANGED vars
  BY DEF cvars
<1> QED
  BY <1>1, <1>2, <1>3, <1>4, <1>5, <1>6, <1>7, <1>8, <1>9 DEF CNext

\* Steps of the gate that leave APE and the link alone.
LEMMA InsideLink ==
  ASSUME TypeOK, LinkInv, NEW w \in Worker,
         Inside(w) \/ \E c \in Call, h \in Hint : Enter(w, c, h)
  PROVE  LinkInv'
<1> DEFINE Moved ==
      /\ UNCHANGED <<link, ape, account>>
      /\ asked[w] = NoHandler /\ pc'[w] \notin {"verify", "annotate"}
      /\ token'[w] = ApeToken => token'[w] = token[w] /\ pc'[w] \in {"mint", "prompt", "receipt"}
      /\ \A v \in Worker \ {w} : pc'[v] = pc[v] /\ call'[v] = call[v] /\ token'[v] = token[v]
<1>1. Moved
  <2> USE DEF TypeOK, LinkInv, Waits, Decide
  <2>1. ASSUME NEW c \in Call, NEW h \in Hint, Enter(w, c, h) PROVE Moved
    BY <2>1 DEF Enter, Begin
  <2>2. CASE ConsumeGrant(w) /\ UNCHANGED <<link, ape, account>>
    BY <2>2 DEF ConsumeGrant
  <2>3. CASE HardDeny(w) /\ pc'[w] = "receipt" /\ UNCHANGED <<link, ape, account>>
    BY <2>3 DEF HardDeny
  <2>4. CASE MintRefused(w) /\ UNCHANGED <<link, ape, account>>
    BY <2>4, NullAssumption DEF MintRefused
  <2>5. ASSUME NEW t \in Token, Mint(w, t), UNCHANGED <<link, ape, account>> PROVE Moved
    BY <2>5, NullAssumption DEF Mint
  <2>6. CASE Prompt(w) /\ UNCHANGED <<link, ape, account>>
    BY <2>6 DEF Prompt
  <2>7. CASE PromptRefused(w) /\ UNCHANGED <<link, ape, account>>
    BY <2>7, NullAssumption DEF PromptRefused
  <2> QED
    BY <2>1, <2>2, <2>3, <2>4, <2>5, <2>6, <2>7 DEF Inside
<1>0. asked[w] = NoHandler /\ (\A v \in Worker : Waits(v)) /\ LinkTypeOK /\ ApeShape
  BY <1>1 DEF LinkInv
<1>2. UNCHANGED <<asked, carried, shown, yes, passed, apePc, apeCall, apeToken, apeAnswer, listening>>
  BY <1>1 DEF link, ape, account
<1>3. ApeShape'
  BY <1>2 DEF LinkInv, ApeShape
<1>4. ASSUME NEW v \in Worker PROVE Waits(v)'
  <2>1. CASE v = w
    BY <1>1, <1>2, <2>1 DEF Waits
  <2>2. CASE v # w
    BY <1>0, <1>1, <1>2, <2>2 DEF Waits, Verifies
  <2> QED
    BY <2>1, <2>2
<1>5. LinkTypeOK'
  <2>1. \A v \in Worker : token'[v] = ApeToken => token[v] = ApeToken
    BY <1>1
  <2>2. \A v \in Worker \ {w} : pc'[v] = pc[v] /\ call'[v] = call[v]
    BY <1>1
  <2> HIDE DEF Moved
  <2> QED
    BY <1>0, <1>2, <2>1, <2>2 DEF LinkTypeOK
<1> QED
  BY <1>3, <1>4, <1>5 DEF LinkInv

\* A handler's step leaves the threads of the gate waiting as they were.
LEMMA ServeLink == ASSUME LinkInv, NEW r \in Handler, Serve(r) PROVE LinkInv'
<1>1. /\ APE!Handle(r) /\ UNCHANGED <<asked, carried, pc, call, token, shown, passed>>
      /\ apePc[r] = "reply" => \A w \in Worker : asked[w] # r
  BY DEF Serve, link, frame
<1>2. yes' \subseteq Remote
  <2>1. CASE yes' = yes
    BY <2>1 DEF LinkInv, LinkTypeOK
  <2>2. CASE apePc[r] = "approve" /\ apeAnswer'[r] = "granted" /\ yes' = yes \cup {apeToken[r]}
    <3>1. APE!Approve(r) \/ APE!RefuseApproval(r)
      BY <1>1, <2>2 DEF APE!Handle, APE!Malformed, APE!Consume, APE!Judge, APE!RefuseMint, APE!Mint, APE!Finish
    <3>2. ~APE!RefuseApproval(r)
      BY <2>2 DEF APE!RefuseApproval, APE!Reply, LinkInv, ApeShape
    <3>3. apeToken[r] \in Remote
      BY <3>1, <3>2 DEF APE!Approve, APE!Answerable
    <3> QED
      BY <2>2, <3>3 DEF LinkInv, LinkTypeOK
  <2> QED
    BY <2>1, <2>2 DEF Serve
<1>3. ApeShape
  BY DEF LinkInv
<1>4. ApeShape'
  BY <1>1, <1>3, HandleLink
<1>5. ASSUME NEW w \in Worker PROVE Waits(w)'
  <2>1. CASE asked[w] = NoHandler
    BY <1>1, <2>1 DEF LinkInv, Waits
  <2>2. CASE asked[w] # NoHandler
    <3>1. asked[w] \in Handler /\ Verifies(asked[w])
      BY <2>2 DEF LinkInv, LinkTypeOK, Waits
    <3>2. /\ Verifies(asked[w])'
          /\ listening'[asked[w]] = listening[asked[w]] /\ apeCall'[asked[w]] = apeCall[asked[w]]
      <4>1. CASE asked[w] = r
        <5>1. apePc[r] \in {"verify", "mint"}
          BY <1>1, <3>1, <4>1 DEF Verifies
        <5> QED
          BY <1>1, <1>3, <4>1, <5>1, HandleLink DEF Verifies
      <4>2. CASE asked[w] # r
        BY <1>1, <1>3, <3>1, <4>2, HandleLink DEF Verifies
      <4> QED
        BY <4>1, <4>2
    <3> QED
      BY <1>1, <3>2, StillWaits
  <2> QED
    BY <2>1, <2>2
<1>6. LinkTypeOK'
  <2>1. ASSUME NEW w \in Worker, asked[w] # NoHandler
        PROVE  /\ pc[w] \in {"verify", "annotate"}
               /\ apePc'[asked[w]] \in {"verify", "mint", "reply"} /\ listening'[asked[w]]
               /\ apeCall'[asked[w]] = call[w]
    BY <1>1, <1>5, <2>1 DEF Waits, Verifies
  <2> QED
    BY <1>1, <1>2, <2>1 DEF LinkInv, LinkTypeOK
<1> QED
  BY <1>4, <1>5, <1>6 DEF LinkInv

\* A request is begun by a thread that waited for nobody, with a handler that was idle.
LEMMA AskLink == ASSUME TypeOK, LinkInv, NEW w \in Worker, Ask(w) PROVE LinkInv'
<1>0. LinkTypeOK /\ ApeShape /\ \A v \in Worker : Waits(v)
  BY DEF LinkInv
<1>1. PICK r \in Handler : APE!PostVerify(r, call[w]) /\ asked' = [asked EXCEPT ![w] = r]
  BY DEF Ask, Post
<1>2. /\ pc[w] = "consume" /\ UNCHANGED <<call, token, carried, shown, yes, passed>>
      /\ pc' \in {[pc EXCEPT ![w] = "verify"], [pc EXCEPT ![w] = "annotate"]}
  <2>1. CASE AskApe(w)
    BY <2>1 DEF Ask, AskApe, account
  <2>2. CASE HardDeny(w) /\ pc'[w] = "annotate"
    BY <2>2 DEF Ask, HardDeny, Decide, account, TypeOK
  <2> QED
    BY <2>1, <2>2 DEF Ask
<1>3. /\ apePc[r] = "idle" /\ apePc' = [apePc EXCEPT ![r] = "verify"]
      /\ apeCall' = [apeCall EXCEPT ![r] = call[w]]
      /\ apeToken' = [apeToken EXCEPT ![r] = NoToken]
      /\ listening' = [listening EXCEPT ![r] = TRUE]
      /\ UNCHANGED apeAnswer
  BY <1>1 DEF APE!PostVerify, APE!Send
<1>4. ApeShape'
  BY <1>0, <1>3 DEF ApeShape, TypeOK
<1>5. \A v \in Worker : asked[v] # r
  BY <1>0, <1>3, LinkAssumption DEF Waits, Verifies
<1>6. ASSUME NEW v \in Worker PROVE Waits(v)'
  <2>1. CASE v = w
    <3>1. asked'[w] = r /\ pc'[w] \in {"verify", "annotate"} /\ r # NoHandler
      BY <1>0, <1>1, <1>2, LinkAssumption DEF LinkTypeOK, TypeOK
    <3>2. Verifies(r)' /\ listening'[r] /\ apeCall'[r] = call'[w]
      BY <1>0, <1>2, <1>3 DEF ApeShape, Verifies
    <3>3. \A u \in Worker \ {w} : asked'[u] # r
      BY <1>0, <1>1, <1>5 DEF LinkTypeOK
    <3>4. token'[w] # ApeToken
      BY <1>0, <1>2 DEF Waits
    <3> QED
      BY <2>1, <3>1, <3>2, <3>3, <3>4 DEF Waits, Verifies
  <2>2. CASE v # w
    <3>1. /\ asked'[v] = asked[v] /\ pc'[v] = pc[v] /\ call'[v] = call[v] /\ token'[v] = token[v]
          /\ asked'[w] = r
      BY <1>0, <1>1, <1>2, <2>2 DEF LinkTypeOK, TypeOK
    <3>2. \A u \in Worker \ {w} : asked'[u] = asked[u]
      BY <1>0, <1>1 DEF LinkTypeOK
    <3>3. ASSUME asked[v] # NoHandler
          PROVE  /\ Verifies(asked[v])'
                 /\ listening'[asked[v]] = listening[asked[v]] /\ apeCall'[asked[v]] = apeCall[asked[v]]
      <4>1. asked[v] \in Handler \ {r} /\ Verifies(asked[v])
        BY <1>0, <1>5, <3>3 DEF LinkTypeOK, Waits
      <4>2. /\ apePc'[asked[v]] = apePc[asked[v]] /\ apeToken'[asked[v]] = apeToken[asked[v]]
            /\ apeAnswer'[asked[v]] = apeAnswer[asked[v]]
            /\ listening'[asked[v]] = listening[asked[v]] /\ apeCall'[asked[v]] = apeCall[asked[v]]
        BY <1>0, <1>3, <4>1 DEF ApeShape
      <4> QED
        BY <3>1, <4>1, <4>2 DEF Verifies
    <3> QED
      BY <1>5, <3>1, <3>2, <3>3, StillWaits
  <2> QED
    BY <2>1, <2>2
<1>7. LinkTypeOK'
  <2>1. asked' \in [Worker -> Handler \cup {NoHandler}]
    BY <1>0, <1>1 DEF LinkTypeOK
  <2>2. ASSUME NEW v \in Worker, asked'[v] # NoHandler
        PROVE  /\ pc'[v] \in {"verify", "annotate"}
               /\ apePc'[asked'[v]] \in {"verify", "mint", "reply"} /\ listening'[asked'[v]]
               /\ apeCall'[asked'[v]] = call'[v]
    BY <1>6, <2>2 DEF Waits, Verifies
  <2> QED
    BY <1>0, <1>2, <2>1, <2>2 DEF LinkTypeOK
<1> QED
  BY <1>4, <1>6, <1>7 DEF LinkInv

\* A thread that goes on from its request, with or without an answer, waits no more.
LEMMA GoneOn ==
  ASSUME TypeOK, LinkInv, NEW w \in Worker, ApeShape',
         asked[w] # NoHandler, asked' = [asked EXCEPT ![w] = NoHandler],
         pc' = [pc EXCEPT ![w] = pc'[w]], pc'[w] \in {"mint", "prompt", "receipt"},
         call' = call, token' = [token EXCEPT ![w] = token'[w]],
         carried' \in [Worker -> Remote \cup {NoToken}],
         \A v \in Worker : token'[v] = ApeToken => carried'[v] \in Remote,
         shown' \subseteq Remote, yes' \subseteq Remote, passed' \in [Call -> Nat],
         \A h \in Handler \ {asked[w]} :
           /\ apePc'[h] = apePc[h] /\ apeAnswer'[h] = apeAnswer[h] /\ apeCall'[h] = apeCall[h]
           /\ apeToken'[h] = apeToken[h] /\ listening'[h] = listening[h]
  PROVE  LinkInv'
<1>0. LinkTypeOK /\ ApeShape /\ \A v \in Worker : Waits(v)
  BY DEF LinkInv
<1>1. ASSUME NEW v \in Worker PROVE Waits(v)'
  <2>1. CASE v = w
    BY <1>0, <2>1 DEF LinkTypeOK, Waits
  <2>2. CASE v # w
    <3>1. asked'[v] = asked[v] /\ pc'[v] = pc[v] /\ call'[v] = call[v] /\ token'[v] = token[v]
      BY <1>0, <2>2 DEF LinkTypeOK, TypeOK
    <3>2. asked[v] # NoHandler => asked[v] \in Handler \ {asked[w]}
      BY <1>0, <2>2 DEF LinkTypeOK, Waits
    <3>3. \A u \in Worker \ {v} : asked'[u] # NoHandler => asked'[u] = asked[u]
      BY <1>0 DEF LinkTypeOK
    <3>4. asked[v] # NoHandler => Verifies(asked[v])'
            /\ listening'[asked[v]] = listening[asked[v]] /\ apeCall'[asked[v]] = apeCall[asked[v]]
      BY <1>0, <3>2 DEF Waits, Verifies
    <3> QED
      BY <3>1, <3>3, <3>4, StillWaits
  <2> QED
    BY <2>1, <2>2
<1>2. asked' \in [Worker -> Handler \cup {NoHandler}]
  BY <1>0 DEF LinkTypeOK
<1>3. ASSUME NEW v \in Worker, asked'[v] # NoHandler
      PROVE  /\ pc'[v] \in {"verify", "annotate"}
             /\ apePc'[asked'[v]] \in {"verify", "mint", "reply"} /\ listening'[asked'[v]]
             /\ apeCall'[asked'[v]] = call'[v]
  BY <1>1, <1>3 DEF Waits, Verifies
<1>4. LinkTypeOK'
  BY <1>2, <1>3 DEF LinkTypeOK
<1> QED
  BY <1>1, <1>4 DEF LinkInv

\* A request that is over leaves its thread behind it, answered or not.
LEMMA OverLink ==
  ASSUME TypeOK, LinkInv, NEW w \in Worker, Deliver(w) \/ TimeOut(w)
  PROVE  LinkInv'
<1> DEFINE r == asked[w]
<1>0. LinkTypeOK /\ ApeShape /\ \A v \in Worker : Waits(v)
  BY DEF LinkInv
<1>1. r # NoHandler /\ r \in Handler /\ asked' = [asked EXCEPT ![w] = NoHandler]
  BY <1>0 DEF Deliver, TimeOut, LinkTypeOK
<1>2. token[w] # ApeToken /\ Verifies(r)
  BY <1>0, <1>1 DEF Waits
<1> DEFINE Passes(t) ==
      /\ pc' = [pc EXCEPT ![w] = pc'[w]] /\ pc'[w] \in {"mint", "prompt", "receipt"}
      /\ call' = call /\ token' = [token EXCEPT ![w] = t]
<1>3. Annotate(w) \/ VerifyFails(w) => Passes(token[w])
  BY DEF Annotate, VerifyFails, Decide, TypeOK
<1>4. VerifyReply(w, ReplyOf(r)) =>
        Passes(IF apeAnswer[r] = "ask" THEN ApeToken ELSE NoToken) /\ pc[w] = "verify"
  BY DEF VerifyReply, ReplyOf, Decide, AfterReply, TypeOK
<1>5. PICK t \in Token \cup {NoToken, ApeToken} :
        /\ Passes(t)
        /\ t = ApeToken => Deliver(w) /\ pc[w] = "verify" /\ apePc[r] = "reply" /\ apeAnswer[r] = "ask"
  <2>1. CASE Annotate(w) \/ VerifyFails(w)
    BY <1>2, <1>3, <2>1 DEF TypeOK
  <2>2. CASE Deliver(w) /\ VerifyReply(w, ReplyOf(r))
    BY <1>4, <2>2, NullAssumption DEF Deliver, APE!Finish
  <2> QED
    BY <2>1, <2>2 DEF Deliver, TimeOut
<1>6. /\ ApeShape'
      /\ \A h \in Handler \ {r} :
           /\ apePc'[h] = apePc[h] /\ apeAnswer'[h] = apeAnswer[h] /\ apeCall'[h] = apeCall[h]
           /\ apeToken'[h] = apeToken[h] /\ listening'[h] = listening[h]
  <2>1. CASE Deliver(w)
    BY <1>0, <1>1, <2>1, HandleLink DEF Deliver, APE!Handle
  <2>2. CASE TimeOut(w)
    BY <1>0, <1>1, <2>2 DEF TimeOut, APE!GiveUp, ApeShape
  <2> QED
    BY <2>1, <2>2
<1>7. /\ carried' \in [Worker -> Remote \cup {NoToken}]
      /\ \A v \in Worker \ {w} : carried'[v] = carried[v]
      /\ t = ApeToken => carried'[w] \in Remote
  <2>1. CASE Deliver(w)
    BY <1>0, <1>1, <1>2, <1>5, <2>1 DEF Deliver, Verifies, LinkTypeOK, ApeShape
  <2>2. CASE TimeOut(w)
    <3>1. ~Deliver(w)
      BY <2>2, <1>0, <1>1 DEF Deliver, TimeOut, APE!Finish, APE!GiveUp, ApeShape
    <3> QED
      BY <1>0, <1>5, <2>2, <3>1 DEF TimeOut, LinkTypeOK
  <2> QED
    BY <2>1, <2>2
<1>8. token' = [token EXCEPT ![w] = token'[w]] /\ \A v \in Worker : token'[v] = ApeToken => carried'[v] \in Remote
  BY <1>0, <1>5, <1>7 DEF LinkTypeOK, TypeOK
<1>9. shown' \subseteq Remote /\ yes' \subseteq Remote /\ passed' \in [Call -> Nat]
  BY <1>0 DEF Deliver, TimeOut, account, LinkTypeOK
<1> QED
  BY <1>1, <1>5, <1>6, <1>7, <1>8, <1>9, GoneOn

\* A caller has its answer, or an exception.
LEMMA EndLink ==
  ASSUME TypeOK, LinkInv, NEW w \in Worker, Leave(w) \/ Fail(w)
  PROVE  LinkInv'
<1>0. LinkTypeOK /\ ApeShape /\ \A v \in Worker : Waits(v)
  BY DEF LinkInv
<1>1. /\ pc[w] \in {"mint", "prompt", "receipt"} /\ Unwind(w)
      /\ UNCHANGED <<asked, apePc, apeCall, apeToken, apeAnswer, listening, yes>>
      /\ carried' = [carried EXCEPT ![w] = NoToken]
  BY DEF Leave, Fail, Return, Raise, ape, account
<1>2. /\ asked[w] = NoHandler /\ pc'[w] = "idle" /\ token'[w] # ApeToken
      /\ \A v \in Worker \ {w} : pc'[v] = pc[v] /\ call'[v] = call[v] /\ token'[v] = token[v]
  BY <1>0, <1>1, NullAssumption DEF Unwind, Waits, TypeOK
<1>3. ApeShape'
  BY <1>0, <1>1 DEF ApeShape
<1>4. ASSUME NEW v \in Worker PROVE Waits(v)'
  <2>1. CASE v = w
    BY <1>1, <1>2, <2>1 DEF Waits
  <2>2. CASE v # w
    BY <1>0, <1>1, <1>2, <2>2 DEF Waits, Verifies
  <2> QED
    BY <2>1, <2>2
<1>5. carried' \in [Worker -> Remote \cup {NoToken}] /\ \A v \in Worker \ {w} : carried'[v] = carried[v]
  BY <1>0, <1>1 DEF LinkTypeOK
<1>6. shown' \subseteq Remote /\ passed' \in [Call -> Nat]
  BY <1>0 DEF Leave, Fail, account, LinkTypeOK, TypeOK
<1>7. LinkTypeOK'
  BY <1>0, <1>1, <1>2, <1>5, <1>6 DEF LinkTypeOK
<1> QED
  BY <1>3, <1>4, <1>7 DEF LinkInv

\* The gate restarts, and its threads wait for nobody.
LEMMA RestartLink == ASSUME LinkInv, GateRestarts PROVE LinkInv'
<1>0. LinkTypeOK /\ ApeShape
  BY DEF LinkInv
<1>1. /\ asked' = [w \in Worker |-> NoHandler] /\ carried' = [w \in Worker |-> NoToken]
      /\ pc' = [w \in Worker |-> "idle"] /\ token' = [w \in Worker |-> NoToken]
      /\ listening' = [h \in Handler |-> FALSE]
      /\ UNCHANGED <<apePc, apeCall, apeToken, apeAnswer, shown, yes, passed>>
  BY DEF GateRestarts, Restart, APE!ClientsDie, account
<1>2. ApeShape' /\ LinkTypeOK'
  BY <1>0, <1>1, NullAssumption DEF ApeShape, LinkTypeOK
<1>3. ASSUME NEW w \in Worker PROVE Waits(w)'
  BY <1>1, NullAssumption DEF Waits
<1> QED
  BY <1>2, <1>3 DEF LinkInv

\* An approval is sent to a handler nobody waited for; the Founder's yes to a local
\* token and the clock change nothing here.
LEMMA ApartLink ==
  ASSUME LinkInv, (\E t \in Remote : ApproveAtApe(t)) \/ Alone \/ UNCHANGED cvars
  PROVE  LinkInv'
<1>0. LinkTypeOK /\ ApeShape /\ \A v \in Worker : Waits(v)
  BY DEF LinkInv
<1>1. UNCHANGED <<asked, carried, pc, call, token, shown, yes, passed>>
  BY DEF ApproveAtApe, Alone, Founder, ApproveExpired, Approve, Tick, cvars, vars, link, account, frame
<1>2. CASE UNCHANGED <<apePc, apeCall, apeToken, apeAnswer, listening>>
  <2>1. ApeShape' /\ LinkTypeOK'
    BY <1>0, <1>1, <1>2 DEF ApeShape, LinkTypeOK
  <2>2. ASSUME NEW w \in Worker PROVE Waits(w)'
    BY <1>0, <1>1, <1>2 DEF Waits, Verifies
  <2> QED
    BY <2>1, <2>2 DEF LinkInv
<1>3. ASSUME NEW t \in Remote, ApproveAtApe(t) PROVE LinkInv'
  <2>1. PICK r \in Handler : APE!PostApprove(r, t)
    BY <1>3 DEF ApproveAtApe
  <2>2. /\ apePc[r] = "idle" /\ apePc' = [apePc EXCEPT ![r] = "approve"]
        /\ apeCall' = [apeCall EXCEPT ![r] = APE!NoCall]
        /\ apeToken' = [apeToken EXCEPT ![r] = t]
        /\ listening' = [listening EXCEPT ![r] = TRUE]
        /\ UNCHANGED apeAnswer
    BY <2>1 DEF APE!PostApprove, APE!Send
  <2>3. APE!NoCall \in Call
    BY SessionAssumption DEF APE!NoCall
  <2>4. ApeShape'
    BY <1>0, <2>2, <2>3 DEF ApeShape
  <2>5. \A w \in Worker : asked[w] # r
    BY <1>0, <2>2, LinkAssumption DEF Waits, Verifies
  <2>6. ASSUME NEW w \in Worker PROVE Waits(w)'
    <3>1. CASE asked[w] = NoHandler
      BY <1>0, <1>1, <3>1 DEF Waits
    <3>2. CASE asked[w] # NoHandler
      <4>1. asked[w] \in Handler \ {r}
        BY <1>0, <2>5, <3>2 DEF LinkTypeOK
      <4>2. /\ Verifies(asked[w])'
            /\ listening'[asked[w]] = listening[asked[w]] /\ apeCall'[asked[w]] = apeCall[asked[w]]
        <5>1. ASSUME NEW q \in Handler \ {r}
              PROVE  /\ apePc'[q] = apePc[q] /\ apeAnswer'[q] = apeAnswer[q]
                     /\ apeToken'[q] = apeToken[q] /\ apeCall'[q] = apeCall[q]
                     /\ listening'[q] = listening[q]
          BY <1>0, <2>2 DEF ApeShape
        <5>2. Verifies(asked[w])
          BY <1>0, <3>2 DEF Waits
        <5>3. asked'[w] = asked[w]
          BY <1>1
        <5> QED
          BY <4>1, <5>1, <5>2, <5>3 DEF Verifies
      <4> QED
        BY <1>1, <4>2, StillWaits
    <3> QED
      BY <3>1, <3>2
  <2>7. ASSUME NEW w \in Worker, asked'[w] # NoHandler
        PROVE  /\ pc'[w] \in {"verify", "annotate"}
               /\ apePc'[asked'[w]] \in {"verify", "mint", "reply"} /\ listening'[asked'[w]]
               /\ apeCall'[asked'[w]] = call'[w]
    BY <2>6, <2>7 DEF Waits, Verifies
  <2>8. LinkTypeOK'
    BY <1>0, <1>1, <2>7 DEF LinkTypeOK
  <2> QED
    BY <2>4, <2>6, <2>8 DEF LinkInv
<1>4. Alone \/ UNCHANGED cvars => UNCHANGED <<apePc, apeCall, apeToken, apeAnswer, listening>>
  BY DEF Alone, cvars, ape
<1> QED
  BY <1>2, <1>3, <1>4

LEMMA NextLink == TypeOK /\ LinkInv /\ [CNext]_cvars => LinkInv'
<1> SUFFICES ASSUME TypeOK, LinkInv, [CNext]_cvars PROVE LinkInv'
  OBVIOUS
<1>1. ASSUME NEW w \in Worker, NEW c \in Call, NEW h \in Hint, Enter(w, c, h) PROVE LinkInv'
  BY <1>1, InsideLink
<1>2. ASSUME NEW w \in Worker, Ask(w) \/ Deliver(w) \/ TimeOut(w) \/ Inside(w) \/ Leave(w) \/ Fail(w)
      PROVE  LinkInv'
  BY <1>2, AskLink, OverLink, InsideLink, EndLink
<1>3. ASSUME NEW r \in Handler, Serve(r) PROVE LinkInv'
  BY <1>3, ServeLink
<1>4. CASE (\E t \in Remote : ApproveAtApe(t)) \/ Alone \/ UNCHANGED cvars
  BY <1>4, ApartLink
<1>5. CASE GateRestarts
  BY <1>5, RestartLink
<1> QED
  BY <1>1, <1>2, <1>3, <1>4, <1>5 DEF CNext

\* The link keeps its domains: a reply that the gate takes is the reply to its own
\* call, from a handler that has not been left by its client.
THEOREM LinkCorrect == CSpec => []LinkTypeOK
<1>1. CInit => Init
  BY DEF CInit
<1>2. TypeOK /\ LinkInv /\ [CNext]_cvars => TypeOK'
  BY CNextIsNext, NextType
<1>3. LinkInv => LinkTypeOK
  BY DEF LinkInv
<1> QED
  BY <1>1, <1>2, <1>3, InitType, InitLink, NextLink, PTL DEF CSpec

\* The gate over APE behaves like a gate that takes any reply.
THEOREM GateOverApeIsGate == CSpec => Spec
<1>1. CInit => Init
  BY DEF CInit
<1>2. TypeOK /\ LinkInv /\ [CNext]_cvars => TypeOK'
  BY CNextIsNext, NextType
<1> QED
  BY <1>1, <1>2, InitType, InitLink, NextLink, CNextIsNext, PTL DEF CSpec, Spec

\* So over APE too a yes to a local token lets one call pass, an allow under an ask
\* lock is founded or rests on a grant of APE, and the caps hold.
THEOREM GateOverApeCorrect ==
  CSpec => [](OneShot /\ AllowIsFounded /\ TokenOnlyWithAsk /\ PendingCapped /\ AskCapped)
BY GateOverApeIsGate, OneShotCorrect, AllowIsFoundedCorrect, TokenOnlyWithAskCorrect,
   PendingCappedCorrect, AskCappedCorrect, PTL

-----------------------------------------------------------------------------
(* APE under the gate.  Its handlers, its store and the requests the gate makes *)
(* of it are a behaviour of MockApe, so what is proved of any clients holds of  *)
(* the gate's threads and the Founder behind them.                            *)

Store == INSTANCE MockApeProofs WITH
  Thread <- Handler, Token <- Remote, Ttl <- ApeTtl,
  NoPending <- NoRemotePending, NoGrant <- NoRemoteGrant,
  grants <- apeGrants, used <- apeUsed, pc <- apePc, call <- apeCall,
  token <- apeToken, answer <- apeAnswer, grant <- apeGrant,
  minted <- apeMinted, told <- apeTold, allowedBy <- apeAllowedBy

\* A token of APE that a thread of the gate will show, or has shown, is one that a
\* reply brought: nobody approves a question whose reply was lost.
ShownIsTold ==
  /\ shown \subseteq apeTold
  /\ \A w \in Worker : token[w] = ApeToken => carried[w] \in apeTold

\* Nothing is forgotten, and no thread comes by a token but through a reply.
LEMMA ToldStep ==
  ASSUME ShownIsTold, apeTold \subseteq apeTold', shown' = shown,
         \A v \in Worker : token'[v] = ApeToken =>
           \/ token[v] = ApeToken /\ carried'[v] = carried[v]
           \/ carried'[v] \in apeTold'
  PROVE  ShownIsTold'
<1> QED
  BY DEF ShownIsTold

LEMMA NextTold == TypeOK /\ LinkInv /\ ShownIsTold /\ [CNext]_cvars => ShownIsTold'
<1> SUFFICES ASSUME TypeOK, LinkInv, ShownIsTold, [CNext]_cvars PROVE ShownIsTold'
  OBVIOUS
<1>0. LinkTypeOK /\ ApeShape /\ (\A v \in Worker : Waits(v))
  BY DEF LinkInv
<1>1. ASSUME NEW w \in Worker, NEW c \in Call, NEW h \in Hint, Enter(w, c, h) PROVE ShownIsTold'
  BY <1>1, ToldStep DEF Enter, Begin, link, ape, account
<1>2. ASSUME NEW w \in Worker, Ask(w) PROVE ShownIsTold'
  <2>1. token' = token
    BY <1>2 DEF Ask, AskApe, HardDeny
  <2>2. apeTold' = apeTold /\ UNCHANGED <<carried, shown>>
    BY <1>2 DEF Ask, Post, APE!PostVerify, APE!Send, APE!history, account
  <2> QED
    BY <2>1, <2>2, ToldStep
<1>3. ASSUME NEW w \in Worker, Deliver(w) PROVE ShownIsTold'
  <2> DEFINE r == asked[w]
  <2>1. /\ r \in Handler /\ r # NoHandler /\ listening[r] /\ token[w] # ApeToken
        /\ shown' = shown
        /\ carried' = [carried EXCEPT ![w] = IF pc[w] = "verify" THEN apeToken[r] ELSE NoToken]
    BY <1>0, <1>3 DEF Deliver, LinkTypeOK, Waits, account
  <2>2. apeTold' = IF apeAnswer[r] = "ask" THEN apeTold \cup {apeToken[r]} ELSE apeTold
    BY <1>3, <2>1 DEF Deliver, APE!Finish
  <2>3. \/ token' = token
        \/ pc[w] = "verify" /\ token' = [token EXCEPT ![w] = ReplyOf(r).token]
    BY <1>3 DEF Deliver, Annotate, VerifyFails, VerifyReply
  <2>4. ReplyOf(r).token = ApeToken => apeAnswer[r] = "ask"
    BY NullAssumption DEF ReplyOf
  <2>5. ASSUME NEW v \in Worker, v # w
        PROVE  token'[v] = token[v] /\ carried'[v] = carried[v]
    BY <1>0, <2>1, <2>3, <2>5 DEF TypeOK, LinkTypeOK
  <2>6. token'[w] = ApeToken => carried'[w] \in apeTold'
    <3>1. SUFFICES ASSUME token'[w] = ApeToken PROVE carried'[w] \in apeTold'
      OBVIOUS
    <3>2. pc[w] = "verify" /\ ReplyOf(r).token = ApeToken
      BY <2>1, <2>3, <3>1 DEF TypeOK
    <3>3. carried'[w] = apeToken[r]
      BY <1>0, <2>1, <3>2 DEF LinkTypeOK
    <3> QED
      BY <2>2, <2>4, <3>2, <3>3
  <2> QED
    BY <2>1, <2>2, <2>5, <2>6, ToldStep
<1>4. ASSUME NEW w \in Worker, TimeOut(w) PROVE ShownIsTold'
  <2>1. token' = token
    BY <1>4 DEF TimeOut, Annotate, VerifyFails
  <2>2. apeTold' = apeTold /\ UNCHANGED <<carried, shown>>
    BY <1>4 DEF TimeOut, APE!GiveUp, APE!history, account
  <2> QED
    BY <2>1, <2>2, ToldStep
<1>5. ASSUME NEW w \in Worker, Inside(w) PROVE ShownIsTold'
  <2>1. UNCHANGED <<carried, shown, apeTold>>
    BY <1>5 DEF Inside, link, ape, account
  <2>2. ASSUME NEW v \in Worker, token'[v] = ApeToken PROVE token[v] = ApeToken
    <3> USE NullAssumption DEF TypeOK
    <3>1. CASE ConsumeGrant(w) \/ HardDeny(w) \/ Prompt(w)
      BY <2>2, <3>1 DEF ConsumeGrant, HardDeny, Prompt
    <3>2. CASE MintRefused(w) \/ PromptRefused(w)
      BY <2>2, <3>2 DEF MintRefused, PromptRefused
    <3>3. ASSUME NEW t \in Token, Mint(w, t) PROVE token[v] = ApeToken
      BY <2>2, <3>3 DEF Mint
    <3> QED
      BY <1>5, <3>1, <3>2, <3>3 DEF Inside
  <2> QED
    BY <2>1, <2>2, ToldStep
<1>6. ASSUME NEW w \in Worker, Leave(w) \/ Fail(w) PROVE ShownIsTold'
  <2>1. token' = [token EXCEPT ![w] = NoToken] /\ carried' = [carried EXCEPT ![w] = NoToken]
    BY <1>6 DEF Leave, Fail, Return, Raise, Unwind
  <2>2. apeTold' = apeTold
    BY <1>6 DEF Leave, Fail, ape
  <2>3. shown' = shown \/ (token[w] = ApeToken /\ shown' = shown \cup {carried[w]})
    BY <1>6 DEF Leave, Fail, account
  <2>4. ASSUME NEW v \in Worker, token'[v] = ApeToken
        PROVE  token[v] = ApeToken /\ carried'[v] = carried[v]
    BY <1>0, <2>1, <2>4, NullAssumption DEF TypeOK, LinkTypeOK
  <2> QED
    BY <2>2, <2>3, <2>4 DEF ShownIsTold
<1>7. ASSUME NEW r \in Handler, Serve(r) PROVE ShownIsTold'
  <2>1. UNCHANGED <<token, carried, shown>>
    BY <1>7 DEF Serve, frame, link
  <2>2. apeTold \subseteq apeTold'
    BY <1>7 DEF Serve, APE!Handle, APE!Malformed, APE!Consume, APE!Judge, APE!RefuseMint,
       APE!Mint, APE!RefuseApproval, APE!Approve, APE!Finish, APE!history
  <2> QED
    BY <2>1, <2>2, ToldStep
<1>8. ASSUME NEW t \in Remote, ApproveAtApe(t) PROVE ShownIsTold'
  BY <1>8, ToldStep DEF ApproveAtApe, APE!PostApprove, APE!Send, APE!history, frame, link, account
<1>9. CASE Alone
  BY <1>9, ToldStep DEF Alone, Founder, Approve, ApproveExpired, Tick, frame, link, ape, account
<1>10. CASE GateRestarts
  <2>1. /\ token' = [v \in Worker |-> NoToken]
        /\ UNCHANGED <<apeTold, shown>>
    BY <1>10 DEF GateRestarts, Restart, APE!ClientsDie, APE!history, account
  <2> QED
    BY <2>1, NullAssumption DEF ShownIsTold
<1>11. CASE UNCHANGED cvars
  BY <1>11, ToldStep DEF cvars, vars, frame, link, ape, account
<1> QED
  BY <1>1, <1>2, <1>3, <1>4, <1>5, <1>6, <1>7, <1>8, <1>9, <1>10, <1>11 DEF CNext

\* Each step of the gate over APE is one of APE, or none: a request, a timeout, a
\* handler's step, the clock, or the death of all clients.
LEMMA CNextIsApe == TypeOK /\ LinkInv /\ ShownIsTold /\ [CNext]_cvars => [APE!Next]_(APE!vars)
<1> SUFFICES ASSUME TypeOK, LinkInv, ShownIsTold, [CNext]_cvars PROVE [APE!Next]_(APE!vars)
  OBVIOUS
<1> DEFINE Rests == UNCHANGED <<now, ape>>
<1>0. Rests => UNCHANGED APE!vars
  BY DEF ape, APE!vars, APE!store, APE!request, APE!history
<1> HIDE DEF Rests
<1>1. ASSUME NEW w \in Worker, NEW c \in Call, NEW h \in Hint, Enter(w, c, h) PROVE Rests
  BY <1>1 DEF Enter, Begin, Rests
<1>2. ASSUME NEW w \in Worker, Ask(w) PROVE APE!Next
  <2>1. call[w] \in Call
    BY DEF TypeOK
  <2> QED
    BY <1>2, <2>1 DEF Ask, Post, APE!Next
<1>3. ASSUME NEW w \in Worker, Deliver(w) \/ TimeOut(w) PROVE APE!Next
  <2>1. asked[w] \in Handler /\ (APE!Finish(asked[w]) \/ APE!GiveUp(asked[w]))
    BY <1>3 DEF Deliver, TimeOut, LinkInv, LinkTypeOK
  <2> QED
    BY <2>1 DEF APE!Handle, APE!Next
<1>4. ASSUME NEW w \in Worker, Inside(w) \/ Leave(w) \/ Fail(w) PROVE Rests
  <2>1. UNCHANGED ape
    BY <1>4 DEF Inside, Leave, Fail
  <2>2. now' = now
    BY <1>4 DEF Inside, Leave, Fail, ConsumeGrant, HardDeny, MintRefused, Mint, Prompt,
       PromptRefused, Return, Raise
  <2> QED
    BY <2>1, <2>2 DEF Rests
<1>5. ASSUME NEW r \in Handler, Serve(r) PROVE APE!Next
  BY <1>5 DEF Serve, APE!Next
<1>6. ASSUME NEW t \in Remote, ApproveAtApe(t) PROVE APE!Next
  <2>1. PICK r \in Handler : APE!PostApprove(r, t)
    BY <1>6 DEF ApproveAtApe
  <2> QED
    BY <2>1 DEF APE!Next
<1>7. CASE Alone
  <2>1. CASE Founder
    BY <1>0, <1>7, <2>1 DEF Alone, Founder, Approve, ApproveExpired, Rests
  <2>2. CASE Tick
    <3>1. APE!Tick
      BY <1>7, <2>2 DEF Alone, Tick, ape, APE!Tick, APE!store, APE!request, APE!history
    <3> QED
      BY <3>1 DEF APE!Next
  <2> QED
    BY <1>0, <1>7, <2>1, <2>2 DEF Alone
<1>8. CASE GateRestarts
  BY <1>8 DEF GateRestarts, APE!Next
<1>9. CASE UNCHANGED cvars
  BY <1>0, <1>9 DEF cvars, vars, Rests
<1> QED
  BY <1>0, <1>1, <1>2, <1>3, <1>4, <1>5, <1>6, <1>7, <1>8, <1>9 DEF CNext

\* Under the gate, its timeouts, its restarts and the Founder behind it, APE behaves
\* like an APE whose clients do as they please.
THEOREM ApeUnderGateIsApe == CSpec => APE!Spec
<1>1. CInit => APE!Init
  BY DEF CInit
<1>2. CInit => ShownIsTold
  BY NullAssumption DEF CInit, Init, IdleFrame, ShownIsTold
<1>3. CInit => Init
  BY DEF CInit
<1>4. TypeOK /\ LinkInv /\ [CNext]_cvars => TypeOK'
  BY CNextIsNext, NextType
<1> QED
  BY <1>1, <1>2, <1>3, <1>4, InitType, InitLink, NextLink, NextTold, CNextIsApe, PTL
  DEF CSpec, APE!Spec

\* So the store keeps its word under the gate: a yes to a token of APE lets one call
\* pass, what needs a human is allowed only on a yes to that very call that was told and
\* given in time, a question it holds can be answered, and the cap holds.
THEOREM ApeUnderGateCorrect ==
  CSpec => [](/\ APE!OneShot /\ APE!AllowIsApproved
              /\ APE!PendingIsAnswerable /\ APE!PendingCapped)
<1>1. Store!ApeAssumption /\ Store!ApeNullAssumption
  <2>1. Store!ApeAssumption
    BY SessionAssumption, BoundAssumption, StoreAssumption
    DEF APE!Trait, Store!Trait, IsFiniteSet, Store!IsFiniteSet
  <2>2. Store!ApeNullAssumption
    BY LinkAssumption, StoreAssumption
    DEF APE!PendingRec, APE!GrantRec, Store!PendingRec, Store!GrantRec
  <2> QED
    BY <2>1, <2>2
<1>2. APE!Init => Store!Init
  BY DEF APE!Init, Store!Init, APE!NoCall, Store!NoCall
\* The two instances are one module; each has a Cardinality and an IsFiniteSet of its own.
<1>3. [APE!Next]_(APE!vars) => [Store!Next]_(Store!vars)
  <2> USE DEF APE!store, APE!request, APE!history, Store!store, Store!request, Store!history
  <2>1. ASSUME NEW r \in Handler, APE!Handle(r) PROVE Store!Handle(r)
    <3> USE DEF APE!Reply, Store!Reply, APE!Expired, Store!Expired, APE!Kept, Store!Kept,
            APE!Pruned, Store!Pruned, APE!Held, Store!Held, APE!Full, Store!Full
    <3>1. APE!Malformed(r) => Store!Malformed(r)
      BY DEF APE!Malformed, Store!Malformed
    <3>2. APE!Consume(r) => Store!Consume(r)
      BY DEF APE!Consume, Store!Consume
    <3>3. APE!Judge(r) => Store!Judge(r)
      BY DEF APE!Judge, Store!Judge, APE!EvaluatePolicy, Store!EvaluatePolicy
    <3>4. APE!RefuseMint(r) => Store!RefuseMint(r)
      BY DEF APE!RefuseMint, Store!RefuseMint, APE!Cardinality, Store!Cardinality
    <3>5. APE!Mint(r) => Store!Mint(r)
      BY DEF APE!Mint, Store!Mint, APE!Cardinality, Store!Cardinality
    <3>6. APE!RefuseApproval(r) => Store!RefuseApproval(r)
      BY DEF APE!RefuseApproval, Store!RefuseApproval, APE!Answerable, Store!Answerable
    <3>7. APE!Approve(r) => Store!Approve(r)
      BY DEF APE!Approve, Store!Approve, APE!Answerable, Store!Answerable
    <3>8. APE!Finish(r) => Store!Finish(r)
      BY DEF APE!Finish, Store!Finish, APE!NoCall, Store!NoCall
    <3> QED
      BY <2>1, <3>1, <3>2, <3>3, <3>4, <3>5, <3>6, <3>7, <3>8 DEF APE!Handle, Store!Handle
  <2>2. ASSUME NEW r \in Handler, NEW c \in Call, APE!PostVerify(r, c) PROVE Store!PostVerify(r, c)
    BY <2>2 DEF APE!PostVerify, Store!PostVerify, APE!Send, Store!Send
  <2>3. ASSUME NEW r \in Handler, NEW t \in Remote \cup {NoToken}, APE!PostApprove(r, t)
        PROVE  Store!PostApprove(r, t)
    BY <2>3 DEF APE!PostApprove, Store!PostApprove, APE!Send, Store!Send, APE!NoCall, Store!NoCall
  <2>4. ASSUME NEW r \in Handler, APE!GiveUp(r) PROVE Store!GiveUp(r)
    BY <2>4 DEF APE!GiveUp, Store!GiveUp
  <2>5. /\ APE!ClientsDie => Store!ClientsDie
        /\ APE!Tick => Store!Tick
        /\ UNCHANGED APE!vars => UNCHANGED Store!vars
    BY DEF APE!ClientsDie, Store!ClientsDie, APE!Tick, Store!Tick, APE!vars, Store!vars
  <2> QED
    BY <2>1, <2>2, <2>3, <2>4, <2>5 DEF APE!Next, Store!Next
<1>4. APE!Spec => Store!Spec
  BY <1>2, <1>3, PTL DEF APE!Spec, Store!Spec
<1>5. Store!Spec => [](Store!OneShot /\ Store!AllowIsApproved
                        /\ Store!PendingIsAnswerable /\ Store!PendingCapped)
  BY <1>1, Store!ApeOneShotCorrect, Store!AllowIsApprovedCorrect, Store!AnswerableCorrect,
     Store!ApeCapCorrect, PTL
<1>6. /\ Store!OneShot => APE!OneShot
      /\ Store!PendingIsAnswerable => APE!PendingIsAnswerable
      /\ Store!PendingCapped => APE!PendingCapped
  BY DEF Store!OneShot, APE!OneShot, Store!PendingIsAnswerable, APE!PendingIsAnswerable,
     Store!PendingCapped, APE!PendingCapped, Store!Held, APE!Held,
     Store!Cardinality, APE!Cardinality
<1>7. Store!AllowIsApproved => APE!AllowIsApproved
  BY DEF Store!AllowIsApproved, APE!AllowIsApproved, Store!EvaluatePolicy, APE!EvaluatePolicy
<1> QED
  BY <1>4, <1>5, <1>6, <1>7, ApeUnderGateIsApe, PTL

-----------------------------------------------------------------------------
(* Every allow has its yes.  A yes is, one after the other, a grant in one of  *)
(* the two stores, in the hands of a thread, and an answer that was given; the  *)
(* invariant counts what it can be against the yeses there were.              *)

\* The life of a local token, as the counting needs it.
LocalLife ==
  \A t \in Token :
    /\ pending[t] # NoPending => pending[t] = minted[t] /\ agreed[t] = {}
    /\ minted[t] = NoPending => agreed[t] = {}

\* The life of a token of APE: a yes uses it up, and a grant that was popped is in the
\* hands of a handler that replies.
RemoteLife ==
  /\ approvals \in [Remote -> APE!PendingRec \cup {NoRemotePending}]
  /\ apeMinted \in [Remote -> APE!PendingRec \cup {NoRemotePending}]
  /\ apeGrants \in [Call -> APE!GrantRec \cup {NoRemoteGrant}]
  /\ apeGrant \in [Handler -> APE!GrantRec \cup {NoRemoteGrant}]
  /\ IsFiniteSet(yes)
  /\ \A t \in Remote : approvals[t] # NoRemotePending => approvals[t] = apeMinted[t]
  /\ \A t \in yes : t \in apeUsed /\ apeMinted[t] # NoRemotePending
  /\ \A r \in Handler : apePc[r] # "reply" => apeGrant[r] = NoRemoteGrant

\* A thread whose call is about to pass, or will when its handler's reply arrives.
Carries(w) ==
  \/ pc[w] = "receipt" /\ decision[w] = "allow" /\ hint[w] # "none"
  \/ pc[w] = "verify" /\ asked[w] # NoHandler /\ apeGrant[asked[w]] # NoRemoteGrant

Carriers(c) == {w \in Worker : call[w] = c /\ Carries(w)}

LocalYes(c) == {t \in Token : agreed[t] # {} /\ minted[t].call = c}
RemoteYes(c) == {t \in yes : apeMinted[t].call = c}

One(b) == IF b THEN 1 ELSE 0

\* What the yeses to a call have become is no more than the yeses.
Counted(c) ==
  passed[c] + Cardinality(Carriers(c)) + One(grants[c] # NoGrant) + One(apeGrants[c] # NoRemoteGrant)
    <= Cardinality(LocalYes(c)) + Cardinality(RemoteYes(c))

YesInv == LocalLife /\ RemoteLife /\ \A c \in Call : Counted(c)

\* A question that is pending has no yes yet, and a mint takes a token that never was.
LEMMA NextLocalLife == TypeOK /\ LocalLife /\ [Next]_vars => LocalLife'
<1> SUFFICES ASSUME TypeOK, LocalLife, [Next]_vars PROVE LocalLife'
  OBVIOUS
<1> USE DEF TypeOK, LocalLife
<1>1. CASE UNCHANGED <<pending, minted, agreed>>
  BY <1>1
<1>2. ASSUME NEW w \in Worker, NEW t \in Token, Mint(w, t) PROVE LocalLife'
  <2>1. /\ minted[t] = NoPending /\ agreed' = agreed
        /\ pending' = [pending EXCEPT ![t] = [call |-> call[w], issued |-> now]]
        /\ minted' = [minted EXCEPT ![t] = [call |-> call[w], issued |-> now]]
    BY <1>2 DEF Mint, Fresh
  <2> QED
    BY <2>1
<1>3. ASSUME NEW t \in Token, NEW scope \in SUBSET Call, Approve(t, scope) PROVE LocalLife'
  <2>1. /\ pending[t] # NoPending /\ minted' = minted
        /\ pending' = [pending EXCEPT ![t] = NoPending]
        /\ agreed' = [agreed EXCEPT ![t] = scope]
    BY <1>3 DEF Approve, Approvable
  <2> QED
    BY <2>1
<1>4. ASSUME NEW t \in Token, ApproveExpired(t) PROVE LocalLife'
  BY <1>4 DEF ApproveExpired, history
<1>5. CASE Restart
  BY <1>5 DEF Restart
<1>6. ASSUME NEW w \in Worker, Step(w) PROVE LocalLife'
  <2>1. CASE \E t \in Token : Mint(w, t)
    BY <1>2, <2>1
  <2>2. CASE ~\E t \in Token : Mint(w, t)
    <3>1. UNCHANGED <<pending, minted, agreed>>
      BY <1>6, <2>2 DEF Step, ConsumeGrant, HardDeny, Annotate, AskApe, VerifyReply, VerifyFails,
         MintRefused, Prompt, PromptRefused, Return, Raise, store, history
    <3> QED
      BY <1>1, <3>1
  <2> QED
    BY <2>1, <2>2
<1>7. ASSUME NEW w \in Worker, NEW c \in Call, NEW h \in Hint, Begin(w, c, h) PROVE LocalLife'
  BY <1>7 DEF Begin, store, history
<1>8. CASE Founder
  BY <1>3, <1>4, <1>8 DEF Founder
<1>9. CASE Tick \/ UNCHANGED vars
  BY <1>9 DEF Tick, vars, store, history
<1> QED
  BY <1>5, <1>6, <1>7, <1>8, <1>9 DEF Next

\* A yes to a local token stays one, for the call it was minted for.
LEMMA LocalYesStays ==
  ASSUME TypeOK, LocalLife, [Next]_vars, NEW c \in Call
  PROVE  LocalYes(c) \subseteq LocalYes(c)'
<1>0. SUFFICES ASSUME NEW t \in Token, agreed[t] # {} PROVE agreed'[t] # {} /\ minted'[t] = minted[t]
  BY DEF LocalYes
<1>1. minted[t] # NoPending /\ pending[t] = NoPending
  BY <1>0 DEF LocalLife
<1>2. ASSUME NEW w \in Worker, Step(w) PROVE agreed' = agreed /\ minted'[t] = minted[t]
  <2>1. ASSUME NEW u \in Token, Mint(w, u) PROVE agreed' = agreed /\ minted'[t] = minted[t]
    BY <1>1, <2>1 DEF Mint, Fresh, TypeOK
  <2> QED
    BY <1>2, <2>1 DEF Step, ConsumeGrant, HardDeny, Annotate, AskApe, VerifyReply, VerifyFails,
       MintRefused, Prompt, PromptRefused, Return, Raise, history
<1>3. CASE Founder
  <2>1. ASSUME NEW u \in Token, NEW scope \in SUBSET Call, Approve(u, scope)
        PROVE  agreed'[t] = agreed[t] /\ minted' = minted
    BY <1>1, <2>1 DEF Approve, Approvable, TypeOK
  <2>2. ASSUME NEW u \in Token, ApproveExpired(u) PROVE agreed' = agreed /\ minted' = minted
    BY <2>2 DEF ApproveExpired, history
  <2> QED
    BY <1>0, <1>3, <2>1, <2>2 DEF Founder
<1>4. ASSUME NEW w \in Worker, NEW d \in Call, NEW h \in Hint, Begin(w, d, h)
      PROVE  agreed' = agreed /\ minted' = minted
  BY <1>4 DEF Begin, history
<1>5. CASE Tick \/ Restart \/ UNCHANGED vars
  BY <1>0, <1>5 DEF Tick, Restart, vars, history
<1> QED
  BY <1>0, <1>2, <1>3, <1>4, <1>5 DEF Next

\* The clean-up before a request drops questions and marks their tokens used.
LEMMA KeptRemote ==
  ASSUME RemoteLife
  PROVE  /\ APE!Kept \in [Remote -> APE!PendingRec \cup {NoRemotePending}]
         /\ \A t \in Remote : APE!Kept[t] # NoRemotePending => APE!Kept[t] = apeMinted[t]
<1> QED
  BY DEF APE!Kept, RemoteLife

\* A step that grants no token a yes keeps the life of the tokens, if it changes the
\* store like this.
LEMMA RemoteFrame ==
  ASSUME RemoteLife, UNCHANGED <<yes, apeMinted>>, apeUsed \subseteq apeUsed',
         approvals' \in {approvals, APE!Kept},
         apeGrants' \in [Call -> APE!GrantRec \cup {NoRemoteGrant}],
         apeGrant' \in [Handler -> APE!GrantRec \cup {NoRemoteGrant}],
         \A r \in Handler : apePc'[r] # "reply" => apeGrant'[r] = NoRemoteGrant
  PROVE  RemoteLife'
<1> QED
  BY KeptRemote DEF RemoteLife

\* What a handler does to the store keeps the life of its tokens, and makes no token
\* of an earlier yes stand for another call.
LEMMA HandleRemote ==
  ASSUME TypeOK, ApeShape, RemoteLife, NEW r \in Handler, APE!Handle(r),
         yes' = IF apePc[r] = "approve" /\ apeAnswer'[r] = "granted" THEN yes \cup {apeToken[r]} ELSE yes
  PROVE  /\ RemoteLife'
         /\ \A t \in yes : t \in yes' /\ apeMinted'[t] = apeMinted[t]
<1> USE DEF ApeShape, APE!Reply
<1>1. \A t \in yes : t \in yes'
  OBVIOUS
<1>2. CASE APE!Malformed(r) \/ APE!Judge(r) \/ APE!RefuseMint(r) \/ APE!RefuseApproval(r)
  <2>1. /\ UNCHANGED <<yes, apeMinted, apeGrants, apeGrant>> /\ apeUsed \subseteq apeUsed'
        /\ approvals' \in {approvals, APE!Kept}
    BY <1>2 DEF APE!Malformed, APE!Judge, APE!RefuseMint, APE!RefuseApproval, APE!store, APE!history
  <2>2. \A h \in Handler : apePc'[h] # "reply" => apePc[h] # "reply"
    BY <1>2 DEF APE!Malformed, APE!Judge, APE!RefuseMint, APE!RefuseApproval
  <2> QED
    BY <1>1, <2>1, <2>2, RemoteFrame DEF RemoteLife
<1>3. CASE APE!Consume(r)
  <2>1. /\ UNCHANGED <<yes, apeMinted>> /\ apeUsed \subseteq apeUsed' /\ approvals' = APE!Kept
        /\ apeGrants' = [apeGrants EXCEPT ![apeCall[r]] = NoRemoteGrant]
        /\ apeGrant' = [apeGrant EXCEPT ![r] = apeGrants[apeCall[r]]]
        /\ apePc' = [apePc EXCEPT ![r] = "reply"]
    BY <1>3 DEF APE!Consume
  <2> QED
    BY <1>1, <2>1, RemoteFrame DEF RemoteLife
<1>4. CASE APE!Mint(r)
  <2>1. PICK t \in Remote :
          /\ apeMinted[t] = NoRemotePending
          /\ approvals' = [APE!Kept EXCEPT ![t] = [call |-> apeCall[r], issued |-> now]]
          /\ apeMinted' = [apeMinted EXCEPT ![t] = [call |-> apeCall[r], issued |-> now]]
    BY <1>4 DEF APE!Mint
  <2>2. [call |-> apeCall[r], issued |-> now] \in APE!PendingRec
    BY DEF TypeOK, APE!PendingRec
  <2>3. /\ UNCHANGED <<apeGrants, apeGrant>> /\ apeUsed \subseteq apeUsed' /\ yes' = yes
        /\ apePc' = [apePc EXCEPT ![r] = "reply"]
    BY <1>4 DEF APE!Mint
  <2>4. t \notin yes
    BY <2>1 DEF RemoteLife
  <2>5. /\ approvals' \in [Remote -> APE!PendingRec \cup {NoRemotePending}]
        /\ apeMinted' \in [Remote -> APE!PendingRec \cup {NoRemotePending}]
        /\ \A u \in Remote : approvals'[u] # NoRemotePending => approvals'[u] = apeMinted'[u]
    BY <2>1, <2>2, KeptRemote DEF RemoteLife
  <2>6. \A u \in yes : u \in apeUsed /\ apeMinted'[u] = apeMinted[u] /\ apeMinted[u] # NoRemotePending
    BY <2>1, <2>4 DEF RemoteLife
  <2>7. \A h \in Handler : apePc'[h] # "reply" => apeGrant'[h] = NoRemoteGrant
    BY <2>3 DEF RemoteLife
  <2> QED
    BY <2>3, <2>5, <2>6, <2>7 DEF RemoteLife
<1>5. CASE APE!Approve(r)
  <2> DEFINE t == apeToken[r]
  <2>1. /\ t \in Remote /\ APE!Kept[t] # NoRemotePending
        /\ now' \in {now, now + 1}
        /\ approvals' = [APE!Kept EXCEPT ![t] = NoRemotePending]
        /\ apeUsed \subseteq apeUsed' /\ t \in apeUsed'
        /\ yes' \subseteq yes \cup {t}
        /\ UNCHANGED <<apeMinted, apeGrant>>
        /\ apePc' = [apePc EXCEPT ![r] = "reply"]
    BY <1>5 DEF APE!Approve, APE!Answerable, APE!history
  <2>2. apeMinted[t] # NoRemotePending /\ approvals[t] \in APE!PendingRec
    BY <2>1, KeptRemote DEF RemoteLife, APE!Kept
  <2>3. /\ approvals' \in [Remote -> APE!PendingRec \cup {NoRemotePending}]
        /\ \A u \in Remote : approvals'[u] # NoRemotePending => approvals'[u] = apeMinted[u]
    BY <2>1, KeptRemote
  <2>4. apeGrants' \in [Call -> APE!GrantRec \cup {NoRemoteGrant}]
    <3>1. approvals[t].call \in Call /\ [token |-> t, granted |-> now'] \in APE!GrantRec
      BY <2>1, <2>2 DEF APE!PendingRec, APE!GrantRec, TypeOK
    <3>2. apeGrants' \in {apeGrants, [apeGrants EXCEPT ![approvals[t].call] = [token |-> t, granted |-> now']]}
      BY <1>5 DEF APE!Approve
    <3> QED
      BY <3>1, <3>2 DEF RemoteLife
  <2>5. IsFiniteSet(yes')
    <3>1. IsFiniteSet(yes \cup {t})
      BY FS_AddElement DEF RemoteLife
    <3> QED
      BY <2>1, <3>1, FS_Subset
  <2>6. \A h \in Handler : apePc'[h] # "reply" => apeGrant'[h] = NoRemoteGrant
    BY <2>1 DEF RemoteLife
  <2>7. \A u \in yes' : u \in apeUsed' /\ apeMinted'[u] # NoRemotePending
    BY <2>1, <2>2 DEF RemoteLife
  <2> HIDE DEF t
  <2> QED
    BY <1>1, <2>1, <2>3, <2>4, <2>5, <2>6, <2>7 DEF RemoteLife
<1>6. CASE APE!Finish(r)
  <2>1. /\ UNCHANGED <<apeMinted, apeGrants, approvals, apeUsed, yes>>
        /\ apeGrant' = [apeGrant EXCEPT ![r] = NoRemoteGrant]
        /\ apePc' = [apePc EXCEPT ![r] = "idle"]
    BY <1>6 DEF APE!Finish, APE!store
  <2> QED
    BY <1>1, <2>1, RemoteFrame DEF RemoteLife
<1> QED
  BY <1>2, <1>3, <1>4, <1>5, <1>6 DEF APE!Handle

\* The life of the tokens of APE is kept by every step, and so is what a yes was for.
LEMMA NextRemoteLife ==
  ASSUME TypeOK, LinkInv, RemoteLife, [CNext]_cvars
  PROVE  /\ RemoteLife'
         /\ \A c \in Call : RemoteYes(c) \subseteq RemoteYes(c)'
<1> DEFINE Kept == RemoteLife' /\ \A t \in yes : t \in yes' /\ apeMinted'[t] = apeMinted[t]
<1>0. ApeShape
  BY DEF LinkInv
<1>1. ASSUME UNCHANGED <<approvals, apeUsed, apeMinted, apeGrants, apeGrant, apePc, yes>> PROVE Kept
  BY <1>1 DEF RemoteLife
<1>2. ASSUME NEW r \in Handler, NEW at \in {"verify", "approve"}, NEW c, NEW t,
             APE!Send(r, at, c, t), yes' = yes
      PROVE  Kept
  <2>1. /\ UNCHANGED <<approvals, apeUsed, apeMinted, apeGrants, apeGrant>>
        /\ apePc[r] = "idle" /\ apePc' = [apePc EXCEPT ![r] = at]
    BY <1>2 DEF APE!Send, APE!store, APE!history
  <2>2. \A h \in Handler : apePc'[h] # "reply" => apePc[h] # "reply"
    BY <1>0, <2>1 DEF ApeShape
  <2> QED
    BY <1>2, <2>1, <2>2 DEF RemoteLife
<1> HIDE DEF Kept
<1>3. ASSUME NEW w \in Worker, NEW c \in Call, NEW h \in Hint, Enter(w, c, h) PROVE Kept
  BY <1>1, <1>3 DEF Enter, ape, account
<1>4. ASSUME NEW w \in Worker, Ask(w) PROVE Kept
  BY <1>2, <1>4 DEF Ask, Post, APE!PostVerify, account
<1>5. ASSUME NEW w \in Worker, Deliver(w) PROVE Kept
  <2>1. asked[w] \in Handler /\ APE!Finish(asked[w]) /\ yes' = yes
    BY <1>5 DEF Deliver, account, LinkInv, LinkTypeOK
  <2>2. APE!Handle(asked[w]) /\ apePc[asked[w]] = "reply"
    BY <2>1 DEF APE!Handle, APE!Finish
  <2> QED
    BY <1>0, <2>1, <2>2, HandleRemote DEF Kept
<1>6. ASSUME NEW w \in Worker, TimeOut(w) PROVE Kept
  BY <1>1, <1>6 DEF TimeOut, APE!GiveUp, APE!store, APE!history, account
<1>7. ASSUME NEW w \in Worker, Inside(w) \/ Leave(w) \/ Fail(w) PROVE Kept
  BY <1>1, <1>7 DEF Inside, Leave, Fail, ape, account
<1>8. ASSUME NEW r \in Handler, Serve(r) PROVE Kept
  BY <1>0, <1>8, HandleRemote DEF Serve, Kept
<1>9. ASSUME NEW t \in Remote, ApproveAtApe(t) PROVE Kept
  BY <1>2, <1>9 DEF ApproveAtApe, APE!PostApprove, account
<1>10. ASSUME Alone \/ UNCHANGED cvars PROVE Kept
  BY <1>1, <1>10 DEF Alone, cvars, ape, account
<1>11. ASSUME GateRestarts PROVE Kept
  BY <1>1, <1>11 DEF GateRestarts, APE!ClientsDie, APE!store, APE!history, account
<1>12. Kept
  BY <1>3, <1>4, <1>5, <1>6, <1>7, <1>8, <1>9, <1>10, <1>11 DEF CNext
<1> QED
  BY <1>12 DEF RemoteYes, Kept

\* Counting facts: what is part of a finite set is no larger, and an element more or
\* less is one.
LEMMA Smaller ==
  ASSUME NEW S, NEW T, IsFiniteSet(T), S \subseteq T
  PROVE  /\ IsFiniteSet(S)
         /\ Cardinality(S) \in Nat /\ Cardinality(T) \in Nat /\ Cardinality(S) <= Cardinality(T)
<1> QED
  BY FS_Subset, FS_CardinalityType

LEMMA OneMore ==
  ASSUME NEW S, NEW T, NEW x, IsFiniteSet(T), S \subseteq T \cup {x}
  PROVE  Cardinality(S) <= Cardinality(T) + 1
<1>1. /\ IsFiniteSet(T \cup {x})
      /\ Cardinality(T \cup {x}) = IF x \in T THEN Cardinality(T) ELSE Cardinality(T) + 1
  BY FS_AddElement
<1>2. Cardinality(T) \in Nat
  BY FS_CardinalityType
<1>3. Cardinality(S) \in Nat /\ Cardinality(S) <= Cardinality(T \cup {x})
  BY <1>1, Smaller
<1> QED
  BY <1>1, <1>2, <1>3

LEMMA OneLess ==
  ASSUME NEW T, NEW S, NEW x \in T, IsFiniteSet(T), S \subseteq T \ {x}
  PROVE  Cardinality(S) + 1 <= Cardinality(T)
<1>1. IsFiniteSet(T \ {x}) /\ Cardinality(T \ {x}) = Cardinality(T) - 1
  BY FS_RemoveElement
<1>2. Cardinality(T) \in Nat
  BY FS_CardinalityType
<1>3. Cardinality(S) \in Nat /\ Cardinality(S) <= Cardinality(T \ {x})
  BY <1>1, Smaller
<1> QED
  BY <1>1, <1>2, <1>3

\* What is counted is finite, before and after a step.
LEMMA CountedSizes ==
  ASSUME IsFiniteSet(yes), IsFiniteSet(yes'), NEW c \in Call
  PROVE  /\ IsFiniteSet(Carriers(c)) /\ IsFiniteSet(Carriers(c)')
         /\ IsFiniteSet(LocalYes(c)) /\ IsFiniteSet(LocalYes(c)')
         /\ IsFiniteSet(RemoteYes(c)) /\ IsFiniteSet(RemoteYes(c)')
         /\ Cardinality(Carriers(c)) \in Nat /\ Cardinality(Carriers(c)') \in Nat
         /\ Cardinality(LocalYes(c)) \in Nat /\ Cardinality(LocalYes(c)') \in Nat
         /\ Cardinality(RemoteYes(c)) \in Nat /\ Cardinality(RemoteYes(c)') \in Nat
<1>1. /\ Carriers(c) \subseteq Worker /\ Carriers(c)' \subseteq Worker
      /\ LocalYes(c) \subseteq Token /\ LocalYes(c)' \subseteq Token
      /\ RemoteYes(c) \subseteq yes /\ RemoteYes(c)' \subseteq yes'
  BY DEF Carriers, LocalYes, RemoteYes
<1> QED
  BY <1>1, Smaller, BoundAssumption

\* What may happen to a call in one step: the yeses to it never become fewer, and
\* nothing else moves (Still), or a grant is popped for a thread, an answer is given, or
\* a yes becomes a grant.
Grows(c) == LocalYes(c) \subseteq LocalYes(c)' /\ RemoteYes(c) \subseteq RemoteYes(c)'
Still(c) ==
  /\ Carriers(c)' \subseteq Carriers(c) /\ passed'[c] = passed[c]
  /\ grants'[c] # NoGrant => grants[c] # NoGrant
  /\ apeGrants'[c] # NoRemoteGrant => apeGrants[c] # NoRemoteGrant
Popped(c) ==
  /\ \E w : Carriers(c)' \subseteq Carriers(c) \cup {w}
  /\ passed'[c] = passed[c]
  /\ \/ grants[c] # NoGrant /\ grants'[c] = NoGrant /\ apeGrants'[c] = apeGrants[c]
     \/ apeGrants[c] # NoRemoteGrant /\ apeGrants'[c] = NoRemoteGrant /\ grants'[c] = grants[c]
Given(c) ==
  /\ \E w \in Carriers(c) : Carriers(c)' \subseteq Carriers(c) \ {w}
  /\ passed'[c] = passed[c] + 1
  /\ grants'[c] = grants[c] /\ apeGrants'[c] = apeGrants[c]
Agreed(c) ==
  /\ Carriers(c)' \subseteq Carriers(c) /\ passed'[c] = passed[c]
  /\ \/ /\ \E t \in LocalYes(c)' : LocalYes(c) \subseteq LocalYes(c)' \ {t}
        /\ apeGrants'[c] = apeGrants[c]
     \/ /\ \E t \in RemoteYes(c)' : RemoteYes(c) \subseteq RemoteYes(c)' \ {t}
        /\ grants'[c] = grants[c]

\* In each of them the count holds.
LEMMA CountStep ==
  ASSUME IsFiniteSet(yes), IsFiniteSet(yes'), NEW c \in Call, passed[c] \in Nat,
         Counted(c), Grows(c), Still(c) \/ Popped(c) \/ Given(c) \/ Agreed(c)
  PROVE  Counted(c)'
<1> USE CountedSizes
<1>1. /\ Cardinality(LocalYes(c)) <= Cardinality(LocalYes(c)')
      /\ Cardinality(RemoteYes(c)) <= Cardinality(RemoteYes(c)')
  BY Smaller DEF Grows
<1>2. Carriers(c)' \subseteq Carriers(c) => Cardinality(Carriers(c)') <= Cardinality(Carriers(c))
  BY Smaller
<1>3. CASE Still(c)
  BY <1>1, <1>2, <1>3 DEF Still, Counted, One
<1>4. CASE Popped(c)
  <2>1. Cardinality(Carriers(c)') <= Cardinality(Carriers(c)) + 1
    BY <1>4, OneMore DEF Popped
  <2> QED
    BY <1>1, <1>4, <2>1 DEF Popped, Counted, One
<1>5. CASE Given(c)
  <2>1. Cardinality(Carriers(c)') + 1 <= Cardinality(Carriers(c))
    BY <1>5, OneLess DEF Given
  <2> QED
    BY <1>1, <1>5, <2>1 DEF Given, Counted, One
<1>6. CASE Agreed(c)
  <2>1. Cardinality(LocalYes(c)) + Cardinality(RemoteYes(c)) + 1 <=
        Cardinality(LocalYes(c)') + Cardinality(RemoteYes(c)')
    <3>1. CASE \E t \in LocalYes(c)' : LocalYes(c) \subseteq LocalYes(c)' \ {t}
      <4>1. Cardinality(LocalYes(c)) + 1 <= Cardinality(LocalYes(c)')
        BY <3>1, OneLess
      <4> QED
        BY <1>1, <4>1
    <3>2. CASE \E t \in RemoteYes(c)' : RemoteYes(c) \subseteq RemoteYes(c)' \ {t}
      <4>1. Cardinality(RemoteYes(c)) + 1 <= Cardinality(RemoteYes(c)')
        BY <3>2, OneLess
      <4> QED
        BY <1>1, <4>1
    <3> QED
      BY <1>6, <3>1, <3>2 DEF Agreed
  <2> QED
    BY <1>2, <1>6, <2>1 DEF Agreed, Counted, One
<1> QED
  BY <1>3, <1>4, <1>5, <1>6

\* When one thread moves and no handler takes a grant, the others carry what they did.
LEMMA OthersCarry ==
  ASSUME TypeOK, LinkInv, NEW w \in Worker,
         \A v \in Worker \ {w} :
           /\ pc'[v] = pc[v] /\ call'[v] = call[v] /\ hint'[v] = hint[v]
           /\ decision'[v] = decision[v] /\ asked'[v] = asked[v],
         \A h \in Handler : apeGrant'[h] # NoRemoteGrant => apeGrant[h] # NoRemoteGrant
  PROVE  \A c \in Call :
           /\ Carriers(c)' \subseteq Carriers(c) \cup {w}
           /\ ~Carries(w)' => Carriers(c)' \subseteq Carriers(c) \ {w}
           /\ call'[w] = call[w] /\ (Carries(w)' => Carries(w)) => Carriers(c)' \subseteq Carriers(c)
<1>1. ASSUME NEW v \in Worker, v # w, Carries(v)' PROVE Carries(v) /\ call'[v] = call[v]
  BY <1>1 DEF Carries, LinkInv, LinkTypeOK
<1> QED
  BY <1>1 DEF Carriers

\* A call enters, or leaves without an answer: its thread carries nothing any more.
LEMMA DropStep ==
  ASSUME TypeOK, LinkInv, NEW w \in Worker,
         Fail(w) \/ \E c \in Call, h \in Hint : Enter(w, c, h)
  PROVE  \A c \in Call : Still(c)
<1> DEFINE Dropped ==
      /\ UNCHANGED <<grants, apeGrants, passed, asked, apeGrant>>
      /\ \A v \in Worker \ {w} : /\ pc'[v] = pc[v] /\ call'[v] = call[v] /\ hint'[v] = hint[v]
                                 /\ decision'[v] = decision[v]
      /\ ~Carries(w)'
<1>1. Dropped
  <2>1. CASE Fail(w)
    BY <2>1 DEF Fail, Raise, Unwind, store, ape, account, Carries, TypeOK
  <2>2. ASSUME NEW c \in Call, NEW h \in Hint, Enter(w, c, h) PROVE Dropped
    BY <2>2 DEF Enter, Begin, Decide, store, ape, link, account, Carries, TypeOK
  <2> QED
    BY <2>1, <2>2
<1>2. \A c \in Call : Carriers(c)' \subseteq Carriers(c) \ {w}
  BY <1>1, OthersCarry
<1> QED
  BY <1>1, <1>2 DEF Still

\* A request begins at a handler that holds no grant.
LEMMA AskStep ==
  ASSUME TypeOK, LinkInv, RemoteLife, NEW w \in Worker, Ask(w)
  PROVE  \A c \in Call : Still(c)
<1>1. PICK r \in Handler : APE!PostVerify(r, call[w]) /\ asked' = [asked EXCEPT ![w] = r]
  BY DEF Ask, Post
<1>2. /\ UNCHANGED <<grants, passed, call, hint>> /\ pc'[w] \in {"verify", "annotate"}
      /\ \A v \in Worker \ {w} : pc'[v] = pc[v] /\ decision'[v] = decision[v]
  <2>1. CASE AskApe(w)
    BY <2>1 DEF Ask, AskApe, store, account, TypeOK
  <2>2. CASE HardDeny(w) /\ pc'[w] = "annotate"
    BY <2>2 DEF Ask, HardDeny, Decide, store, account, TypeOK
  <2> QED
    BY <2>1, <2>2 DEF Ask
<1>3. apePc[r] = "idle" /\ UNCHANGED <<apeGrants, apeGrant>>
  BY <1>1 DEF APE!PostVerify, APE!Send, APE!store
<1>4. asked'[w] = r /\ \A v \in Worker \ {w} : asked'[v] = asked[v]
  BY <1>1 DEF LinkInv, LinkTypeOK
<1>5. ~Carries(w)'
  BY <1>2, <1>3, <1>4 DEF Carries, RemoteLife
<1>6. \A c \in Call : Carriers(c)' \subseteq Carriers(c) \ {w}
  BY <1>2, <1>3, <1>4, <1>5, OthersCarry
<1> QED
  BY <1>2, <1>3, <1>6 DEF Still

\* A request ends.  Its thread goes on to allow a call with an ask lock only when the
\* reply carries a grant, and then it carried it before.
LEMMA OverStep ==
  ASSUME TypeOK, LinkInv, AnswerInv, RemoteLife, NEW w \in Worker, Deliver(w) \/ TimeOut(w)
  PROVE  \A c \in Call : Still(c)
<1> DEFINE r == asked[w]
<1>1. /\ UNCHANGED <<grants, apeGrants, passed, call, hint>>
      /\ r \in Handler /\ asked' = [asked EXCEPT ![w] = NoHandler]
      /\ \A h \in Handler : apeGrant'[h] # NoRemoteGrant => apeGrant[h] # NoRemoteGrant
  <2>1. UNCHANGED <<grants, passed, call, hint>>
    BY DEF Deliver, TimeOut, Annotate, VerifyFails, VerifyReply, store, account
  <2>2. r \in Handler /\ asked' = [asked EXCEPT ![w] = NoHandler]
    BY DEF Deliver, TimeOut, LinkInv, LinkTypeOK
  <2>3. APE!Finish(r) \/ APE!GiveUp(r)
    BY DEF Deliver, TimeOut
  <2>4. apeGrants' = apeGrants /\ apeGrant' \in {apeGrant, [apeGrant EXCEPT ![r] = NoRemoteGrant]}
    BY <2>3 DEF APE!Finish, APE!GiveUp, APE!store
  <2> QED
    BY <2>1, <2>2, <2>4 DEF RemoteLife
<1>2. /\ \A v \in Worker \ {w} : pc'[v] = pc[v] /\ decision'[v] = decision[v]
      /\ pc'[w] \in {"mint", "prompt", "receipt"}
  BY DEF Deliver, TimeOut, Annotate, VerifyFails, VerifyReply, AfterReply, Decide, TypeOK
<1>3. asked'[w] = NoHandler /\ \A v \in Worker \ {w} : asked'[v] = asked[v]
  BY <1>1 DEF LinkInv, LinkTypeOK
<1>4. Carries(w)' => Carries(w)
  <2> SUFFICES ASSUME pc'[w] = "receipt", decision'[w] = "allow", hint[w] # "none" PROVE Carries(w)
    BY <1>1, <1>2 DEF Carries
  <2>1. ~Annotate(w) /\ ~VerifyFails(w)
    BY DEF Annotate, VerifyFails, Decide, TypeOK
  <2>2. VerifyReply(w, ReplyOf(r)) /\ pc[w] = "verify"
    BY <2>1 DEF Deliver, TimeOut, VerifyReply
  <2>3. hint[w] = "ask"
    BY <2>2 DEF AnswerInv, TypeOK, Hint
  <2>4. apeAnswer[r] = "allow" /\ ~MustMint(hint[w], ReplyOf(r))
    BY <2>2 DEF VerifyReply, Decide, AfterReply, ReplyOf, TypeOK
  <2>5. apeGrant[r] # NoRemoteGrant
    BY <2>3, <2>4 DEF MustMint, ReplyOf
  <2> QED
    BY <1>1, <2>2, <2>5, LinkAssumption DEF Carries
<1>5. \A c \in Call : Carriers(c)' \subseteq Carriers(c)
  BY <1>1, <1>2, <1>3, <1>4, OthersCarry
<1> QED
  BY <1>1, <1>5 DEF Still

\* Inside the gate a thread takes up a yes only by popping its grant.
LEMMA InsideStep ==
  ASSUME TypeOK, LinkInv, AnswerInv, NEW w \in Worker, Inside(w)
  PROVE  \A c \in Call : Still(c) \/ Popped(c)
<1>1. UNCHANGED <<asked, apeGrants, apeGrant, passed>>
  BY DEF Inside, link, ape, account
<1>2. ASSUME ConsumeGrant(w) PROVE \A c \in Call : Still(c) \/ Popped(c)
  <2>0. PICK d \in Call : d = call[w]
    BY DEF TypeOK
  <2>1. /\ grants[d] # NoGrant /\ grants' = [grants EXCEPT ![d] = NoGrant]
        /\ UNCHANGED <<call, hint>>
        /\ \A v \in Worker \ {w} : pc'[v] = pc[v] /\ decision'[v] = decision[v]
    BY <1>2, <2>0 DEF ConsumeGrant, PopGrant, Decide, TypeOK
  <2>2. \A c \in Call : Carriers(c)' \subseteq Carriers(c) \cup {w}
    BY <1>1, <2>1, OthersCarry
  <2>3. \A c \in Call \ {d} : Carriers(c)' \subseteq Carriers(c)
    BY <2>0, <2>1, <2>2 DEF Carriers
  <2>4. Popped(d)
    BY <1>1, <2>1, <2>2 DEF Popped, TypeOK
  <2>5. \A c \in Call \ {d} : Still(c)
    BY <1>1, <2>1, <2>3 DEF Still, TypeOK
  <2> QED
    BY <2>4, <2>5
<1>3. ASSUME ~ConsumeGrant(w) PROVE \A c \in Call : Still(c)
  <2> DEFINE Apart ==
        /\ UNCHANGED <<grants, call, hint>> /\ ~Carries(w)'
        /\ \A v \in Worker \ {w} : pc'[v] = pc[v] /\ decision'[v] = decision[v]
  <2>1. Apart
    <3> USE DEF Decide, TypeOK, Carries
    <3>1. CASE HardDeny(w) /\ pc'[w] = "receipt"
      BY <3>1 DEF HardDeny, store
    <3>2. CASE MintRefused(w)
      BY <3>2 DEF MintRefused, store
    <3>3. ASSUME NEW t \in Token, Mint(w, t) PROVE Apart
      BY <3>3 DEF Mint
    <3>4. CASE Prompt(w)
      BY <3>4 DEF Prompt, AnswerInv
    <3>5. CASE PromptRefused(w)
      BY <3>5 DEF PromptRefused, store
    <3> QED
      BY <1>3, <3>1, <3>2, <3>3, <3>4, <3>5 DEF Inside
  <2>2. \A c \in Call : Carriers(c)' \subseteq Carriers(c) \ {w}
    BY <1>1, <2>1, OthersCarry
  <2> QED
    BY <1>1, <2>1, <2>2 DEF Still
<1> QED
  BY <1>2, <1>3

\* The caller has its answer: what its thread carried has passed.
LEMMA LeaveStep ==
  ASSUME TypeOK, LinkInv, NEW w \in Worker, Leave(w)
  PROVE  \A c \in Call : Still(c) \/ Given(c)
<1>1. /\ pc[w] = "receipt" /\ UNCHANGED <<grants, apeGrants, apeGrant, asked>>
      /\ \A v \in Worker \ {w} : /\ pc'[v] = pc[v] /\ call'[v] = call[v] /\ hint'[v] = hint[v]
                                 /\ decision'[v] = decision[v]
      /\ ~Carries(w)'
  BY DEF Leave, Return, Unwind, store, ape, Carries, TypeOK
<1>2. \A c \in Call : Carriers(c)' \subseteq Carriers(c) \ {w}
  BY <1>1, OthersCarry
<1>3. CASE decision[w] = "allow" /\ hint[w] # "none"
  <2>1. PICK d \in Call : d = call[w]
    BY DEF TypeOK
  <2>2. passed' = [passed EXCEPT ![d] = @ + 1] /\ passed \in [Call -> Nat]
    BY <1>3, <2>1 DEF Leave, LinkInv, LinkTypeOK
  <2>3. w \in Carriers(d)
    BY <1>1, <1>3, <2>1 DEF Carriers, Carries
  <2>4. Given(d)
    BY <1>1, <1>2, <2>2, <2>3 DEF Given
  <2>5. \A c \in Call \ {d} : Still(c)
    BY <1>1, <1>2, <2>2 DEF Still
  <2> QED
    BY <2>4, <2>5
<1>4. CASE ~(decision[w] = "allow" /\ hint[w] # "none")
  <2>1. passed' = passed
    BY <1>4 DEF Leave
  <2> QED
    BY <1>1, <1>2, <2>1 DEF Still
<1> QED
  BY <1>3, <1>4

\* A handler pops a grant for the one thread that waits for it, or makes one of a yes.
LEMMA ServeStep ==
  ASSUME TypeOK, LinkInv, RemoteLife, NEW r \in Handler, Serve(r)
  PROVE  \A c \in Call : Still(c) \/ Popped(c) \/ (Grows(c) => Agreed(c))
<1>1. /\ UNCHANGED <<grants, passed, asked, pc, call, hint, decision>> /\ APE!Handle(r)
  BY DEF Serve, store, link, frame
<1>2. ASSUME \A h \in Handler : apeGrant'[h] # NoRemoteGrant => apeGrant[h] # NoRemoteGrant
      PROVE  \A c \in Call : Carriers(c)' \subseteq Carriers(c)
  BY <1>1, <1>2 DEF Carriers, Carries, LinkInv, LinkTypeOK
<1>3. CASE APE!Consume(r)
  <2>0. PICK d \in Call : d = apeCall[r]
    BY DEF LinkInv, ApeShape
  <2>1. /\ apeGrants[d] # NoRemoteGrant
        /\ apeGrants' = [apeGrants EXCEPT ![d] = NoRemoteGrant]
        /\ \A h \in Handler \ {r} : apeGrant'[h] = apeGrant[h]
    BY <1>3, <2>0 DEF APE!Consume, RemoteLife
  <2>2. \A v \in Worker : Carries(v)' => Carries(v) \/ asked[v] = r
    BY <1>1, <2>1 DEF Carries, LinkInv, LinkTypeOK
  <2>3. \A v \in Worker : asked[v] = r => call[v] = d /\ \A u \in Worker \ {v} : asked[u] # r
    BY <2>0, LinkAssumption DEF LinkInv, Waits
  <2>4. \E w : Carriers(d)' \subseteq Carriers(d) \cup {w}
    <3>1. CASE \E w \in Worker : asked[w] = r
      BY <1>1, <2>2, <2>3, <3>1 DEF Carriers
    <3>2. CASE ~\E w \in Worker : asked[w] = r
      BY <1>1, <2>2, <3>2 DEF Carriers
    <3> QED
      BY <3>1, <3>2
  <2>5. \A c \in Call \ {d} : Carriers(c)' \subseteq Carriers(c)
    BY <1>1, <2>2, <2>3 DEF Carriers
  <2>6. Popped(d)
    BY <1>1, <2>1, <2>4 DEF Popped, RemoteLife
  <2>7. \A c \in Call \ {d} : Still(c)
    BY <1>1, <2>1, <2>5 DEF Still, RemoteLife
  <2> QED
    BY <2>6, <2>7
<1>4. CASE apePc[r] = "approve" /\ apeAnswer'[r] = "granted"
  <2>1. APE!Approve(r)
    <3>1. ~APE!RefuseApproval(r)
      BY <1>4 DEF APE!RefuseApproval, APE!Reply, LinkInv, ApeShape
    <3> QED
      BY <1>1, <1>4, <3>1
      DEF APE!Handle, APE!Malformed, APE!Consume, APE!Judge, APE!RefuseMint, APE!Mint, APE!Finish
  <2>2. PICK t \in Remote : t = apeToken[r]
    BY <2>1 DEF APE!Approve, APE!Answerable
  <2>3. t \notin apeUsed /\ APE!Kept[t] # NoRemotePending /\ UNCHANGED <<apeGrant, apeMinted>>
    BY <2>1, <2>2 DEF APE!Approve, APE!Answerable, APE!history
  <2>4. PICK d \in Call : d = approvals[t].call /\ d = apeMinted[t].call
    <3>1. approvals[t] = apeMinted[t] /\ approvals[t] \in APE!PendingRec
      BY <2>3, KeptRemote DEF RemoteLife, APE!Kept
    <3> QED
      BY <3>1 DEF APE!PendingRec
  <2>5. \A c \in Call \ {d} : apeGrants'[c] = apeGrants[c]
    BY <2>1, <2>2, <2>4 DEF APE!Approve, RemoteLife
  <2>6. yes' = yes \cup {t} /\ t \notin yes
    BY <1>4, <2>2, <2>3 DEF Serve, RemoteLife
  <2>7. t \in RemoteYes(d)' /\ t \notin RemoteYes(d)
    BY <2>3, <2>4, <2>6 DEF RemoteYes
  <2>8. \A c \in Call : Carriers(c)' \subseteq Carriers(c)
    BY <1>2, <2>3
  <2>9. Grows(d) => Agreed(d)
    BY <1>1, <2>7, <2>8 DEF Grows, Agreed
  <2>10. \A c \in Call \ {d} : Still(c)
    BY <1>1, <2>5, <2>8 DEF Still
  <2> QED
    BY <2>9, <2>10
<1>5. CASE ~APE!Consume(r) /\ ~(apePc[r] = "approve" /\ apeAnswer'[r] = "granted")
  <2>1. /\ apeGrants' = apeGrants
        /\ apeGrant' = apeGrant \/ apeGrant' = [apeGrant EXCEPT ![r] = NoRemoteGrant]
    <3>1. CASE APE!Approve(r)
      BY <1>5, <3>1 DEF APE!Approve, APE!Reply, LinkInv, ApeShape
    <3>2. CASE APE!Malformed(r) \/ APE!Judge(r) \/ APE!RefuseMint(r) \/ APE!Mint(r)
               \/ APE!RefuseApproval(r) \/ APE!Finish(r)
      BY <3>2 DEF APE!Malformed, APE!Judge, APE!RefuseMint, APE!Mint, APE!RefuseApproval,
         APE!Finish, APE!store
    <3> QED
      BY <1>1, <1>5, <3>1, <3>2 DEF APE!Handle
  <2>2. \A h \in Handler : apeGrant'[h] # NoRemoteGrant => apeGrant[h] # NoRemoteGrant
    BY <2>1 DEF RemoteLife
  <2>3. \A c \in Call : Carriers(c)' \subseteq Carriers(c)
    BY <1>2, <2>2
  <2> QED
    BY <1>1, <2>1, <2>3 DEF Still
<1> QED
  BY <1>3, <1>4, <1>5

\* The Founder's yes to a local token becomes a grant; the clock and a token that has
\* expired move nothing.
LEMMA AloneStep ==
  ASSUME TypeOK, LinkInv, LocalLife, Alone
  PROVE  \A c \in Call : Still(c) \/ (Grows(c) => Agreed(c))
<1>1. \A c \in Call : Carriers(c)' = Carriers(c)
  BY DEF Alone, Founder, Approve, ApproveExpired, Tick, frame, link, ape, Carriers, Carries
<1>2. UNCHANGED <<apeGrants, passed>>
  BY DEF Alone, ape, account
<1>3. CASE grants' = grants
  BY <1>1, <1>2, <1>3 DEF Still
<1>4. ASSUME NEW t \in Token, NEW scope \in SUBSET Call, Approve(t, scope)
      PROVE  \A c \in Call : Still(c) \/ (Grows(c) => Agreed(c))
  <2>1. PICK d \in Call : d = pending[t].call
    BY <1>4 DEF Approve
  <2>2. /\ pending[t] = minted[t] /\ agreed[t] = {} /\ d \in scope
        /\ agreed'[t] = scope /\ minted' = minted
    BY <1>4, <2>1 DEF Approve, Approvable, LocalLife, TypeOK
  <2>3. t \in LocalYes(d)' /\ t \notin LocalYes(d)
    BY <2>1, <2>2 DEF LocalYes
  <2>4. \A c \in Call \ {d} : grants'[c] = grants[c]
    BY <1>4, <2>1 DEF Approve, TypeOK
  <2>5. Grows(d) => Agreed(d)
    BY <1>1, <1>2, <2>3 DEF Grows, Agreed
  <2>6. \A c \in Call \ {d} : Still(c)
    BY <1>1, <1>2, <2>4 DEF Still
  <2> QED
    BY <2>5, <2>6
<1>5. grants' = grants \/ \E t \in Token, scope \in SUBSET Call : Approve(t, scope)
  BY DEF Alone, Founder, ApproveExpired, Tick, store
<1> QED
  BY <1>3, <1>4, <1>5

\* The count is inductive.
LEMMA NextYes ==
  TypeOK /\ LinkInv /\ AnswerInv /\ YesInv /\ [CNext]_cvars => YesInv'
<1> SUFFICES ASSUME TypeOK, LinkInv, AnswerInv, YesInv, [CNext]_cvars PROVE YesInv'
  OBVIOUS
<1> DEFINE Moves == \A c \in Call : Still(c) \/ Popped(c) \/ Given(c) \/ (Grows(c) => Agreed(c))
<1>1. LocalLife /\ RemoteLife /\ \A c \in Call : Counted(c)
  BY DEF YesInv
<1>2. LocalLife' /\ RemoteLife'
  BY <1>1, CNextIsNext, NextLocalLife, NextRemoteLife
<1>3. \A c \in Call : Grows(c)
  BY <1>1, CNextIsNext, LocalYesStays, NextRemoteLife DEF Grows
<1>4. ASSUME NEW w \in Worker, NEW c \in Call, NEW h \in Hint, Enter(w, c, h) PROVE Moves
  BY <1>4, DropStep
<1>5. ASSUME NEW w \in Worker, Ask(w) PROVE Moves
  BY <1>1, <1>5, AskStep
<1>6. ASSUME NEW w \in Worker, Deliver(w) \/ TimeOut(w) PROVE Moves
  BY <1>1, <1>6, OverStep
<1>7. ASSUME NEW w \in Worker, Inside(w) PROVE Moves
  BY <1>7, InsideStep
<1>8. ASSUME NEW w \in Worker, Leave(w) PROVE Moves
  BY <1>8, LeaveStep
<1>9. ASSUME NEW w \in Worker, Fail(w) PROVE Moves
  BY <1>9, DropStep
<1>10. ASSUME NEW r \in Handler, Serve(r) PROVE Moves
  BY <1>1, <1>10, ServeStep
<1>11. ASSUME NEW t \in Remote, ApproveAtApe(t) PROVE Moves
  <2>1. UNCHANGED <<grants, apeGrants, apeGrant, passed, pc, call, hint, decision, asked>>
    BY <1>11 DEF ApproveAtApe, APE!PostApprove, APE!Send, APE!store, store, frame, link, account
  <2> QED
    BY <2>1 DEF Still, Carriers, Carries
<1>12. ASSUME Alone PROVE Moves
  BY <1>1, <1>12, AloneStep
<1>13. ASSUME GateRestarts PROVE Moves
  <2>1. /\ \A c \in Call : grants'[c] = NoGrant /\ Carriers(c)' = {}
        /\ UNCHANGED <<apeGrants, passed>>
    BY <1>13 DEF GateRestarts, Restart, APE!ClientsDie, APE!store, account, Carriers, Carries
  <2> QED
    BY <2>1 DEF Still
<1>14. ASSUME UNCHANGED cvars PROVE Moves
  BY <1>14 DEF cvars, vars, store, frame, link, ape, account, Still, Carriers, Carries
<1> HIDE DEF Moves
<1>15. Moves
  BY <1>4, <1>5, <1>6, <1>7, <1>8, <1>9, <1>10, <1>11, <1>12, <1>13, <1>14 DEF CNext
<1>16. ASSUME NEW c \in Call PROVE Counted(c)'
  <2>1. passed[c] \in Nat
    BY DEF LinkInv, LinkTypeOK
  <2>2. IsFiniteSet(yes) /\ IsFiniteSet(yes')
    BY <1>1, <1>2 DEF RemoteLife
  <2> QED
    BY <1>1, <1>3, <1>15, <2>1, <2>2, CountStep DEF Moves
<1> QED
  BY <1>2, <1>16 DEF YesInv

\* At the start nothing was asked, agreed or answered.
LEMMA InitYes == CInit => YesInv
<1> SUFFICES ASSUME CInit PROVE YesInv
  OBVIOUS
<1>1. LocalLife
  BY DEF CInit, Init, EmptyStore, LocalLife
<1>2. RemoteLife
  BY FS_EmptySet DEF CInit, APE!Init, RemoteLife
<1>3. ASSUME NEW c \in Call PROVE Counted(c)
  <2>1. Carriers(c) = {} /\ LocalYes(c) = {} /\ RemoteYes(c) = {}
    BY DEF CInit, Init, IdleFrame, Carriers, Carries, LocalYes, RemoteYes
  <2>2. passed[c] = 0 /\ grants[c] = NoGrant /\ apeGrants[c] = NoRemoteGrant
    BY DEF CInit, Init, EmptyStore, APE!Init
  <2> QED
    BY <2>1, <2>2, FS_EmptySet DEF Counted, One
<1> QED
  BY <1>1, <1>2, <1>3 DEF YesInv

\* A call that needs a human passes no more often than the Founder said yes to it,
\* whichever store held the question, and whatever timed out, was asked again, or was
\* served after its client had gone.
THEOREM EveryAllowHasItsYesCorrect == CSpec => []EveryAllowHasItsYes
<1>1. CInit => Init
  BY DEF CInit
<1>2. TypeOK /\ LinkInv /\ [CNext]_cvars => TypeOK'
  BY CNextIsNext, NextType
<1>3. TypeOK /\ LinkInv /\ AnswerInv /\ [CNext]_cvars => AnswerInv'
  BY CNextIsNext, NextAnswer
<1>4. LinkInv /\ YesInv => EveryAllowHasItsYes
  <2> SUFFICES ASSUME LinkInv, YesInv, NEW c \in Call PROVE passed[c] <= YesTo(c)
    BY DEF EveryAllowHasItsYes
  <2>1. Counted(c) /\ IsFiniteSet(yes) /\ passed[c] \in Nat
    BY DEF YesInv, RemoteLife, LinkInv, LinkTypeOK
  <2>2. /\ Carriers(c) \subseteq Worker /\ LocalYes(c) \subseteq Token /\ RemoteYes(c) \subseteq yes
    BY DEF Carriers, LocalYes, RemoteYes
  <2>3. /\ Cardinality(Carriers(c)) \in Nat /\ Cardinality(LocalYes(c)) \in Nat
        /\ Cardinality(RemoteYes(c)) \in Nat
    BY <2>1, <2>2, Smaller, BoundAssumption
  <2>4. YesTo(c) = Cardinality(LocalYes(c)) + Cardinality(RemoteYes(c))
    BY DEF YesTo, LocalYes, RemoteYes
  <2> QED
    BY <2>1, <2>3, <2>4 DEF Counted, One
<1> QED
  BY <1>1, <1>2, <1>3, <1>4, InitType, InitLink, NextLink, InitAnswer, NextAnswer, InitYes, NextYes, PTL
  DEF CSpec

=============================================================================
