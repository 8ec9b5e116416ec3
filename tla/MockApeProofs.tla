--------------------------- MODULE MockApeProofs ---------------------------
(* Proofs, for any number of handlers, calls, tokens and timeouts, about the   *)
(* mock APE's approval store.                                                  *)
EXTENDS MockApe, FiniteSetTheorems, TLAPS

-----------------------------------------------------------------------------
(* The inductive invariant. *)

\* g is a yes to the call c that a client could have asked for, given in time.
Yes(g, c) ==
  /\ g.token \in told
  /\ minted[g.token] # NoPending
  /\ minted[g.token].call = c
  /\ g.granted <= minted[g.token].issued + Ttl

\* A token is pending, as it was minted, until it is used; only then may it allow.
Question(t) ==
  /\ approvals[t] # NoPending => approvals[t] = minted[t] /\ t \notin used
  /\ minted[t] = NoPending => t \notin used \cup told
  /\ allowedBy[t] # 0 => t \in used
  /\ allowedBy[t] <= 1

\* A grant that stands has allowed nothing yet.
Granted(c) ==
  grants[c] # NoGrant =>
    Yes(grants[c], c) /\ grants[c].token \in used /\ allowedBy[grants[c].token] = 0

\* What the handler of r has in hand.
Handled(r) ==
  /\ pc[r] = "approve" => token[r] \in told \cup {NoToken}
  /\ pc[r] # "reply" => answer[r] = "none"
  /\ answer[r] = "ask" => minted[token[r]] # NoPending
  /\ answer[r] = "allow" => grant[r] # NoGrant \/ EvaluatePolicy(call[r]) = "allow"
  /\ grant[r] # NoGrant => answer[r] = "allow" /\ Yes(grant[r], call[r])

ApeInv ==
  /\ TypeOK
  /\ \A t \in Token : Question(t)
  /\ \A c \in Call : Granted(c)
  /\ \A r \in Thread : Handled(r)

-----------------------------------------------------------------------------
LEMMA InitInv == Init => ApeInv
<1> SUFFICES ASSUME Init PROVE ApeInv
  OBVIOUS
<1> USE ApeAssumption, ApeNullAssumption
<1>1. TypeOK
  BY DEF Init, TypeOK, NoCall, Answer
<1>2. \A t \in Token : Question(t)
  BY DEF Init, Question
<1>3. (\A c \in Call : Granted(c)) /\ (\A r \in Thread : Handled(r))
  BY DEF Init, Granted, Handled
<1> QED
  BY <1>1, <1>2, <1>3 DEF ApeInv

\* What was minted stays minted, and what a client was told stays told.
Remembers ==
  /\ told \subseteq told'
  /\ \A t \in Token : minted[t] # NoPending => minted'[t] = minted[t]

\* A handler that the step does not touch keeps its part of the invariant.
SameRequest(r) ==
  /\ pc'[r] = pc[r] /\ call'[r] = call[r] /\ token'[r] = token[r]
  /\ answer'[r] = answer[r] /\ grant'[r] = grant[r]

LEMMA OthersKeep ==
  ASSUME ApeInv, Remembers, NEW r \in Thread, SameRequest(r)
  PROVE  Handled(r)'
<1>1. Handled(r) /\ TypeOK
  BY DEF ApeInv
<1>2. /\ answer[r] = "ask" => token[r] \in Token
      /\ grant[r] # NoGrant => grant[r] \in GrantRec
      /\ call[r] \in Call
  BY <1>1 DEF TypeOK
<1>3. ASSUME grant[r] # NoGrant PROVE Yes(grant[r], call[r])'
  <2>1. Yes(grant[r], call[r]) /\ grant[r].token \in Token
    BY <1>1, <1>2, <1>3 DEF Handled, GrantRec
  <2> QED
    BY <2>1 DEF Yes, Remembers, SameRequest
<1>4. answer[r] = "ask" => minted'[token[r]] # NoPending
  BY <1>1, <1>2 DEF Handled, Remembers
<1>5. pc[r] = "approve" => token[r] \in told' \cup {NoToken}
  BY <1>1 DEF Handled, Remembers
<1> QED
  BY <1>1, <1>3, <1>4, <1>5 DEF Handled, SameRequest, EvaluatePolicy

\* What the prune leaves, token by token.
LEMMA PruneFacts ==
  ASSUME TypeOK
  PROVE  /\ Kept \in [Token -> PendingRec \cup {NoPending}]
         /\ Pruned \subseteq Token
         /\ \A t \in Token : Kept[t] # NoPending => Kept[t] = approvals[t] /\ t \notin Pruned
         /\ \A t \in Pruned : approvals[t] # NoPending
BY DEF TypeOK, Kept, Pruned, Expired

-----------------------------------------------------------------------------
(* One lemma per kind of step. *)

\* Sending a request: the store stays as it is.
LEMMA SendStep ==
  ASSUME ApeInv, NEW r \in Thread, NEW at \in {"verify", "approve"}, NEW c \in Call,
         NEW t \in Token \cup {NoToken}, Send(r, at, c, t),
         at = "verify" => t = NoToken, t # NoToken => t \in told
  PROVE  ApeInv'
<1> USE ApeAssumption, ApeNullAssumption
<1>1. TypeOK /\ Handled(r)
  BY DEF ApeInv
<1>2. answer[r] = "none" /\ grant[r] = NoGrant
  BY <1>1 DEF Handled, Send, TypeOK
<1>3. TypeOK'
  BY <1>1, <1>2 DEF TypeOK, Send, store, history
<1>4. Remembers
  BY DEF Remembers, Send, history
<1>5. \A q \in Token : Question(q)'
  BY DEF ApeInv, Question, Send, store, history
<1>6. \A d \in Call : Granted(d)'
  BY DEF ApeInv, Granted, Yes, Send, store, history
<1>7. \A q \in Thread \ {r} : Handled(q)'
  <2>1. \A q \in Thread \ {r} : SameRequest(q)
    BY <1>1 DEF SameRequest, Send, TypeOK
  <2> QED
    BY <1>4, <2>1, OthersKeep
<1>8. Handled(r)'
  BY <1>1, <1>2 DEF Handled, Send, TypeOK, history
<1> QED
  BY <1>3, <1>5, <1>6, <1>7, <1>8 DEF ApeInv

\* A handler whose step prunes at most, and answers without a grant or a token.
LEMMA PruneStep ==
  ASSUME ApeInv, NEW r \in Thread,
         \/ UNCHANGED <<approvals, used>>
         \/ approvals' = Kept /\ used' = used \cup Pruned,
         UNCHANGED <<grants, now, call, token, grant, listening, history>>,
         \/ /\ pc[r] = "verify" /\ pc' = [pc EXCEPT ![r] = "mint"]
            /\ UNCHANGED answer
         \/ \E a \in {"deny", "flood"} : pc[r] \in {"verify", "mint"} /\ Reply(r, a)
         \/ /\ pc[r] = "verify" /\ EvaluatePolicy(call[r]) = "allow"
            /\ Reply(r, "allow")
         \/ pc[r] = "approve" /\ Reply(r, "refused")
  PROVE  ApeInv'
<1>1. TypeOK /\ Handled(r) /\ answer[r] = "none"
  BY DEF ApeInv, Handled
<1>2. Remembers
  BY DEF Remembers, history
<1>3. TypeOK'
  BY <1>1, PruneFacts DEF TypeOK, Reply, Answer, history
<1>4. ASSUME NEW t \in Token PROVE Question(t)'
  <2>1. Question(t)
    BY DEF ApeInv
  <2>2. /\ approvals'[t] # NoPending => approvals'[t] = approvals[t] /\ t \notin used' \ used
        /\ t \in used' \ used => approvals[t] # NoPending
        /\ used \subseteq used'
    BY <1>1, PruneFacts
  <2>3. minted[t] = NoPending => approvals[t] = NoPending
    BY <2>1 DEF Question
  <2> QED
    BY <2>1, <2>2, <2>3 DEF Question, history
<1>5. ASSUME NEW c \in Call PROVE Granted(c)'
  <2>1. Granted(c) /\ used \subseteq used'
    BY DEF ApeInv
  <2> QED
    BY <2>1 DEF Granted, Yes, history
<1>6. \A q \in Thread \ {r} : Handled(q)'
  <2>1. \A q \in Thread \ {r} : SameRequest(q)
    BY <1>1 DEF SameRequest, Reply, TypeOK
  <2> QED
    BY <1>2, <2>1, OthersKeep DEF ApeInv
<1>7. Handled(r)'
  BY <1>1 DEF Handled, Reply, TypeOK, history, EvaluatePolicy, Yes
<1> QED
  BY <1>3, <1>4, <1>5, <1>6, <1>7 DEF ApeInv

\* Malformed, Judge, RefuseMint and RefuseApproval are such steps.
LEMMA AnswerStep ==
  ASSUME ApeInv, NEW r \in Thread,
         Malformed(r) \/ Judge(r) \/ RefuseMint(r) \/ RefuseApproval(r)
  PROVE  ApeInv'
<1>1. CASE Malformed(r)
  BY <1>1, PruneStep DEF Malformed, store
<1>2. CASE Judge(r)
  <2>1. EvaluatePolicy(call[r]) \in {"deny", "require_approval", "allow"}
    BY DEF EvaluatePolicy
  <2> QED
    BY <1>2, <2>1, PruneStep DEF Judge
<1>3. CASE RefuseMint(r)
  BY <1>3, PruneStep DEF RefuseMint
<1>4. CASE RefuseApproval(r)
  BY <1>4, PruneStep DEF RefuseApproval
<1> QED
  BY <1>1, <1>2, <1>3, <1>4

\* Consume: the one grant of the call allows it, and is gone.
LEMMA ConsumeStep ==
  ASSUME ApeInv, NEW r \in Thread, Consume(r)
  PROVE  ApeInv'
<1> DEFINE g == grants[call[r]]
<1> USE ApeAssumption, ApeNullAssumption
<1>1. TypeOK /\ Handled(r) /\ answer[r] = "none" /\ call[r] \in Call
  BY DEF ApeInv, Handled, Consume, TypeOK
<1>2. g \in GrantRec /\ g.token \in Token /\ g # NoGrant
  BY <1>1 DEF Consume, TypeOK, GrantRec
<1>3. Yes(g, call[r]) /\ g.token \in used /\ allowedBy[g.token] = 0
  BY <1>1, <1>2 DEF ApeInv, Granted
<1>4. /\ approvals' = Kept /\ used' = used \cup Pruned
      /\ grants' = [grants EXCEPT ![call[r]] = NoGrant]
      /\ grant' = [grant EXCEPT ![r] = g]
      /\ allowedBy' = [allowedBy EXCEPT ![g.token] = @ + 1]
      /\ pc[r] = "verify" /\ pc' = [pc EXCEPT ![r] = "reply"]
      /\ answer' = [answer EXCEPT ![r] = "allow"]
      /\ UNCHANGED <<now, call, token, listening, minted, told>>
  BY DEF Consume, Reply
<1>5. Remembers
  BY <1>4 DEF Remembers
<1>6. TypeOK'
  BY <1>1, <1>2, <1>4, PruneFacts DEF TypeOK, Answer
<1>7. ASSUME NEW t \in Token PROVE Question(t)'
  <2>1. Question(t) /\ allowedBy[t] \in Nat
    BY <1>1 DEF ApeInv, TypeOK
  <2>2. allowedBy'[t] = IF t = g.token THEN allowedBy[t] + 1 ELSE allowedBy[t]
    BY <1>1, <1>2, <1>4 DEF TypeOK
  <2>3. /\ approvals'[t] # NoPending => approvals'[t] = approvals[t] /\ t \notin used' \ used
        /\ t \in used' \ used => approvals[t] # NoPending
        /\ used \subseteq used'
    BY <1>1, <1>4, PruneFacts
  <2>4. minted[t] = NoPending => approvals[t] = NoPending
    BY <2>1 DEF Question
  <2> QED
    BY <1>3, <1>4, <2>1, <2>2, <2>3, <2>4 DEF Question
<1>8. ASSUME NEW c \in Call, grants'[c] # NoGrant PROVE Granted(c)'
  <2>1. c # call[r] /\ grants'[c] = grants[c] /\ grants[c] \in GrantRec
    BY <1>1, <1>4, <1>8 DEF TypeOK
  <2>2. Yes(grants[c], c) /\ grants[c].token \in used /\ allowedBy[grants[c].token] = 0
    BY <1>8, <2>1 DEF ApeInv, Granted
  <2>3. grants[c].token # g.token
    BY <1>3, <2>1, <2>2 DEF Yes
  <2>5. Yes(grants[c], c)'
    BY <1>4, <2>1, <2>2 DEF Yes
  <2>6. grants[c].token \in Token /\ allowedBy'[grants[c].token] = 0
    BY <1>1, <1>2, <1>4, <2>1, <2>2, <2>3 DEF TypeOK, GrantRec
  <2> QED
    BY <1>4, <2>1, <2>2, <2>5, <2>6 DEF Granted
<1>9. \A q \in Thread \ {r} : Handled(q)'
  <2>1. \A q \in Thread \ {r} : SameRequest(q)
    BY <1>1, <1>4 DEF SameRequest, TypeOK
  <2> QED
    BY <1>5, <2>1, OthersKeep
<1>10. Handled(r)'
  <2>2. grant'[r] = g /\ answer'[r] = "allow" /\ pc'[r] = "reply"
    BY <1>1, <1>4 DEF TypeOK
  <2> HIDE DEF g
  <2>3. Yes(grant[r], call[r])'
    BY <1>3, <2>2, <1>4 DEF Yes
  <2> QED
    BY <1>2, <2>2, <2>3 DEF Handled
<1> QED
  BY <1>6, <1>7, <1>8, <1>9, <1>10 DEF ApeInv, Granted

\* Mint: a fresh token becomes a question.
LEMMA MintStep ==
  ASSUME ApeInv, NEW r \in Thread, Mint(r)
  PROVE  ApeInv'
<1> USE ApeAssumption, ApeNullAssumption
<1>1. TypeOK /\ Handled(r) /\ answer[r] = "none" /\ call[r] \in Call
  BY DEF ApeInv, Handled, Mint, TypeOK
<1>2. PICK t \in Token :
        /\ minted[t] = NoPending
        /\ approvals' = [Kept EXCEPT ![t] = [call |-> call[r], issued |-> now]]
        /\ minted' = [minted EXCEPT ![t] = [call |-> call[r], issued |-> now]]
        /\ token' = [token EXCEPT ![r] = t]
  BY DEF Mint
<1>3. /\ pc[r] = "mint" /\ used' = used \cup Pruned
      /\ pc' = [pc EXCEPT ![r] = "reply"] /\ answer' = [answer EXCEPT ![r] = "ask"]
      /\ UNCHANGED <<grants, now, call, grant, listening, told, allowedBy>>
  BY DEF Mint, Reply
<1>4. [call |-> call[r], issued |-> now] \in PendingRec /\ now \in Nat
  BY <1>1 DEF PendingRec, TypeOK
<1>5. TypeOK'
  BY <1>1, <1>2, <1>3, <1>4, PruneFacts DEF TypeOK, Answer
<1>6. Remembers
  BY <1>1, <1>2, <1>3 DEF Remembers, TypeOK
<1>7. t \notin used \cup told \cup Pruned /\ approvals[t] = NoPending
  BY <1>1, <1>2, PruneFacts DEF ApeInv, Question
<1>8. ASSUME NEW u \in Token PROVE Question(u)'
  <2>1. Question(u)
    BY DEF ApeInv
  <2>2. CASE u = t
    <3>1. /\ approvals'[t] = [call |-> call[r], issued |-> now]
          /\ minted'[t] = [call |-> call[r], issued |-> now]
          /\ minted'[t] # NoPending
      BY <1>1, <1>2, <1>4, PruneFacts DEF TypeOK
    <3> QED
      BY <1>3, <1>7, <2>1, <2>2, <3>1 DEF Question
  <2>3. CASE u # t
    <3>1. minted'[u] = minted[u] /\ approvals'[u] = Kept[u]
      BY <1>1, <1>2, <2>3, PruneFacts DEF TypeOK
    <3>2. /\ approvals'[u] # NoPending => approvals'[u] = approvals[u] /\ u \notin Pruned
          /\ u \in Pruned => approvals[u] # NoPending
      BY <1>1, <3>1, PruneFacts
    <3>3. minted[u] = NoPending => approvals[u] = NoPending
      BY <2>1 DEF Question
    <3> QED
      BY <1>3, <2>1, <3>1, <3>2, <3>3 DEF Question
  <2> QED
    BY <2>2, <2>3
<1>9. ASSUME NEW c \in Call, grants[c] # NoGrant PROVE Granted(c)'
  <2>1. grants[c] \in GrantRec
    BY <1>1, <1>9 DEF TypeOK
  <2>2. Yes(grants[c], c) /\ grants[c].token \in used /\ allowedBy[grants[c].token] = 0
    BY <1>9 DEF ApeInv, Granted
  <2>3. Yes(grants[c], c)'
    BY <1>3, <1>6, <2>1, <2>2 DEF Yes, Remembers, GrantRec
  <2> QED
    BY <1>3, <2>2, <2>3 DEF Granted, Yes
<1>10. \A q \in Thread \ {r} : Handled(q)'
  <2>1. \A q \in Thread \ {r} : SameRequest(q)
    BY <1>1, <1>2, <1>3 DEF SameRequest, TypeOK
  <2> QED
    BY <1>6, <2>1, OthersKeep
<1>11. Handled(r)'
  <2>1. /\ token'[r] = t /\ minted'[t] # NoPending
        /\ pc'[r] = "reply" /\ answer'[r] = "ask" /\ grant'[r] = NoGrant
    BY <1>1, <1>2, <1>3, <1>4 DEF TypeOK, Handled
  <2> QED
    BY <2>1 DEF Handled
<1> QED
  BY <1>3, <1>5, <1>8, <1>9, <1>10, <1>11 DEF ApeInv, Granted

\* Approve: a question in time becomes the grant of its call.
LEMMA ApproveStep ==
  ASSUME ApeInv, NEW r \in Thread, Approve(r)
  PROVE  ApeInv'
<1> DEFINE t == token[r]
           c == approvals[t].call
           g == [token |-> t, granted |-> now']
<1> USE ApeAssumption, ApeNullAssumption
<1>1. TypeOK /\ Handled(r) /\ answer[r] = "none" /\ pc[r] = "approve"
  BY DEF ApeInv, Handled, Approve
<1>2. t \in Token /\ t \in told /\ now \in Nat
  BY <1>1 DEF Handled, TypeOK, Approve, Answerable
<1>3. /\ t \notin used \cup Pruned /\ Kept[t] # NoPending
      /\ now' \in 0..MaxTime
      /\ approvals' = [Kept EXCEPT ![t] = NoPending]
      /\ used' = used \cup Pruned \cup {t}
      /\ UNCHANGED <<call, token, grant, listening, history>>
  BY <1>1, <1>2 DEF Approve, Answerable
<1>4. /\ approvals[t] # NoPending /\ approvals[t] = minted[t] /\ minted[t] # NoPending
      /\ approvals[t] \in PendingRec
      /\ c \in Call /\ approvals[t].issued \in Nat /\ allowedBy[t] = 0
  <2>1. Question(t) /\ Kept[t] = approvals[t] /\ approvals[t] # NoPending
    BY <1>1, <1>2, <1>3, PruneFacts DEF ApeInv
  <2>2. approvals[t] \in PendingRec
    BY <1>1, <1>2, <2>1 DEF TypeOK
  <2> QED
    BY <1>1, <1>2, <1>3, <2>1, <2>2 DEF Question, PendingRec, TypeOK
<1>5. Remembers
  BY <1>3 DEF Remembers, history
<1>6. \/ Reply(r, "refused") /\ UNCHANGED grants
      \/ /\ now' <= approvals[t].issued + Ttl
         /\ grants' = [grants EXCEPT ![c] = g] /\ Reply(r, "granted")
  BY <1>2, <1>3, <1>4 DEF Approve, Expired
<1>7. g \in GrantRec
  BY <1>2, <1>3 DEF GrantRec
<1>8. TypeOK'
  <2>1. approvals' \in [Token -> PendingRec \cup {NoPending}] /\ used' \subseteq Token
    BY <1>1, <1>2, <1>3, PruneFacts DEF TypeOK
  <2>2. grants' \in [Call -> GrantRec \cup {NoGrant}]
    BY <1>1, <1>4, <1>6, <1>7 DEF TypeOK
  <2> QED
    BY <1>1, <1>2, <1>3, <1>6, <2>1, <2>2 DEF TypeOK, Reply, Answer, history
<1>9. ASSUME NEW u \in Token PROVE Question(u)'
  <2>1. Question(u)
    BY DEF ApeInv
  <2>2. CASE u = t
    BY <1>1, <1>2, <1>3, <1>4, <2>1, <2>2, PruneFacts DEF Question, history
  <2>3. CASE u # t
    <3>1. approvals'[u] = Kept[u]
      BY <1>1, <1>3, <2>3, PruneFacts
    <3>2. /\ approvals'[u] # NoPending => approvals'[u] = approvals[u] /\ u \notin Pruned
          /\ u \in Pruned => approvals[u] # NoPending
      BY <1>1, <3>1, PruneFacts
    <3>3. minted[u] = NoPending => approvals[u] = NoPending
      BY <2>1 DEF Question
    <3> QED
      BY <1>3, <2>1, <2>3, <3>1, <3>2, <3>3 DEF Question, history
  <2> QED
    BY <2>2, <2>3
<1>10. ASSUME NEW d \in Call, grants'[d] # NoGrant PROVE Granted(d)'
  <2>1. CASE grants'[d] = grants[d]
    BY <1>3, <1>10, <2>1 DEF ApeInv, Granted, Yes, history
  <2>2. CASE grants'[d] # grants[d]
    <3>1. d = c /\ grants'[d] = g /\ now' <= approvals[t].issued + Ttl
      BY <1>1, <1>4, <1>6, <2>2 DEF TypeOK
    <3>2. grants'[d].token = t /\ grants'[d].granted = now'
      BY <3>1
    <3> HIDE DEF g
    <3>3. Yes(grants[d], d)'
      BY <1>2, <1>3, <1>4, <3>1, <3>2 DEF Yes, history
    <3> QED
      BY <1>3, <1>4, <3>2, <3>3 DEF Granted, history
  <2> QED
    BY <2>1, <2>2
<1>11. \A q \in Thread \ {r} : Handled(q)'
  <2>1. \A q \in Thread \ {r} : SameRequest(q)
    BY <1>1, <1>3, <1>6 DEF SameRequest, TypeOK, Reply
  <2> QED
    BY <1>5, <2>1, OthersKeep
<1>12. Handled(r)'
  <2>1. grant'[r] = NoGrant /\ pc'[r] = "reply" /\ answer'[r] \in {"refused", "granted"}
    BY <1>1, <1>3, <1>6 DEF Handled, Reply, TypeOK
  <2> QED
    BY <2>1 DEF Handled
<1> QED
  BY <1>8, <1>9, <1>10, <1>11, <1>12 DEF ApeInv, Granted

\* Finish: the client may learn a token.
LEMMA FinishStep ==
  ASSUME ApeInv, NEW r \in Thread, Finish(r)
  PROVE  ApeInv'
<1> USE ApeAssumption, ApeNullAssumption
<1>1. TypeOK /\ Handled(r)
  BY DEF ApeInv
<1>2. /\ told \subseteq told' /\ told' \subseteq Token
      /\ \A t \in told' \ told : minted[t] # NoPending
  BY <1>1 DEF Finish, Handled, TypeOK
<1>3. TypeOK'
  BY <1>1, <1>2 DEF TypeOK, Finish, NoCall, Answer, store
<1>4. Remembers
  BY <1>2 DEF Remembers, Finish
<1>5. \A t \in Token : Question(t)'
  BY <1>2 DEF ApeInv, Question, Finish, store
<1>6. \A c \in Call : Granted(c)'
  BY <1>2 DEF ApeInv, Granted, Yes, Finish, store
<1>7. \A q \in Thread \ {r} : Handled(q)'
  <2>1. \A q \in Thread \ {r} : SameRequest(q)
    BY <1>1 DEF SameRequest, Finish, TypeOK
  <2> QED
    BY <1>4, <2>1, OthersKeep
<1>8. Handled(r)'
  BY <1>1 DEF Handled, Finish, TypeOK
<1> QED
  BY <1>3, <1>5, <1>6, <1>7, <1>8 DEF ApeInv

\* Everything else is the clock, clients that give up or die, or no step at all.
LEMMA IdleStep ==
  ASSUME ApeInv,
         \/ \E r \in Thread : GiveUp(r)
         \/ ClientsDie
         \/ Tick
         \/ UNCHANGED vars
  PROVE  ApeInv'
<1>1. UNCHANGED <<store, history, pc, call, token, answer, grant>>
  BY DEF GiveUp, ClientsDie, Tick, vars, request
<1>2. TypeOK'
  <2>1. now' \in 0..MaxTime
    <3>1. now \in 0..MaxTime /\ MaxTime \in Nat
      BY ApeAssumption DEF ApeInv, TypeOK
    <3>2. now' = now \/ (now < MaxTime /\ now' = now + 1)
      BY DEF GiveUp, ClientsDie, Tick, vars
    <3> QED
      BY <3>1, <3>2
  <2>2. listening' \in [Thread -> BOOLEAN]
    <3>1. listening \in [Thread -> BOOLEAN]
      BY DEF ApeInv, TypeOK
    <3> QED
      BY <3>1 DEF GiveUp, ClientsDie, Tick, vars, request
  <2> QED
    BY <1>1, <2>1, <2>2 DEF ApeInv, TypeOK, store, history
<1>3. \A t \in Token : Question(t)'
  BY <1>1 DEF ApeInv, Question, store, history
<1>4. (\A c \in Call : Granted(c)') /\ (\A r \in Thread : Handled(r)')
  BY <1>1 DEF ApeInv, Granted, Handled, Yes, store, history
<1> QED
  BY <1>2, <1>3, <1>4 DEF ApeInv

LEMMA NextInv == ApeInv /\ [Next]_vars => ApeInv'
<1> SUFFICES ASSUME ApeInv, [Next]_vars PROVE ApeInv'
  OBVIOUS
<1> USE ApeAssumption, ApeNullAssumption
<1>1. ASSUME NEW r \in Thread, NEW c \in Call, PostVerify(r, c) PROVE ApeInv'
  BY <1>1, SendStep DEF PostVerify
<1>2. ASSUME NEW r \in Thread, NEW t \in Token \cup {NoToken}, PostApprove(r, t) PROVE ApeInv'
  <2>1. NoCall \in Call
    BY DEF NoCall
  <2> QED
    BY <1>2, <2>1, SendStep DEF PostApprove
<1>3. ASSUME NEW r \in Thread, Handle(r) PROVE ApeInv'
  BY <1>3, AnswerStep, ConsumeStep, MintStep, ApproveStep, FinishStep DEF Handle
<1>4. CASE (\E r \in Thread : GiveUp(r)) \/ ClientsDie \/ Tick \/ UNCHANGED vars
  BY <1>4, IdleStep
<1> QED
  BY <1>1, <1>2, <1>3, <1>4 DEF Next

LEMMA ApeInvCorrect == Spec => []ApeInv
BY InitInv, NextInv, PTL DEF Spec

-----------------------------------------------------------------------------
(* The cap. *)

\* A store that holds nothing new holds no more than before.
LEMMA HeldShrinks ==
  ASSUME Held(approvals') \subseteq Held(approvals), PendingCapped
  PROVE  PendingCapped'
<1>1. IsFiniteSet(Held(approvals)) /\ IsFiniteSet(Held(approvals'))
  BY FS_Subset, ApeAssumption DEF Held
<1>2. /\ Cardinality(Held(approvals')) <= Cardinality(Held(approvals))
      /\ Cardinality(Held(approvals')) \in Nat /\ Cardinality(Held(approvals)) \in Nat
  BY <1>1, FS_Subset, FS_CardinalityType
<1> QED
  BY <1>2, ApeAssumption DEF PendingCapped

\* Mint adds one question to a store that has room.
LEMMA MintUnderCap ==
  ASSUME ApeInv, NEW r \in Thread, Mint(r)
  PROVE  PendingCapped'
<1>1. PICK t \in Token :
        approvals' = [Kept EXCEPT ![t] = [call |-> call[r], issued |-> now]]
  BY DEF Mint
<1>2. Kept \in [Token -> PendingRec \cup {NoPending}]
  BY PruneFacts DEF ApeInv
<1>3. Held(approvals') \subseteq Held(Kept) \cup {t}
  BY <1>1, <1>2 DEF Held
<1>4. IsFiniteSet(Held(Kept)) /\ Cardinality(Held(Kept)) \in Nat
  BY FS_Subset, FS_CardinalityType, ApeAssumption DEF Held
<1>5. /\ IsFiniteSet(Held(Kept) \cup {t})
      /\ Cardinality(Held(Kept) \cup {t}) =
           IF t \in Held(Kept) THEN Cardinality(Held(Kept)) ELSE Cardinality(Held(Kept)) + 1
  BY <1>4, FS_AddElement
<1>6. Cardinality(Held(Kept)) < MaxPending
  BY <1>4, ApeAssumption DEF Mint, Full
<1>7. /\ Cardinality(Held(approvals')) <= Cardinality(Held(Kept) \cup {t})
      /\ Cardinality(Held(approvals')) \in Nat
  BY <1>3, <1>5, FS_Subset, FS_CardinalityType
<1>8. Cardinality(Held(approvals')) <= MaxPending
  BY <1>4, <1>5, <1>6, <1>7, ApeAssumption
<1> QED
  BY <1>8 DEF PendingCapped

LEMMA CapNext == ApeInv /\ PendingCapped /\ [Next]_vars => PendingCapped'
<1> SUFFICES ASSUME ApeInv, PendingCapped, [Next]_vars PROVE PendingCapped'
  OBVIOUS
<1>1. ASSUME NEW r \in Thread, Mint(r) PROVE PendingCapped'
  BY <1>1, MintUnderCap
<1>2. CASE ~\E r \in Thread : Mint(r)
  <2>1. TypeOK
    BY DEF ApeInv
  <2>2. \A t \in Token : Kept[t] # NoPending => approvals[t] # NoPending
    BY <2>1, PruneFacts
  <2>3. CASE UNCHANGED approvals
    BY <2>3, HeldShrinks DEF Held
  <2>4. CASE approvals' = Kept
    BY <2>2, <2>4, HeldShrinks DEF Held
  <2>5. ASSUME NEW r \in Thread, Approve(r) PROVE PendingCapped'
    <3>1. approvals' = [Kept EXCEPT ![token[r]] = NoPending]
      BY <2>5 DEF Approve
    <3>2. \A t \in Token : approvals'[t] # NoPending => Kept[t] # NoPending
      BY <2>1, <3>1, PruneFacts
    <3> QED
      BY <2>2, <3>2, HeldShrinks DEF Held
  <2> QED
    BY <1>2, <2>3, <2>4, <2>5 DEF Next, Handle, PostVerify, PostApprove, Send, GiveUp, ClientsDie, Tick,
         Malformed, Consume, Judge, RefuseMint, RefuseApproval, Finish, vars, store
<1> QED
  BY <1>1, <1>2

LEMMA CapInit == Init => PendingCapped
<1> SUFFICES ASSUME Init PROVE PendingCapped
  OBVIOUS
<1>1. Held(approvals) = {}
  BY DEF Init, Held
<1> QED
  BY <1>1, FS_EmptySet, ApeAssumption DEF PendingCapped

\* An answer "flood" is given by RefuseMint alone.
LEMMA FloodIsRefusedMint ==
  ASSUME ApeInv, [Next]_vars, NEW r \in Thread, answer[r] # "flood", answer'[r] = "flood"
  PROVE  RefuseMint(r)
<1>1. answer \in [Thread -> Answer]
  BY DEF ApeInv, TypeOK
<1>2. \A q \in Thread, a \in Answer \ {"flood"} : ~Reply(q, a)
  BY <1>1 DEF Reply
<1>3. \A c \in Call : EvaluatePolicy(c) \in {"allow", "deny", "require_approval"}
  BY DEF EvaluatePolicy
<1>4. {"allow", "deny", "ask", "granted", "refused"} \subseteq Answer \ {"flood"}
  BY DEF Answer
<1>5. answer' # answer
  OBVIOUS
<1>6. ~\E q \in Thread : Malformed(q) \/ Consume(q) \/ Mint(q) \/ RefuseApproval(q) \/ Approve(q)
  BY <1>2, <1>4 DEF Malformed, Consume, Mint, RefuseApproval, Approve
<1>7. ~\E q \in Thread : Judge(q)
  <2>1. \A q \in Thread : call[q] \in Call
    BY DEF ApeInv, TypeOK
  <2> QED
    BY <1>2, <1>3, <1>4, <1>5, <2>1 DEF Judge
<1>8. ~\E q \in Thread : Finish(q)
  BY <1>1 DEF Finish
<1>9. ASSUME NEW q \in Thread, RefuseMint(q) PROVE q = r
  BY <1>1, <1>9 DEF RefuseMint, Reply
<1>10. PICK q \in Thread : RefuseMint(q)
  BY <1>5, <1>6, <1>7, <1>8 DEF Next, Handle, PostVerify, PostApprove, Send, GiveUp, ClientsDie, Tick, vars, request
<1> QED
  BY <1>9, <1>10

-----------------------------------------------------------------------------
(* The theorems. *)

\* The store, the requests and the history stay in their domains, and only a
\* question and its approval carry a token.
THEOREM ApeTypeCorrect == Spec => []TypeOK
<1>1. ApeInv => TypeOK
  BY DEF ApeInv
<1> QED
  BY <1>1, ApeInvCorrect, PTL

\* For any number of handlers, retries and timeouts, a yes allows at most once.
THEOREM ApeOneShotCorrect == Spec => []OneShot
<1>1. ApeInv => OneShot
  BY DEF ApeInv, Question, OneShot
<1> QED
  BY <1>1, ApeInvCorrect, PTL

\* What needs a human is allowed only on a yes to that call, given in time.
THEOREM AllowIsApprovedCorrect == Spec => []AllowIsApproved
<1>1. ApeInv => AllowIsApproved
  BY DEF ApeInv, Handled, Yes, AllowIsApproved
<1> QED
  BY <1>1, ApeInvCorrect, PTL

\* A question that is held can be answered.
THEOREM AnswerableCorrect == Spec => []PendingIsAnswerable
<1>1. ApeInv => PendingIsAnswerable
  BY DEF ApeInv, Question, PendingIsAnswerable
<1> QED
  BY <1>1, ApeInvCorrect, PTL

\* The store never holds more questions than MAX_PENDING_APPROVALS.
THEOREM ApeCapCorrect == Spec => []PendingCapped
BY ApeInvCorrect, CapInit, CapNext, PTL DEF Spec

\* A mint is refused only because of as many questions as the cap that are in time.
THEOREM RefusedCorrect == Spec => RefusedOnlyWhenFull
<1>1. ASSUME ApeInv, [Next]_vars, NEW r \in Thread, answer[r] # "flood", answer'[r] = "flood"
      PROVE  Cardinality({t \in Token : approvals'[t] # NoPending /\ ~Expired(t, now)})
               >= MaxPending
  <2>1. RefuseMint(r)
    BY <1>1, FloodIsRefusedMint
  <2>2. \A t \in Token : Kept[t] # NoPending => ~Expired(t, now)
    BY DEF Kept
  <2>3. {t \in Token : approvals'[t] # NoPending /\ ~Expired(t, now)} = Held(Kept)
    BY <2>1, <2>2 DEF RefuseMint, Held
  <2> QED
    BY <2>1, <2>3 DEF RefuseMint, Full
<1>2. ApeInv /\ [Next]_vars =>
        [\A r \in Thread : answer[r] # "flood" /\ answer'[r] = "flood" =>
           Cardinality({t \in Token : approvals'[t] # NoPending /\ ~Expired(t, now)})
             >= MaxPending]_vars
  BY <1>1
<1> QED
  BY <1>2, ApeInvCorrect, PTL DEF Spec, RefusedOnlyWhenFull

=============================================================================
