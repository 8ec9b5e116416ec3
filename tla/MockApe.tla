------------------------------ MODULE MockApe ------------------------------
(***************************************************************************)
(* The approval store of phoenix_gate/mock_ape_server.py behind the HTTP    *)
(* client of ape_client.py.  Every request has a handler thread of its own  *)
(* (ThreadingHTTPServer); a critical section under STATE.lock is one action. *)
(* A client that waited for its timeout gives up, but the handler goes on:  *)
(* what it does to the store stands, and only its reply is lost.            *)
(*                                                                         *)
(* A Call is what _args_fingerprint tells apart.  The audit list is written *)
(* and never read, and is left out.                                         *)
(***************************************************************************)
EXTENDS Naturals, FiniteSets

CONSTANTS
  Thread,       \* handler threads, one per request under way
  Call,         \* bodies of /verify, up to their fingerprint
  Token,        \* values secrets.token_urlsafe can produce
  Traits,       \* what evaluate_policy recognises in a call
  MaxPending,   \* MAX_PENDING_APPROVALS
  Ttl,          \* APPROVAL_TTL_S
  MaxTime,      \* bound: readings of the clock
  NoToken, NoPending, NoGrant   \* absent values

Trait == {"malformed", "empty", "destructive", "invents_sku", "escalates"}
PendingRec == [call : Call, issued : Nat]
GrantRec == [token : Token, granted : Nat]
Answer == {"none", "allow", "deny", "flood", "ask", "granted", "refused"}

ASSUME ApeAssumption ==
  /\ Call # {}
  /\ Traits \in [Call -> SUBSET Trait]
  /\ IsFiniteSet(Token)
  /\ MaxPending \in Nat \ {0}
  /\ Ttl \in Nat /\ MaxTime \in Nat

ASSUME ApeNullAssumption ==
  /\ NoToken \notin Token
  /\ NoPending \notin PendingRec
  /\ NoGrant \notin GrantRec

VARIABLES
  approvals,   \* STATE.approvals
  grants,      \* STATE.grants, keyed by fingerprint
  used,        \* STATE.used_tokens
  now,         \* time.time(), in whole steps
  \* a request: where its handler stands, what it asks, whether its client waits
  pc, call, token, answer, grant, listening,
  \* history, read by no guard but freshness of a minted token
  minted,      \* what each token was minted for, and when
  told,        \* tokens some client was given
  allowedBy    \* how many allow answers each token is behind

store == <<approvals, grants, used>>
request == <<pc, call, token, answer, grant, listening>>
history == <<minted, told, allowedBy>>
vars == <<store, now, request, history>>

NoCall == CHOOSE c \in Call : TRUE

Init ==
  /\ approvals = [t \in Token |-> NoPending]
  /\ grants = [c \in Call |-> NoGrant]
  /\ used = {}
  /\ now = 0
  /\ pc = [r \in Thread |-> "idle"]
  /\ call = [r \in Thread |-> NoCall]
  /\ token = [r \in Thread |-> NoToken]
  /\ answer = [r \in Thread |-> "none"]
  /\ grant = [r \in Thread |-> NoGrant]
  /\ listening = [r \in Thread |-> FALSE]
  /\ minted = [t \in Token |-> NoPending]
  /\ told = {}
  /\ allowedBy = [t \in Token |-> 0]

-----------------------------------------------------------------------------
(* Requests of the client. *)

Send(r, at, c, t) ==
  /\ pc[r] = "idle"
  /\ pc' = [pc EXCEPT ![r] = at]
  /\ call' = [call EXCEPT ![r] = c]
  /\ token' = [token EXCEPT ![r] = t]
  /\ listening' = [listening EXCEPT ![r] = TRUE]
  /\ UNCHANGED <<store, now, answer, grant, history>>

PostVerify(r, c) == Send(r, "verify", c, NoToken)

\* A token is approved by someone who saw it, as often as they like.  NoToken stands
\* for one this server never issued.
PostApprove(r, t) == t \in told \cup {NoToken} /\ Send(r, "approve", NoCall, t)

\* urlopen times out: the client raises, the handler does not notice.
GiveUp(r) ==
  /\ listening[r]
  /\ listening' = [listening EXCEPT ![r] = FALSE]
  /\ UNCHANGED <<store, now, pc, call, token, answer, grant, history>>

\* The clients' process dies with every request it waits for.
ClientsDie ==
  /\ listening' = [r \in Thread |-> FALSE]
  /\ UNCHANGED <<store, now, pc, call, token, answer, grant, history>>

-----------------------------------------------------------------------------
(* Handlers. *)

Expired(t, at) == approvals[t] # NoPending /\ at > approvals[t].issued + Ttl

\* _prune_expired_approvals: what is left, and what is used, after it.
Kept == [t \in Token |-> IF Expired(t, now) THEN NoPending ELSE approvals[t]]
Pruned == {t \in Token : Expired(t, now)}

EvaluatePolicy(c) ==
  IF Traits[c] \cap {"empty", "destructive", "invents_sku"} # {} THEN "deny"
  ELSE IF "escalates" \in Traits[c] THEN "require_approval"
  ELSE "allow"

Reply(r, a) ==
  /\ answer' = [answer EXCEPT ![r] = a]
  /\ pc' = [pc EXCEPT ![r] = "reply"]

\* A body of the wrong shape is refused before the store is touched.
Malformed(r) ==
  /\ pc[r] = "verify" /\ "malformed" \in Traits[call[r]]
  /\ Reply(r, "deny")
  /\ UNCHANGED <<store, now, call, token, grant, listening, history>>

\* Mutant: STATE.grants.get instead of pop
ConsumePeek(r) ==
  LET g == grants[call[r]] IN
  /\ pc[r] = "verify" /\ "malformed" \notin Traits[call[r]]
  /\ g # NoGrant
  /\ approvals' = Kept /\ used' = used \cup Pruned
  /\ grant' = [grant EXCEPT ![r] = g]
  /\ allowedBy' = [allowedBy EXCEPT ![g.token] = @ + 1]
  /\ Reply(r, "allow")
  /\ UNCHANGED <<grants, now, call, token, listening, minted, told>>

\* The grant is popped whoever asks, before the policy is looked at.
Consume(r) ==
  LET g == grants[call[r]] IN
  /\ pc[r] = "verify" /\ "malformed" \notin Traits[call[r]]
  /\ g # NoGrant
  /\ approvals' = Kept /\ used' = used \cup Pruned
  /\ grants' = [grants EXCEPT ![call[r]] = NoGrant]
  /\ grant' = [grant EXCEPT ![r] = g]
  /\ allowedBy' = [allowedBy EXCEPT ![g.token] = @ + 1]
  /\ Reply(r, "allow")
  /\ UNCHANGED <<now, call, token, listening, minted, told>>

\* No grant: the policy decides, outside the lock.
Judge(r) ==
  /\ pc[r] = "verify" /\ "malformed" \notin Traits[call[r]]
  /\ grants[call[r]] = NoGrant
  /\ approvals' = Kept /\ used' = used \cup Pruned
  /\ IF EvaluatePolicy(call[r]) = "require_approval"
       THEN pc' = [pc EXCEPT ![r] = "mint"] /\ UNCHANGED answer
       ELSE Reply(r, EvaluatePolicy(call[r]))
  /\ UNCHANGED <<grants, now, call, token, grant, listening, history>>

Held(a) == {t \in Token : a[t] # NoPending}
\* Mutant: > for >= at the cap
FullAbove(a) == Cardinality(Held(a)) > MaxPending

Full(a) == Cardinality(Held(a)) >= MaxPending

\* Mutant: The mint counts without pruning first.
RefuseMintUnpruned(r) ==
  /\ pc[r] = "mint"
  /\ Full(approvals)
  /\ Reply(r, "flood")
  /\ UNCHANGED <<approvals, used, grants, now, call, token, grant, listening, history>>

\* Mutant: The token is put into the response before the cap is looked at.
RefuseMintWithToken(r) ==
  /\ pc[r] = "mint"
  /\ Full(Kept)
  /\ approvals' = Kept /\ used' = used \cup Pruned
  /\ \E t \in {u \in Token : minted[u] = NoPending} : token' = [token EXCEPT ![r] = t]
  /\ Reply(r, "flood")
  /\ UNCHANGED <<grants, now, call, grant, listening, history>>

\* status 429
RefuseMint(r) ==
  /\ pc[r] = "mint"
  /\ Full(Kept)
  /\ approvals' = Kept /\ used' = used \cup Pruned
  /\ Reply(r, "flood")
  /\ UNCHANGED <<grants, now, call, token, grant, listening, history>>

Mint(r) ==
  /\ pc[r] = "mint"
  /\ ~Full(Kept)
  /\ \E t \in {u \in Token : minted[u] = NoPending} :
       /\ approvals' = [Kept EXCEPT ![t] = [call |-> call[r], issued |-> now]]
       /\ minted' = [minted EXCEPT ![t] = [call |-> call[r], issued |-> now]]
       /\ token' = [token EXCEPT ![r] = t]
  /\ used' = used \cup Pruned
  /\ Reply(r, "ask")
  /\ UNCHANGED <<grants, now, call, grant, listening, told, allowedBy>>

\* Tokens that get past the checks of handle_approve.
Answerable == {t \in Token : t \notin used \cup Pruned /\ Kept[t] # NoPending}

\* 409 for a used token, 404 for an unknown one (400 for one no server would issue).
RefuseApproval(r) ==
  /\ pc[r] = "approve"
  /\ token[r] \notin Answerable
  /\ approvals' = Kept /\ used' = used \cup Pruned
  /\ Reply(r, "refused")
  /\ UNCHANGED <<grants, now, call, token, grant, listening, history>>

\* Mutant: The check after the prune is taken for redundant.
ApproveUnchecked(r) ==
  LET t == token[r] IN
  /\ pc[r] = "approve"
  /\ t \in Answerable
  /\ now' \in {now, now + 1} /\ now' <= MaxTime
  /\ approvals' = [Kept EXCEPT ![t] = NoPending]
  /\ used' = used \cup Pruned \cup {t}
  /\ grants' = [grants EXCEPT ![approvals[t].call] = [token |-> t, granted |-> now']]
  /\ Reply(r, "granted")
  /\ UNCHANGED <<call, token, grant, listening, history>>

\* Mutant: STATE.approvals.get instead of pop
ApproveKeepsPending(r) ==
  LET t == token[r] IN
  /\ pc[r] = "approve"
  /\ t \in Answerable
  /\ now' \in {now, now + 1} /\ now' <= MaxTime
  /\ approvals' = Kept
  /\ used' = used \cup Pruned \cup {t}
  /\ grants' = [grants EXCEPT ![approvals[t].call] = [token |-> t, granted |-> now']]
  /\ Reply(r, "granted")
  /\ UNCHANGED <<call, token, grant, listening, history>>

\* The clock is read again after the prune, and may have moved.  410, or the grant.
Approve(r) ==
  LET t == token[r] IN
  /\ pc[r] = "approve"
  /\ t \in Answerable
  /\ now' \in {now, now + 1} /\ now' <= MaxTime
  /\ approvals' = [Kept EXCEPT ![t] = NoPending]
  /\ used' = used \cup Pruned \cup {t}
  /\ IF Expired(t, now')
       THEN Reply(r, "refused") /\ UNCHANGED grants
       ELSE /\ grants' = [grants EXCEPT ![approvals[t].call] = [token |-> t, granted |-> now']]
            /\ Reply(r, "granted")
  /\ UNCHANGED <<call, token, grant, listening, history>>

\* The reply goes to the client, if it still waits, and the thread ends.
Finish(r) ==
  /\ pc[r] = "reply"
  /\ told' = IF listening[r] /\ answer[r] = "ask" THEN told \cup {token[r]} ELSE told
  /\ pc' = [pc EXCEPT ![r] = "idle"]
  /\ call' = [call EXCEPT ![r] = NoCall]
  /\ token' = [token EXCEPT ![r] = NoToken]
  /\ answer' = [answer EXCEPT ![r] = "none"]
  /\ grant' = [grant EXCEPT ![r] = NoGrant]
  /\ listening' = [listening EXCEPT ![r] = FALSE]
  /\ UNCHANGED <<store, now, minted, allowedBy>>

Handle(r) ==
  \/ Malformed(r) \/ Consume(r) \/ Judge(r)
  \/ RefuseMint(r) \/ Mint(r)
  \/ RefuseApproval(r) \/ Approve(r)
  \/ Finish(r)

Tick ==
  /\ now < MaxTime
  /\ now' = now + 1
  /\ UNCHANGED <<store, request, history>>

Next ==
  \/ \E r \in Thread, c \in Call : PostVerify(r, c)
  \/ \E r \in Thread, t \in Token \cup {NoToken} : PostApprove(r, t)
  \/ \E r \in Thread : GiveUp(r) \/ Handle(r)
  \/ ClientsDie
  \/ Tick

Spec == Init /\ [][Next]_vars

-----------------------------------------------------------------------------
(* Properties. *)

\* The type of every variable.  Only a question and its approval carry a token, so
\* the refusal at the cap gives none away.
TypeOK ==
  /\ approvals \in [Token -> PendingRec \cup {NoPending}]
  /\ grants \in [Call -> GrantRec \cup {NoGrant}]
  /\ used \subseteq Token
  /\ now \in 0..MaxTime
  /\ pc \in [Thread -> {"idle", "verify", "mint", "approve", "reply"}]
  /\ call \in [Thread -> Call]
  /\ token \in [Thread -> Token \cup {NoToken}]
  /\ answer \in [Thread -> Answer]
  /\ grant \in [Thread -> GrantRec \cup {NoGrant}]
  /\ listening \in [Thread -> BOOLEAN]
  /\ minted \in [Token -> PendingRec \cup {NoPending}]
  /\ told \subseteq Token
  /\ allowedBy \in [Token -> Nat]
  /\ \A r \in Thread :
       /\ token[r] # NoToken => pc[r] = "approve" \/ answer[r] \in {"ask", "granted", "refused"}
       /\ answer[r] \in {"ask", "granted"} => token[r] # NoToken

\* A yes is good for one allow, however many copies of the request are under way
\* because their clients gave up and tried again.
OneShot == \A t \in Token : allowedBy[t] <= 1

\* What needs a human is allowed only on a yes that some client could have passed on,
\* given to a token of the very same call within its TTL.
AllowIsApproved ==
  \A r \in Thread : answer[r] = "allow" =>
    \/ grant[r] = NoGrant /\ EvaluatePolicy(call[r]) = "allow"
    \/ /\ grant[r] # NoGrant
       /\ grant[r].token \in told
       /\ minted[grant[r].token].call = call[r]
       /\ grant[r].granted <= minted[grant[r].token].issued + Ttl

\* The store never holds more questions than its cap (MAX_PENDING_APPROVALS).
PendingCapped == Cardinality(Held(approvals)) <= MaxPending

\* A question the store holds can still be answered: its token is not marked used.
PendingIsAnswerable == \A t \in Token : approvals[t] # NoPending => t \notin used

\* Only questions that are still alive fill the store: a mint is refused because of
\* them, never because of what nobody answered in time.
RefusedOnlyWhenFull ==
  [][\A r \in Thread : answer[r] # "flood" /\ answer'[r] = "flood" =>
       Cardinality({t \in Token : approvals'[t] # NoPending /\ ~Expired(t, now)}) >= MaxPending]_vars

=============================================================================
