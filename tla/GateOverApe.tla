---------------------------- MODULE GateOverApe ----------------------------
(***************************************************************************)
(* The gate of PhoenixGate over the APE of MockApe: what the gate takes for  *)
(* any reply is here the reply of a handler, carried by the HTTP client of   *)
(* phoenix_gate/ape_client.py.  A request that times out is an ApeError for  *)
(* the gate and leaves its handler running; a hard deny may ask APE for an    *)
(* annotation and pays no attention to the answer.  The Founder answers a    *)
(* question where it was put: approve_gate_token for a local token,          *)
(* ApeClient.approve for one of APE.                                        *)
(***************************************************************************)
EXTENDS PhoenixGate

CONSTANTS
  Handler,      \* handler threads of APE
  Remote,       \* tokens of APE
  Traits,       \* what evaluate_policy of APE recognises in a call
  MaxPending,   \* MAX_PENDING_APPROVALS
  ApeTtl,       \* APPROVAL_TTL_S
  NoHandler, NoRemotePending, NoRemoteGrant   \* absent values

ASSUME LinkAssumption == NoHandler \notin Handler /\ NoToken \notin Remote

VARIABLES
  asked,     \* the handler that a thread of the gate waits for
  carried,   \* the APE token in the hands of a thread of the gate
  \* MockApe
  approvals, apeGrants, apeUsed, apePc, apeCall, apeToken, apeAnswer, apeGrant,
  listening, apeMinted, apeTold, apeAllowedBy,
  \* history, but for the tokens that were shown
  shown,     \* APE tokens that a caller of the gate was given
  yes,       \* APE tokens that the Founder's yes was accepted for
  passed     \* allow answers that calls under an ask lock were given

link == <<asked, carried>>
ape == <<approvals, apeGrants, apeUsed, apePc, apeCall, apeToken, apeAnswer,
         apeGrant, listening, apeMinted, apeTold, apeAllowedBy>>
account == <<shown, yes, passed>>
cvars == <<vars, link, ape, account>>

APE == INSTANCE MockApe WITH
  Thread <- Handler, Token <- Remote, Ttl <- ApeTtl,
  NoPending <- NoRemotePending, NoGrant <- NoRemoteGrant,
  grants <- apeGrants, used <- apeUsed, pc <- apePc, call <- apeCall,
  token <- apeToken, answer <- apeAnswer, grant <- apeGrant,
  minted <- apeMinted, told <- apeTold, allowedBy <- apeAllowedBy

\* What MockApe assumes of its parameters.
ASSUME StoreAssumption ==
  /\ Traits \in [Call -> SUBSET APE!Trait]
  /\ IsFiniteSet(Remote)
  /\ MaxPending \in Nat \ {0} /\ ApeTtl \in Nat
  /\ NoRemotePending \notin APE!PendingRec /\ NoRemoteGrant \notin APE!GrantRec

CInit ==
  /\ Init
  /\ APE!Init
  /\ asked = [w \in Worker |-> NoHandler]
  /\ carried = [w \in Worker |-> NoToken]
  /\ shown = {} /\ yes = {}
  /\ passed = [c \in Call |-> 0]

-----------------------------------------------------------------------------
(* ApeClient.verify. *)

Post(w) ==
  \E r \in Handler :
    /\ APE!PostVerify(r, call[w])
    /\ asked' = [asked EXCEPT ![w] = r]

\* gate_tool_call asks APE for its verdict, or for the annotation of a hard deny.
Ask(w) ==
  /\ AskApe(w) \/ (HardDeny(w) /\ pc'[w] = "annotate")
  /\ Post(w)
  /\ UNCHANGED <<carried, account>>

\* Mutant: every allow is taken for the consumption of a grant.
ReplyOfAllow(r) ==
  [decision |-> apeAnswer[r],
   token |-> IF apeAnswer[r] = "ask" THEN ApeToken ELSE NoToken,
   consumed |-> apeAnswer[r] = "allow"]

\* A reply with status 200, normalised.
ReplyOf(r) ==
  [decision |-> apeAnswer[r],
   token |-> IF apeAnswer[r] = "ask" THEN ApeToken ELSE NoToken,
   consumed |-> apeGrant[r] # NoRemoteGrant]

\* 400 for a malformed body, 429 at the cap: the client raises ApeError.
StatusFails(r) == apeAnswer[r] = "flood" \/ "malformed" \in Traits[apeCall[r]]

\* The handler's reply reaches the gate.  The mock always replies with an object; one
\* that is none, whose handling raises, is a Raise of PhoenixGate.
Deliver(w) ==
  LET r == asked[w] IN
  /\ r # NoHandler
  /\ APE!Finish(r)
  /\ IF pc[w] = "annotate" THEN Annotate(w)
     ELSE IF StatusFails(r) THEN VerifyFails(w)
     ELSE VerifyReply(w, ReplyOf(r))
  /\ asked' = [asked EXCEPT ![w] = NoHandler]
  /\ carried' = [carried EXCEPT ![w] = IF pc[w] = "verify" THEN apeToken[r] ELSE NoToken]
  /\ UNCHANGED account

\* Mutant: the thread goes on as if it still waited.
TimeOutStillWaits(w) ==
  LET r == asked[w] IN
  /\ r # NoHandler
  /\ APE!GiveUp(r)
  /\ IF pc[w] = "annotate" THEN Annotate(w) ELSE VerifyFails(w)
  /\ UNCHANGED <<link, account>>

\* urlopen times out, whatever the handler has done by then; a connection that is
\* refused is a request whose handler does nothing, before or after.
TimeOut(w) ==
  LET r == asked[w] IN
  /\ r # NoHandler
  /\ APE!GiveUp(r)
  /\ IF pc[w] = "annotate" THEN Annotate(w) ELSE VerifyFails(w)
  /\ asked' = [asked EXCEPT ![w] = NoHandler]
  /\ UNCHANGED <<carried, account>>

-----------------------------------------------------------------------------
(* Steps of one side alone. *)

\* A handler works; once nobody waits for it, it also ends by itself.
Serve(r) ==
  /\ \/ apePc[r] # "reply"
     \/ \A w \in Worker : asked[w] # r
  /\ APE!Handle(r)
  /\ yes' = IF apePc[r] = "approve" /\ apeAnswer'[r] = "granted" THEN yes \cup {apeToken[r]} ELSE yes
  /\ UNCHANGED <<store, restarts, frame, history, link, shown, passed>>

\* ApeClient.approve with a token that the gate has shown, as often as one likes.
ApproveAtApe(t) ==
  /\ t \in shown
  /\ \E r \in Handler : APE!PostApprove(r, t)
  /\ UNCHANGED <<store, restarts, frame, history, link, account>>

\* The rest of gate_tool_call.
Inside(w) ==
  /\ \/ ConsumeGrant(w)
     \/ HardDeny(w) /\ pc'[w] = "receipt"
     \/ MintRefused(w) \/ \E t \in Token : Mint(w, t)
     \/ Prompt(w) \/ PromptRefused(w)
  /\ UNCHANGED <<link, ape, account>>

Enter(w, c, h) == Begin(w, c, h) /\ UNCHANGED <<link, ape, account>>

\* The caller has its answer, and with it the question that APE asked.
Leave(w) ==
  /\ Return(w)
  /\ shown' = IF token[w] = ApeToken THEN shown \cup {carried[w]} ELSE shown
  /\ passed' = IF decision[w] = "allow" /\ hint[w] # "none"
                 THEN [passed EXCEPT ![call[w]] = @ + 1] ELSE passed
  /\ carried' = [carried EXCEPT ![w] = NoToken]
  /\ UNCHANGED <<ape, asked, yes>>

\* A policy lookup raises, or the receipt cannot be written.
Fail(w) ==
  /\ pc[w] \in {"mint", "prompt", "receipt"}
  /\ Raise(w)
  /\ carried' = [carried EXCEPT ![w] = NoToken]
  /\ UNCHANGED <<ape, asked, account>>

\* The process of the gate dies, APE goes on.
GateRestarts ==
  /\ Restart
  /\ asked' = [w \in Worker |-> NoHandler]
  /\ carried' = [w \in Worker |-> NoToken]
  /\ APE!ClientsDie
  /\ UNCHANGED account

Alone == (Founder \/ Tick) /\ UNCHANGED <<link, ape, account>>

CNext ==
  \/ \E w \in Worker, c \in Call, h \in Hint : Enter(w, c, h)
  \/ \E w \in Worker : Ask(w) \/ Deliver(w) \/ TimeOut(w) \/ Inside(w) \/ Leave(w) \/ Fail(w)
  \/ \E r \in Handler : Serve(r)
  \/ \E t \in Remote : ApproveAtApe(t)
  \/ Alone
  \/ GateRestarts

CSpec == CInit /\ [][CNext]_cvars

-----------------------------------------------------------------------------
(* Properties. *)

\* The domains of the link, and who waits for whom: a handler whose reply is awaited
\* by a thread of the gate works on the call of that thread.
LinkTypeOK ==
  /\ asked \in [Worker -> Handler \cup {NoHandler}]
  /\ carried \in [Worker -> Remote \cup {NoToken}]
  /\ shown \subseteq Remote /\ yes \subseteq Remote
  /\ passed \in [Call -> Nat]
  /\ \A w \in Worker : token[w] = ApeToken => carried[w] \in Remote
  /\ \A w \in Worker : asked[w] # NoHandler =>
       /\ pc[w] \in {"verify", "annotate"}
       /\ apePc[asked[w]] \in {"verify", "mint", "reply"} /\ listening[asked[w]]
       /\ apeCall[asked[w]] = call[w]

YesTo(c) ==
  Cardinality({t \in Token : agreed[t] # {} /\ minted[t].call = c})
    + Cardinality({t \in yes : apeMinted[t].call = c})

\* A call that needs a human passes the gate no more often than the Founder said yes
\* to it, whichever of the two stores held the question, and whatever requests timed
\* out, were asked again or were served after their client had gone.
EveryAllowHasItsYes == \A c \in Call : passed[c] <= YesTo(c)

=============================================================================
