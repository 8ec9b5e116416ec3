--------------------------- MODULE SessionMemory ---------------------------
(***************************************************************************)
(* The session memory of phoenix_gate/phoenix_locks.py as classify_lock uses *)
(* it: a rolling window of the session's recent calls and a taint set by      *)
(* secret reads, scanned before a call is judged and extended after.  The     *)
(* two scans and the observation are separate critical sections of            *)
(* _SESSION_LOCK, so calls of one session that overlap in time interleave      *)
(* between them.                                                              *)
(*                                                                         *)
(* What the regular expressions see in a call is abstracted to membership in  *)
(* the constant sets below; the session is the one all calls name.  A call    *)
(* without session_id has no memory and is judged by Rule alone; one with an  *)
(* empty or non-ASCII name, or a NUL byte, is denied before the memory is      *)
(* touched.  Neither is a Call here.                                          *)
(***************************************************************************)
EXTENDS Naturals, Sequences, FiniteSets

CONSTANTS
  Worker,       \* threads that may be inside classify_lock
  Call,         \* tool calls
  Bypass,       \* ask to skip the gate
  Left, Right,  \* hold the first half of a wipe, the second half
  Glued,        \* hold a second half that also composes ahead of a first one
  Wipe,         \* match a wipe pattern by themselves, be it in prose
  SecretRead,   \* read secrets
  Outbound,     \* outbound HTTP
  Rule,         \* what the per-call scan, the lock table and strict mode decide
  Window,       \* _SESSION_FRAGMENT_LIMIT
  Near,         \* runs of calls, from the first to the last of which a pattern reaches
  MaxCalls      \* bound: observed calls

Verdict == {"none", "ask", "deny"}

ASSUME CallAssumption ==
  /\ Call # {} /\ Bypass \subseteq Call
  /\ Left \subseteq Call /\ Right \subseteq Call /\ Glued \subseteq Right
  /\ Wipe \subseteq Call
  /\ SecretRead \subseteq Call /\ Outbound \subseteq Call
  /\ Rule \in [Call -> Verdict]

ASSUME WindowAssumption ==
  /\ Window \in Nat \ {0}
  /\ MaxCalls \in Nat

\* A compose pattern reaches over so many characters (160, 100 or 120) of one line: what
\* it reaches over, it also reaches over with calls left out in between.
ASSUME ReachAssumption ==
  \A s \in Near : \A k \in 1..(Len(s) - 1) : Append(SubSeq(s, 1, k), s[Len(s)]) \in Near

VARIABLES
  fragments,   \* _SESSION_FRAGMENTS of the session
  tainted,     \* _SESSION_SECRET_TAINT of the session
  pc, call, verdict,   \* locals of classify_lock
  begun,       \* history: how many calls were observed when this one began
  log          \* history: the observed calls, with their verdicts

memory == <<fragments, tainted>>
frame == <<pc, call, verdict, begun>>
vars == <<memory, frame, log>>

NoCall == CHOOSE c \in Call : TRUE

Init ==
  /\ fragments = <<>>
  /\ tainted = FALSE
  /\ pc = [w \in Worker |-> "idle"]
  /\ call = [w \in Worker |-> NoCall]
  /\ verdict = [w \in Worker |-> "none"]
  /\ begun = [w \in Worker |-> 0]
  /\ log = <<>>

\* A call begins; a bypass marker is denied before the window is looked at.
Begin(w, c) ==
  /\ pc[w] = "idle"
  /\ call' = [call EXCEPT ![w] = c]
  /\ begun' = [begun EXCEPT ![w] = Len(log)]
  /\ verdict' = [verdict EXCEPT ![w] = IF c \in Bypass THEN "deny" ELSE "none"]
  /\ pc' = [pc EXCEPT ![w] = IF c \in Bypass THEN "observe" ELSE "compose"]
  /\ UNCHANGED <<memory, log>>

\* c ahead of d matches a compose pattern: rm ... -rf, or the other way round
\* when the -rf follows a word character.
Halves(c, d) ==
  \/ c \in Left /\ d \in Right
  \/ c \in Glued /\ d \in Left

\* The joined haystack has two halves, and no more text between them than a pattern
\* reaches over.
Composes(f) ==
  \E i, j \in 1..Len(f) : i <= j /\ Halves(f[i], f[j]) /\ SubSeq(f, i, j) \in Near

\* Mutant: the window is scanned without the call at hand.
ScanComposeWithout(w) ==
  LET hit == call[w] \notin Wipe /\ Composes(fragments) IN
  /\ pc[w] = "compose"
  /\ verdict' = [verdict EXCEPT ![w] = IF hit THEN "deny" ELSE "none"]
  /\ pc' = [pc EXCEPT ![w] = IF hit THEN "observe" ELSE "taint"]
  /\ UNCHANGED <<memory, call, begun, log>>

\* First critical section: the window joined with the call.
ScanCompose(w) ==
  LET hit == call[w] \notin Wipe /\ Composes(Append(fragments, call[w])) IN
  /\ pc[w] = "compose"
  /\ verdict' = [verdict EXCEPT ![w] = IF hit THEN "deny" ELSE "none"]
  /\ pc' = [pc EXCEPT ![w] = IF hit THEN "observe" ELSE "taint"]
  /\ UNCHANGED <<memory, call, begun, log>>

\* Second critical section; then the per-call rules, which read no memory.
ScanTaint(w) ==
  /\ pc[w] = "taint"
  /\ verdict' = [verdict EXCEPT ![w] =
                   IF tainted /\ call[w] \in Outbound THEN "deny" ELSE Rule[call[w]]]
  /\ pc' = [pc EXCEPT ![w] = "observe"]
  /\ UNCHANGED <<memory, call, begun, log>>

\* Mutant: the window never rolls.
PushAll(f, c) == Append(f, c)

\* deque(maxlen=Window)
Push(f, c) == IF Len(f) < Window THEN Append(f, c) ELSE Append(Tail(f), c)

\* Mutant: a denied call is not remembered.
ObserveAllowed(w) ==
  /\ pc[w] = "observe"
  /\ Len(log) < MaxCalls
  /\ fragments' = IF verdict[w] = "deny" THEN fragments ELSE Push(fragments, call[w])
  /\ tainted' = (tainted \/ (call[w] \in SecretRead /\ verdict[w] # "deny"))
  /\ log' = Append(log, [call |-> call[w], verdict |-> verdict[w], begun |-> begun[w]])
  /\ pc' = [pc EXCEPT ![w] = "idle"]
  /\ call' = [call EXCEPT ![w] = NoCall]
  /\ verdict' = [verdict EXCEPT ![w] = "none"]
  /\ begun' = [begun EXCEPT ![w] = 0]

\* Third critical section: the call is remembered, denied or not, and answered.
Observe(w) ==
  /\ pc[w] = "observe"
  /\ Len(log) < MaxCalls
  /\ fragments' = Push(fragments, call[w])
  /\ tainted' = (tainted \/ call[w] \in SecretRead)
  /\ log' = Append(log, [call |-> call[w], verdict |-> verdict[w], begun |-> begun[w]])
  /\ pc' = [pc EXCEPT ![w] = "idle"]
  /\ call' = [call EXCEPT ![w] = NoCall]
  /\ verdict' = [verdict EXCEPT ![w] = "none"]
  /\ begun' = [begun EXCEPT ![w] = 0]

Next ==
  \E w \in Worker :
    \/ \E c \in Call : Begin(w, c)
    \/ ScanCompose(w) \/ ScanTaint(w) \/ Observe(w)

Spec == Init /\ [][Next]_vars

-----------------------------------------------------------------------------
(* Properties. *)

Entry == [call : Call, verdict : Verdict, begun : Nat]

\* The domains of the memory, the locals and the history.
TypeOK ==
  /\ fragments \in Seq(Call) /\ Len(fragments) <= Window
  /\ tainted \in BOOLEAN
  /\ pc \in [Worker -> {"idle", "compose", "taint", "observe"}]
  /\ call \in [Worker -> Call]
  /\ verdict \in [Worker -> Verdict]
  /\ begun \in [Worker -> Nat]
  /\ log \in Seq(Entry)

\* The calls from the i-th observed to the j-th, as the patterns read them.
Between(i, j) == [k \in 1..(j - i + 1) |-> log[i + k - 1].call]

\* The second half of a wipe that begins after the first was observed is denied, if no
\* more calls were observed from then on than the window holds, and no more text than a
\* pattern reaches over: the calls that other threads push in between its scan and its
\* observation do not lose it the first half.  (A call that matches a wipe pattern
\* itself is left to its own rules.)
SecondHalfDenied ==
  \A i, j \in 1..Len(log) :
    /\ i <= log[j].begun /\ j <= i + Window
    /\ Halves(log[i].call, log[j].call) /\ Between(i, j) \in Near
    /\ log[j].call \notin Wipe
    => log[j].verdict = "deny"

\* After a secret read was observed, denied or not, no outbound call of the session
\* that begins later passes, however far back the read lies.
NoOutboundAfterSecret ==
  \A i, j \in 1..Len(log) :
    i <= log[j].begun /\ log[i].call \in SecretRead /\ log[j].call \in Outbound =>
      log[j].verdict = "deny"

\* A call whose own rules allow it is denied for remembered halves of a wipe only
\* while one was among the Window last calls when it began, or came in since: a
\* denied call cannot lock its session out for longer.
LockoutEnds ==
  \A j \in 1..Len(log) :
    LET e == log[j] IN
    e.verdict = "deny" /\ Rule[e.call] # "deny"
      /\ e.call \notin Left \cup Right \cup Outbound \cup Bypass =>
        \E i \in 1..(j - 1) : i + Window > e.begun /\ log[i].call \in Left \cup Right

\* phoenix_locks.py:1512-1514: an agent cannot "split a wipe across two innocent
\* calls", so of two halves observed within reach of each other one is denied.
SplitNeverPasses ==
  \A i, j \in 1..Len(log) :
    /\ i < j /\ j <= i + Window
    /\ Halves(log[i].call, log[j].call) /\ Between(i, j) \in Near
    /\ {log[i].call, log[j].call} \cap Wipe = {}
    => "deny" \in {log[i].verdict, log[j].verdict}

=============================================================================
