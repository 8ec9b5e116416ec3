-------------------------- MODULE OneShotApproval --------------------------
(***************************************************************************)
(* What the approval path of phoenix_gate promises, without threads, locks,  *)
(* clocks or dictionaries: a question is put for one call, a yes to it is    *)
(* good for one pass, and whatever is lost on the way is lost for good.      *)
(***************************************************************************)
EXTENDS Naturals

CONSTANTS
  Token,   \* questions
  Call,    \* what a question can be about
  Unbound  \* what a question is about before it is put

VARIABLES
  life,    \* where each question stands
  about,   \* the call each question was put for
  passes   \* how many calls went through on each question

Stage == {"new", "asked", "granted", "spent", "void"}

Init ==
  /\ life = [t \in Token |-> "new"]
  /\ about = [t \in Token |-> Unbound]
  /\ passes = [t \in Token |-> 0]

Ask(t, c) ==
  /\ life[t] = "new"
  /\ life' = [life EXCEPT ![t] = "asked"]
  /\ about' = [about EXCEPT ![t] = c]
  /\ UNCHANGED passes

\* A second yes for a call replaces the first.
Grant(t) ==
  /\ life[t] = "asked"
  /\ \E lost \in SUBSET {u \in Token : life[u] = "granted" /\ about[u] = about[t]} :
       life' = [u \in Token |-> IF u = t THEN "granted" ELSE IF u \in lost THEN "void" ELSE life[u]]
  /\ UNCHANGED <<about, passes>>

Spend(t) ==
  /\ life[t] = "granted"
  /\ life' = [life EXCEPT ![t] = "spent"]
  /\ passes' = [passes EXCEPT ![t] = @ + 1]
  /\ UNCHANGED about

\* Age, an exception or a restart: questions and grants may be lost at any time.
Lose ==
  /\ \E lost \in SUBSET {u \in Token : life[u] \in {"asked", "granted"}} :
       life' = [u \in Token |-> IF u \in lost THEN "void" ELSE life[u]]
  /\ UNCHANGED <<about, passes>>

Next ==
  \/ \E t \in Token : Grant(t) \/ Spend(t) \/ \E c \in Call : Ask(t, c)
  \/ Lose

Spec == Init /\ [][Next]_<<life, about, passes>>

=============================================================================
