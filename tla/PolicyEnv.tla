----------------------------- MODULE PolicyEnv -----------------------------
(***************************************************************************)
(* The sealed policy environment of phoenix_gate: _policy_env in            *)
(* phoenix_locks.py keeps the first value it reads of each PHOENIX_GATE_*   *)
(* variable in a module-level dictionary, and gateway.py reports a softened  *)
(* policy on the first result it returns.                                   *)
(*                                                                         *)
(* Neither takes a lock, so every statement of _policy_env is a step and     *)
(* the threads inside gate_tool_call interleave between them.  A setting is  *)
(* what its parser makes of the string: "firm" or "soft".  The two variables *)
(* that classify_lock reads stand for all of them; the others take the same  *)
(* path.                                                                    *)
(***************************************************************************)
EXTENDS Naturals, FiniteSets

CONSTANTS
  Worker,     \* threads that may be inside gate_tool_call
  MaxEdits,   \* bound: changes of os.environ
  MaxResets   \* bound: calls of the two reset helpers

ASSUME EnvAssumption == MaxEdits \in Nat /\ MaxResets \in Nat

Name == {"STRICT", "STRICT_UNKNOWN"}
Setting == {"firm", "soft"}
Unset == "unset"   \* not in the dictionary

\* What a caller is warned of: a soft variable, and the switch of the seal.
Soft == Name \cup {"SEAL_ENV"}

VARIABLES
  environ,    \* os.environ, for the policy variables
  sealOn,     \* os.environ, for PHOENIX_GATE_SEAL_ENV
  created,    \* _POLICY_ENV_SEAL is not None
  seal,       \* _POLICY_ENV_SEAL
  warned,     \* _INSECURE_ENV_WARNED
  pc, task, name, value, warns,   \* locals of a call, per thread
  edits, resets,
  \* history, read by no guard
  promised,   \* what was sealed when the first late lookup of a variable began
  due,        \* the promised value, if the lookup under way began late
  raw,        \* the lookup found the switch off and went past the dictionary
  told        \* what callers know of a soft setting that a call was decided under

environment == <<environ, sealOn, edits>>
store == <<created, seal, warned>>
frame == <<pc, task, name, value, warns>>
history == <<promised, due, raw, told>>
vars == <<environment, store, frame, resets, history>>

Init ==
  /\ environ \in [Name -> Setting] /\ sealOn \in BOOLEAN
  /\ created = FALSE /\ seal = [n \in Name |-> Unset] /\ warned = FALSE
  /\ pc = [w \in Worker |-> "idle"]
  /\ task = [w \in Worker |-> "classify"]
  /\ name = [w \in Worker |-> "STRICT"]
  /\ value = [w \in Worker |-> Unset]
  /\ warns = [w \in Worker |-> {}]
  /\ edits = 0 /\ resets = 0
  /\ promised = [n \in Name |-> Unset]
  /\ due = [w \in Worker |-> Unset]
  /\ raw = [w \in Worker |-> FALSE]
  /\ told = [s \in Soft |-> "no"]

-----------------------------------------------------------------------------
(* When a variable is out of the reach of a race: the dictionary is there and  *)
(* holds it, nobody is about to replace the dictionary, nobody has missed the  *)
(* variable and is about to store it.                                        *)
Settled(n) ==
  /\ created /\ seal[n] # Unset
  /\ \A w \in Worker : pc[w] # "create" /\ (name[w] = n => pc[w] \notin {"fill", "store"})

\* What a lookup of n that begins now may count on, Unset if it races a first reader:
\* what was sealed when the first lookup began that did not.
DueFor(n) ==
  IF promised[n] # Unset THEN promised[n] ELSE IF Settled(n) THEN seal[n] ELSE Unset

-----------------------------------------------------------------------------
(* History of the warnings. *)

\* A call is decided under a soft setting: someone is to hear of it, once.
DecidedUnder(soft) == told' = [s \in Soft |-> IF s \in soft /\ told[s] = "no" THEN "owed" ELSE told[s]]

\* From here on no promise is made: a call raised, or the environment changed.
Void == told' = [s \in Soft |-> "void"]

-----------------------------------------------------------------------------
(* _policy_env, one action per statement. *)

Goto(w, at) == pc' = [pc EXCEPT ![w] = at]

\* The call begins a lookup of n for a task.
LookUp(w, t, n) ==
  /\ Goto(w, "switch")
  /\ task' = [task EXCEPT ![w] = t]
  /\ name' = [name EXCEPT ![w] = n]
  /\ value' = [value EXCEPT ![w] = Unset]
  /\ due' = [due EXCEPT ![w] = DueFor(n)]
  /\ promised' = [promised EXCEPT ![n] = DueFor(n)]
  /\ raw' = [raw EXCEPT ![w] = FALSE]

NoLookUp == UNCHANGED <<task, name, value, promised, due, raw>>

ReadSwitch(w) ==
  /\ pc[w] = "switch"
  /\ Goto(w, IF sealOn THEN "test" ELSE "raw")
  /\ DecidedUnder(IF sealOn THEN {} ELSE {"SEAL_ENV"})
  /\ UNCHANGED <<environment, store, task, name, value, warns, resets, promised, due, raw>>

ReadRaw(w) ==
  /\ pc[w] = "raw"
  /\ value' = [value EXCEPT ![w] = environ[name[w]]]
  /\ raw' = [raw EXCEPT ![w] = TRUE]
  /\ Goto(w, "use")
  /\ UNCHANGED <<environment, store, task, name, warns, resets, promised, due, told>>

\* Mutant: the test for None is dropped, every lookup starts a dictionary.
TestAlwaysCreates(w) ==
  /\ pc[w] = "test"
  /\ Goto(w, "create")
  /\ UNCHANGED <<environment, store, task, name, value, warns, resets, history>>

TestSeal(w) ==
  /\ pc[w] = "test"
  /\ Goto(w, IF created THEN "find" ELSE "create")
  /\ UNCHANGED <<environment, store, task, name, value, warns, resets, history>>

CreateSeal(w) ==
  /\ pc[w] = "create"
  /\ created' = TRUE
  /\ seal' = [n \in Name |-> Unset]
  /\ Goto(w, "find")
  /\ UNCHANGED <<environment, warned, task, name, value, warns, resets, history>>

\* Mutant: a soft setting in the dictionary is read again.
FindFirmOnly(w) ==
  /\ pc[w] = "find"
  /\ created
  /\ Goto(w, IF seal[name[w]] # "firm" THEN "fill" ELSE "answer")
  /\ UNCHANGED <<environment, store, task, name, value, warns, resets, history>>

FindName(w) ==
  /\ pc[w] = "find"
  /\ created
  /\ Goto(w, IF seal[name[w]] = Unset THEN "fill" ELSE "answer")
  /\ UNCHANGED <<environment, store, task, name, value, warns, resets, history>>

\* The right-hand side of the assignment; the dictionary is stored to afterwards.
ReadEnv(w) ==
  /\ pc[w] = "fill"
  /\ value' = [value EXCEPT ![w] = environ[name[w]]]
  /\ Goto(w, "store")
  /\ UNCHANGED <<environment, store, task, name, warns, resets, history>>

StoreValue(w) ==
  /\ pc[w] = "store"
  /\ created
  /\ seal' = [seal EXCEPT ![name[w]] = value[w]]
  /\ Goto(w, "answer")
  /\ UNCHANGED <<environment, created, warned, task, name, value, warns, resets, history>>

\* Mutant: seal.get(name) for seal[name].
AnswerOrNone(w) ==
  /\ pc[w] = "answer"
  /\ value' = [value EXCEPT ![w] = seal[name[w]]]
  /\ Goto(w, "use")
  /\ UNCHANGED <<environment, store, task, name, warns, resets, history>>

Answer(w) ==
  /\ pc[w] = "answer"
  /\ seal[name[w]] # Unset
  /\ value' = [value EXCEPT ![w] = seal[name[w]]]
  /\ Goto(w, "use")
  /\ UNCHANGED <<environment, store, task, name, warns, resets, history>>

\* The caller has its result, or an exception.
Unwind(w) ==
  /\ Goto(w, "idle")
  /\ task' = [task EXCEPT ![w] = "classify"]
  /\ name' = [name EXCEPT ![w] = "STRICT"]
  /\ value' = [value EXCEPT ![w] = Unset]
  /\ warns' = [warns EXCEPT ![w] = {}]
  /\ due' = [due EXCEPT ![w] = Unset]
  /\ raw' = [raw EXCEPT ![w] = FALSE]

\* TypeError: a reset took the dictionary.  KeyError: another first reader replaced it.
LookupFails(w) ==
  /\ \/ pc[w] \in {"find", "store"} /\ ~created
     \/ pc[w] = "answer" /\ seal[name[w]] = Unset
  /\ Unwind(w)
  /\ Void
  /\ UNCHANGED <<environment, store, resets, promised>>

-----------------------------------------------------------------------------
(* gate_tool_call, as far as it reads the policy. *)

\* classify_lock asks for the strict mode, unless the name, the arguments or the
\* session memory decide before.
Begin(w) ==
  /\ pc[w] = "idle"
  /\ \/ LookUp(w, "classify", "STRICT")
     \/ Goto(w, "flag") /\ NoLookUp
  /\ UNCHANGED <<environment, store, warns, resets, told>>

Warning(w) == IF value[w] = "soft" THEN {name[w]} ELSE {}

\* The strict mode is known; an unknown tool under it needs the second variable.
UseStrict(w) ==
  /\ pc[w] = "use" /\ task[w] = "classify" /\ name[w] = "STRICT"
  /\ DecidedUnder(Warning(w))
  /\ \/ value[w] = "firm" /\ LookUp(w, "classify", "STRICT_UNKNOWN")
     \/ Goto(w, "flag") /\ NoLookUp
  /\ UNCHANGED <<environment, store, warns, resets>>

UseUnknown(w) ==
  /\ pc[w] = "use" /\ task[w] = "classify" /\ name[w] = "STRICT_UNKNOWN"
  /\ DecidedUnder(Warning(w))
  /\ Goto(w, "flag") /\ NoLookUp
  /\ UNCHANGED <<environment, store, warns, resets>>

\* _consume_supply_env_warnings: once per seal life.
ReadFlag(w) ==
  /\ pc[w] = "flag"
  /\ IF warned THEN Goto(w, "gate") /\ NoLookUp
               ELSE LookUp(w, "warn", "STRICT")
  /\ UNCHANGED <<environment, store, warns, resets, told>>

\* insecure_policy_env_warnings: the strict mode, then the switch, then the rest.
WarnStrict(w) ==
  /\ pc[w] = "use" /\ task[w] = "warn" /\ name[w] = "STRICT"
  /\ warns' = [warns EXCEPT ![w] = Warning(w) \cup (IF sealOn THEN {} ELSE {"SEAL_ENV"})]
  /\ LookUp(w, "warn", "STRICT_UNKNOWN")
  /\ UNCHANGED <<environment, store, resets, told>>

\* Mutant: the list is begun again.
WarnUnknownAlone(w) ==
  /\ pc[w] = "use" /\ task[w] = "warn" /\ name[w] = "STRICT_UNKNOWN"
  /\ warns' = [warns EXCEPT ![w] = Warning(w)]
  /\ warned' = TRUE
  /\ Goto(w, "gate")
  /\ UNCHANGED <<environment, created, seal, task, name, value, resets, history>>

\* The flag is set while the list is still in the hands of the call.
WarnUnknown(w) ==
  /\ pc[w] = "use" /\ task[w] = "warn" /\ name[w] = "STRICT_UNKNOWN"
  /\ warns' = [warns EXCEPT ![w] = @ \cup Warning(w)]
  /\ warned' = TRUE
  /\ Goto(w, "gate")
  /\ UNCHANGED <<environment, created, seal, task, name, value, resets, history>>

\* The result, with the warnings in its extras, reaches the caller.
Return(w) ==
  /\ pc[w] = "gate"
  /\ told' = [s \in Soft |-> IF s \in warns[w] /\ told[s] # "void" THEN "yes" ELSE told[s]]
  /\ Unwind(w)
  /\ UNCHANGED <<environment, store, resets, promised>>

\* The receipt cannot be written, or APE's reply is not an object.
Raise(w) ==
  /\ pc[w] = "gate"
  /\ Unwind(w)
  /\ Void
  /\ UNCHANGED <<environment, store, resets, promised>>

-----------------------------------------------------------------------------
(* The environment: someone assigns to os.environ. *)
Edit ==
  /\ edits < MaxEdits
  /\ edits' = edits + 1
  /\ \/ \E n \in Name, s \in Setting : environ' = [environ EXCEPT ![n] = s] /\ UNCHANGED sealOn
     \/ sealOn' = ~sealOn /\ UNCHANGED environ
  /\ Void
  /\ UNCHANGED <<store, frame, resets, promised, due, raw>>

\* reset_policy_env_seal, in any thread at any time; what was promised is off.
Reset ==
  /\ resets < MaxResets
  /\ resets' = resets + 1
  /\ created' = FALSE
  /\ seal' = [n \in Name |-> Unset]
  /\ promised' = [n \in Name |-> Unset]
  /\ due' = [w \in Worker |-> Unset]
  /\ UNCHANGED <<environment, warned, frame, raw, told>>

\* reset_supply_env_warnings, at any time: the next call collects them again.
ResetWarnings ==
  /\ resets < MaxResets
  /\ resets' = resets + 1
  /\ warned' = FALSE
  /\ UNCHANGED <<environment, created, seal, frame, history>>

Lookup(w) ==
  \/ ReadSwitch(w) \/ ReadRaw(w) \/ TestSeal(w) \/ CreateSeal(w) \/ FindName(w)
  \/ ReadEnv(w) \/ StoreValue(w) \/ Answer(w) \/ LookupFails(w)

Call(w) ==
  \/ Begin(w) \/ UseStrict(w) \/ UseUnknown(w)
  \/ ReadFlag(w) \/ WarnStrict(w) \/ WarnUnknown(w)
  \/ Return(w) \/ Raise(w)

Next ==
  \/ \E w \in Worker : Lookup(w) \/ Call(w)
  \/ Edit
  \/ Reset
  \/ ResetWarnings

Spec == Init /\ [][Next]_vars

-----------------------------------------------------------------------------
(* Properties. *)

\* The domains of the variables; what a caller works with is a setting, never None.
TypeOK ==
  /\ environ \in [Name -> Setting] /\ sealOn \in BOOLEAN
  /\ created \in BOOLEAN /\ warned \in BOOLEAN
  /\ seal \in [Name -> Setting \cup {Unset}]
  /\ pc \in [Worker -> {"idle", "switch", "raw", "test", "create", "find", "fill",
                        "store", "answer", "use", "flag", "gate"}]
  /\ task \in [Worker -> {"classify", "warn"}]
  /\ name \in [Worker -> Name]
  /\ value \in [Worker -> Setting \cup {Unset}]
  /\ warns \in [Worker -> SUBSET Soft]
  /\ edits \in 0..MaxEdits /\ resets \in 0..MaxResets
  /\ promised \in [Name -> Setting \cup {Unset}]
  /\ due \in [Worker -> Setting \cup {Unset}]
  /\ raw \in [Worker -> BOOLEAN]
  /\ told \in [Soft -> {"no", "owed", "yes", "void"}]
  /\ \A w \in Worker : pc[w] \in {"store", "use"} => value[w] \in Setting

\* A lookup that begins after the first readers of its variable are done, and finds the
\* switch on, is answered what the first such lookup was promised: changes of the
\* environment, lookups made while the switch was off, first reads of other variables
\* and threads that are about to store or to answer cannot change it before a reset.
OneAnswer ==
  \A w \in Worker : pc[w] = "use" /\ due[w] # Unset /\ ~raw[w] => value[w] = due[w]

\* phoenix_locks.py:530-532: policy values are frozen after the first read "so an agent
\* that can mutate process env mid-session cannot soften strict/TTL/unknown": a lookup
\* that begins when its variable is sealed firm is answered firm.
CannotSoften ==
  \A w \in Worker : pc[w] = "use" /\ due[w] = "firm" => value[w] = "firm"

\* Only a lookup that ran against a first reader or a reset can lose its value to the
\* dictionary being replaced under it, and raise out of gate_tool_call.
NoLateLookupFails ==
  [][\A w \in Worker :
       pc[w] \in {"find", "store", "answer"} /\ pc'[w] = "idle" => due[w] = Unset]_vars

\* phoenix_locks.py:584-586: the warnings are attached to the first GateResult "so
\* operators see the soften".  Whichever threads race for the one flag, when no call
\* is under way the softs that calls were decided under have been returned to some
\* caller; only an exception, or a later change of the environment, takes them away.
OperatorsSeeTheSoften ==
  (\A w \in Worker : pc[w] = "idle") => \A s \in Soft : told[s] # "owed"

=============================================================================
