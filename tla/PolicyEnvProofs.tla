-------------------------- MODULE PolicyEnvProofs --------------------------
(* Proofs, for any number of threads and changes of the environment, about   *)
(* the seal of the policy environment and the warnings of a softened policy. *)
EXTENDS PolicyEnv, TLAPS

-----------------------------------------------------------------------------
(* Type correctness. *)

\* An empty dictionary.
LEMMA Blank == [n \in Name |-> Unset] \in [Name -> Setting \cup {Unset}]
<1>1. Unset \in Setting \cup {Unset}
  OBVIOUS
<1> QED
  BY <1>1

LEMMA InitType == Init => TypeOK
<1> SUFFICES ASSUME Init PROVE TypeOK
  OBVIOUS
<1>1. environ \in [Name -> Setting] /\ sealOn \in BOOLEAN
  BY DEF Init
<1>2. created \in BOOLEAN /\ warned \in BOOLEAN
  BY DEF Init
<1>3. seal \in [Name -> Setting \cup {Unset}] /\ promised \in [Name -> Setting \cup {Unset}]
  BY Blank DEF Init
<1>4. /\ pc \in [Worker -> {"idle", "switch", "raw", "test", "create", "find", "fill",
                            "store", "answer", "use", "flag", "gate"}]
      /\ task \in [Worker -> {"classify", "warn"}]
      /\ name \in [Worker -> Name]
      /\ \A w \in Worker : pc[w] = "idle"
  BY DEF Init, Name
<1>5. /\ value \in [Worker -> Setting \cup {Unset}] /\ due \in [Worker -> Setting \cup {Unset}]
      /\ raw \in [Worker -> BOOLEAN]
  BY DEF Init
<1>6. warns \in [Worker -> SUBSET Soft]
  <2>1. {} \in SUBSET Soft
    OBVIOUS
  <2> QED
    BY <2>1 DEF Init
<1>7. edits \in 0..MaxEdits /\ resets \in 0..MaxResets
  BY EnvAssumption DEF Init
<1>8. told \in [Soft -> {"no", "owed", "yes", "void"}]
  BY DEF Init
<1> QED
  BY <1>1, <1>2, <1>3, <1>4, <1>5, <1>6, <1>7, <1>8 DEF TypeOK

\* A history of the warnings stays one.
LEMMA ToldType ==
  ASSUME told \in [Soft -> {"no", "owed", "yes", "void"}]
  PROVE  /\ \A soft : DecidedUnder(soft) => told' \in [Soft -> {"no", "owed", "yes", "void"}]
         /\ Void => told' \in [Soft -> {"no", "owed", "yes", "void"}]
<1>1. \A soft : [s \in Soft |-> IF s \in soft /\ told[s] = "no" THEN "owed" ELSE told[s]]
        \in [Soft -> {"no", "owed", "yes", "void"}]
  OBVIOUS
<1>2. [s \in Soft |-> "void"] \in [Soft -> {"no", "owed", "yes", "void"}]
  OBVIOUS
<1> QED
  BY <1>1, <1>2 DEF DecidedUnder, Void

\* Every statement of a call, an edit and a reset keep the variables in their domains.
LEMMA NextType == TypeOK /\ [Next]_vars => TypeOK'
<1> SUFFICES ASSUME TypeOK, [Next]_vars PROVE TypeOK'
  OBVIOUS
<1>0. MaxEdits \in Nat /\ MaxResets \in Nat /\ "STRICT" \in Name /\ "STRICT_UNKNOWN" \in Name
      /\ Unset \notin Setting /\ Name \subseteq Soft /\ "SEAL_ENV" \in Soft
  BY EnvAssumption DEF Name, Setting, Unset, Soft
<1>d. \A n \in Name : DueFor(n) \in Setting \cup {Unset}
  BY DEF DueFor, TypeOK
<1>t. told \in [Soft -> {"no", "owed", "yes", "void"}]
  BY DEF TypeOK
<1> USE DEF environment, store, frame, history, Goto
<1>1. ASSUME NEW w \in Worker, ReadSwitch(w) \/ ReadRaw(w) \/ TestSeal(w) \/ CreateSeal(w)
      PROVE  TypeOK'
  <2>1. CASE ReadSwitch(w)
    <3>1. told' \in [Soft -> {"no", "owed", "yes", "void"}]
      BY <2>1, <1>t, ToldType DEF ReadSwitch
    <3> QED
      BY <2>1, <3>1 DEF ReadSwitch, TypeOK
  <2>2. CASE ReadRaw(w)
    BY <2>2 DEF ReadRaw, TypeOK
  <2>3. CASE TestSeal(w)
    BY <2>3 DEF TestSeal, TypeOK
  <2>4. CASE CreateSeal(w)
    BY <2>4 DEF CreateSeal, TypeOK
  <2> QED
    BY <1>1, <2>1, <2>2, <2>3, <2>4
<1>2. ASSUME NEW w \in Worker, FindName(w) \/ ReadEnv(w) \/ StoreValue(w) PROVE TypeOK'
  <2>1. CASE FindName(w)
    BY <2>1 DEF FindName, TypeOK
  <2>2. CASE ReadEnv(w)
    BY <2>2 DEF ReadEnv, TypeOK
  <2>3. CASE StoreValue(w)
    BY <2>3 DEF StoreValue, TypeOK
  <2> QED
    BY <1>2, <2>1, <2>2, <2>3
<1>3. ASSUME NEW w \in Worker, Answer(w) PROVE TypeOK'
  <2>1. seal[name[w]] \in Setting
    BY <1>3 DEF Answer, TypeOK
  <2> QED
    BY <1>3, <2>1 DEF Answer, TypeOK
<1>4. ASSUME NEW w \in Worker, LookupFails(w) \/ Return(w) \/ Raise(w) PROVE TypeOK'
  <2>1. told' \in [Soft -> {"no", "owed", "yes", "void"}]
    BY <1>t, <1>4, ToldType DEF LookupFails, Raise, Return
  <2>2. Unwind(w) /\ UNCHANGED <<environment, store, resets, promised>>
    BY <1>4 DEF LookupFails, Raise, Return
  <2> QED
    BY <1>0, <2>1, <2>2 DEF Unwind, TypeOK
<1>l. ASSUME NEW w \in Worker, NEW t \in {"classify", "warn"}, NEW n \in Name, LookUp(w, t, n)
      PROVE  /\ pc' = [pc EXCEPT ![w] = "switch"] /\ task' \in [Worker -> {"classify", "warn"}]
             /\ name' \in [Worker -> Name] /\ value' \in [Worker -> Setting \cup {Unset}]
             /\ value' = [value EXCEPT ![w] = Unset]
             /\ promised' \in [Name -> Setting \cup {Unset}]
             /\ due' \in [Worker -> Setting \cup {Unset}] /\ raw' \in [Worker -> BOOLEAN]
             /\ \A v \in Worker : pc'[v] \in {"store", "use"} => value'[v] \in Setting
  BY <1>d, <1>l DEF LookUp, TypeOK
<1>5. ASSUME NEW w \in Worker, Begin(w) PROVE TypeOK'
  <2>1. CASE LookUp(w, "classify", "STRICT")
    <3>1. /\ pc' = [pc EXCEPT ![w] = "switch"] /\ task' \in [Worker -> {"classify", "warn"}]
          /\ name' \in [Worker -> Name] /\ value' \in [Worker -> Setting \cup {Unset}]
          /\ promised' \in [Name -> Setting \cup {Unset}]
          /\ due' \in [Worker -> Setting \cup {Unset}] /\ raw' \in [Worker -> BOOLEAN]
          /\ \A v \in Worker : pc'[v] \in {"store", "use"} => value'[v] \in Setting
      BY <1>l, <2>1 DEF Name
    <3>2. UNCHANGED <<environ, sealOn, edits, created, seal, warned, warns, resets, told>>
      BY <1>5 DEF Begin
    <3> QED
      BY <3>1, <3>2 DEF TypeOK
  <2>2. CASE pc' = [pc EXCEPT ![w] = "flag"] /\ NoLookUp
    BY <1>5, <2>2 DEF Begin, NoLookUp, TypeOK
  <2> QED
    BY <1>5, <2>1, <2>2 DEF Begin
<1>6. ASSUME NEW w \in Worker, UseStrict(w) PROVE TypeOK'
  <2>1. told' \in [Soft -> {"no", "owed", "yes", "void"}]
    BY <1>t, <1>6, ToldType DEF UseStrict
  <2>2. UNCHANGED <<environ, sealOn, edits, created, seal, warned, warns, resets>>
    BY <1>6 DEF UseStrict
  <2>3. CASE LookUp(w, "classify", "STRICT_UNKNOWN")
    <3>1. /\ pc' = [pc EXCEPT ![w] = "switch"] /\ task' \in [Worker -> {"classify", "warn"}]
          /\ name' \in [Worker -> Name] /\ value' \in [Worker -> Setting \cup {Unset}]
          /\ promised' \in [Name -> Setting \cup {Unset}]
          /\ due' \in [Worker -> Setting \cup {Unset}] /\ raw' \in [Worker -> BOOLEAN]
          /\ \A v \in Worker : pc'[v] \in {"store", "use"} => value'[v] \in Setting
      BY <1>l, <2>3 DEF Name
    <3> QED
      BY <2>1, <2>2, <3>1 DEF TypeOK
  <2>4. CASE pc' = [pc EXCEPT ![w] = "flag"] /\ NoLookUp
    BY <2>1, <2>2, <2>4 DEF NoLookUp, TypeOK
  <2> QED
    BY <1>6, <2>3, <2>4 DEF UseStrict
<1>7. ASSUME NEW w \in Worker, UseUnknown(w) PROVE TypeOK'
  <2>1. told' \in [Soft -> {"no", "owed", "yes", "void"}]
    BY <1>t, <1>7, ToldType DEF UseUnknown
  <2> QED
    BY <1>7, <2>1 DEF UseUnknown, NoLookUp, TypeOK
<1>8. ASSUME NEW w \in Worker, ReadFlag(w) PROVE TypeOK'
  <2>1. CASE warned
    BY <1>8, <2>1 DEF ReadFlag, NoLookUp, TypeOK
  <2>2. CASE ~warned
    <3>0. LookUp(w, "warn", "STRICT")
      BY <1>8, <2>2 DEF ReadFlag
    <3>1. /\ pc' = [pc EXCEPT ![w] = "switch"] /\ task' \in [Worker -> {"classify", "warn"}]
          /\ name' \in [Worker -> Name] /\ value' \in [Worker -> Setting \cup {Unset}]
          /\ promised' \in [Name -> Setting \cup {Unset}]
          /\ due' \in [Worker -> Setting \cup {Unset}] /\ raw' \in [Worker -> BOOLEAN]
          /\ \A v \in Worker : pc'[v] \in {"store", "use"} => value'[v] \in Setting
      BY <1>l, <3>0 DEF Name
    <3>2. UNCHANGED <<environ, sealOn, edits, created, seal, warned, warns, resets, told>>
      BY <1>8 DEF ReadFlag
    <3> QED
      BY <3>1, <3>2 DEF TypeOK
  <2> QED
    BY <2>1, <2>2
<1>9. ASSUME NEW w \in Worker, WarnStrict(w) \/ WarnUnknown(w) PROVE TypeOK'
  <2>1. Warning(w) \in SUBSET Soft
    BY <1>0 DEF Warning, TypeOK
  <2>2. warns' \in [Worker -> SUBSET Soft]
    BY <1>0, <1>9, <2>1 DEF WarnStrict, WarnUnknown, TypeOK
  <2>3. CASE WarnStrict(w)
    <3>0. LookUp(w, "warn", "STRICT_UNKNOWN")
      BY <2>3 DEF WarnStrict
    <3>1. /\ pc' = [pc EXCEPT ![w] = "switch"] /\ task' \in [Worker -> {"classify", "warn"}]
          /\ name' \in [Worker -> Name] /\ value' \in [Worker -> Setting \cup {Unset}]
          /\ promised' \in [Name -> Setting \cup {Unset}]
          /\ due' \in [Worker -> Setting \cup {Unset}] /\ raw' \in [Worker -> BOOLEAN]
          /\ \A v \in Worker : pc'[v] \in {"store", "use"} => value'[v] \in Setting
      BY <1>l, <3>0 DEF Name
    <3>2. UNCHANGED <<environ, sealOn, edits, created, seal, warned, resets, told>>
      BY <2>3 DEF WarnStrict
    <3> QED
      BY <2>2, <3>1, <3>2 DEF TypeOK
  <2>4. CASE WarnUnknown(w)
    <3>1. /\ pc' = [pc EXCEPT ![w] = "gate"] /\ warned' = TRUE
          /\ UNCHANGED <<environ, sealOn, edits, created, seal, task, name, value, resets,
                         promised, due, raw, told>>
      BY <2>4 DEF WarnUnknown
    <3> QED
      BY <2>2, <3>1 DEF TypeOK
  <2> QED
    BY <1>9, <2>3, <2>4
<1>10. CASE Edit
  <2>1. told' \in [Soft -> {"no", "owed", "yes", "void"}]
    BY <1>t, <1>10, ToldType DEF Edit
  <2>2. environ' \in [Name -> Setting] /\ sealOn' \in BOOLEAN
    BY <1>10 DEF Edit, TypeOK
  <2>3. edits' \in 0..MaxEdits
    BY <1>0, <1>10 DEF Edit, TypeOK
  <2>4. UNCHANGED <<created, seal, warned, pc, task, name, value, warns, resets, promised, due, raw>>
    BY <1>10 DEF Edit
  <2> QED
    BY <2>1, <2>2, <2>3, <2>4 DEF TypeOK
<1>11. CASE Reset
  <2>1. seal' \in [Name -> Setting \cup {Unset}] /\ promised' \in [Name -> Setting \cup {Unset}]
    BY <1>11, Blank DEF Reset
  <2>2. created' = FALSE /\ resets' \in 0..MaxResets /\ due' \in [Worker -> Setting \cup {Unset}]
    BY <1>0, <1>11 DEF Reset, TypeOK
  <2>3. UNCHANGED <<environ, sealOn, edits, warned, pc, task, name, value, warns, raw, told>>
    BY <1>11 DEF Reset
  <2> QED
    BY <2>1, <2>2, <2>3 DEF TypeOK
<1>13. CASE ResetWarnings
  <2>1. resets' \in 0..MaxResets /\ warned' = FALSE
    BY <1>0, <1>13 DEF ResetWarnings, TypeOK
  <2>2. UNCHANGED <<environ, sealOn, edits, created, seal, pc, task, name, value, warns,
                    promised, due, raw, told>>
    BY <1>13 DEF ResetWarnings
  <2> QED
    BY <2>1, <2>2 DEF TypeOK
<1>12. CASE UNCHANGED vars
  BY <1>12 DEF vars, TypeOK
<1> QED
  BY <1>1, <1>2, <1>3, <1>4, <1>5, <1>6, <1>7, <1>8, <1>9, <1>10, <1>11, <1>12,
     <1>13 DEF Next, Lookup, Call

\* The variables stay in their domains, and no lookup answers None.
THEOREM PolicyTypeCorrect == Spec => []TypeOK
  BY InitType, NextType, PTL DEF Spec

-----------------------------------------------------------------------------
(* One answer. *)

\* Where a step may take the thread that makes it.
LEMMA ThreadStep ==
  ASSUME TypeOK, NEW w \in Worker, Lookup(w) \/ Call(w)
  PROVE  /\ \A v \in Worker : v # w => pc'[v] = pc[v] /\ name'[v] = name[v]
         /\ pc'[w] = "create" => pc[w] = "test" /\ ~created
         /\ pc'[w] = "fill" => pc[w] = "find" /\ seal[name[w]] = Unset /\ name' = name
         /\ pc'[w] = "store" => pc[w] = "fill" /\ name' = name
<1> USE DEF frame, Goto, TypeOK
<1>1. CASE ReadSwitch(w) \/ ReadRaw(w) \/ TestSeal(w) \/ CreateSeal(w)
  BY <1>1 DEF ReadSwitch, ReadRaw, TestSeal, CreateSeal
<1>2. CASE FindName(w) \/ ReadEnv(w) \/ StoreValue(w) \/ Answer(w)
  BY <1>2 DEF FindName, ReadEnv, StoreValue, Answer
<1>3. CASE LookupFails(w) \/ Return(w) \/ Raise(w)
  BY <1>3 DEF LookupFails, Return, Raise, Unwind
<1>4. CASE Begin(w) \/ UseStrict(w) \/ UseUnknown(w)
  BY <1>4 DEF Begin, UseStrict, UseUnknown, LookUp, NoLookUp
<1>5. CASE ReadFlag(w) \/ WarnStrict(w) \/ WarnUnknown(w)
  BY <1>5 DEF ReadFlag, WarnStrict, WarnUnknown, LookUp, NoLookUp
<1> QED
  BY <1>1, <1>2, <1>3, <1>4, <1>5 DEF Lookup, Call

\* And what it may do to the dictionary.
LEMMA SealStep ==
  ASSUME TypeOK, NEW w \in Worker, Lookup(w) \/ Call(w)
  PROVE  \/ created' = created /\ seal' = seal
         \/ pc[w] = "create"
         \/ /\ pc[w] = "store" /\ created' = created
            /\ seal' = [seal EXCEPT ![name[w]] = value[w]]
<1>1. CASE ReadSwitch(w) \/ ReadRaw(w) \/ TestSeal(w) \/ FindName(w) \/ ReadEnv(w) \/ Answer(w)
  BY <1>1 DEF ReadSwitch, ReadRaw, TestSeal, FindName, ReadEnv, Answer, store
<1>2. CASE CreateSeal(w) \/ StoreValue(w)
  BY <1>2 DEF CreateSeal, StoreValue
<1>3. CASE LookupFails(w) \/ Return(w) \/ Raise(w)
  BY <1>3 DEF LookupFails, Return, Raise, store
<1>4. CASE Begin(w) \/ UseStrict(w) \/ UseUnknown(w)
  BY <1>4 DEF Begin, UseStrict, UseUnknown, store
<1>5. CASE ReadFlag(w) \/ WarnStrict(w) \/ WarnUnknown(w)
  BY <1>5 DEF ReadFlag, WarnStrict, WarnUnknown, store
<1> QED
  BY <1>1, <1>2, <1>3, <1>4, <1>5 DEF Lookup, Call

\* Nobody but a reset unsettles a variable, or changes what is sealed of it.
LEMMA SettledStays ==
  ASSUME TypeOK, [Next]_vars, ~Reset, NEW n \in Name, Settled(n)
  PROVE  Settled(n)' /\ seal'[n] = seal[n]
<1>0. /\ created /\ seal[n] # Unset
      /\ \A v \in Worker : pc[v] # "create" /\ (name[v] = n => pc[v] \notin {"fill", "store"})
  BY DEF Settled
<1>1. ASSUME NEW w \in Worker, Lookup(w) \/ Call(w)
      PROVE  Settled(n)' /\ seal'[n] = seal[n]
  <2>1. /\ \A v \in Worker : v # w => pc'[v] = pc[v] /\ name'[v] = name[v]
        /\ pc'[w] = "create" => pc[w] = "test" /\ ~created
        /\ pc'[w] = "fill" => pc[w] = "find" /\ seal[name[w]] = Unset /\ name' = name
        /\ pc'[w] = "store" => pc[w] = "fill" /\ name' = name
    BY <1>1, ThreadStep
  <2>2. created' = created /\ seal'[n] = seal[n]
    <3>1. \/ created' = created /\ seal' = seal
          \/ /\ pc[w] = "store" /\ created' = created
             /\ seal' = [seal EXCEPT ![name[w]] = value[w]]
      BY <1>0, <1>1, SealStep
    <3>2. pc[w] = "store" => name[w] # n
      BY <1>0
    <3> QED
      BY <3>1, <3>2 DEF TypeOK
  <2>3. ASSUME NEW v \in Worker
        PROVE  pc'[v] # "create" /\ (name'[v] = n => pc'[v] \notin {"fill", "store"})
    <3>1. CASE v = w
      BY <1>0, <2>1, <3>1
    <3>2. CASE v # w
      BY <1>0, <2>1, <3>2
    <3> QED
      BY <3>1, <3>2
  <2> QED
    BY <1>0, <2>2, <2>3 DEF Settled
<1>2. CASE Edit \/ ResetWarnings \/ UNCHANGED vars
  <2>1. UNCHANGED <<created, seal, pc, name>>
    BY <1>2 DEF Edit, ResetWarnings, vars, store, frame
  <2> QED
    BY <1>0, <2>1 DEF Settled
<1> QED
  BY <1>1, <1>2 DEF Next

\* What was promised of a variable is sealed, and out of the reach of a race; a lookup
\* that is due a value is due what was promised, and what it was answered out of the
\* dictionary is that.
SealInv ==
  /\ \A n \in Name : promised[n] # Unset => Settled(n) /\ seal[n] = promised[n]
  /\ \A w \in Worker : due[w] # Unset => pc[w] # "idle" /\ due[w] = promised[name[w]]
  /\ OneAnswer

LEMMA InitSeal == Init => SealInv
  BY DEF Init, SealInv, OneAnswer

\* How a step of a thread changes what its lookup is due and was answered.
LEMMA DueStep ==
  ASSUME TypeOK, NEW w \in Worker, Lookup(w) \/ Call(w)
  PROVE  /\ \A v \in Worker : v # w =>
              due'[v] = due[v] /\ raw'[v] = raw[v] /\ value'[v] = value[v]
         /\ \/ due'[w] = Unset /\ promised' = promised /\ pc'[w] = "idle"
            \/ \E n \in Name : /\ pc'[w] = "switch" /\ name'[w] = n /\ due'[w] = DueFor(n)
                               /\ promised' = [promised EXCEPT ![n] = DueFor(n)]
            \/ /\ due'[w] = due[w] /\ name'[w] = name[w] /\ promised' = promised
               /\ pc'[w] # "idle" /\ (pc[w] = "idle" => pc'[w] = "flag")
               /\ pc'[w] = "use" => raw'[w] \/ value'[w] = seal[name[w]]
<1> USE DEF frame, Goto, TypeOK, history
<1>1. CASE ReadSwitch(w) \/ ReadRaw(w) \/ TestSeal(w) \/ CreateSeal(w)
  BY <1>1 DEF ReadSwitch, ReadRaw, TestSeal, CreateSeal
<1>2. CASE FindName(w) \/ ReadEnv(w) \/ StoreValue(w) \/ Answer(w)
  BY <1>2 DEF FindName, ReadEnv, StoreValue, Answer
<1>3. CASE LookupFails(w) \/ Return(w) \/ Raise(w)
  BY <1>3 DEF LookupFails, Return, Raise, Unwind
<1>l. "STRICT" \in Name /\ "STRICT_UNKNOWN" \in Name
  BY DEF Name
<1>4. CASE Begin(w)
  BY <1>l, <1>4 DEF Begin, LookUp, NoLookUp
<1>5. CASE UseStrict(w) \/ UseUnknown(w)
  BY <1>l, <1>5 DEF UseStrict, UseUnknown, LookUp, NoLookUp
<1>6. CASE ReadFlag(w) \/ WarnStrict(w) \/ WarnUnknown(w)
  BY <1>l, <1>6 DEF ReadFlag, WarnStrict, WarnUnknown, LookUp, NoLookUp
<1> QED
  BY <1>1, <1>2, <1>3, <1>4, <1>5, <1>6 DEF Lookup, Call

LEMMA NextSeal == TypeOK /\ SealInv /\ [Next]_vars => SealInv'
<1> SUFFICES ASSUME TypeOK, SealInv, [Next]_vars PROVE SealInv'
  OBVIOUS
<1>n. \A w \in Worker : name[w] \in Name
  BY DEF TypeOK
<1>1. ASSUME NEW w \in Worker, Lookup(w) \/ Call(w), ~Reset PROVE SealInv'
  <2>0. /\ \A v \in Worker : v # w =>
             due'[v] = due[v] /\ raw'[v] = raw[v] /\ value'[v] = value[v]
        /\ \A v \in Worker : v # w => pc'[v] = pc[v] /\ name'[v] = name[v]
    BY <1>1, DueStep, ThreadStep
  <2>1. \A n \in Name : DueFor(n) # Unset => Settled(n) /\ seal[n] = DueFor(n)
    BY DEF DueFor, SealInv
  <2>2. /\ \A n \in Name : promised'[n] # Unset => Settled(n) /\ seal[n] = promised'[n]
        /\ \A n \in Name : promised[n] # Unset => promised'[n] = promised[n]
    <3>1. CASE promised' = promised
      BY <3>1 DEF SealInv
    <3>2. ASSUME NEW m \in Name, promised' = [promised EXCEPT ![m] = DueFor(m)]
          PROVE  <2>2!1 /\ <2>2!2
      <4>1. \A n \in Name : promised'[n] = IF n = m THEN DueFor(m) ELSE promised[n]
        BY <3>2 DEF TypeOK
      <4>2. promised[m] # Unset => DueFor(m) = promised[m]
        BY DEF DueFor
      <4> QED
        BY <2>1, <4>1, <4>2 DEF SealInv
    <3> QED
      BY <1>1, <3>1, <3>2, DueStep
  <2>3. \A n \in Name : promised'[n] # Unset => Settled(n)' /\ seal'[n] = promised'[n]
    BY <1>1, <2>2, SettledStays
  <2>4. ASSUME NEW v \in Worker, due'[v] # Unset
        PROVE  pc'[v] # "idle" /\ due'[v] = promised'[name'[v]]
    <3>1. CASE v # w
      BY <1>n, <2>0, <2>2, <2>4, <3>1 DEF SealInv
    <3>2. ASSUME v = w, NEW n \in Name, pc'[w] = "switch", name'[w] = n, due'[w] = DueFor(n),
                 promised' = [promised EXCEPT ![n] = DueFor(n)]
          PROVE  pc'[v] # "idle" /\ due'[v] = promised'[name'[v]]
      BY <3>2 DEF TypeOK
    <3>3. ASSUME v = w, due'[w] = due[w], name'[w] = name[w], pc'[w] # "idle"
          PROVE  pc'[v] # "idle" /\ due'[v] = promised'[name'[v]]
      BY <1>n, <2>2, <2>4, <3>3 DEF SealInv
    <3> QED
      BY <1>1, <2>4, <3>1, <3>2, <3>3, DueStep
  <2>5. ASSUME NEW v \in Worker, pc'[v] = "use", due'[v] # Unset, ~raw'[v]
        PROVE  value'[v] = due'[v]
    <3>1. CASE v # w
      BY <2>0, <2>5, <3>1 DEF SealInv, OneAnswer
    <3>2. CASE v = w
      <4>1. due'[w] = due[w] /\ value'[w] = seal[name[w]]
        BY <1>1, <2>5, <3>2, DueStep
      <4>2. due[w] = promised[name[w]] /\ promised[name[w]] # Unset
        BY <2>5, <3>2, <4>1 DEF SealInv
      <4> QED
        BY <1>n, <3>2, <4>1, <4>2 DEF SealInv
    <3> QED
      BY <3>1, <3>2
  <2> QED
    BY <2>3, <2>4, <2>5 DEF SealInv, OneAnswer
<1>2. CASE Reset
  <2>1. (\A n \in Name : promised'[n] = Unset) /\ \A w \in Worker : due'[w] = Unset
    BY <1>2 DEF Reset
  <2> QED
    BY <2>1 DEF SealInv, OneAnswer
<1>3. CASE (Edit \/ ResetWarnings \/ UNCHANGED vars) /\ ~Reset
  <2>1. UNCHANGED <<promised, due, raw, pc, name, value>>
    BY <1>3 DEF Edit, ResetWarnings, vars, frame, history
  <2>2. \A n \in Name : Settled(n) => Settled(n)' /\ seal'[n] = seal[n]
    BY <1>3, SettledStays
  <2> QED
    BY <2>1, <2>2 DEF SealInv, OneAnswer
<1> QED
  BY <1>1, <1>2, <1>3 DEF Next

\* A lookup that is due a value and goes through the seal is answered that value, whatever
\* happens to the environment and to the switch.
THEOREM OneAnswerCorrect == Spec => []OneAnswer
<1>1. SealInv => OneAnswer
  BY DEF SealInv
<1> QED
  BY <1>1, InitType, NextType, InitSeal, NextSeal, PTL DEF Spec

\* A lookup that began late is not lost to the dictionary being replaced.
THEOREM LateLookupCorrect == Spec => NoLateLookupFails
<1>1. ASSUME TypeOK, SealInv, [Next]_vars, NEW w \in Worker,
             pc[w] \in {"find", "store", "answer"}, pc'[w] = "idle"
      PROVE  due[w] = Unset
  <2>1. ASSUME NEW v \in Worker, Lookup(v) \/ Call(v) PROVE LookupFails(w)
    <3>1. v = w
      BY <1>1, <2>1, ThreadStep
    <3>2. pc'[w] = "idle" => ~(FindName(w) \/ StoreValue(w) \/ Answer(w))
      BY <1>1 DEF FindName, StoreValue, Answer, Goto, TypeOK
    <3> QED
      BY <1>1, <2>1, <3>1, <3>2
         DEF Lookup, Call, ReadSwitch, ReadRaw, TestSeal, CreateSeal, ReadEnv,
             Begin, UseStrict, UseUnknown, ReadFlag, WarnStrict, WarnUnknown, Return, Raise
  <2>2. ~(Edit \/ Reset \/ ResetWarnings \/ UNCHANGED vars)
    BY <1>1 DEF Edit, Reset, ResetWarnings, vars, frame
  <2>3. LookupFails(w)
    BY <1>1, <2>1, <2>2 DEF Next
  <2>4. ASSUME due[w] # Unset PROVE Settled(name[w])
    BY <1>1, <2>4 DEF SealInv, TypeOK
  <2> QED
    BY <1>1, <2>3, <2>4 DEF LookupFails, Settled
<1>2. TypeOK /\ SealInv /\ [Next]_vars =>
        [\A w \in Worker :
           pc[w] \in {"find", "store", "answer"} /\ pc'[w] = "idle" => due[w] = Unset]_vars
  BY <1>1
<1> QED
  BY <1>2, InitType, NextType, InitSeal, NextSeal, PTL DEF Spec, NoLateLookupFails

-----------------------------------------------------------------------------
(* The warnings reach somebody. *)

\* As long as the environment stands still, what is sealed and what is in the hands of
\* a call is what the environment says.
Faithful ==
  /\ \A n \in Name : seal[n] \in {Unset, environ[n]}
  /\ \A w \in Worker : pc[w] \in {"store", "use"} => value[w] = environ[name[w]]

LEMMA NextFaithful ==
  ASSUME TypeOK, Faithful, [Next]_vars, environ' = environ
  PROVE  Faithful'
<1> USE DEF frame, store, environment, Goto
<1>1. ASSUME NEW w \in Worker, ReadRaw(w) \/ ReadEnv(w) PROVE Faithful'
  BY <1>1 DEF ReadRaw, ReadEnv, Faithful, TypeOK
<1>2. ASSUME NEW w \in Worker, Answer(w) PROVE Faithful'
  BY <1>2 DEF Answer, Faithful, TypeOK
<1>3. ASSUME NEW w \in Worker, StoreValue(w) PROVE Faithful'
  <2>1. value[w] = environ[name[w]] /\ name[w] \in Name
    BY <1>3 DEF StoreValue, Faithful, TypeOK
  <2>2. /\ seal' = [seal EXCEPT ![name[w]] = value[w]]
        /\ pc' = [pc EXCEPT ![w] = "answer"]
        /\ value' = value /\ name' = name
    BY <1>3 DEF StoreValue
  <2>3. \A n \in Name : seal'[n] \in {Unset, environ[n]}
    BY <2>1, <2>2 DEF Faithful, TypeOK
  <2> QED
    BY <2>2, <2>3 DEF Faithful, TypeOK
<1>4. ASSUME NEW w \in Worker, CreateSeal(w) PROVE Faithful'
  BY <1>4 DEF CreateSeal, Faithful, TypeOK
<1>5. ASSUME NEW w \in Worker, ReadSwitch(w) \/ TestSeal(w) \/ FindName(w) PROVE Faithful'
  BY <1>5 DEF ReadSwitch, TestSeal, FindName, Faithful, TypeOK
<1>6. ASSUME NEW w \in Worker, LookupFails(w) \/ Return(w) \/ Raise(w) PROVE Faithful'
  BY <1>6 DEF LookupFails, Return, Raise, Unwind, Faithful, TypeOK
<1>7. ASSUME NEW w \in Worker, Begin(w) \/ UseStrict(w) \/ UseUnknown(w) PROVE Faithful'
  BY <1>7 DEF Begin, UseStrict, UseUnknown, LookUp, NoLookUp, Faithful, TypeOK
<1>8. ASSUME NEW w \in Worker, ReadFlag(w) \/ WarnStrict(w) \/ WarnUnknown(w) PROVE Faithful'
  BY <1>8 DEF ReadFlag, WarnStrict, WarnUnknown, LookUp, NoLookUp, Faithful, TypeOK
<1>9. CASE Reset \/ ResetWarnings
  BY <1>9 DEF Reset, ResetWarnings, Faithful
<1>10. CASE Edit \/ UNCHANGED vars
  BY <1>10 DEF Edit, vars, Faithful
<1> QED
  BY <1>1, <1>2, <1>3, <1>4, <1>5, <1>6, <1>7, <1>8, <1>9, <1>10 DEF Next, Lookup, Call

\* What is soft as the environment stands.
SoftNow == {n \in Name : environ[n] = "soft"} \cup (IF sealOn THEN {} ELSE {"SEAL_ENV"})

\* A soft that is owed is one of those; whoever has set the flag holds a warning of it,
\* unless it was returned; while the flag is not set, or no more, somebody holds one or
\* has yet to read the flag.
Promise ==
  /\ Faithful
  /\ \A s \in Soft : told[s] # "void"
  /\ \A s \in Soft : told[s] = "owed" => s \in SoftNow
  /\ \A w \in Worker : task[w] = "warn" /\ name[w] = "STRICT_UNKNOWN" =>
       SoftNow \ {"STRICT_UNKNOWN"} \subseteq warns[w]
  /\ warned => \A s \in SoftNow : told[s] = "yes" \/ \E w \in Worker : pc[w] = "gate" /\ s \in warns[w]
  /\ ~warned => \A s \in Soft : told[s] = "owed" =>
       \E w \in Worker : \/ pc[w] = "gate" /\ s \in warns[w]
                       \/ pc[w] \notin {"idle", "gate"}

Voided == \A s \in Soft : told[s] = "void"

\* A step that tells no caller anything keeps the promise, if it leaves its call inside
\* the gate and the warnings alone.
Quiet(w) ==
  /\ pc[w] # "gate" /\ pc'[w] # "idle" /\ (pc'[w] = "gate" => warned)
  /\ task'[w] = "warn" /\ name'[w] = "STRICT_UNKNOWN" =>
       task[w] = "warn" /\ name[w] = "STRICT_UNKNOWN"
  /\ \A v \in Worker : v # w => pc'[v] = pc[v] /\ task'[v] = task[v] /\ name'[v] = name[v]
  /\ UNCHANGED <<environ, sealOn, warned, warns>>
  /\ told' = told \/ \E soft : soft \subseteq SoftNow /\ DecidedUnder(soft)

LEMMA QuietKeeps ==
  ASSUME TypeOK, Promise, [Next]_vars, NEW w \in Worker, Quiet(w)
  PROVE  Promise'
<1>1. Faithful'
  BY NextFaithful DEF Promise, Quiet
<1>2. SoftNow' = SoftNow
  BY DEF SoftNow, Quiet
<1>3. ASSUME NEW s \in Soft
      PROVE  /\ told'[s] # "void"
             /\ told'[s] = "owed" => s \in SoftNow
             /\ told[s] = "yes" => told'[s] = "yes"
  <2>1. CASE told' = told
    BY <2>1 DEF Promise
  <2>2. CASE \E soft : soft \subseteq SoftNow /\ DecidedUnder(soft)
    <3>1. PICK soft : soft \subseteq SoftNow /\ DecidedUnder(soft)
      BY <2>2
    <3>2. told'[s] = IF s \in soft /\ told[s] = "no" THEN "owed" ELSE told[s]
      BY <3>1 DEF DecidedUnder
    <3> QED
      BY <3>1, <3>2 DEF Promise
  <2> QED
    BY <2>1, <2>2 DEF Quiet
<1>4. ASSUME NEW v \in Worker, task'[v] = "warn", name'[v] = "STRICT_UNKNOWN"
      PROVE  SoftNow \ {"STRICT_UNKNOWN"} \subseteq warns'[v]
  BY <1>4 DEF Quiet, Promise
<1>5. ASSUME warned, NEW s \in SoftNow
      PROVE  told'[s] = "yes" \/ \E v \in Worker : pc'[v] = "gate" /\ s \in warns'[v]
  <2>1. s \in Soft
    BY DEF SoftNow, Soft
  <2>2. CASE told[s] = "yes"
    BY <1>3, <2>1, <2>2
  <2>3. CASE \E v \in Worker : pc[v] = "gate" /\ s \in warns[v]
    BY <2>3 DEF Quiet
  <2> QED
    BY <1>5, <2>2, <2>3 DEF Promise
<1>6. ~warned => pc'[w] \notin {"idle", "gate"}
  BY DEF Quiet
<1>7. warned' = warned
  BY DEF Quiet
<1> QED
  BY <1>1, <1>2, <1>3, <1>4, <1>5, <1>6, <1>7 DEF Promise

\* Lookups and the use of their results are quiet steps.
LEMMA QuietSteps ==
  ASSUME TypeOK, Promise, NEW w \in Worker,
         \/ ReadSwitch(w) \/ ReadRaw(w) \/ TestSeal(w) \/ CreateSeal(w) \/ FindName(w)
         \/ ReadEnv(w) \/ StoreValue(w) \/ Answer(w)
         \/ Begin(w) \/ UseStrict(w) \/ UseUnknown(w) \/ ReadFlag(w)
  PROVE  Quiet(w)
<1> USE DEF frame, store, environment, history, Goto, TypeOK
<1>1. CASE ReadSwitch(w)
  <2>1. (IF sealOn THEN {} ELSE {"SEAL_ENV"}) \subseteq SoftNow
    BY DEF SoftNow
  <2> QED
    BY <1>1, <2>1 DEF ReadSwitch, Quiet
<1>2. CASE ReadRaw(w) \/ TestSeal(w) \/ CreateSeal(w) \/ FindName(w)
  BY <1>2 DEF ReadRaw, TestSeal, CreateSeal, FindName, Quiet
<1>3. CASE ReadEnv(w) \/ StoreValue(w) \/ Answer(w)
  BY <1>3 DEF ReadEnv, StoreValue, Answer, Quiet
<1>4. CASE Begin(w)
  BY <1>4 DEF Begin, LookUp, NoLookUp, Quiet
<1>w. ASSUME pc[w] = "use" PROVE Warning(w) \subseteq SoftNow
  BY <1>w DEF Warning, SoftNow, Promise, Faithful
<1>5. CASE UseStrict(w)
  <2>1. Warning(w) \subseteq SoftNow /\ DecidedUnder(Warning(w))
    BY <1>w, <1>5 DEF UseStrict
  <2> QED
    BY <1>5, <2>1 DEF UseStrict, LookUp, NoLookUp, Quiet
<1>6. CASE UseUnknown(w)
  <2>1. Warning(w) \subseteq SoftNow /\ DecidedUnder(Warning(w))
    BY <1>w, <1>6 DEF UseUnknown
  <2> QED
    BY <1>6, <2>1 DEF UseUnknown, NoLookUp, Quiet
<1>7. CASE ReadFlag(w)
  BY <1>7 DEF ReadFlag, LookUp, NoLookUp, Quiet
<1> QED
  BY <1>1, <1>2, <1>3, <1>4, <1>5, <1>6, <1>7

\* The promise holds until an exception or an edit voids it, for good.
LEMMA NextPromise == TypeOK /\ (Promise \/ Voided) /\ [Next]_vars => (Promise \/ Voided)'
<1> SUFFICES ASSUME TypeOK, Promise \/ Voided, [Next]_vars PROVE (Promise \/ Voided)'
  OBVIOUS
<1>1. CASE Void
  BY <1>1 DEF Void, Voided
<1>2. CASE Voided
  <2>1. \A w \in Worker : Return(w) => Voided'
    BY <1>2 DEF Return, Voided
  <2>2. ASSUME NEW soft, DecidedUnder(soft) PROVE Voided'
    BY <1>2, <2>2 DEF DecidedUnder, Voided
  <2>3. ASSUME NEW w \in Worker, ReadSwitch(w) \/ UseStrict(w) \/ UseUnknown(w)
        PROVE  \E soft : DecidedUnder(soft)
    BY <2>3 DEF ReadSwitch, UseStrict, UseUnknown
  <2>4. ASSUME NEW w \in Worker,
               \/ ReadRaw(w) \/ TestSeal(w) \/ CreateSeal(w) \/ FindName(w)
               \/ ReadEnv(w) \/ StoreValue(w) \/ Answer(w)
               \/ Begin(w) \/ ReadFlag(w) \/ WarnStrict(w) \/ WarnUnknown(w)
        PROVE  told' = told
    BY <2>4 DEF ReadRaw, TestSeal, CreateSeal, FindName, ReadEnv, StoreValue, Answer,
                Begin, ReadFlag, WarnStrict, WarnUnknown, history
  <2>5. ASSUME NEW w \in Worker, LookupFails(w) \/ Raise(w) PROVE Void
    BY <2>5 DEF LookupFails, Raise
  <2>6. (Reset \/ ResetWarnings \/ UNCHANGED vars => told' = told) /\ (Edit => Void)
    BY DEF Reset, ResetWarnings, Edit, vars, history
  <2>7. told' = told => Voided'
    BY <1>2 DEF Voided
  <2> QED
    BY <1>1, <2>1, <2>2, <2>3, <2>4, <2>5, <2>6, <2>7 DEF Next, Lookup, Call
<1>3. CASE Promise /\ ~Void
  <2> USE DEF frame, store, environment, history, Goto
  <2>1. ASSUME NEW w \in Worker, WarnStrict(w) PROVE Promise'
    <3>1. /\ pc' = [pc EXCEPT ![w] = "switch"] /\ task' = [task EXCEPT ![w] = "warn"]
          /\ name' = [name EXCEPT ![w] = "STRICT_UNKNOWN"]
          /\ warns' = [warns EXCEPT ![w] = Warning(w) \cup (IF sealOn THEN {} ELSE {"SEAL_ENV"})]
          /\ pc[w] = "use" /\ name[w] = "STRICT"
          /\ UNCHANGED <<environ, sealOn, warned, told>>
      BY <2>1 DEF WarnStrict, LookUp
    <3>2. SoftNow' = SoftNow
      BY <3>1 DEF SoftNow
    <3>3. SoftNow \ {"STRICT_UNKNOWN"} \subseteq warns'[w]
      <4>1. value[w] = environ["STRICT"]
        BY <1>3, <3>1 DEF Promise, Faithful
      <4>2. warns'[w] = Warning(w) \cup (IF sealOn THEN {} ELSE {"SEAL_ENV"})
        BY <3>1 DEF TypeOK
      <4> QED
        BY <3>1, <4>1, <4>2 DEF SoftNow, Warning, Name
    <3>4. Faithful'
      BY <1>3, <3>1, NextFaithful DEF Promise
    <3>5. \A v \in Worker : task'[v] = "warn" /\ name'[v] = "STRICT_UNKNOWN" =>
            SoftNow \ {"STRICT_UNKNOWN"} \subseteq warns'[v]
      BY <1>3, <3>1, <3>3 DEF Promise, TypeOK
    <3>6. ASSUME NEW s, NEW v \in Worker, pc[v] = "gate", s \in warns[v]
          PROVE  pc'[v] = "gate" /\ s \in warns'[v]
      BY <3>1, <3>6 DEF TypeOK
    <3>7. pc'[w] = "switch" /\ \A v \in Worker : pc'[v] = "gate" => pc[v] = "gate"
      BY <3>1 DEF TypeOK
    <3> QED
      BY <1>3, <3>1, <3>2, <3>4, <3>5, <3>6, <3>7 DEF Promise
  <2>2. ASSUME NEW w \in Worker, WarnUnknown(w) PROVE Promise'
    <3>1. /\ pc' = [pc EXCEPT ![w] = "gate"] /\ warned' = TRUE
          /\ warns' = [warns EXCEPT ![w] = @ \cup Warning(w)]
          /\ pc[w] = "use" /\ task[w] = "warn" /\ name[w] = "STRICT_UNKNOWN"
          /\ UNCHANGED <<environ, sealOn, task, name, told>>
      BY <2>2 DEF WarnUnknown
    <3>2. SoftNow' = SoftNow
      BY <3>1 DEF SoftNow
    <3>3. SoftNow \subseteq warns'[w] /\ pc'[w] = "gate"
      <4>1. value[w] = environ["STRICT_UNKNOWN"]
        BY <1>3, <3>1 DEF Promise, Faithful
      <4>2. warns'[w] = warns[w] \cup Warning(w) /\ pc'[w] = "gate"
        BY <3>1 DEF TypeOK
      <4>3. SoftNow \ {"STRICT_UNKNOWN"} \subseteq warns[w]
        BY <1>3, <3>1 DEF Promise
      <4> QED
        BY <3>1, <4>1, <4>2, <4>3 DEF SoftNow, Warning, Name
    <3>4. Faithful'
      BY <1>3, <3>1, NextFaithful DEF Promise
    <3>5. \A v \in Worker : task'[v] = "warn" /\ name'[v] = "STRICT_UNKNOWN" =>
            SoftNow \ {"STRICT_UNKNOWN"} \subseteq warns'[v]
      BY <1>3, <3>1, <3>3 DEF Promise, TypeOK
    <3> QED
      BY <1>3, <3>1, <3>2, <3>3, <3>4, <3>5 DEF Promise
  <2>3. ASSUME NEW w \in Worker, Return(w) PROVE Promise'
    <3>1. /\ pc[w] = "gate" /\ Unwind(w) /\ UNCHANGED <<environ, sealOn, warned>>
          /\ told' = [s \in Soft |-> IF s \in warns[w] /\ told[s] # "void" THEN "yes" ELSE told[s]]
      BY <2>3 DEF Return
    <3>2. SoftNow' = SoftNow /\ SoftNow \subseteq Soft
      BY <3>1 DEF SoftNow, Soft
    <3>3. ASSUME ~warned, NEW s \in Soft, told'[s] = "owed"
          PROVE  \E v \in Worker : \/ pc'[v] = "gate" /\ s \in warns'[v]
                                 \/ pc'[v] \notin {"idle", "gate"}
      <4>1. told[s] = "owed" /\ s \notin warns[w]
        BY <1>3, <3>1, <3>3 DEF Promise
      <4>2. PICK v \in Worker : \/ pc[v] = "gate" /\ s \in warns[v]
                              \/ pc[v] \notin {"idle", "gate"}
        BY <1>3, <3>3, <4>1 DEF Promise
      <4>3. v # w
        BY <3>1, <4>1, <4>2
      <4> QED
        BY <3>1, <4>2, <4>3 DEF Unwind, TypeOK
    <3>4. Faithful'
      BY <1>3, <3>1, NextFaithful DEF Promise
    <3>5. \A v \in Worker : task'[v] = "warn" /\ name'[v] = "STRICT_UNKNOWN" =>
            SoftNow \ {"STRICT_UNKNOWN"} \subseteq warns'[v]
      BY <1>3, <3>1 DEF Promise, Unwind, TypeOK
    <3>6. \A s \in Soft : told'[s] = IF s \in warns[w] THEN "yes" ELSE told[s]
      BY <1>3, <3>1 DEF Promise
    <3>7. ASSUME warned, NEW s \in SoftNow
          PROVE  told'[s] = "yes" \/ \E v \in Worker : pc'[v] = "gate" /\ s \in warns'[v]
      <4>1. CASE s \in warns[w] \/ told[s] = "yes"
        BY <3>2, <3>6, <4>1
      <4>2. CASE \E v \in Worker : v # w /\ pc[v] = "gate" /\ s \in warns[v]
        BY <3>1, <4>2 DEF Unwind, TypeOK
      <4> QED
        BY <1>3, <3>7, <4>1, <4>2 DEF Promise
    <3> QED
      BY <1>3, <3>1, <3>2, <3>3, <3>4, <3>5, <3>6, <3>7 DEF Promise
  <2>4. ASSUME NEW w \in Worker, LookupFails(w) \/ Raise(w) PROVE FALSE
    BY <1>3, <2>4 DEF LookupFails, Raise
  <2>5. ASSUME NEW w \in Worker,
               \/ ReadSwitch(w) \/ ReadRaw(w) \/ TestSeal(w) \/ CreateSeal(w) \/ FindName(w)
               \/ ReadEnv(w) \/ StoreValue(w) \/ Answer(w)
               \/ Begin(w) \/ UseStrict(w) \/ UseUnknown(w) \/ ReadFlag(w)
        PROVE  Promise'
    BY <1>3, <2>5, QuietSteps, QuietKeeps
  <2>8. CASE ResetWarnings
    <3>1. warned' = FALSE /\ UNCHANGED <<environ, sealOn, told, pc, task, name, warns>>
      BY <2>8 DEF ResetWarnings
    <3>2. Faithful'
      BY <1>3, <3>1, NextFaithful DEF Promise
    <3>3. \A s \in Soft : told[s] = "owed" =>
            \E w \in Worker : \/ pc[w] = "gate" /\ s \in warns[w]
                            \/ pc[w] \notin {"idle", "gate"}
      BY <1>3 DEF Promise
    <3> QED
      BY <1>3, <3>1, <3>2, <3>3 DEF Promise, SoftNow
  <2>6. CASE Reset \/ UNCHANGED vars
    <3>1. UNCHANGED <<environ, sealOn, warned, told, pc, task, name, warns>>
      BY <2>6 DEF Reset, vars
    <3>2. Faithful'
      BY <1>3, <3>1, NextFaithful DEF Promise
    <3> QED
      BY <1>3, <3>1, <3>2 DEF Promise, SoftNow
  <2>7. ~Edit
    BY <1>3 DEF Edit
  <2> QED
    BY <2>1, <2>2, <2>3, <2>4, <2>5, <2>6, <2>7, <2>8 DEF Next, Lookup, Call
<1> QED
  BY <1>1, <1>2, <1>3

LEMMA InitPromise == Init => Promise
<1> SUFFICES ASSUME Init PROVE Promise
  OBVIOUS
<1>1. Faithful
  BY DEF Init, Faithful
<1> QED
  BY <1>1 DEF Init, Promise, Name

\* Whoever wins the race for the flag, a softened policy is told to some caller.
THEOREM SoftenCorrect == Spec => []OperatorsSeeTheSoften
<1>1. Promise \/ Voided => OperatorsSeeTheSoften
  BY DEF Promise, Voided, OperatorsSeeTheSoften
<1>2. Init => TypeOK /\ (Promise \/ Voided)
  BY InitType, InitPromise
<1>3. TypeOK /\ (Promise \/ Voided) /\ [Next]_vars => (TypeOK /\ (Promise \/ Voided))'
  BY NextType, NextPromise
<1> QED
  BY <1>1, <1>2, <1>3, PTL DEF Spec

=============================================================================
