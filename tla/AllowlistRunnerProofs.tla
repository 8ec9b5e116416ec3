----------------------- MODULE AllowlistRunnerProofs -----------------------
(* Proofs, for any number of runs, receipts, contents and edits, about the    *)
(* allowlist runner.                                                          *)
EXTENDS AllowlistRunner, TLAPS

-----------------------------------------------------------------------------
(* The inductive invariant. *)

\* Whoever made a receipt is past the opening of it; its text comes last.
Owner(r) ==
  /\ pc[r] \notin {"idle", "open", "done"} => receipts[receipt[r]].by = r
  /\ pc[r] \notin {"idle", "open", "write", "done"} => receipts[receipt[r]].text = Empty
  /\ \A p \in Receipt :
       receipts[p].by = r => p = receipt[r] /\ pc[r] \notin {"idle", "open"}

\* The history of an active run starts at its beginning and misses no edit.
Watched(r) == Active(r) => file \in onDisk[r] /\ blob \in inHead[r]

\* What the checks have established of the bytes in the buffer.
Buffered(r) ==
  /\ pc[r] \in {"second", "head", "run", "script"} => first[r] \in Content \cap onDisk[r]
  /\ pc[r] \in {"run", "script"} => first[r] \in allowlist[r] \cap inHead[r]

\* Nothing ran before the script was started, and the result says what did.
Started(r) ==
  /\ pc[r] \notin {"script", "write", "done"} => ran[r] = NoBytes
  /\ pc[r] = "script" => ran[r] = first[r]
  /\ pc[r] = "write" => result[r].bytes # Unwritten /\ Tells(result[r], ran[r])
  /\ ran[r] # NoBytes =>
       /\ ran[r] \in allowlist[r] \cap onDisk[r] \cap inHead[r]
       /\ receipts[receipt[r]].by = r

RunnerInv ==
  /\ TypeOK
  /\ ReceiptIsTrue
  /\ \A r \in Run : Owner(r) /\ Watched(r) /\ Buffered(r) /\ Started(r)

LEMMA InitInv == Init => RunnerInv
<1> SUFFICES ASSUME Init PROVE RunnerInv
  OBVIOUS
<1> USE RunnerAssumption
<1>1. Refusal(NoBytes) \in Result
  BY DEF Refusal, Result
<1>2. TypeOK
  BY <1>1 DEF Init, TypeOK, Entry, NoReceipt
<1>3. \A r \in Run : pc[r] = "idle" /\ ran[r] = NoBytes
  BY DEF Init
<1>4. \A p \in Receipt : receipts[p].by = "nobody" /\ receipts[p].text = Empty
  BY DEF Init, NoReceipt
<1>5. \A r \in Run : Owner(r) /\ Watched(r) /\ Buffered(r) /\ Started(r)
  BY <1>3, <1>4 DEF Owner, Watched, Buffered, Started, Active
<1> QED
  BY <1>2, <1>4, <1>5 DEF RunnerInv, ReceiptIsTrue

-----------------------------------------------------------------------------
(* Steps of a run.  Nothing of another run changes but the receipt it cannot   *)
(* own, so each action is looked at for its own run.                          *)

\* The step is r's: the environment and what belongs to another run stay as they
\* are, and a receipt changes only from one that r may write to one that r made.
OnlyOf(r) ==
  /\ UNCHANGED <<tree, receipt>>
  /\ \A q \in Run \ {r} :
       /\ pc'[q] = pc[q] /\ allowlist'[q] = allowlist[q] /\ first'[q] = first[q]
       /\ result'[q] = result[q] /\ ran'[q] = ran[q]
       /\ onDisk'[q] = onDisk[q] /\ inHead'[q] = inHead[q]
  /\ \A p \in Receipt :
       \/ receipts'[p] = receipts[p]
       \/ receipts[p].by \in {r, "nobody"} /\ receipts'[p].by = r

\* Such a step keeps the invariant of every other run.
LEMMA OthersKeep ==
  ASSUME RunnerInv, NEW r \in Run, OnlyOf(r), NEW q \in Run, q # r
  PROVE  Owner(q)' /\ Watched(q)' /\ Buffered(q)' /\ Started(q)'
<1>1. receipt[q] \in Receipt /\ UNCHANGED <<file, blob, receipt>>
  BY DEF RunnerInv, TypeOK, tree, OnlyOf
<1>2. Owner(q) /\ Watched(q) /\ Buffered(q) /\ Started(q)
  BY DEF RunnerInv
<1>3. /\ pc'[q] = pc[q] /\ allowlist'[q] = allowlist[q] /\ first'[q] = first[q]
      /\ result'[q] = result[q] /\ ran'[q] = ran[q]
      /\ onDisk'[q] = onDisk[q] /\ inHead'[q] = inHead[q]
  BY DEF OnlyOf
<1>4. ASSUME NEW p \in Receipt
      PROVE  /\ receipts'[p].by = q => receipts[p].by = q
             /\ receipts[p].by = q => receipts'[p] = receipts[p]
  BY RunnerAssumption DEF OnlyOf
<1>5. Owner(q)'
  <2>1. pc[q] \notin {"idle", "open", "done"} =>
          receipts'[receipt[q]].by = q /\ receipts'[receipt[q]] = receipts[receipt[q]]
    BY <1>1, <1>2, <1>4 DEF Owner
  <2> QED
    BY <1>1, <1>2, <1>3, <1>4, <2>1 DEF Owner
<1>6. Watched(q)' /\ Buffered(q)'
  BY <1>1, <1>2, <1>3 DEF Watched, Buffered, Active
<1>7. Started(q)'
  BY <1>1, <1>2, <1>3, <1>4 DEF Started
<1> QED
  BY <1>5, <1>6, <1>7

\* Nor does it make the receipt of another run tell a lie.
LEMMA OthersTrue ==
  ASSUME RunnerInv, NEW r \in Run, OnlyOf(r),
         \A p \in Receipt :
           receipts'[p].by = r /\ receipts'[p].text # Empty =>
             Tells(receipts'[p].text, ran'[r])
  PROVE  ReceiptIsTrue'
<1>1. ASSUME NEW p \in Receipt, NEW q \in Run, q # r,
             receipts'[p].by = q, receipts'[p].text # Empty
      PROVE  Tells(receipts'[p].text, ran'[q])
  <2>1. receipts'[p] = receipts[p] /\ ran'[q] = ran[q]
    BY <1>1 DEF OnlyOf
  <2> QED
    BY <1>1, <2>1 DEF RunnerInv, ReceiptIsTrue
<1> QED
  BY <1>1 DEF ReceiptIsTrue

\* Start.
LEMMA StartStep ==
  ASSUME RunnerInv, NEW r \in Run, Start(r) PROVE RunnerInv'
<1>0. TypeOK /\ Owner(r) /\ Started(r) /\ ReceiptIsTrue
  BY DEF RunnerInv
<1>1. TypeOK'
  BY <1>0, RunnerAssumption DEF TypeOK, Start, Goto, tree
<1>2. pc'[r] = "open" /\ file \in onDisk'[r] /\ blob \in inHead'[r] /\ ran'[r] = NoBytes
  BY <1>0 DEF TypeOK, Start, Goto, Started
<1>3. Owner(r)' /\ Watched(r)' /\ Buffered(r)' /\ Started(r)'
  BY <1>0, <1>2 DEF Start, tree, Owner, Watched, Buffered, Started
<1>4. OnlyOf(r)
  BY <1>0 DEF TypeOK, Start, Goto, OnlyOf, tree
<1>5. ReceiptIsTrue'
  BY <1>0 DEF Start, ReceiptIsTrue
<1> QED
  BY <1>1, <1>3, <1>4, <1>5, OthersKeep DEF RunnerInv

\* OpenReceipt: the path belongs to nobody, or the run ends.
LEMMA OpenStep ==
  ASSUME RunnerInv, NEW r \in Run, OpenReceipt(r) PROVE RunnerInv'
<1>0. TypeOK /\ Owner(r) /\ Watched(r) /\ Started(r) /\ ReceiptIsTrue
  BY DEF RunnerInv
<1>1. CASE receipts[receipt[r]] = NoReceipt
  <2>1. /\ receipts' = [receipts EXCEPT ![receipt[r]] = [by |-> r, text |-> Empty]]
        /\ pc' = [pc EXCEPT ![r] = "layout"] /\ pc[r] = "open"
        /\ UNCHANGED <<tree, receipt, allowlist, first, result, ran, past>>
    BY <1>1 DEF OpenReceipt, Goto
  <2>2. TypeOK'
    BY <1>0, <2>1 DEF TypeOK, tree, past
  <2>3. /\ receipts'[receipt[r]] = [by |-> r, text |-> Empty] /\ pc'[r] = "layout"
        /\ \A p \in Receipt : p # receipt[r] => receipts'[p] = receipts[p]
        /\ receipts[receipt[r]].by = "nobody" /\ receipts'[receipt[r]].by = r
    BY <1>0, <1>1, <2>1 DEF TypeOK, NoReceipt
  <2>4. \A p \in Receipt : receipts'[p].by = r => p = receipt[r]
    BY <1>0, <2>1, <2>3 DEF Owner
  <2>5. Owner(r)' /\ Watched(r)' /\ Buffered(r)' /\ Started(r)'
    BY <1>0, <2>1, <2>3, <2>4 DEF tree, past, Active, Owner, Watched, Buffered, Started
  <2>6. OnlyOf(r)
    BY <1>0, <2>1, <2>3 DEF TypeOK, past, OnlyOf, tree
  <2>7. ReceiptIsTrue'
    BY <2>3, <2>4, <2>6, OthersTrue
  <2> QED
    BY <2>2, <2>5, <2>6, <2>7, OthersKeep DEF RunnerInv
<1>2. CASE receipts[receipt[r]] # NoReceipt
  <2>1. /\ pc' = [pc EXCEPT ![r] = "done"] /\ pc[r] = "open"
        /\ UNCHANGED <<tree, receipts, receipt, allowlist, first, result, ran, past>>
    BY <1>2 DEF OpenReceipt, Goto
  <2>2. TypeOK'
    BY <1>0, <2>1 DEF TypeOK, tree, past
  <2>3. pc'[r] = "done"
    BY <1>0, <2>1 DEF TypeOK
  <2>4. Owner(r)' /\ Watched(r)' /\ Buffered(r)' /\ Started(r)'
    BY <1>0, <2>1, <2>3 DEF tree, past, Active, Owner, Watched, Buffered, Started
  <2>5. OnlyOf(r) /\ ReceiptIsTrue'
    BY <1>0, <2>1 DEF TypeOK, past, OnlyOf, tree, ReceiptIsTrue
  <2> QED
    BY <2>2, <2>4, <2>5, OthersKeep DEF RunnerInv
<1> QED
  BY <1>1, <1>2

\* A refusal is a result, and so is an allow with bytes of the script.
LEMMA ResultTypes ==
  /\ \A b \in Content \cup {NoBytes} :
       /\ Refusal(b) \in Result
       /\ [decision |-> "allow", bytes |-> b] \in Result
       /\ Refusal(b).decision = "refuse"
  BY DEF Refusal, Result

\* A step between two checks, or to a refusal: the receipts and the history do
\* not change, and what the buffer promises at the new place is shown by the caller.
LEMMA LocalStep ==
  ASSUME RunnerInv, NEW r \in Run, NEW at,
         at \in {"layout", "config", "status", "flags", "first", "second", "head", "run",
                 "write"},
         pc[r] \notin {"idle", "open", "script", "write", "done"},
         pc' = [pc EXCEPT ![r] = at],
         UNCHANGED <<tree, receipts, receipt, allowlist, ran, past>>,
         first' \in [Run -> Content \cup {NoBytes}],
         \A q \in Run : q # r => first'[q] = first[q],
         result' \in [Run -> Result],
         \A q \in Run : q # r => result'[q] = result[q],
         at = "write" => result'[r].decision = "refuse",
         Buffered(r)'
  PROVE  RunnerInv'
<1>0. TypeOK /\ Owner(r) /\ Watched(r) /\ Started(r) /\ ReceiptIsTrue
  BY DEF RunnerInv
<1>1. TypeOK'
  BY <1>0 DEF TypeOK, tree, past
<1>2. pc'[r] = at
  BY <1>0 DEF TypeOK
<1>3. Owner(r)' /\ Watched(r)' /\ Started(r)'
  <2>1. result'[r].bytes # Unwritten
    BY RunnerAssumption DEF Result
  <2>2. ran'[r] = NoBytes
    BY <1>0 DEF Started
  <2>3. at = "write" => Tells(result'[r], ran'[r])
    BY <2>2 DEF Tells
  <2> QED
    BY <1>0, <1>2, <2>1, <2>2, <2>3 DEF tree, past, Active, Owner, Watched, Started
<1>4. OnlyOf(r)
  BY <1>0 DEF TypeOK, past, OnlyOf
<1>5. ReceiptIsTrue'
  BY <1>0 DEF ReceiptIsTrue
<1> QED
  BY <1>1, <1>3, <1>4, <1>5, OthersKeep DEF RunnerInv

\* The checks of the tree, and the second read.
LEMMA CheckStep ==
  ASSUME RunnerInv, NEW r \in Run,
         \/ CheckLayout(r) \/ CheckConfig(r) \/ CheckStatus(r) \/ CheckFlags(r)
         \/ ReadSecond(r)
  PROVE  RunnerInv'
<1>0. TypeOK /\ Buffered(r)
  BY DEF RunnerInv
<1>1. PICK at \in {"layout", "config", "status", "flags", "second"},
           ok \in BOOLEAN,
           onward \in {"config", "status", "flags", "first", "head"} :
        Check(r, at, ok, onward) /\ (onward = "head" => at = "second")
  <2>1. CASE CheckLayout(r)
    BY <1>0, <2>1 DEF CheckLayout, TypeOK
  <2>2. CASE CheckConfig(r)
    BY <1>0, <2>2 DEF CheckConfig, TypeOK
  <2>3. CASE CheckStatus(r)
    <3>1. (plain /\ ~stray /\ (flagged \/ file = blob)) \in BOOLEAN
      OBVIOUS
    <3> QED
      BY <2>3, <3>1 DEF CheckStatus
  <2>4. CASE CheckFlags(r)
    <3>1. (plain /\ ~flagged) \in BOOLEAN
      OBVIOUS
    <3> QED
      BY <2>4, <3>1 DEF CheckFlags
  <2>5. CASE ReadSecond(r)
    <3>1. (file = first[r]) \in BOOLEAN
      OBVIOUS
    <3> QED
      BY <2>5, <3>1 DEF ReadSecond
  <2> QED
    BY <2>1, <2>2, <2>3, <2>4, <2>5
<1>2. CASE ok
  <2>1. /\ pc' = [pc EXCEPT ![r] = onward] /\ pc[r] = at
        /\ UNCHANGED <<tree, receipts, receipt, allowlist, first, result, ran, past>>
    BY <1>1, <1>2 DEF Check, Goto
  <2>2. Buffered(r)'
    BY <1>0, <1>1, <2>1 DEF Buffered, TypeOK, past
  <2> QED
    BY <1>0, <2>1, <2>2, LocalStep DEF TypeOK
<1>3. CASE ~ok
  <2>1. /\ pc' = [pc EXCEPT ![r] = "write"] /\ pc[r] = at
        /\ result' = [result EXCEPT ![r] = Refusal(NoBytes)]
        /\ UNCHANGED <<tree, receipts, receipt, allowlist, first, ran, past>>
    BY <1>1, <1>3 DEF Check, Refuse, Goto
  <2>2. Buffered(r)'
    BY <1>0, <2>1 DEF Buffered, TypeOK
  <2>3. /\ result' \in [Run -> Result] /\ result'[r].decision = "refuse"
        /\ \A q \in Run : q # r => result'[q] = result[q]
    BY <1>0, <2>1, ResultTypes DEF TypeOK
  <2> QED
    BY <1>0, <2>1, <2>2, <2>3, LocalStep DEF TypeOK
<1> QED
  BY <1>2, <1>3

\* The first read fills the buffer with what is on disk.
LEMMA ReadStep ==
  ASSUME RunnerInv, NEW r \in Run, ReadFirst(r) PROVE RunnerInv'
<1>0. TypeOK /\ Buffered(r) /\ Watched(r)
  BY DEF RunnerInv
<1>1. CASE file = Link
  <2>1. /\ pc' = [pc EXCEPT ![r] = "write"] /\ pc[r] = "first"
        /\ result' = [result EXCEPT ![r] = Refusal(NoBytes)]
        /\ UNCHANGED <<tree, receipts, receipt, allowlist, first, ran, past>>
    BY <1>1 DEF ReadFirst, Refuse, Goto
  <2>2. Buffered(r)'
    BY <1>0, <2>1 DEF Buffered, TypeOK
  <2>3. /\ result' \in [Run -> Result] /\ result'[r].decision = "refuse"
        /\ \A q \in Run : q # r => result'[q] = result[q]
    BY <1>0, <2>1, ResultTypes DEF TypeOK
  <2> QED
    BY <1>0, <2>1, <2>2, <2>3, LocalStep DEF TypeOK
<1>2. CASE file # Link
  <2>1. /\ pc' = [pc EXCEPT ![r] = "second"] /\ pc[r] = "first"
        /\ first' = [first EXCEPT ![r] = file]
        /\ UNCHANGED <<tree, receipts, receipt, allowlist, result, ran, past>>
    BY <1>2 DEF ReadFirst, Goto
  <2>2. file \in Content /\ file \in onDisk[r]
    BY <1>0, <1>2, <2>1 DEF ReadFirst, TypeOK, Entry, Watched, Active
  <2>3. Buffered(r)'
    BY <1>0, <2>1, <2>2 DEF Buffered, TypeOK, past
  <2>4. /\ first' \in [Run -> Content \cup {NoBytes}]
        /\ \A q \in Run : q # r => first'[q] = first[q]
    BY <1>0, <2>1, <2>2 DEF TypeOK
  <2> QED
    BY <1>0, <2>1, <2>3, <2>4, LocalStep DEF TypeOK
<1> QED
  BY <1>1, <1>2

\* The comparison with HEAD, and with the list.
LEMMA CompareStep ==
  ASSUME RunnerInv, NEW r \in Run, CompareHead(r) PROVE RunnerInv'
<1>0. TypeOK /\ Buffered(r) /\ Watched(r)
  BY DEF RunnerInv
<1>1. CASE plain /\ blob = first[r] /\ first[r] \in allowlist[r]
  <2>1. /\ pc' = [pc EXCEPT ![r] = "run"] /\ pc[r] = "head"
        /\ UNCHANGED <<tree, receipts, receipt, allowlist, first, result, ran, past>>
    BY <1>1 DEF CompareHead, Goto
  <2>2. first[r] \in inHead[r]
    BY <1>0, <1>1, <2>1 DEF Watched, Active
  <2>3. Buffered(r)'
    BY <1>0, <1>1, <2>1, <2>2 DEF Buffered, TypeOK, past
  <2> QED
    BY <1>0, <2>1, <2>3, LocalStep DEF TypeOK
<1>2. CASE ~(plain /\ blob = first[r] /\ first[r] \in allowlist[r])
  <2>1. PICK b \in {NoBytes, first[r]} : Refuse(r, b)
    BY <1>2 DEF CompareHead
  <2>2. /\ pc' = [pc EXCEPT ![r] = "write"] /\ pc[r] = "head"
        /\ result' = [result EXCEPT ![r] = Refusal(b)]
        /\ UNCHANGED <<tree, receipts, receipt, allowlist, first, ran, past>>
    BY <2>1 DEF CompareHead, Refuse, Goto
  <2>3. Buffered(r)'
    BY <1>0, <2>2 DEF Buffered, TypeOK
  <2>4. b \in Content \cup {NoBytes}
    BY <1>0, <2>1 DEF TypeOK
  <2>5. /\ result' \in [Run -> Result] /\ result'[r].decision = "refuse"
        /\ \A q \in Run : q # r => result'[q] = result[q]
    BY <1>0, <2>2, <2>4, ResultTypes DEF TypeOK
  <2> QED
    BY <1>0, <2>2, <2>3, <2>5, LocalStep DEF TypeOK
<1> QED
  BY <1>1, <1>2

\* The interpreter gets the buffer.
LEMMA ExecuteStep ==
  ASSUME RunnerInv, NEW r \in Run, Execute(r) PROVE RunnerInv'
<1>0. TypeOK /\ Owner(r) /\ Watched(r) /\ Buffered(r) /\ Started(r) /\ ReceiptIsTrue
  BY DEF RunnerInv
<1>1. /\ pc[r] = "run" /\ pc' = [pc EXCEPT ![r] = "script"]
      /\ ran' = [ran EXCEPT ![r] = first[r]]
      /\ UNCHANGED <<tree, receipts, receipt, allowlist, first, result, past>>
  BY DEF Execute, Goto
<1>2. first[r] \in Content /\ first[r] \in allowlist[r] \cap onDisk[r] \cap inHead[r]
  BY <1>0, <1>1 DEF Buffered
<1>3. TypeOK'
  BY <1>0, <1>1, <1>2 DEF TypeOK, tree, past
<1>4. pc'[r] = "script" /\ ran'[r] = first[r]
  BY <1>0, <1>1 DEF TypeOK
<1>5. receipts[receipt[r]].by = r /\ receipts[receipt[r]].text = Empty
  BY <1>0, <1>1 DEF Owner
<1>6. Owner(r)' /\ Watched(r)' /\ Buffered(r)'
  BY <1>0, <1>1, <1>4 DEF tree, past, Active, Owner, Watched, Buffered
<1>7. Started(r)'
  BY <1>1, <1>2, <1>4, <1>5 DEF past, Started
<1>8. OnlyOf(r)
  BY <1>0, <1>1 DEF TypeOK, past, OnlyOf
<1>9. \A p \in Receipt : receipts'[p].by = r => receipts'[p].text = Empty
  BY <1>0, <1>1, <1>5 DEF Owner
<1>10. ReceiptIsTrue'
  BY <1>8, <1>9, OthersTrue
<1> QED
  BY <1>3, <1>6, <1>7, <1>8, <1>10, OthersKeep DEF RunnerInv

\* The script has ended: the result names the bytes that ran.
LEMMA CompletedStep ==
  ASSUME RunnerInv, NEW r \in Run, Completed(r) PROVE RunnerInv'
<1>0. TypeOK /\ Owner(r) /\ Watched(r) /\ Buffered(r) /\ Started(r) /\ ReceiptIsTrue
  BY DEF RunnerInv
<1>1. /\ pc[r] = "script" /\ pc' = [pc EXCEPT ![r] = "write"]
      /\ result' = [result EXCEPT ![r] = [decision |-> "allow", bytes |-> first[r]]]
      /\ UNCHANGED <<tree, receipts, receipt, allowlist, first, ran, past>>
  BY DEF Completed, Goto
<1>2. first[r] \in Content /\ ran[r] = first[r]
  BY <1>0, <1>1 DEF Buffered, Started
<1>3. [decision |-> "allow", bytes |-> first[r]] \in Result
  BY <1>2, ResultTypes
<1>4. TypeOK'
  BY <1>0, <1>1, <1>3 DEF TypeOK, tree, past
<1>5. pc'[r] = "write" /\ result'[r] = [decision |-> "allow", bytes |-> first[r]]
  BY <1>0, <1>1 DEF TypeOK
<1>6. Owner(r)' /\ Watched(r)' /\ Buffered(r)'
  BY <1>0, <1>1, <1>5 DEF tree, past, Active, Owner, Watched, Buffered
<1>7. result'[r].bytes # Unwritten /\ Tells(result'[r], ran'[r])
  BY <1>1, <1>2, <1>5, RunnerAssumption DEF Tells
<1>8. Started(r)'
  BY <1>0, <1>1, <1>5, <1>7 DEF past, Started
<1>9. OnlyOf(r)
  BY <1>0, <1>1 DEF TypeOK, past, OnlyOf
<1>10. ReceiptIsTrue'
  BY <1>0, <1>1 DEF ReceiptIsTrue
<1> QED
  BY <1>4, <1>6, <1>8, <1>9, <1>10, OthersKeep DEF RunnerInv

\* All or part of the text goes into the receipt this run made.
LEMMA WriteStep ==
  ASSUME RunnerInv, NEW r \in Run, WritePart(r) \/ WriteReceipt(r) PROVE RunnerInv'
<1>0. TypeOK /\ Owner(r) /\ Watched(r) /\ Buffered(r) /\ Started(r) /\ ReceiptIsTrue
  BY DEF RunnerInv
<1> DEFINE part == [decision |-> result[r].decision, bytes |-> Unwritten]
<1>1. pc[r] = "write" /\ receipt[r] \in Receipt /\ result[r] \in Result
      /\ receipts[receipt[r]].by = r /\ Tells(result[r], ran[r])
  BY <1>0 DEF TypeOK, Owner, Started, WritePart, WriteReceipt
<1>2. PICK text \in {part, result[r]}, at \in {"write", "done"} :
        /\ receipts' = [receipts EXCEPT ![receipt[r]].text = text]
        /\ pc' = [pc EXCEPT ![r] = at]
        /\ UNCHANGED <<tree, receipt, allowlist, first, result, ran, past>>
  <2>1. CASE WritePart(r)
    <3>1. pc' = [pc EXCEPT ![r] = "write"]
      BY <1>0, <1>1, <2>1 DEF WritePart, frame, TypeOK
    <3> QED
      BY <2>1, <3>1 DEF WritePart, frame
  <2>2. CASE WriteReceipt(r)
    BY <2>2 DEF WriteReceipt, Goto
  <2> QED
    BY <2>1, <2>2
<1>3. text \in Text /\ Tells(text, ran[r])
  <2>1. result[r].decision \in {"allow", "refuse"}
        /\ result[r].bytes \in Content \cup {NoBytes}
        /\ result[r] = [decision |-> result[r].decision, bytes |-> result[r].bytes]
    BY <1>1 DEF Result
  <2>2. part \in Text /\ result[r] \in Text
    BY <2>1 DEF Text
  <2>3. Tells(part, ran[r])
    BY <1>1 DEF Tells
  <2> QED
    BY <1>1, <2>2, <2>3
<1> HIDE DEF part
<1>4. receipts' = [receipts EXCEPT ![receipt[r]] = [by |-> r, text |-> text]]
  <2>1. receipts[receipt[r]] \in [by : Run \cup {"nobody"}, text : Text \cup {Empty}]
    BY <1>0, <1>1 DEF TypeOK
  <2>2. [receipts[receipt[r]] EXCEPT !.text = text] = [by |-> r, text |-> text]
    BY <1>1, <2>1
  <2> QED
    BY <1>2, <2>2
<1>5. TypeOK'
  BY <1>0, <1>1, <1>2, <1>3, <1>4 DEF TypeOK, tree, past
<1>6. /\ pc'[r] = at
      /\ receipts'[receipt[r]] = [by |-> r, text |-> text]
      /\ \A p \in Receipt : p # receipt[r] => receipts'[p] = receipts[p]
  BY <1>0, <1>1, <1>2, <1>4 DEF TypeOK
<1>7. \A p \in Receipt : receipts'[p].by = r => p = receipt[r]
  BY <1>0, <1>6 DEF Owner
<1>8. Owner(r)' /\ Watched(r)' /\ Buffered(r)' /\ Started(r)'
  BY <1>0, <1>1, <1>2, <1>6, <1>7 DEF tree, past, Active, Owner, Watched, Buffered, Started
<1>9. OnlyOf(r)
  BY <1>0, <1>1, <1>2, <1>6 DEF TypeOK, past, OnlyOf
<1>10. ASSUME NEW p \in Receipt, receipts'[p].by = r
       PROVE  Tells(receipts'[p].text, ran'[r])
  BY <1>2, <1>3, <1>6, <1>7, <1>10
<1>11. ReceiptIsTrue'
  BY <1>9, <1>10, OthersTrue
<1> QED
  BY <1>5, <1>8, <1>9, <1>11, OthersKeep DEF RunnerInv

\* A run that ends early leaves everything else.
LEMMA AbortStep ==
  ASSUME RunnerInv, NEW r \in Run, Abort(r) PROVE RunnerInv'
<1>0. TypeOK /\ Owner(r) /\ Started(r) /\ ReceiptIsTrue
  BY DEF RunnerInv
<1>1. /\ pc[r] \notin {"idle", "done"} /\ pc' = [pc EXCEPT ![r] = "done"]
      /\ UNCHANGED <<tree, receipts, receipt, allowlist, first, result, ran, past>>
  BY DEF Abort, Goto
<1>2. TypeOK'
  BY <1>0, <1>1 DEF TypeOK, tree, past
<1>3. pc'[r] = "done"
  BY <1>0, <1>1 DEF TypeOK
<1>4. Owner(r)' /\ Watched(r)' /\ Buffered(r)' /\ Started(r)'
  BY <1>0, <1>1, <1>3 DEF past, Active, Owner, Watched, Buffered, Started
<1>5. OnlyOf(r) /\ ReceiptIsTrue'
  BY <1>0, <1>1 DEF TypeOK, past, OnlyOf, ReceiptIsTrue
<1> QED
  BY <1>2, <1>4, <1>5, OthersKeep DEF RunnerInv

-----------------------------------------------------------------------------
(* The environment. *)

\* An edit or a commit enters the history of every active run; no other change
\* touches what the invariant speaks of.
LEMMA EnvironmentStep ==
  ASSUME RunnerInv,
         \/ \E e \in Entry : Edit(e)
         \/ Commit \/ Litter \/ Flag \/ Configure
         \/ \E s \in SUBSET Content : List(s)
  PROVE  RunnerInv'
<1>0. TypeOK /\ ReceiptIsTrue
  BY DEF RunnerInv
<1>1. Change /\ edits' \in Nat
  BY <1>0 DEF Edit, Commit, Litter, Flag, Configure, List, Change, TypeOK
<1>2. /\ UNCHANGED <<receipts, pc, receipt, allowlist, first, result, ran>>
  BY <1>1 DEF Change, frame
<1>3. TypeOK'
  <2>1. CASE \E e \in Entry : Edit(e)
    BY <1>0, <1>1, <1>2, <2>1 DEF TypeOK, Edit
  <2>2. CASE Commit
    BY <1>0, <1>1, <1>2, <2>2 DEF TypeOK, Commit
  <2>3. CASE Litter \/ Flag \/ Configure
    BY <1>0, <1>1, <1>2, <2>3 DEF TypeOK, Litter, Flag, Configure, past
  <2>4. CASE \E s \in SUBSET Content : List(s)
    BY <1>0, <1>1, <1>2, <2>4 DEF TypeOK, List, past
  <2> QED
    BY <2>1, <2>2, <2>3, <2>4
<1>4. ASSUME NEW r \in Run PROVE Watched(r)' /\ onDisk[r] \subseteq onDisk'[r] /\ inHead[r] \subseteq inHead'[r]
  <2>0. Watched(r)
    BY DEF RunnerInv
  <2>1. CASE \E e \in Entry : Edit(e)
    BY <1>0, <1>2, <2>0, <2>1 DEF TypeOK, Edit, Watched, Active
  <2>2. CASE Commit
    BY <1>0, <1>2, <2>0, <2>2 DEF TypeOK, Commit, Watched, Active
  <2>3. CASE Litter \/ Flag \/ Configure \/ \E s \in SUBSET Content : List(s)
    BY <1>2, <2>0, <2>3 DEF Litter, Flag, Configure, List, past, Watched, Active
  <2> QED
    BY <2>1, <2>2, <2>3
<1>5. ASSUME NEW r \in Run PROVE Owner(r)' /\ Buffered(r)' /\ Started(r)'
  <2>1. Owner(r) /\ Buffered(r) /\ Started(r)
    BY DEF RunnerInv
  <2> QED
    BY <1>2, <1>4, <2>1 DEF Owner, Buffered, Started
<1> QED
  BY <1>0, <1>2, <1>3, <1>4, <1>5 DEF RunnerInv, ReceiptIsTrue

-----------------------------------------------------------------------------
(* The theorems. *)

LEMMA NextInv == RunnerInv /\ [Next]_vars => RunnerInv'
<1> SUFFICES ASSUME RunnerInv, [Next]_vars PROVE RunnerInv'
  OBVIOUS
<1>1. ASSUME NEW r \in Run, Step(r) PROVE RunnerInv'
  BY <1>1, StartStep, OpenStep, CheckStep, ReadStep, CompareStep, ExecuteStep,
     CompletedStep, WriteStep, AbortStep DEF Step
<1>2. CASE UNCHANGED vars
  <2>1. \A r \in Run : (Owner(r)' <=> Owner(r)) /\ (Watched(r)' <=> Watched(r))
          /\ (Buffered(r)' <=> Buffered(r)) /\ (Started(r)' <=> Started(r))
    BY <1>2 DEF vars, tree, frame, past, Active, Owner, Watched, Buffered, Started
  <2>2. TypeOK' /\ ReceiptIsTrue'
    BY <1>2 DEF RunnerInv, vars, tree, frame, past, TypeOK, ReceiptIsTrue
  <2> QED
    BY <2>1, <2>2 DEF RunnerInv
<1> QED
  BY <1>1, <1>2, EnvironmentStep DEF Next

\* The tree, the receipts, the locals and the history stay in their domains.
THEOREM RunnerTypeCorrect == Spec => []TypeOK
<1>1. RunnerInv => TypeOK
  BY DEF RunnerInv
<1> QED
  BY <1>1, InitInv, NextInv, PTL DEF Spec

\* What ran was listed, and was on disk and at HEAD while its run looked.
THEOREM ReviewedCorrect == Spec => []RanWasReviewed
<1>1. RunnerInv => RanWasReviewed
  BY DEF RunnerInv, Started, RanWasReviewed
<1> QED
  BY <1>1, InitInv, NextInv, PTL DEF Spec

\* A script runs only under a receipt its own run created.
THEOREM OwnReceiptCorrect == Spec => []RunOwnsItsReceipt
<1>1. RunnerInv => RunOwnsItsReceipt
  BY DEF RunnerInv, Started, RunOwnsItsReceipt
<1> QED
  BY <1>1, InitInv, NextInv, PTL DEF Spec

\* The text of a receipt, all or part of it, tells what ran, and only that.
THEOREM TrueReceiptCorrect == Spec => []ReceiptIsTrue
<1>1. RunnerInv => ReceiptIsTrue
  BY DEF RunnerInv
<1> QED
  BY <1>1, InitInv, NextInv, PTL DEF Spec

=============================================================================
