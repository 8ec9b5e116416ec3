------------------------ MODULE ReceiptLedgerProofs ------------------------
(* Proofs, for any number of writers and receipts, about the receipt file    *)
(* and about a reader beside its writers.                                    *)
EXTENDS ReceiptReader, SequenceTheorems, TLAPS

-----------------------------------------------------------------------------
(* Type correctness. *)

\* TypeOK, a body in the hands of every writer that has read the last line, and
\* a line that is torn.
LedgerType ==
  /\ TypeOK
  /\ \A w \in Writer : pc[w] # "idle" => id[w] \in 1..MaxReceipts
  /\ torn => file # <<>>

\* A chained receipt is a line of the file.
LEMMA ReceiptIsLine ==
  ASSUME NEW body \in 1..MaxReceipts, NEW p \in Hash
  PROVE  /\ HashReceipt(body, p) \in Hash
         /\ Receipt(body, p) \in Line
<1>1. Append(p, body) \in Seq(1..MaxReceipts)
  BY DEF Hash
<1>2. MaxReceipts \in Nat
  BY LedgerAssumption
<1> QED
  BY <1>1, <1>2 DEF HashReceipt, Receipt, Line, Hash

\* So is garbage.
LEMMA GarbageIsLine == Garbage \in Line /\ NoHash \in Hash
<1>1. <<>> \in Seq(1..MaxReceipts)
  OBVIOUS
<1> QED
  BY <1>1, LedgerAssumption DEF Garbage, NoHash, Line, Hash

\* What an append makes of a file: nothing but its last line changes, and that
\* only to garbage; one line is new, unless it fell into an unterminated one.
LEMMA AppendToFile ==
  ASSUME file \in Seq(Line), torn => file # <<>>, NEW line \in Line
  PROVE  /\ AppendTo(line) \in Seq(Line)
         /\ Len(file) <= Len(AppendTo(line))
         /\ \A i \in 1..Len(file) :
              \/ AppendTo(line)[i] = file[i]
              \/ i = Len(file) /\ AppendTo(line)[i] = Garbage
         /\ \E i \in 1..Len(AppendTo(line)) : AppendTo(line)[i] \in {line, Garbage}
<1> DEFINE f == AppendTo(line)
<1>0. Len(file) \in Nat
  OBVIOUS
<1>1. CASE ~torn
  <2>1. f = Append(file, line)
    BY <1>1 DEF AppendTo
  <2>2. f \in Seq(Line) /\ Len(f) = Len(file) + 1 /\ f[Len(file) + 1] = line
        /\ \A i \in 1..Len(file) : f[i] = file[i]
    BY <2>1
  <2> HIDE DEF f
  <2>3. Len(file) + 1 \in 1..Len(f)
    BY <1>0, <2>2
  <2>4. /\ f \in Seq(Line) /\ Len(file) <= Len(f)
        /\ \A i \in 1..Len(file) : f[i] = file[i]
        /\ \E i \in 1..Len(f) : f[i] \in {line, Garbage}
    BY <1>0, <2>2, <2>3
  <2> QED
    BY <2>4 DEF f
<1>2. CASE torn
  <2>1. f = [file EXCEPT ![Len(file)] = Garbage]
    BY <1>2 DEF AppendTo
  <2>2. Len(file) \in 1..Len(file)
    BY <1>0, <1>2
  <2>3. f \in Seq(Line) /\ Len(f) = Len(file) /\ f[Len(file)] = Garbage
        /\ \A i \in 1..Len(file) : i # Len(file) => f[i] = file[i]
    BY <2>1, <2>2, GarbageIsLine
  <2> HIDE DEF f
  <2>4. Len(file) <= Len(f)
    BY <1>0, <2>3
  <2>5. ASSUME NEW i \in 1..Len(file)
        PROVE  f[i] = file[i] \/ (i = Len(file) /\ f[i] = Garbage)
    BY <2>3
  <2>6. \E i \in 1..Len(f) : f[i] \in {line, Garbage}
    <3>1. Len(file) \in 1..Len(f) /\ f[Len(file)] \in {line, Garbage}
      BY <2>2, <2>3
    <3> QED
      BY <3>1
  <2>7. /\ f \in Seq(Line) /\ Len(file) <= Len(f)
        /\ \A i \in 1..Len(file) : f[i] = file[i] \/ (i = Len(file) /\ f[i] = Garbage)
        /\ \E i \in 1..Len(f) : f[i] \in {line, Garbage}
    BY <2>3, <2>4, <2>5, <2>6
  <2> QED
    BY <2>7 DEF f
<1> QED
  BY <1>1, <1>2

\* An altered line is a line, and commits to the body it was written with.
LEMMA AlteredLine ==
  ASSUME NEW l \in Line, NEW body \in 1..MaxReceipts
  PROVE  /\ [l EXCEPT !.id = body] \in Line
         /\ [l EXCEPT !.id = body].hash = l.hash
         /\ [l EXCEPT !.id = body].prev = l.prev
<1>1. body \in 0..MaxReceipts
  BY LedgerAssumption
<1>2. l = [id |-> l.id, prev |-> l.prev, hash |-> l.hash] /\ l.prev \in Hash /\ l.hash \in Hash
  BY DEF Line
<1>3. [l EXCEPT !.id = body] = [id |-> body, prev |-> l.prev, hash |-> l.hash]
  BY <1>2
<1> QED
  BY <1>1, <1>2, <1>3 DEF Line

\* The last hash on file is a hash.
LEMMA LastHashIsHash ==
  ASSUME file \in Seq(Line) PROVE LastReceiptHash \in Hash
<1>1. CASE file = <<>>
  BY <1>1, GarbageIsLine DEF LastReceiptHash
<1>2. CASE file # <<>>
  <2>1. Len(file) \in 1..Len(file)
    BY <1>2
  <2>2. file[Len(file)] \in Line
    BY <2>1
  <2> QED
    BY <1>2, <2>2 DEF LastReceiptHash, Line
<1> QED
  BY <1>1, <1>2

\* A writer that leaves clears its locals.
LEMMA LeaveType ==
  ASSUME LedgerType, NEW w \in Writer, Leave(w)
  PROVE  /\ pc' \in [Writer -> {"idle", "append", "count", "open", "tip"}]
         /\ id' \in [Writer -> 0..MaxReceipts]
         /\ prev' \in [Writer -> Hash]
         /\ count' \in [Writer -> Nat]
         /\ \A v \in Writer : pc'[v] # "idle" => id'[v] \in 1..MaxReceipts
<1> QED
  BY GarbageIsLine, LedgerAssumption DEF LedgerType, TypeOK, Leave

\* The ledger starts empty.
LEMMA InitLedger == Init => LedgerType
<1>1. <<>> \in Seq(Line)
  OBVIOUS
<1>2. TipMissing \in Tip
  BY GarbageIsLine DEF TipMissing, Tip
<1>3. MaxReceipts \in Nat /\ MaxFaults \in Nat
  BY LedgerAssumption
<1> SUFFICES ASSUME Init PROVE LedgerType
  OBVIOUS
<1>4. exists \in BOOLEAN /\ torn \in BOOLEAN /\ ~torn /\ shortened \in BOOLEAN
  BY DEF Init
<1>5. /\ pc \in [Writer -> {"idle", "append", "count", "open", "tip"}]
      /\ id \in [Writer -> 0..MaxReceipts]
      /\ prev \in [Writer -> Hash]
      /\ count \in [Writer -> Nat]
      /\ \A w \in Writer : pc[w] = "idle"
  BY <1>3, GarbageIsLine DEF Init
<1>6. /\ next \in 1..(MaxReceipts + 1) /\ faults \in 0..MaxFaults
      /\ reported \subseteq 1..MaxReceipts
      /\ settled \in {"no", "writing", "yes"}
  BY <1>3 DEF Init
<1>7. file \in Seq(Line) /\ tip \in Tip /\ tip.state # "ok"
  BY <1>1, <1>2 DEF Init, TipMissing
<1> QED
  BY <1>4, <1>5, <1>6, <1>7 DEF LedgerType, TypeOK

\* Every step, a fault included, keeps the ledger and the locals well formed.
LEMMA NextLedger == LedgerType /\ [Next]_vars => LedgerType'
<1> SUFFICES ASSUME LedgerType, [Next]_vars PROVE LedgerType'
  OBVIOUS
<1>0. /\ TypeOK /\ MaxReceipts \in Nat /\ MaxFaults \in Nat
      /\ torn => file # <<>>
      /\ \A v \in Writer : pc[v] # "idle" => id[v] \in 1..MaxReceipts
  BY LedgerAssumption DEF LedgerType
<1> USE DEF LedgerType, TypeOK, Tip
<1>1. ASSUME NEW w \in Writer, ReadLast(w) PROVE LedgerType'
  <2>1. LastReceiptHash \in Hash
    BY LastHashIsHash
  <2>2. next \in 1..MaxReceipts
    BY <1>0, <1>1 DEF ReadLast
  <2> QED
    BY <1>0, <1>1, <2>1, <2>2 DEF ReadLast, disk
<1>2. ASSUME NEW w \in Writer, AppendReceipt(w) PROVE LedgerType'
  <2> DEFINE line == Receipt(id[w], prev[w])
  <2>1. id[w] \in 1..MaxReceipts /\ prev[w] \in Hash
    BY <1>0, <1>2 DEF AppendReceipt
  <2>2. line \in Line
    BY <2>1, ReceiptIsLine
  <2> HIDE DEF line
  <2>3. AppendTo(line) \in Seq(Line)
    BY <2>2, AppendToFile
  <2>4. file' = AppendTo(line)
    BY <1>2 DEF AppendReceipt, line
  <2>5. CASE TipEnabled
    BY <1>0, <1>2, <2>3, <2>4, <2>5 DEF AppendReceipt
  <2>6. CASE ~TipEnabled
    <3>1. Finish(w)
      BY <1>2, <2>6 DEF AppendReceipt
    <3> QED
      BY <1>0, <1>2, <2>1, <2>3, <2>4, <3>1, LeaveType DEF AppendReceipt, Finish
  <2> QED
    BY <2>5, <2>6
<1>3. ASSUME NEW w \in Writer, Count(w) PROVE LedgerType'
  <2>1. CountReceipts \in Nat
    BY DEF CountReceipts
  <2> QED
    BY <1>0, <1>3, <2>1 DEF Count, disk
<1>4. ASSUME NEW w \in Writer, OpenTip(w) PROVE LedgerType'
  <2>1. TipTorn \in Tip /\ TipTorn.state # "ok"
    BY GarbageIsLine DEF TipTorn
  <2> QED
    BY <1>0, <1>4, <2>1 DEF OpenTip
<1>5. ASSUME NEW w \in Writer, WriteTip(w) PROVE LedgerType'
  <2>1. id[w] \in 1..MaxReceipts /\ prev[w] \in Hash /\ count[w] \in Nat
    BY <1>0, <1>5 DEF WriteTip
  <2>2. HashReceipt(id[w], prev[w]) # NoHash
    <3>1. prev[w] \in Seq(1..MaxReceipts)
      BY <2>1 DEF Hash
    <3> DEFINE a == Append(prev[w], id[w])
    <3>2. Len(a) = Len(prev[w]) + 1 /\ Len(prev[w]) \in Nat
      BY <2>1, <3>1
    <3>3. Len(<< >>) = 0
      OBVIOUS
    <3>4. a # << >>
      <4> HIDE DEF a
      <4> QED
        BY <3>2, <3>3
    <3> QED
      BY <3>4 DEF HashReceipt, NoHash
  <2> DEFINE t == TipOf(HashReceipt(id[w], prev[w]), count[w])
  <2>3. t \in Tip /\ t.hash # NoHash
    BY <2>1, <2>2, ReceiptIsLine DEF TipOf
  <2>4. tip' = t
    BY <1>5 DEF WriteTip
  <2> HIDE DEF t
  <2> QED
    BY <1>0, <1>5, <2>1, <2>3, <2>4, LeaveType DEF WriteTip, Finish
<1>6. ASSUME NEW w \in Writer, Crash(w) PROVE LedgerType'
  BY <1>0, <1>6, LeaveType DEF Crash, Fault, disk
<1>7. ASSUME NEW w \in Writer, CrashInAppend(w) PROVE LedgerType'
  <2>1. Receipt(id[w], prev[w]) \in Line
    BY <1>0, <1>7, ReceiptIsLine DEF CrashInAppend
  <2>2. PICK line \in {Garbage, Receipt(id[w], prev[w])} : file' = AppendTo(line)
    BY <1>7 DEF CrashInAppend
  <2>3. line \in Line
    BY <2>1, <2>2, GarbageIsLine
  <2>4. file' \in Seq(Line) /\ \E i \in 1..Len(file') : file'[i] \in {line, Garbage}
    BY <2>2, <2>3, AppendToFile
  <2>5. file' # <<>>
    BY <2>4
  <2>6. /\ Leave(w) /\ faults' \in 0..MaxFaults /\ settled' = "no"
        /\ exists' = TRUE /\ torn' = TRUE
        /\ UNCHANGED <<tip, next, reported, shortened>>
    BY <1>0, <1>7 DEF CrashInAppend, Fault
  <2> QED
    BY <1>0, <2>4, <2>5, <2>6, LeaveType
<1>8. CASE Cut
  <2>1. PICK n \in 0..Len(file) : n < Len(file) /\ file' = SubSeq(file, 1, n)
    BY <1>8 DEF Cut
  <2>2. file' \in Seq(Line)
    <3>1. 1 \in 1..(Len(file) + 1) /\ n \in 0..Len(file) /\ file \in Seq(Line)
      BY <2>1
    <3> QED
      BY <2>1, <3>1, SubSeqProperties
  <2>3. /\ faults' \in 0..MaxFaults /\ settled' = "no" /\ torn' = FALSE /\ shortened' = TRUE
        /\ UNCHANGED <<exists, tip, pc, id, prev, count, next, reported>>
    BY <1>0, <1>8 DEF Cut, Fault, writer
  <2> QED
    BY <1>0, <2>2, <2>3
<1>9. CASE Alter
  <2>1. PICK i \in 1..Len(file), body \in 1..MaxReceipts : file' = [file EXCEPT ![i].id = body]
    BY <1>9 DEF Alter
  <2>2. [file[i] EXCEPT !.id = body] \in Line
    <3>1. file[i] \in Line
      BY <2>1
    <3> QED
      BY <3>1, AlteredLine
  <2>3. file' = [file EXCEPT ![i] = [file[i] EXCEPT !.id = body]]
    BY <2>1
  <2>4. file' \in Seq(Line) /\ Len(file') = Len(file)
    BY <2>2, <2>3
  <2>5. file' # <<>> /\ file # <<>>
    BY <2>1, <2>4
  <2>6. /\ faults' \in 0..MaxFaults /\ settled' = "no"
        /\ UNCHANGED <<exists, torn, tip, pc, id, prev, count, next, reported, shortened>>
    BY <1>0, <1>9 DEF Alter, Fault, writer
  <2> QED
    BY <1>0, <2>4, <2>5, <2>6
<1>10. CASE UNCHANGED vars
  BY <1>10 DEF vars, disk, writer
<1> QED
  BY <1>1, <1>2, <1>3, <1>4, <1>5, <1>6, <1>7, <1>8, <1>9, <1>10 DEF Next, Write

\* The files, the locals and the history stay in their domains.
THEOREM LedgerTypeCorrect == Spec => []TypeOK
<1>1. LedgerType => TypeOK
  BY DEF LedgerType
<1> QED
  BY <1>1, InitLedger, NextLedger, PTL DEF Spec

-----------------------------------------------------------------------------
(* What a step may do to the file. *)

\* The file is left alone, appended to, cut or altered.
LEMMA FileStep ==
  ASSUME LedgerType, [Next]_vars
  PROVE  \/ UNCHANGED file
         \/ \E line \in Line : file' = AppendTo(line)
         \/ Cut
         \/ Alter
<1>1. ASSUME NEW w \in Writer, pc[w] = "append"
      PROVE  Receipt(id[w], prev[w]) \in Line
  <2>1. id[w] \in 1..MaxReceipts /\ prev[w] \in Hash
    BY <1>1 DEF LedgerType, TypeOK
  <2> QED
    BY <2>1, ReceiptIsLine
<1>2. ASSUME NEW w \in Writer, AppendReceipt(w)
      PROVE  \E line \in Line : file' = AppendTo(line)
  BY <1>1, <1>2 DEF AppendReceipt
<1>3. ASSUME NEW w \in Writer, CrashInAppend(w)
      PROVE  \E line \in Line : file' = AppendTo(line)
  BY <1>1, <1>3, GarbageIsLine DEF CrashInAppend
<1>4. ASSUME NEW w \in Writer, ReadLast(w) \/ Count(w) \/ OpenTip(w) \/ WriteTip(w) \/ Crash(w)
      PROVE  UNCHANGED file
  BY <1>4 DEF ReadLast, Count, OpenTip, WriteTip, Crash, disk
<1>5. UNCHANGED vars => UNCHANGED file
  BY DEF disk, vars
<1> QED
  BY <1>2, <1>3, <1>4, <1>5 DEF Next, Write

-----------------------------------------------------------------------------
(* A chain that is broken stays broken. *)

\* An append hides no broken line.
LEMMA AppendKeepsBreak ==
  ASSUME LedgerType, NEW line \in Line, file' = AppendTo(line), ~ChainOk(file)
  PROVE  ~ChainOk(file')
<1>1. file \in Seq(Line) /\ (torn => file # <<>>) /\ Len(file) \in Nat
  BY DEF LedgerType, TypeOK
<1>2. /\ file' \in Seq(Line) /\ Len(file) <= Len(file')
      /\ \A i \in 1..Len(file) : file'[i] = file[i] \/ (i = Len(file) /\ file'[i] = Garbage)
  BY <1>1, AppendToFile
<1>3. PICK i \in 1..Len(file) : ~LineOk(file, i)
  BY DEF ChainOk
<1>4. i \in 1..Len(file')
  BY <1>1, <1>2
<1>5. CASE file'[i] = Garbage
  BY <1>4, <1>5 DEF ChainOk, LineOk
<1>6. CASE file'[i] = file[i]
  <2>1. i = 1 \/ (i - 1 \in 1..Len(file) /\ i - 1 # Len(file))
    BY <1>1
  <2>2. i = 1 \/ file'[i - 1] = file[i - 1]
    BY <1>2, <2>1
  <2>3. ~LineOk(file', i)
    BY <1>3, <1>6, <2>2 DEF LineOk
  <2> QED
    BY <1>4, <2>3 DEF ChainOk
<1> QED
  BY <1>2, <1>5, <1>6

\* No crash and no race of writers repairs a broken chain.
THEOREM BrokenChainCorrect == Spec => BrokenChainStaysBroken
<1>1. LedgerType /\ [Next]_vars =>
        [exists /\ ~ChainOk(file) /\ ~Cut /\ ~Alter => ~ChainOk(file')]_vars
  <2> SUFFICES ASSUME LedgerType, [Next]_vars, ~ChainOk(file), ~Cut, ~Alter
               PROVE  ~ChainOk(file')
    OBVIOUS
  <2>1. UNCHANGED file \/ \E line \in Line : file' = AppendTo(line)
    BY FileStep
  <2> QED
    BY <2>1, AppendKeepsBreak
<1> QED
  BY <1>1, InitLedger, NextLedger, PTL DEF Spec, BrokenChainStaysBroken

-----------------------------------------------------------------------------
(* A ledger that verifies is complete. *)

\* The line of a body, whatever was altered in it since, or a line that does not
\* parse: in a file without cuts one of them witnesses every write.
Written(body) ==
  \E i \in 1..Len(file) :
    file[i] = Garbage \/ file[i].hash = HashReceipt(body, file[i].prev)

CompleteInv ==
  /\ \A body \in reported : Written(body)
  /\ \A w \in Writer : pc[w] \in {"count", "open", "tip"} => Written(id[w])

\* Nothing but a cut takes a written line away.
LEMMA WrittenStays ==
  ASSUME LedgerType, [Next]_vars, ~Cut, NEW body, Written(body)
  PROVE  \E i \in 1..Len(file') :
           file'[i] = Garbage \/ file'[i].hash = HashReceipt(body, file'[i].prev)
<1>1. file \in Seq(Line) /\ (torn => file # <<>>) /\ Len(file) \in Nat
  BY DEF LedgerType, TypeOK
<1>2. PICK i \in 1..Len(file) :
        file[i] = Garbage \/ file[i].hash = HashReceipt(body, file[i].prev)
  BY DEF Written
<1>3. CASE UNCHANGED file
  BY <1>2, <1>3
<1>4. CASE \E line \in Line : file' = AppendTo(line)
  <2>1. PICK line \in Line : file' = AppendTo(line)
    BY <1>4
  <2>2. /\ file' \in Seq(Line) /\ Len(file) <= Len(file')
        /\ file'[i] = file[i] \/ file'[i] = Garbage
    BY <1>1, <2>1, AppendToFile
  <2>3. i \in 1..Len(file')
    BY <1>1, <2>2
  <2> QED
    BY <1>2, <2>2, <2>3
<1>5. CASE Alter
  <2>1. PICK k \in 1..Len(file), other \in 1..MaxReceipts :
          file[k] # Garbage /\ file' = [file EXCEPT ![k].id = other]
    BY <1>5 DEF Alter
  <2>2. Len(file') = Len(file) /\ file[i] \in Line
        /\ file'[i] = IF i = k THEN [file[i] EXCEPT !.id = other] ELSE file[i]
    BY <1>1, <2>1
  <2>3. CASE file[i] = Garbage
    BY <2>1, <2>2, <2>3
  <2>4. CASE file[i].hash = HashReceipt(body, file[i].prev)
    <3>1. file'[i].hash = file[i].hash /\ file'[i].prev = file[i].prev
      BY <2>2, AlteredLine
    <3> QED
      BY <2>2, <2>4, <3>1
  <2> QED
    BY <1>2, <2>3, <2>4
<1> QED
  BY <1>3, <1>4, <1>5, FileStep

\* A body counts as reported, or as appended by a writer that goes on, once its
\* line, or one that swallowed it, is there.
LEMMA NextComplete ==
  ASSUME LedgerType, CompleteInv, [Next]_vars, ~Cut
  PROVE  CompleteInv'
<1>1. ASSUME NEW body, Written(body) PROVE Written(body)'
  BY <1>1, WrittenStays DEF Written
<1>2. ASSUME NEW w \in Writer, AppendReceipt(w)
      PROVE  \E i \in 1..Len(file') :
               file'[i] = Garbage \/ file'[i].hash = HashReceipt(id[w], file'[i].prev)
  <2> DEFINE line == Receipt(id[w], prev[w])
  <2>1. line \in Line
    BY <1>2, ReceiptIsLine DEF AppendReceipt, LedgerType, TypeOK
  <2>2. line.hash = HashReceipt(id[w], line.prev)
    BY DEF Receipt
  <2>3. file' = AppendTo(line)
    BY <1>2 DEF AppendReceipt
  <2> HIDE DEF line
  <2>4. \E i \in 1..Len(file') : file'[i] \in {line, Garbage}
    BY <2>1, <2>3, AppendToFile DEF LedgerType, TypeOK
  <2> QED
    BY <2>2, <2>4
<1>3. ASSUME NEW w \in Writer, AppendReceipt(w) PROVE CompleteInv'
  <2>1. reported' \subseteq reported \cup {id[w]}
    BY <1>3 DEF AppendReceipt, Finish
  <2>2. ASSUME NEW body \in reported' PROVE Written(body)'
    <3>1. CASE body \in reported
      BY <1>1, <3>1 DEF CompleteInv
    <3>2. CASE body = id[w]
      BY <1>2, <1>3, <3>2 DEF Written
    <3> QED
      BY <2>1, <3>1, <3>2
  <2>3. ASSUME NEW v \in Writer, pc'[v] \in {"count", "open", "tip"}
        PROVE  \E i \in 1..Len(file') :
                 file'[i] = Garbage \/ file'[i].hash = HashReceipt(id'[v], file'[i].prev)
    <3>1. CASE v = w
      <4>1. id'[w] = id[w]
        BY <1>3, <2>3, <3>1 DEF AppendReceipt, Finish, Leave, LedgerType, TypeOK
      <4> QED
        BY <1>2, <1>3, <3>1, <4>1
    <3>2. CASE v # w
      <4>1. pc'[v] = pc[v] /\ id'[v] = id[v]
        BY <1>3, <3>2 DEF AppendReceipt, Finish, Leave, LedgerType, TypeOK
      <4>2. Written(id[v])
        BY <2>3, <4>1 DEF CompleteInv
      <4> QED
        BY <4>1, <4>2, WrittenStays
    <3> QED
      BY <3>1, <3>2
  <2> QED
    BY <2>2, <2>3 DEF CompleteInv, Written
<1>4. ASSUME reported' = reported,
             \A v \in Writer : pc'[v] \in {"count", "open", "tip"} =>
               pc[v] \in {"count", "open", "tip"} /\ id'[v] = id[v]
      PROVE  CompleteInv'
  <2>1. ASSUME NEW body \in reported' PROVE Written(body)'
    BY <1>1, <1>4, <2>1 DEF CompleteInv
  <2>2. ASSUME NEW v \in Writer, pc'[v] \in {"count", "open", "tip"}
        PROVE  \E i \in 1..Len(file') :
                 file'[i] = Garbage \/ file'[i].hash = HashReceipt(id'[v], file'[i].prev)
    <3>1. Written(id[v]) /\ id'[v] = id[v]
      BY <1>4, <2>2 DEF CompleteInv
    <3> QED
      BY <3>1, WrittenStays
  <2> QED
    BY <2>1, <2>2 DEF CompleteInv, Written
<1>5. ASSUME NEW w \in Writer, WriteTip(w) PROVE CompleteInv'
  <2>1. reported' = reported \cup {id[w]} /\ Written(id[w])
    BY <1>5 DEF WriteTip, Finish, CompleteInv
  <2>2. ASSUME NEW body \in reported' PROVE Written(body)'
    BY <1>1, <2>1, <2>2 DEF CompleteInv
  <2>3. ASSUME NEW v \in Writer, pc'[v] \in {"count", "open", "tip"}
        PROVE  \E i \in 1..Len(file') :
                 file'[i] = Garbage \/ file'[i].hash = HashReceipt(id'[v], file'[i].prev)
    <3>1. pc'[v] = pc[v] /\ id'[v] = id[v]
      BY <1>5, <2>3 DEF WriteTip, Finish, Leave, LedgerType, TypeOK
    <3>2. Written(id[v])
      BY <2>3, <3>1 DEF CompleteInv
    <3> QED
      BY <3>1, <3>2, WrittenStays
  <2> QED
    BY <2>2, <2>3 DEF CompleteInv, Written
<1>6. ASSUME NEW w \in Writer, ReadLast(w) PROVE CompleteInv'
  BY <1>4, <1>6 DEF ReadLast, LedgerType, TypeOK
<1>7. ASSUME NEW w \in Writer, Count(w) \/ OpenTip(w) PROVE CompleteInv'
  BY <1>4, <1>7 DEF Count, OpenTip, LedgerType, TypeOK
<1>8. ASSUME NEW w \in Writer, Crash(w) \/ CrashInAppend(w) PROVE CompleteInv'
  BY <1>4, <1>8 DEF Crash, CrashInAppend, Leave, LedgerType, TypeOK
<1>9. CASE Alter \/ UNCHANGED vars
  BY <1>4, <1>9 DEF Alter, vars, writer
<1> QED
  BY <1>3, <1>5, <1>6, <1>7, <1>8, <1>9 DEF Next, Write

\* A cut leaves its mark.
LEMMA ShortenedStep ==
  ASSUME [Next]_vars
  PROVE  shortened' <=> shortened \/ Cut
<1>1. ASSUME NEW w \in Writer, Write(w) \/ Crash(w) \/ CrashInAppend(w)
      PROVE  UNCHANGED shortened
  BY <1>1 DEF Write, ReadLast, AppendReceipt, Count, OpenTip, WriteTip, Crash, CrashInAppend
<1>2. Alter \/ UNCHANGED vars => UNCHANGED shortened
  BY DEF Alter, vars
<1>3. Cut => shortened' = TRUE
  BY DEF Cut
<1> QED
  BY <1>1, <1>2, <1>3 DEF Next

\* As long as nothing cuts the file, a ledger that verifies misses no receipt.
THEOREM CompleteCorrect == Spec => []VerifiedMeansComplete
<1>1. Init => CompleteInv
  BY DEF Init, CompleteInv
<1>2. LedgerType /\ (~shortened => CompleteInv) /\ [Next]_vars =>
        (~shortened => CompleteInv)'
  BY NextComplete, ShortenedStep
<1>3. LedgerType /\ (~shortened => CompleteInv) => VerifiedMeansComplete
  <2> SUFFICES ASSUME LedgerType, CompleteInv, ChainOk(file), NEW body \in reported
               PROVE  \E i \in 1..Len(file) : file[i].id = body
    BY DEF VerifiedMeansComplete, VerifyOk, Complete
  <2>1. PICK i \in 1..Len(file) :
          file[i] = Garbage \/ file[i].hash = HashReceipt(body, file[i].prev)
    BY DEF CompleteInv, Written
  <2>2. file[i] # Garbage /\ file[i].hash = HashReceipt(file[i].id, file[i].prev)
    BY DEF ChainOk, LineOk
  <2>3. file[i] \in Line /\ body \in 1..MaxReceipts
    BY DEF LedgerType, TypeOK
  <2>4. file[i].prev \in Seq(1..MaxReceipts)
    BY <2>3 DEF Line, Hash
  <2>5. Append(file[i].prev, body) = Append(file[i].prev, file[i].id)
    BY <2>1, <2>2 DEF HashReceipt
  <2>6. body = file[i].id
    BY <2>4, <2>5
  <2> QED
    BY <2>6
<1> QED
  BY <1>1, <1>2, <1>3, InitLedger, NextLedger, PTL DEF Spec

-----------------------------------------------------------------------------
(* A write that runs alone. *)

\* What an append puts last: its line, or the garbage that swallowed it.
LEMMA LastOfAppend ==
  ASSUME file \in Seq(Line), torn => file # <<>>, NEW line \in Line
  PROVE  /\ AppendTo(line) # <<>>
         /\ AppendTo(line)[Len(AppendTo(line))] \in {line, Garbage}
         /\ \A i \in 1..Len(AppendTo(line)) :
              \/ i \in 1..Len(file) /\ AppendTo(line)[i] = file[i]
              \/ AppendTo(line)[i] \in {line, Garbage}
<1> DEFINE f == AppendTo(line)
<1>0. Len(file) \in Nat
  OBVIOUS
<1>1. CASE ~torn
  <2>1. f = Append(file, line)
    BY <1>1 DEF AppendTo
  <2>2. f \in Seq(Line) /\ Len(f) = Len(file) + 1 /\ f[Len(file) + 1] = line
        /\ \A i \in 1..Len(file) : f[i] = file[i]
    BY <2>1
  <2> HIDE DEF f
  <2>3. f # <<>> /\ f[Len(f)] = line
    BY <1>0, <2>2
  <2>4. ASSUME NEW i \in 1..Len(f)
        PROVE  (i \in 1..Len(file) /\ f[i] = file[i]) \/ f[i] = line
    BY <1>0, <2>2
  <2>5. f # <<>> /\ f[Len(f)] \in {line, Garbage}
        /\ \A i \in 1..Len(f) : (i \in 1..Len(file) /\ f[i] = file[i]) \/ f[i] \in {line, Garbage}
    BY <2>3, <2>4
  <2> QED
    BY <2>5 DEF f
<1>2. CASE torn
  <2>1. f = [file EXCEPT ![Len(file)] = Garbage]
    BY <1>2 DEF AppendTo
  <2>2. Len(file) \in 1..Len(file)
    BY <1>0, <1>2
  <2>3. f \in Seq(Line) /\ Len(f) = Len(file) /\ f[Len(file)] = Garbage
        /\ \A i \in 1..Len(file) : i # Len(file) => f[i] = file[i]
    BY <2>1, <2>2, GarbageIsLine
  <2> HIDE DEF f
  <2>4. f # <<>> /\ f[Len(f)] \in {line, Garbage}
    BY <2>2, <2>3
  <2>5. \A i \in 1..Len(f) : (i \in 1..Len(file) /\ f[i] = file[i]) \/ f[i] \in {line, Garbage}
    BY <2>3
  <2> QED
    BY <2>4, <2>5 DEF f
<1> QED
  BY <1>1, <1>2

\* The last line is the one that hashes to h, or garbage that swallowed it.
LastIs(h) == exists /\ file # <<>> /\ (file[Len(file)] = Garbage \/ file[Len(file)].hash = h)

Alone(w) == \A v \in Writer : v # w => pc[v] = "idle"

\* Where a lone write stands: before its line it holds the last hash, then its line is
\* the last, then it has counted it.
Writing(w) ==
  /\ pc[w] # "idle" /\ Alone(w)
  /\ pc[w] = "append" => prev[w] = LastReceiptHash
  /\ pc[w] \in {"count", "open", "tip"} => LastIs(HashReceipt(id[w], prev[w]))
  /\ pc[w] \in {"open", "tip"} => count[w] = Len(file)

\* What a lone write leaves behind.
Agreed ==
  /\ \A w \in Writer : pc[w] = "idle"
  /\ exists /\ file # <<>>
  /\ TipEnabled => tip.state = "ok" /\ tip.count = Len(file) /\ LastIs(tip.hash)

SettledInv ==
  /\ settled = "writing" => \E w \in Writer : Writing(w)
  /\ settled = "yes" => Agreed
  /\ ~TipEnabled => tip = TipMissing /\ \A w \in Writer : pc[w] \in {"idle", "append"}

\* Nothing but a write on its own makes a lone write, or ends one as such.
LEMMA NextSettled ==
  ASSUME LedgerType, SettledInv, [Next]_vars
  PROVE  SettledInv'
<1>0. /\ TypeOK /\ (torn => file # <<>>) /\ file \in Seq(Line)
      /\ pc \in [Writer -> {"idle", "append", "count", "open", "tip"}]
      /\ id \in [Writer -> 0..MaxReceipts] /\ prev \in [Writer -> Hash]
      /\ count \in [Writer -> Nat] /\ settled \in {"no", "writing", "yes"}
      /\ \A v \in Writer : pc[v] # "idle" => id[v] \in 1..MaxReceipts
  BY DEF LedgerType, TypeOK
<1>f. ASSUME settled' = "no", tip' = tip,
             \A v \in Writer : pc'[v] \in {"idle", pc[v]}
      PROVE  SettledInv'
  BY <1>f DEF SettledInv
<1>w. ASSUME NEW w \in Writer, pc[w] # "idle", settled = "writing" PROVE Writing(w)
  BY <1>w DEF SettledInv, Writing, Alone
<1>y. ASSUME NEW w \in Writer, pc[w] # "idle" PROVE settled # "yes"
  BY <1>y DEF SettledInv, Agreed
<1>1. ASSUME NEW w \in Writer, ReadLast(w) PROVE SettledInv'
  <2>1. /\ pc[w] = "idle" /\ pc' = [pc EXCEPT ![w] = "append"]
        /\ prev' = [prev EXCEPT ![w] = LastReceiptHash]
        /\ file' = file /\ exists' = exists /\ tip' = tip
        /\ settled' = IF \A v \in Writer : pc[v] = "idle" THEN "writing" ELSE "no"
    BY <1>1 DEF ReadLast, disk
  <2>2. ASSUME settled' = "writing" PROVE Writing(w)'
    <3>1. \A v \in Writer : pc[v] = "idle"
      BY <2>1, <2>2
    <3>2. pc'[w] = "append" /\ prev'[w] = LastReceiptHash /\ LastReceiptHash' = LastReceiptHash
      BY <1>0, <2>1 DEF LastReceiptHash
    <3>3. Alone(w)'
      BY <1>0, <2>1, <3>1 DEF Alone
    <3> QED
      BY <3>2, <3>3 DEF Writing
  <2>3. settled' # "yes"
    BY <2>1
  <2>4. ~TipEnabled => tip' = TipMissing /\ \A v \in Writer : pc'[v] \in {"idle", "append"}
    BY <1>0, <2>1 DEF SettledInv, TipMissing
  <2> QED
    BY <2>2, <2>3, <2>4 DEF SettledInv
<1>2. ASSUME NEW w \in Writer, AppendReceipt(w) PROVE SettledInv'
  <2> DEFINE line == Receipt(id[w], prev[w])
  <2>1. /\ pc[w] = "append" /\ file' = AppendTo(line) /\ exists' = TRUE /\ tip' = tip
    BY <1>2 DEF AppendReceipt
  <2>2. line \in Line /\ line.hash = HashReceipt(id[w], prev[w])
    <3>1. id[w] \in 1..MaxReceipts /\ prev[w] \in Hash
      BY <1>0, <2>1
    <3>2. line \in Line
      BY <3>1, ReceiptIsLine
    <3> QED
      BY <3>2 DEF Receipt
  <2>3. file' # <<>> /\ file'[Len(file')] \in {line, Garbage}
    <3> HIDE DEF line
    <3> QED
      BY <1>0, <2>1, <2>2, LastOfAppend
  <2>4. CASE TipEnabled
    <3>1. /\ pc' = [pc EXCEPT ![w] = "count"] /\ id' = id /\ prev' = prev
          /\ count' = count /\ settled' = settled
      BY <1>2, <2>4 DEF AppendReceipt
    <3>2. ASSUME settled = "writing" PROVE Writing(w)'
      <4>1. Writing(w)
        BY <1>w, <2>1, <3>2
      <4>2. pc'[w] = "count" /\ Alone(w)'
        BY <1>0, <3>1, <4>1 DEF Writing, Alone
      <4>3. LastIs(HashReceipt(id[w], prev[w]))'
        BY <2>1, <2>2, <2>3, <3>1 DEF LastIs, HashReceipt
      <4> QED
        BY <4>2, <4>3 DEF Writing
    <3>3. settled # "yes"
      BY <1>y, <2>1
    <3> QED
      BY <2>4, <3>1, <3>2, <3>3 DEF SettledInv
  <2>5. CASE ~TipEnabled
    <3>1. Leave(w) /\ settled' = IF settled = "writing" THEN "yes" ELSE "no"
      BY <1>2, <2>5 DEF AppendReceipt, Finish
    <3>2. pc' = [pc EXCEPT ![w] = "idle"]
      BY <3>1 DEF Leave
    <3>3. ASSUME settled' = "yes" PROVE Agreed'
      <4>1. Alone(w)
        BY <1>w, <2>1, <3>1, <3>3 DEF Writing
      <4>2. \A v \in Writer : pc'[v] = "idle"
        BY <1>0, <3>2, <4>1 DEF Alone
      <4> QED
        BY <2>1, <2>3, <2>5, <4>2 DEF Agreed
    <3>4. settled' # "writing"
      BY <3>1
    <3>5. tip' = TipMissing /\ \A v \in Writer : pc'[v] \in {"idle", "append"}
      BY <1>0, <2>1, <2>5, <3>2 DEF SettledInv
    <3> QED
      BY <3>3, <3>4, <3>5 DEF SettledInv, TipMissing
  <2> QED
    BY <2>4, <2>5
<1>t. ASSUME NEW w \in Writer, pc[w] \in {"count", "open", "tip"} PROVE TipEnabled
  BY <1>t DEF SettledInv
<1>3. ASSUME NEW w \in Writer, Count(w) PROVE SettledInv'
  <2>1. /\ pc[w] = "count" /\ pc' = [pc EXCEPT ![w] = "open"]
        /\ count' = [count EXCEPT ![w] = Len(file)]
        /\ file' = file /\ exists' = exists /\ tip' = tip
        /\ id' = id /\ prev' = prev /\ settled' = settled
    BY <1>3 DEF Count, CountReceipts, disk
  <2>2. ASSUME settled = "writing" PROVE Writing(w)'
    <3>1. Writing(w)
      BY <1>w, <2>1, <2>2
    <3>2. pc'[w] = "open" /\ Alone(w)' /\ count'[w] = Len(file')
      BY <1>0, <2>1, <3>1 DEF Writing, Alone
    <3>3. LastIs(HashReceipt(id[w], prev[w]))'
      BY <2>1, <3>1 DEF Writing, LastIs, HashReceipt
    <3> QED
      BY <3>2, <3>3 DEF Writing
  <2>3. settled # "yes" /\ TipEnabled
    BY <1>y, <1>t, <2>1
  <2> QED
    BY <2>1, <2>2, <2>3 DEF SettledInv
<1>4. ASSUME NEW w \in Writer, OpenTip(w) PROVE SettledInv'
  <2>1. /\ pc[w] = "open" /\ pc' = [pc EXCEPT ![w] = "tip"] /\ count' = count
        /\ file' = file /\ exists' = exists
        /\ id' = id /\ prev' = prev /\ settled' = settled
    BY <1>4 DEF OpenTip
  <2>2. ASSUME settled = "writing" PROVE Writing(w)'
    <3>1. Writing(w)
      BY <1>w, <2>1, <2>2
    <3>2. pc'[w] = "tip" /\ Alone(w)' /\ count'[w] = Len(file')
      BY <1>0, <2>1, <3>1 DEF Writing, Alone
    <3>3. LastIs(HashReceipt(id[w], prev[w]))'
      BY <2>1, <3>1 DEF Writing, LastIs, HashReceipt
    <3> QED
      BY <3>2, <3>3 DEF Writing
  <2>3. settled # "yes" /\ TipEnabled
    BY <1>y, <1>t, <2>1
  <2> QED
    BY <2>1, <2>2, <2>3 DEF SettledInv
<1>5. ASSUME NEW w \in Writer, WriteTip(w) PROVE SettledInv'
  <2>1. /\ pc[w] = "tip" /\ pc' = [pc EXCEPT ![w] = "idle"]
        /\ tip' = TipOf(HashReceipt(id[w], prev[w]), count[w])
        /\ file' = file /\ exists' = exists
        /\ settled' = IF settled = "writing" THEN "yes" ELSE "no"
    BY <1>5 DEF WriteTip, Finish, Leave
  <2>2. ASSUME settled' = "yes" PROVE Agreed'
    <3>1. Writing(w)
      BY <1>w, <2>1, <2>2
    <3>2. \A v \in Writer : pc'[v] = "idle"
      BY <1>0, <2>1, <3>1 DEF Writing, Alone
    <3>3. LastIs(HashReceipt(id[w], prev[w])) /\ count[w] = Len(file)
      BY <2>1, <3>1 DEF Writing
    <3>4. tip'.state = "ok" /\ tip'.count = Len(file') /\ tip'.hash = HashReceipt(id[w], prev[w])
      BY <2>1, <3>3 DEF TipOf
    <3> QED
      BY <2>1, <3>2, <3>3, <3>4 DEF Agreed, LastIs
  <2>3. settled' # "writing" /\ TipEnabled
    BY <1>t, <2>1
  <2> QED
    BY <2>2, <2>3 DEF SettledInv
<1>6. ASSUME NEW w \in Writer, Crash(w) \/ CrashInAppend(w) PROVE SettledInv'
  <2>1. settled' = "no" /\ tip' = tip /\ \A v \in Writer : pc'[v] \in {"idle", pc[v]}
    BY <1>0, <1>6 DEF Crash, CrashInAppend, Fault, Leave, disk
  <2> QED
    BY <1>f, <2>1
<1>7. CASE Cut \/ Alter
  <2>1. settled' = "no" /\ tip' = tip /\ \A v \in Writer : pc'[v] \in {"idle", pc[v]}
    BY <1>7 DEF Cut, Alter, Fault, writer
  <2> QED
    BY <1>f, <2>1
<1>8. CASE UNCHANGED vars
  BY <1>8 DEF vars, disk, writer, SettledInv, Writing, Alone, Agreed, LastIs, LastReceiptHash,
              HashReceipt, TipMissing, NoHash
<1> QED
  BY <1>1, <1>2, <1>3, <1>4, <1>5, <1>6, <1>7, <1>8 DEF Next, Write

LEMMA InitSettled == Init => SettledInv
  BY DEF Init, SettledInv

\* A lone write leaves a file and a sidecar that agree, if the file is a chain.
THEOREM SettledCorrect == Spec => []SettledVerifies
<1>1. LedgerType /\ SettledInv => SettledVerifies
  <2> SUFFICES ASSUME LedgerType, SettledInv, settled = "yes", ChainOk(file)
               PROVE  exists /\ TipAgrees(tip, LastReceiptHash, Len(file))
    BY DEF SettledVerifies, VerifyOk
  <2>1. Agreed /\ exists /\ file # <<>> /\ file \in Seq(Line)
    BY DEF SettledInv, Agreed, LedgerType, TypeOK
  <2>2. Len(file) \in 1..Len(file)
    BY <2>1
  <2>3. CASE TipEnabled
    <3>1. file[Len(file)] # Garbage
      BY <2>2 DEF ChainOk, LineOk
    <3>2. tip.state = "ok" /\ tip.count = Len(file) /\ tip.hash = LastReceiptHash
      BY <2>1, <2>3, <3>1 DEF Agreed, LastIs, LastReceiptHash
    <3> QED
      BY <2>1, <3>2 DEF TipAgrees
  <2>4. CASE ~TipEnabled
    BY <2>1, <2>4 DEF SettledInv, TipAgrees, TipMissing
  <2> QED
    BY <2>3, <2>4
<1> QED
  BY <1>1, InitLedger, NextLedger, InitSettled, NextSettled, PTL DEF Spec

\* A lone writer extends a chain by a link.
THEOREM SoloWriteCorrect == Spec => SoloWriteExtendsChain
<1>1. ASSUME LedgerType, SettledInv, [Next]_vars,
             settled = "writing", settled' # "no", ~torn, ChainOk(file)
      PROVE  ChainOk(file')
  <2>0. /\ file \in Seq(Line) /\ Len(file) \in Nat
        /\ id \in [Writer -> 0..MaxReceipts] /\ prev \in [Writer -> Hash]
        /\ \A v \in Writer : pc[v] # "idle" => id[v] \in 1..MaxReceipts
    BY <1>1 DEF LedgerType, TypeOK
  <2>1. ASSUME NEW w \in Writer, AppendReceipt(w) PROVE ChainOk(file')
    <3> DEFINE line == Receipt(id[w], prev[w])
    <3>1. pc[w] = "append" /\ file' = Append(file, line)
      BY <1>1, <2>1 DEF AppendReceipt, AppendTo
    <3>2. id[w] \in 1..MaxReceipts /\ prev[w] \in Hash /\ prev[w] = LastReceiptHash
      BY <1>1, <2>0, <3>1 DEF SettledInv, Writing, Alone
    <3>3. line \in Line /\ line # Garbage /\ line.prev = LastReceiptHash
          /\ line.hash = HashReceipt(line.id, line.prev)
      <4>1. line \in Line
        BY <3>2, ReceiptIsLine
      <4>2. line.id = id[w] /\ line.prev = prev[w] /\ line.hash = HashReceipt(id[w], prev[w])
        BY DEF Receipt
      <4>3. Garbage.id = 0 /\ id[w] # 0
        BY <3>2, LedgerAssumption DEF Garbage
      <4> QED
        BY <3>2, <4>1, <4>2, <4>3
    <3> HIDE DEF line
    <3>4. /\ Len(file') = Len(file) + 1 /\ file'[Len(file) + 1] = line
          /\ \A i \in 1..Len(file) : file'[i] = file[i]
      BY <2>0, <3>1, <3>3
    <3> SUFFICES ASSUME NEW i \in 1..Len(file') PROVE LineOk(file', i)
      BY DEF ChainOk
    <3>5. CASE i \in 1..Len(file)
      <4>1. LineOk(file, i) /\ file'[i] = file[i]
        BY <1>1, <3>4, <3>5 DEF ChainOk
      <4>2. i = 1 \/ i - 1 \in 1..Len(file)
        BY <2>0, <3>5
      <4>3. i = 1 \/ file'[i - 1] = file[i - 1]
        BY <3>4, <4>2
      <4> QED
        BY <4>1, <4>3 DEF LineOk
    <3>6. CASE i = Len(file) + 1
      <4>1. CASE file = <<>>
        <5>1. i = 1 /\ LastReceiptHash = NoHash
          BY <3>6, <4>1 DEF LastReceiptHash
        <5> QED
          BY <3>3, <3>4, <3>6, <5>1 DEF LineOk
      <4>2. CASE file # <<>>
        <5>1. i # 1 /\ i - 1 = Len(file) /\ Len(file) \in 1..Len(file)
          BY <2>0, <3>6, <4>2
        <5>2. LastReceiptHash = file'[i - 1].hash
          BY <3>4, <4>2, <5>1 DEF LastReceiptHash
        <5> QED
          BY <3>3, <3>4, <3>6, <5>1, <5>2 DEF LineOk
      <4> QED
        BY <4>1, <4>2
    <3> QED
      BY <2>0, <3>4, <3>5, <3>6
  <2>2. ASSUME NEW w \in Writer, ReadLast(w) \/ Count(w) \/ OpenTip(w) \/ WriteTip(w)
        PROVE  file' = file
    BY <2>2 DEF ReadLast, Count, OpenTip, WriteTip, disk
  <2>3. ASSUME NEW w \in Writer PROVE ~(Crash(w) \/ CrashInAppend(w))
    BY <1>1 DEF Crash, CrashInAppend, Fault
  <2>4. ~(Cut \/ Alter)
    BY <1>1 DEF Cut, Alter, Fault
  <2>5. UNCHANGED vars => file' = file
    BY DEF vars, disk
  <2>6. (\E w \in Writer : AppendReceipt(w)) \/ file' = file
    BY <1>1, <2>2, <2>3, <2>4, <2>5 DEF Next, Write
  <2> QED
    BY <1>1, <2>1, <2>6
<1>2. LedgerType /\ SettledInv /\ [Next]_vars =>
        [settled = "writing" /\ settled' # "no" /\ ~torn /\ ChainOk(file) => ChainOk(file')]_vars
  BY <1>1
<1> QED
  BY <1>2, InitLedger, NextLedger, InitSettled, NextSettled, PTL DEF Spec, SoloWriteExtendsChain

-----------------------------------------------------------------------------
(* The reader beside the writers. *)

\* A line as write_receipt makes it, or garbage.
Hashed(line) == line = Garbage \/ line.hash = HashReceipt(line.id, line.prev)

\* What the reader relies on between its reads, unless the file was cut or altered.
ReaderInv ==
  /\ ReaderTypeOK
  /\ rpc # "idle" /\ ~rewritten =>
       /\ Len(checked) <= Len(file)
       /\ \A i \in 1..Len(checked) : file[i] = checked[i] \/ file[i] = Garbage
       /\ \A i \in 1..Len(file) : Hashed(file[i])

\* The ledger under the eyes of a reader is a ledger.
LEMMA ReaderStep == [RNext]_rvars => [Next]_vars
  BY DEF RNext, rvars, Reader, ReadChain, RefuseChain, ReadTip, RefuseTip, Load

THEOREM ReaderIsLedger == RSpec => Spec
<1>1. RInit => Init
  BY DEF RInit
<1> QED
  BY <1>1, ReaderStep, PTL DEF RSpec, Spec

\* What is appended is a receipt with its hash, or garbage.
LEMMA AppendedIsHashed ==
  ASSUME LedgerType, [Next]_vars, ~Cut, ~Alter, file' # file
  PROVE  \E line \in Line : Hashed(line) /\ file' = AppendTo(line)
<1>1. ASSUME NEW w \in Writer, pc[w] = "append"
      PROVE  Receipt(id[w], prev[w]) \in Line /\ Hashed(Receipt(id[w], prev[w]))
  <2>1. id[w] \in 1..MaxReceipts /\ prev[w] \in Hash
    BY <1>1 DEF LedgerType, TypeOK
  <2> QED
    BY <2>1, ReceiptIsLine DEF Hashed, Receipt
<1>2. ASSUME NEW w \in Writer, AppendReceipt(w)
      PROVE  \E line \in Line : Hashed(line) /\ file' = AppendTo(line)
  BY <1>1, <1>2 DEF AppendReceipt
<1>3. ASSUME NEW w \in Writer, CrashInAppend(w)
      PROVE  \E line \in Line : Hashed(line) /\ file' = AppendTo(line)
  <2>1. Hashed(Garbage)
    BY DEF Hashed
  <2> QED
    BY <1>1, <1>3, <2>1, GarbageIsLine DEF CrashInAppend
<1>4. ASSUME NEW w \in Writer, ReadLast(w) \/ Count(w) \/ OpenTip(w) \/ WriteTip(w) \/ Crash(w)
      PROVE  file' = file
  BY <1>4 DEF ReadLast, Count, OpenTip, WriteTip, Crash, disk
<1>5. UNCHANGED vars => file' = file
  BY DEF disk, vars
<1> QED
  BY <1>2, <1>3, <1>4, <1>5 DEF Next, Write

LEMMA InitReader == RInit => ReaderInv
<1>1. <<>> \in Seq(Line)
  OBVIOUS
<1> QED
  BY <1>1 DEF RInit, ReaderInv, ReaderTypeOK

\* Writers and crashes between two reads leave the reader what it relies on.
LEMMA NextReader == LedgerType /\ ReaderInv /\ [RNext]_rvars => ReaderInv'
<1> SUFFICES ASSUME LedgerType, ReaderInv, [RNext]_rvars PROVE ReaderInv'
  OBVIOUS
<1>0. /\ file \in Seq(Line) /\ checked \in Seq(Line) /\ loaded \in Seq(Line)
      /\ (torn => file # <<>>) /\ Len(file) \in Nat /\ Len(checked) \in Nat
      /\ rpc \in {"idle", "tip", "load"} /\ rewritten \in BOOLEAN
      /\ (rpc = "idle" => checked = <<>>) /\ <<>> \in Seq(Line)
  BY DEF LedgerType, TypeOK, ReaderInv, ReaderTypeOK
<1>1. CASE Next /\ Beside
  <2>1. /\ rpc' = rpc /\ checked' = checked /\ loaded' = loaded
        /\ rewritten' = (rewritten \/ (rpc # "idle" /\ (Cut \/ Alter)))
    BY <1>1 DEF Beside
  <2>2. ReaderTypeOK'
    BY <1>0, <2>1 DEF ReaderTypeOK
  <2>3. ASSUME rpc' # "idle", ~rewritten'
        PROVE  /\ Len(checked) <= Len(file')
               /\ \A i \in 1..Len(checked) : file'[i] = checked[i] \/ file'[i] = Garbage
               /\ \A i \in 1..Len(file') : Hashed(file'[i])
    <3>1. ~rewritten /\ ~Cut /\ ~Alter /\ rpc # "idle"
      BY <2>1, <2>3
    <3>2. /\ Len(checked) <= Len(file)
          /\ \A i \in 1..Len(checked) : file[i] = checked[i] \/ file[i] = Garbage
          /\ \A i \in 1..Len(file) : Hashed(file[i])
      BY <3>1 DEF ReaderInv
    <3>3. CASE file' = file
      BY <3>2, <3>3
    <3>4. CASE file' # file
      <4>1. PICK line \in Line : Hashed(line) /\ file' = AppendTo(line)
        BY <1>1, <3>1, <3>4, AppendedIsHashed
      <4>2. /\ file' \in Seq(Line) /\ Len(file) <= Len(file')
            /\ \A i \in 1..Len(file) : file'[i] = file[i] \/ file'[i] = Garbage
        BY <1>0, <4>1, AppendToFile
      <4>3. \A i \in 1..Len(file') : (i \in 1..Len(file) /\ file'[i] = file[i]) \/ file'[i] \in {line, Garbage}
        BY <1>0, <4>1, LastOfAppend
      <4>4. Len(checked) <= Len(file')
        BY <1>0, <3>2, <4>2
      <4>5. ASSUME NEW i \in 1..Len(checked)
            PROVE  file'[i] = checked[i] \/ file'[i] = Garbage
        <5>1. i \in 1..Len(file)
          BY <1>0, <3>2
        <5> QED
          BY <3>2, <4>2, <5>1
      <4>6. ASSUME NEW i \in 1..Len(file') PROVE Hashed(file'[i])
        <5>1. Hashed(Garbage)
          BY DEF Hashed
        <5> QED
          BY <3>2, <4>1, <4>3, <5>1
      <4> QED
        BY <4>4, <4>5, <4>6
    <3> QED
      BY <3>3, <3>4
  <2> QED
    BY <2>1, <2>2, <2>3 DEF ReaderInv, Hashed, HashReceipt, Garbage, NoHash
<1>2. CASE ReadChain
  <2>1. /\ rpc' = "tip" /\ checked' = file /\ file' = file /\ loaded' = <<>>
        /\ rewritten' = FALSE /\ ChainOk(file)
    BY <1>2 DEF ReadChain, vars, disk
  <2>2. \A i \in 1..Len(file) : Hashed(file[i])
    BY <2>1 DEF ChainOk, LineOk, Hashed
  <2>3. ReaderTypeOK'
    BY <1>0, <2>1 DEF ReaderTypeOK
  <2>4. Len(checked') <= Len(file')
    BY <1>0, <2>1
  <2> QED
    BY <2>1, <2>2, <2>3, <2>4 DEF ReaderInv, Hashed, HashReceipt, Garbage, NoHash
<1>3. CASE RefuseChain \/ RefuseTip \/ Load
  <2>1. /\ rpc' = "idle" /\ checked' = <<>> /\ rewritten' = FALSE
        /\ loaded' \in {<<>>, file}
    BY <1>3 DEF RefuseChain, RefuseTip, Load, Hand
  <2> QED
    BY <1>0, <2>1 DEF ReaderInv, ReaderTypeOK
<1>4. CASE ReadTip \/ UNCHANGED rvars
  <2>1. /\ file' = file /\ checked' = checked /\ loaded' = loaded /\ rewritten' = rewritten
        /\ (rpc' = "load" /\ rpc = "tip") \/ rpc' = rpc
    BY <1>4 DEF ReadTip, rvars, reader, vars, disk
  <2>2. ReaderTypeOK'
    BY <1>0, <2>1 DEF ReaderTypeOK
  <2> QED
    BY <2>1, <2>2 DEF ReaderInv, Hashed, HashReceipt, Garbage, NoHash
<1> QED
  BY <1>1, <1>2, <1>3, <1>4 DEF RNext, Reader

\* The reader's locals stay in their domains.
THEOREM ReaderTypeCorrect == RSpec => []ReaderTypeOK
<1>1. RInit => LedgerType /\ ReaderInv
  BY InitLedger, InitReader DEF RInit
<1>2. LedgerType /\ ReaderInv /\ [RNext]_rvars => (LedgerType /\ ReaderInv)'
  BY ReaderStep, NextLedger, NextReader
<1>3. ReaderInv => ReaderTypeOK
  BY DEF ReaderInv
<1> QED
  BY <1>1, <1>2, <1>3, PTL DEF RSpec

\* A reader that hands out receipts does so at its second read, of a file without
\* garbage.
LEMMA HandedByLoad ==
  ASSUME [RNext]_rvars, rpc = "load", rpc' = "idle", loaded' # <<>>
  PROVE  loaded' = file /\ \A i \in 1..Len(file) : file[i] # Garbage
<1>1. Load
  BY DEF RNext, rvars, reader, Reader, Beside, ReadChain, RefuseChain, ReadTip, RefuseTip
<1> QED
  BY <1>1 DEF Load, Hand

\* The second read loses nothing that the first one checked.
THEOREM HandedKeepsCorrect == RSpec => HandedKeepsChecked
<1>1. ASSUME LedgerType, ReaderInv, [RNext]_rvars,
             rpc = "load", rpc' = "idle", ~rewritten, loaded' # <<>>
      PROVE  Len(checked) <= Len(loaded') /\ SubSeq(loaded', 1, Len(checked)) = checked
  <2>1. loaded' = file /\ \A i \in 1..Len(file) : file[i] # Garbage
    BY <1>1, HandedByLoad
  <2>2. /\ file \in Seq(Line) /\ checked \in Seq(Line)
        /\ Len(checked) <= Len(file)
        /\ \A i \in 1..Len(checked) : file[i] = checked[i] \/ file[i] = Garbage
    BY <1>1 DEF LedgerType, TypeOK, ReaderInv, ReaderTypeOK
  <2>3. Len(checked) \in Nat /\ Len(file) \in Nat
    BY <2>2
  <2>4. \A i \in 1..Len(checked) : i \in 1..Len(file) /\ file[i] = checked[i] /\ file[i] \in Line
    BY <2>1, <2>2, <2>3
  <2> DEFINE part == SubSeq(file, 1, Len(checked))
  <2>5. /\ part \in Seq(Line)
        /\ Len(part) = Len(checked)
        /\ \A i \in 1..Len(checked) : part[i] = file[i]
    <3>1. 1 \in Int /\ Len(checked) \in Int /\ \A i \in 1..Len(checked) : file[i] \in Line
      BY <2>3, <2>4
    <3>2. /\ part \in Seq(Line)
          /\ Len(part) = IF 1 <= Len(checked) THEN Len(checked) - 1 + 1 ELSE 0
          /\ \A i \in 1..(Len(checked) - 1 + 1) : part[i] = file[1 + i - 1]
      BY <3>1, SubSeqProperties
    <3> HIDE DEF part
    <3> QED
      BY <2>3, <3>2
  <2> HIDE DEF part
  <2>6. part = checked
    BY <2>2, <2>4, <2>5, SeqEqual
  <2> QED
    BY <2>1, <2>2, <2>6 DEF part
<1>2. LedgerType /\ ReaderInv /\ [RNext]_rvars =>
        [rpc = "load" /\ rpc' = "idle" /\ ~rewritten /\ loaded' # <<>> =>
           /\ Len(checked) <= Len(loaded')
           /\ SubSeq(loaded', 1, Len(checked)) = checked]_rvars
  BY <1>1
<1>3. RInit => LedgerType /\ ReaderInv
  BY InitLedger, InitReader DEF RInit
<1>4. LedgerType /\ ReaderInv /\ [RNext]_rvars => (LedgerType /\ ReaderInv)'
  BY ReaderStep, NextLedger, NextReader
<1> QED
  BY <1>2, <1>3, <1>4, PTL DEF RSpec, HandedKeepsChecked

\* Of a ledger that was never cut every reported receipt is handed out.
THEOREM HandedWholeCorrect == RSpec => HandedIsWhole
<1> DEFINE I == LedgerType /\ ReaderInv /\ (~shortened => CompleteInv)
<1>1. ASSUME I, [RNext]_rvars,
             rpc = "load", rpc' = "idle", ~rewritten, ~shortened, loaded' # <<>>,
             NEW body \in reported
      PROVE  \E i \in 1..Len(loaded') : loaded'[i].id = body
  <2>1. loaded' = file /\ \A i \in 1..Len(file) : file[i] # Garbage
    BY <1>1, HandedByLoad
  <2>2. PICK i \in 1..Len(file) : file[i].hash = HashReceipt(body, file[i].prev)
    BY <1>1, <2>1 DEF CompleteInv, Written
  <2>3. file[i].hash = HashReceipt(file[i].id, file[i].prev)
    BY <1>1, <2>1 DEF ReaderInv, Hashed
  <2>4. file[i] \in Line /\ body \in 1..MaxReceipts
    BY <1>1 DEF LedgerType, TypeOK
  <2>5. file[i].prev \in Seq(1..MaxReceipts)
    BY <2>4 DEF Line, Hash
  <2>6. Append(file[i].prev, body) = Append(file[i].prev, file[i].id)
    BY <2>2, <2>3 DEF HashReceipt
  <2>7. body = file[i].id
    BY <2>5, <2>6
  <2> QED
    BY <2>1, <2>7
<1>2. I /\ [RNext]_rvars =>
        [rpc = "load" /\ rpc' = "idle" /\ ~rewritten /\ ~shortened /\ loaded' # <<>> =>
           \A body \in reported : \E i \in 1..Len(loaded') : loaded'[i].id = body]_rvars
  BY <1>1
<1>3. RInit => I
  BY InitLedger, InitReader DEF RInit, Init, CompleteInv
<1>4. I /\ [RNext]_rvars => I'
  BY ReaderStep, NextLedger, NextReader, NextComplete, ShortenedStep
<1> HIDE DEF I
<1> QED
  BY <1>2, <1>3, <1>4, PTL DEF RSpec, HandedIsWhole

=============================================================================
