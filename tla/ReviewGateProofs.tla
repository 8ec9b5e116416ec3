-------------------------- MODULE ReviewGateProofs --------------------------
(* Proofs, for every set of shas and files of every length, of what the review  *)
(* gate promises: a merge is allowed only on a verdict the file says of the     *)
(* head, and a last FAIL refuses it.                                          *)
EXTENDS ReviewGate, FiniteSetTheorems, SequenceTheorems, TLAPS

\* The domains, and where the parser stands: a JSON object is alone in its file, and
\* nothing is pending before the first line or after the last.
TypeOK ==
  /\ pc \in {"parse", "evaluate", "done"}
  /\ head \in Sha
  /\ lines \in Seq(Line)
  /\ i \in Nat \ {0}
  /\ records \in Seq(Record)
  /\ pendingVerdict \in Verdict \cup {NoVerdict}
  /\ pendingSha \in Sha \cup {NoSha}
  /\ sawSha \in BOOLEAN
  /\ pc # "done" => decision = "none"
  /\ pc = "evaluate" => i > Len(lines)
  /\ i = 1 \/ pc = "evaluate" => pendingVerdict = NoVerdict /\ pendingSha = NoSha
  /\ i = 1 /\ pc = "parse" => records = <<>>
  /\ \A k \in 1..Len(lines) : lines[k].kind = "json" => Len(lines) = 1

\* No line strictly between two says a verdict.
Silent(a, b) == \A m \in 1..Len(lines) : a < m /\ m < b => ~Speaks(m)

\* A "sha:" line that was read holds s.
ShaAt(j, s) == j < i /\ lines[j].kind = "sha" /\ lines[j].sha = s

\* What is pending comes from lines that were read, with no verdict since.
PendingIsSaid ==
  /\ pendingVerdict # NoVerdict =>
       \E k \in 1..Len(lines) :
         /\ k < i /\ lines[k].kind = "verdict" /\ lines[k].verdict = pendingVerdict
         /\ Silent(k, i)
         /\ pendingSha # NoSha =>
              \E j \in 1..Len(lines) : ShaAt(j, pendingSha) /\ Silent(j, k) /\ Silent(k, j)
  /\ pendingVerdict = NoVerdict /\ pendingSha # NoSha =>
       \E j \in 1..Len(lines) : ShaAt(j, pendingSha) /\ Silent(j, i)

\* A record that names a sha says what a line of the file says.
RecordSaid(r) == r.sha # NoSha => \E k \in 1..Len(lines) : Says(k, r.verdict, r.sha)

SaidInv ==
  /\ PendingIsSaid
  /\ \A n \in 1..Len(records) : RecordSaid(records[n])
  /\ AllowIsSaid

\* The last verdict is a FAIL about the head: the hypothesis of LastFailRefuses.
Closes(k) ==
  /\ lines[k].verdict = "FAIL" /\ lines[k].sha \in {head, NoSha}
  /\ \A m \in 1..Len(lines) : m > k => ~Speaks(m)
  /\ lines[k].kind = "verdict" =>
       \A j \in 1..Len(lines) :
         lines[j].kind = "sha" /\ (\A m \in j..k : m < k => ~Speaks(m)) => lines[j].sha = head

\* It is the last record, and nothing is pending, or it is still pending.
FailRecorded ==
  /\ pendingVerdict = NoVerdict
  /\ records # <<>> /\ records[Len(records)].verdict = "FAIL"
  /\ records[Len(records)].sha \in {head, NoSha}
FailPending == pendingVerdict = "FAIL" /\ pendingSha \in {head, NoSha}
FailStands(k) == FailRecorded \/ (lines[k].kind = "verdict" /\ FailPending)

FailInv ==
  \A k \in 1..Len(lines) : Closes(k) =>
    /\ decision # "pass"
    /\ k < i /\ pc # "done" => FailStands(k)

-----------------------------------------------------------------------------
(* Domains. *)

\* What a line of each kind holds.
LEMMA LineFacts ==
  ASSUME TypeOK, NEW k \in 1..Len(lines)
  PROVE  /\ lines[k].kind \in {"verdict", "sha", "bare", "other", "json"}
         /\ lines[k].kind = "verdict" => lines[k].verdict \in Verdict \cup {NoVerdict}
         /\ lines[k].kind = "sha" => ~Speaks(k) /\ lines[k].sha \in Sha \cup {NoSha, BadSha}
         /\ lines[k].kind = "bare" =>
              Speaks(k) /\ lines[k].verdict \in Verdict /\ lines[k].sha \in Sha \cup {NoSha}
         /\ lines[k].kind = "other" => ~Speaks(k)
         /\ lines[k].kind = "json" =>
              /\ lines[k].verdict \in Verdict \cup {NoVerdict}
              /\ lines[k].sha \in Sha \cup {NoSha, BadSha}
<1>1. lines[k] \in Line
  BY ElementOfSeq DEF TypeOK
<1> QED
  BY <1>1 DEF Line, TextLine, VerdictLine, ShaLine, BareLine, OtherLine, JsonLine, Verdict,
     NoVerdict, Speaks

\* flush adds what is pending, and the records before it stand.
LEMMA FlushFacts ==
  ASSUME TypeOK
  PROVE  /\ Flushed \in Seq(Record)
         /\ pendingVerdict = NoVerdict => Flushed = records
         /\ pendingVerdict # NoVerdict =>
              /\ Len(Flushed) = Len(records) + 1
              /\ Flushed[Len(records) + 1] = [verdict |-> pendingVerdict, sha |-> pendingSha]
              /\ \A n \in 1..Len(records) : Flushed[n] = records[n]
<1>1. pendingVerdict # NoVerdict => [verdict |-> pendingVerdict, sha |-> pendingSha] \in Record
  BY DEF TypeOK, Record
<1>2. records \in Seq(Record)
  BY DEF TypeOK
<1> QED
  BY <1>1, <1>2 DEF Flushed

\* A file is a sequence of lines, and a JSON object is alone in its own.
LEMMA FileIsLines ==
  ASSUME NEW f \in File
  PROVE  f \in Seq(Line) /\ \A k \in 1..Len(f) : f[k].kind = "json" => Len(f) = 1
<1>1. ASSUME NEW n \in 0..MaxLines, f \in [1..n -> TextLine]
      PROVE  f \in Seq(Line) /\ \A k \in 1..Len(f) : f[k].kind = "json" => Len(f) = 1
  <2>1. n \in Nat
    BY ShaAssumption
  <2>2. f \in Seq(TextLine)
    BY <1>1, <2>1, SeqDef
  <2>3. f \in Seq(Line)
    BY <2>2, SeqMonotonic DEF Line
  <2>4. \A k \in 1..Len(f) : f[k] \in TextLine
    BY <2>2, ElementOfSeq
  <2>5. \A l \in TextLine : l.kind # "json"
    BY DEF TextLine, VerdictLine, ShaLine, BareLine, OtherLine
  <2> QED
    BY <2>3, <2>4, <2>5
<1>2. ASSUME NEW l \in JsonLine, f = <<l>>
      PROVE  f \in Seq(Line) /\ \A k \in 1..Len(f) : f[k].kind = "json" => Len(f) = 1
  <2>1. l \in Line
    BY DEF Line
  <2>2. <<l>> \in Seq(Line)
    BY <2>1
  <2>3. Len(<<l>>) = 1
    OBVIOUS
  <2> QED
    BY <1>2, <2>2, <2>3
<1> QED
  BY <1>1, <1>2 DEF File

LEMMA InitReview == Init => TypeOK
<1> SUFFICES ASSUME Init PROVE TypeOK
  OBVIOUS
<1>1. lines \in Seq(Line) /\ \A k \in 1..Len(lines) : lines[k].kind = "json" => Len(lines) = 1
  BY FileIsLines DEF Init
<1>2. Len(lines) \in Nat
  BY <1>1, LenProperties
<1>3. records \in Seq(Record)
  BY DEF Init
<1>4. sawSha \in BOOLEAN
  BY DEF Init
<1>5. pc = "parse" /\ head \in Sha /\ i = 1 /\ records = <<>> /\ decision = "none"
      /\ pendingVerdict = NoVerdict /\ pendingSha = NoSha
  BY DEF Init
<1> QED
  BY <1>1, <1>2, <1>3, <1>4, <1>5 DEF TypeOK

LEMMA NextReview == TypeOK /\ [Next]_vars => TypeOK'
<1> SUFFICES ASSUME TypeOK, [Next]_vars PROVE TypeOK'
  OBVIOUS
<1>0. Len(lines) \in Nat
  BY LenProperties DEF TypeOK
<1>1. Flushed \in Seq(Record)
  BY FlushFacts
<1>2. ASSUME NEW v \in Verdict \cup {NoVerdict}, NEW s \in Sha \cup {NoSha}, NEW saw \in BOOLEAN,
             NEW k \in 1..Len(lines), i = k, pc = "parse",
             Pend(v, s, saw), records' \in Seq(Record), Forward
      PROVE  TypeOK'
  BY <1>0, <1>2 DEF TypeOK, Pend, Forward
<1>3. CASE Unusable
  BY <1>3 DEF Unusable, TypeOK, pending
<1>4. ASSUME NEW k \in 1..Len(lines), i = k, pc = "parse", lines[k].kind = "verdict", ReadVerdict
      PROVE  TypeOK'
  <2>1. lines[k].verdict \in Verdict \cup {NoVerdict}
    BY <1>4, LineFacts
  <2>2. pendingSha \in Sha \cup {NoSha} /\ sawSha \in BOOLEAN /\ records \in Seq(Record)
    BY DEF TypeOK
  <2> QED
    BY <1>1, <1>2, <1>3, <1>4, <2>1, <2>2 DEF ReadVerdict
<1>5. ASSUME NEW k \in 1..Len(lines), i = k, pc = "parse", lines[k].kind = "sha", ReadSha
      PROVE  TypeOK'
  BY <1>0, <1>1, <1>2, <1>3, <1>5, LineFacts DEF ReadSha, TypeOK
<1>6. ASSUME NEW k \in 1..Len(lines), i = k, pc = "parse", lines[k].kind = "bare", ReadBare
      PROVE  TypeOK'
  <2>1. [verdict |-> lines[k].verdict, sha |-> lines[k].sha] \in Record
    BY <1>6, LineFacts DEF Record
  <2>2. Append(Flushed, [verdict |-> lines[k].verdict, sha |-> lines[k].sha]) \in Seq(Record)
    BY <1>1, <2>1
  <2> QED
    BY <1>2, <1>3, <1>6, <2>2 DEF ReadBare
<1>7. ASSUME NEW k \in 1..Len(lines), i = k, pc = "parse", lines[k].kind = "other", PassOver
      PROVE  TypeOK'
  BY <1>0, <1>2, <1>7 DEF PassOver, TypeOK, pending, Pend
<1>8. ASSUME NEW k \in 1..Len(lines), i = k, pc = "parse", lines[k].kind = "json", ReadJson
      PROVE  TypeOK'
  <2>1. Len(lines) = 1 /\ i = 1
    BY <1>0, <1>8 DEF TypeOK
  <2>2. ASSUME lines[k].sha # BadSha, lines[k].verdict # NoVerdict
        PROVE  <<[verdict |-> lines[k].verdict, sha |-> lines[k].sha]>> \in Seq(Record)
    <3>1. [verdict |-> lines[k].verdict, sha |-> lines[k].sha] \in Record
      BY <1>8, <2>2, LineFacts DEF Record
    <3> QED
      BY <3>1
  <2>3. CASE lines[k].sha # BadSha
    <3>0. UNCHANGED pending /\ Forward
      BY <1>8, <2>3 DEF ReadJson
    <3>1. records' \in Seq(Record)
      <4>1. CASE lines[k].verdict = NoVerdict
        <5>1. records' = <<>>
          BY <1>8, <2>3, <4>1 DEF ReadJson
        <5> QED
          BY <5>1
      <4>2. CASE lines[k].verdict # NoVerdict
        <5>1. records' = <<[verdict |-> lines[k].verdict, sha |-> lines[k].sha]>>
          BY <1>8, <2>3, <4>2 DEF ReadJson
        <5> QED
          BY <2>2, <2>3, <4>2, <5>1
      <4> QED
        BY <4>1, <4>2
    <3>2. Pend(pendingVerdict, pendingSha, sawSha)
      BY <3>0 DEF pending, Pend
    <3>3. /\ pendingVerdict \in Verdict \cup {NoVerdict} /\ pendingSha \in Sha \cup {NoSha}
          /\ sawSha \in BOOLEAN
      BY DEF TypeOK
    <3> QED
      BY <1>2, <1>8, <3>0, <3>1, <3>2, <3>3
  <2> QED
    BY <1>3, <1>8, <2>3 DEF ReadJson
<1>9. CASE EndOfText
  BY <1>0, <1>1, <1>3, <1>9 DEF EndOfText, TypeOK, Pend
<1>10. CASE Evaluate
  BY <1>10 DEF Evaluate, TypeOK, pending
<1>11. CASE UNCHANGED vars
  BY <1>11 DEF vars, pending, TypeOK
<1>12. ASSUME NEW kind, AtLine(kind)
       PROVE  \E k \in 1..Len(lines) : i = k /\ pc = "parse" /\ lines[k].kind = kind
  BY <1>0, <1>12 DEF AtLine, TypeOK
<1> QED
  BY <1>4, <1>5, <1>6, <1>7, <1>8, <1>9, <1>10, <1>11, <1>12
  DEF Next, ReadVerdict, ReadSha, ReadBare, PassOver, ReadJson

\* Every run keeps the domains.
THEOREM ReviewTypeCorrect == Spec => []TypeOK
<1> QED
  BY InitReview, NextReview, PTL DEF Spec

-----------------------------------------------------------------------------
(* What the records say, the file says. *)

\* A line that says no verdict leaves silent what was silent before it.
LEMMA SilentOn ==
  ASSUME TypeOK, NEW a \in Nat, NEW k \in 1..Len(lines), Silent(a, k), ~Speaks(k), lines' = lines
  PROVE  Silent(a, k + 1)'
<1>1. Len(lines) \in Nat
  BY LenProperties DEF TypeOK
<1> QED
  BY <1>1 DEF Silent, Speaks

\* A line without a verdict that touches nothing pending.
LEMMA PendingStays ==
  ASSUME TypeOK, PendingIsSaid, NEW k \in 1..Len(lines), i = k, i' = k + 1, lines' = lines,
         ~Speaks(k), UNCHANGED <<pendingVerdict, pendingSha>>
  PROVE  PendingIsSaid'
<1>0. Len(lines) \in Nat
  BY LenProperties DEF TypeOK
<1>1. ASSUME pendingVerdict # NoVerdict
      PROVE  \E n \in 1..Len(lines) :
               /\ n < i' /\ lines[n].kind = "verdict" /\ lines[n].verdict = pendingVerdict
               /\ Silent(n, k + 1)'
               /\ pendingSha # NoSha =>
                    \E j \in 1..Len(lines) : ShaAt(j, pendingSha)' /\ Silent(j, n)' /\ Silent(n, j)'
  <2>1. PICK n \in 1..Len(lines) :
          /\ n < i /\ lines[n].kind = "verdict" /\ lines[n].verdict = pendingVerdict
          /\ Silent(n, k)
          /\ pendingSha # NoSha =>
               \E j \in 1..Len(lines) : ShaAt(j, pendingSha) /\ Silent(j, n) /\ Silent(n, j)
    BY <1>1 DEF PendingIsSaid
  <2>2. Silent(n, k + 1)'
    BY <1>0, <2>1, SilentOn
  <2>3. \A j \in 1..Len(lines) : ShaAt(j, pendingSha) => ShaAt(j, pendingSha)'
    BY <1>0 DEF ShaAt
  <2>4. \A j \in 1..Len(lines) : Silent(j, n) /\ Silent(n, j) => Silent(j, n)' /\ Silent(n, j)'
    BY DEF Silent, Speaks
  <2> QED
    BY <1>0, <2>1, <2>2, <2>3, <2>4
<1>2. ASSUME pendingVerdict = NoVerdict, pendingSha # NoSha
      PROVE  \E j \in 1..Len(lines) : ShaAt(j, pendingSha)' /\ Silent(j, k + 1)'
  <2>1. PICK j \in 1..Len(lines) : ShaAt(j, pendingSha) /\ Silent(j, k)
    BY <1>2 DEF PendingIsSaid
  <2>2. ShaAt(j, pendingSha)'
    BY <1>0, <2>1 DEF ShaAt
  <2> QED
    BY <1>0, <2>1, <2>2, SilentOn
<1> QED
  BY <1>1, <1>2 DEF PendingIsSaid, Silent, Speaks, ShaAt

\* A verdict line becomes what is pending, with the sha that stood before it or none.
LEMMA PendingVerdictLine ==
  ASSUME TypeOK, PendingIsSaid, NEW k \in 1..Len(lines), i = k, i' = k + 1, lines' = lines,
         lines[k].kind = "verdict", pendingVerdict' = lines[k].verdict, Speaks(k),
         pendingSha' = NoSha \/ (pendingSha' = pendingSha /\ pendingVerdict = NoVerdict)
  PROVE  PendingIsSaid'
<1>0. Len(lines) \in Nat
  BY LenProperties DEF TypeOK
<1>1. Silent(k, k + 1)'
  BY <1>0 DEF Silent
<1>2. ASSUME pendingSha' # NoSha
      PROVE  \E j \in 1..Len(lines) : ShaAt(j, pendingSha)' /\ Silent(j, k)' /\ Silent(k, j)'
  <2>1. PICK j \in 1..Len(lines) : ShaAt(j, pendingSha) /\ Silent(j, k)
    BY <1>2 DEF PendingIsSaid
  <2>2. ShaAt(j, pendingSha)' /\ Silent(j, k)' /\ Silent(k, j)'
    BY <1>0, <1>2, <2>1 DEF ShaAt, Silent, Speaks
  <2> QED
    BY <2>2
<1> QED
  BY <1>0, <1>1, <1>2 DEF PendingIsSaid, Silent, Speaks, ShaAt

\* A sha line becomes the pending sha; the verdict before it, if it is kept, is the last.
LEMMA PendingShaLine ==
  ASSUME TypeOK, PendingIsSaid, NEW k \in 1..Len(lines), i = k, i' = k + 1, lines' = lines,
         lines[k].kind = "sha", pendingSha' = lines[k].sha,
         pendingVerdict' \in {pendingVerdict, NoVerdict}
  PROVE  PendingIsSaid'
<1>0. Len(lines) \in Nat /\ ~Speaks(k)
  BY LenProperties, LineFacts DEF TypeOK
<1>1. ShaAt(k, lines[k].sha)' /\ Silent(k, k + 1)'
  BY <1>0 DEF ShaAt, Silent
<1>2. ASSUME pendingVerdict' # NoVerdict
      PROVE  \E n \in 1..Len(lines) :
               /\ n < i' /\ lines[n].kind = "verdict" /\ lines[n].verdict = pendingVerdict'
               /\ Silent(n, k + 1)' /\ Silent(k, n)' /\ Silent(n, k)'
  <2>1. PICK n \in 1..Len(lines) :
          n < i /\ lines[n].kind = "verdict" /\ lines[n].verdict = pendingVerdict /\ Silent(n, k)
    BY <1>2 DEF PendingIsSaid
  <2>2. Silent(n, k + 1)'
    BY <1>0, <2>1, SilentOn
  <2>3. Silent(n, k)' /\ Silent(k, n)'
    BY <1>0, <2>1 DEF Silent, Speaks
  <2> QED
    BY <1>0, <1>2, <2>1, <2>2, <2>3
<1> QED
  BY <1>1, <1>2 DEF PendingIsSaid, Silent, Speaks, ShaAt

\* A record that flush would make is said by the file.
LEMMA FlushedSaid ==
  ASSUME TypeOK, SaidInv
  PROVE  \A n \in 1..Len(Flushed) : RecordSaid(Flushed[n])
<1>0. Len(lines) \in Nat /\ Len(records) \in Nat
  BY LenProperties DEF TypeOK
<1>1. ASSUME pendingVerdict # NoVerdict
      PROVE  RecordSaid([verdict |-> pendingVerdict, sha |-> pendingSha])
  <2>1. PICK k \in 1..Len(lines) :
          /\ lines[k].kind = "verdict" /\ lines[k].verdict = pendingVerdict
          /\ pendingSha # NoSha =>
               \E j \in 1..Len(lines) : ShaAt(j, pendingSha) /\ Silent(j, k) /\ Silent(k, j)
    BY <1>1 DEF SaidInv, PendingIsSaid
  <2>2. pendingSha # NoSha => Says(k, pendingVerdict, pendingSha)
    BY <2>1 DEF Says, ShaAt, Silent
  <2> QED
    BY <2>2 DEF RecordSaid
<1>2. \A n \in 1..Len(records) : RecordSaid(records[n])
  BY DEF SaidInv
<1>3. CASE pendingVerdict = NoVerdict
  BY <1>2, <1>3, FlushFacts
<1>4. CASE pendingVerdict # NoVerdict
  BY <1>0, <1>1, <1>2, <1>4, FlushFacts
<1> QED
  BY <1>3, <1>4

\* A step of the parser: what it leaves pending and what it records is said.
LEMMA SaidStep ==
  ASSUME lines' = lines, decision' # "pass", PendingIsSaid',
         \A n \in 1..Len(records') : RecordSaid(records'[n])
  PROVE  SaidInv'
<1> QED
  BY DEF SaidInv, RecordSaid, Says, Speaks, AllowIsSaid

\* A set of numbers up to n that is not empty has a greatest one.
LEMMA Greatest ==
  ASSUME NEW n \in Nat, NEW S, S \subseteq 1..n, S # {}
  PROVE  \E k \in S : \A j \in S : j <= k
<1> DEFINE Above(k) == {j \in S : k < j}
           R == StrictSubsetOrdering(1..n)
           T == {Above(k) : k \in S}
<1>1. IsFiniteSet(1..n)
  BY FS_Interval
<1>2. FiniteSubsetsOf(1..n) = SUBSET (1..n)
  BY <1>1, FS_FiniteSubsetsOfFinite
<1>3. IsWellFoundedOn(R, SUBSET (1..n))
  BY <1>2, FS_StrictSubsetOrderingWellFounded
<1>4. T \subseteq SUBSET (1..n) /\ T # {}
  OBVIOUS
<1>5. PICK x \in T : \A y \in T : ~ (<<y, x>> \in R)
  <2> HIDE DEF T, R
  <2> QED
    BY <1>3, <1>4, WFMin
<1>6. PICK k \in S : x = Above(k)
  BY <1>5
<1>7. ASSUME NEW j \in S, k < j PROVE FALSE
  <2>1. \A m \in S : m \in Int
    OBVIOUS
  <2>2. Above(j) \subseteq Above(k) /\ j \in Above(k) /\ j \notin Above(j)
    <3>1. \A m \in S : j < m => k < m
      BY <1>7, <2>1
    <3>2. ~ (j < j)
      BY <2>1
    <3> HIDE DEF R, T
    <3> QED
      BY <1>7, <3>1, <3>2
  <2>3. <<Above(j), Above(k)>> \in R
    BY <2>2 DEF StrictSubsetOrdering
  <2> QED
    BY <1>5, <1>6, <2>3
<1>8. \A j \in S : j <= k
  BY <1>7
<1> QED
  BY <1>8

\* The record that decides is the last that concerns the head.
LEMMA LastFacts ==
  ASSUME TypeOK
  PROVE  /\ LastForHead # NoVerdict =>
              \E k \in 1..Len(records) :
                /\ Concerns(records[k]) /\ LastForHead = records[k].verdict
                /\ \A j \in 1..Len(records) : Concerns(records[j]) => j <= k
         /\ LastForHead = NoVerdict => \A k \in 1..Len(records) : ~Concerns(records[k])
<1> DEFINE about == {k \in 1..Len(records) : Concerns(records[k])}
           last == CHOOSE k \in about : \A j \in about : j <= k
<1>1. Len(records) \in Nat
  BY LenProperties DEF TypeOK
<1>2. ASSUME about # {}
      PROVE  last \in about /\ \A j \in about : j <= last
  BY <1>1, <1>2, Greatest
<1>3. about # {} => records[last].verdict # NoVerdict /\ LastForHead = records[last].verdict
  <2> SUFFICES ASSUME about # {} PROVE records[last].verdict # NoVerdict /\ LastForHead = records[last].verdict
    OBVIOUS
  <2>1. records[last] \in Record
    BY <1>2, ElementOfSeq DEF TypeOK
  <2>2. records[last].verdict # NoVerdict
    BY <2>1 DEF Record, Verdict, NoVerdict
  <2> QED
    BY <2>2 DEF LastForHead
<1>4. about = {} => LastForHead = NoVerdict
  BY DEF LastForHead
<1> HIDE DEF last
<1> QED
  BY <1>2, <1>3, <1>4

\* The parser and evaluate keep what the records say.
LEMMA NextSaid == TypeOK /\ SaidInv /\ [Next]_vars => SaidInv'
<1> SUFFICES ASSUME TypeOK, SaidInv, [Next]_vars PROVE SaidInv'
  OBVIOUS
<1>0. /\ Len(lines) \in Nat /\ PendingIsSaid
      /\ \A n \in 1..Len(records) : RecordSaid(records[n])
      /\ \A n \in 1..Len(Flushed) : RecordSaid(Flushed[n])
  BY LenProperties, FlushedSaid DEF TypeOK, SaidInv
<1>1. ASSUME NEW kind, AtLine(kind)
      PROVE  /\ \E k \in 1..Len(lines) : i = k /\ lines[k].kind = kind
             /\ pc = "parse" /\ decision # "pass"
  BY <1>0, <1>1 DEF AtLine, TypeOK
<1>2. ASSUME decision' # "pass", UNCHANGED <<lines, records, i, pending>> PROVE SaidInv'
  <2>1. PendingIsSaid'
    BY <1>0, <1>2 DEF PendingIsSaid, Silent, Speaks, ShaAt, pending
  <2> QED
    BY <1>0, <1>2, <2>1, SaidStep
<1>3. CASE Unusable
  BY <1>2, <1>3 DEF Unusable
<1>4. ASSUME NEW k \in 1..Len(lines), i = k, pc = "parse", lines[k].kind = "verdict", ReadVerdict, ~Unusable
      PROVE  SaidInv'
  <2>1. /\ lines' = lines /\ i' = k + 1 /\ decision' # "pass"
        /\ pendingVerdict' = lines[k].verdict /\ records' \in {records, Flushed}
        /\ pendingSha' = NoSha \/ (pendingSha' = pendingSha /\ pendingVerdict = NoVerdict)
    BY <1>4 DEF ReadVerdict, Forward, Pend, TypeOK
  <2>2. PendingIsSaid'
    <3>1. CASE Speaks(k)
      BY <1>0, <1>4, <2>1, <3>1, PendingVerdictLine
    <3>2. CASE ~Speaks(k) /\ pendingSha' = NoSha
      BY <2>1, <3>2 DEF PendingIsSaid, Speaks
    <3>3. CASE ~Speaks(k) /\ pendingSha' = pendingSha /\ pendingVerdict = NoVerdict
      BY <1>0, <1>4, <2>1, <3>3, PendingStays DEF Speaks
    <3> QED
      BY <2>1, <3>1, <3>2, <3>3
  <2> QED
    BY <1>0, <2>1, <2>2, SaidStep
<1>5. ASSUME NEW k \in 1..Len(lines), i = k, pc = "parse", lines[k].kind = "sha", ReadSha, ~Unusable
      PROVE  SaidInv'
  <2>1. /\ lines' = lines /\ i' = k + 1 /\ decision' # "pass"
        /\ pendingVerdict' \in {pendingVerdict, NoVerdict} /\ records' \in {records, Flushed}
        /\ pendingSha' = lines[k].sha
    BY <1>5 DEF ReadSha, Forward, Pend, TypeOK
  <2>2. PendingIsSaid'
    BY <1>0, <1>5, <2>1, PendingShaLine
  <2> QED
    BY <1>0, <2>1, <2>2, SaidStep
<1>6. ASSUME NEW k \in 1..Len(lines), i = k, pc = "parse", lines[k].kind = "bare", ReadBare, ~Unusable
      PROVE  SaidInv'
  <2> DEFINE r == [verdict |-> lines[k].verdict, sha |-> lines[k].sha]
  <2>1. /\ lines' = lines /\ decision' # "pass" /\ records' = Append(Flushed, r)
        /\ pendingVerdict' = NoVerdict /\ pendingSha' = NoSha
    BY <1>6 DEF ReadBare, Forward, Pend, TypeOK
  <2>2. PendingIsSaid'
    BY <2>1 DEF PendingIsSaid
  <2>3. RecordSaid(r)
    BY <1>6 DEF RecordSaid, Says
  <2>4. \A n \in 1..Len(records') : records'[n] = r \/ \E m \in 1..Len(Flushed) : records'[n] = Flushed[m]
    <3>1. Flushed \in Seq(Record) /\ r \in Record
      BY <1>6, FlushFacts, LineFacts DEF Record
    <3> HIDE DEF r
    <3> QED
      BY <2>1, <3>1
  <2> HIDE DEF r
  <2>5. \A n \in 1..Len(records') : RecordSaid(records'[n])
    BY <1>0, <2>3, <2>4
  <2> QED
    BY <2>1, <2>2, <2>5, SaidStep
<1>7. ASSUME NEW k \in 1..Len(lines), i = k, pc = "parse", lines[k].kind = "other", PassOver
      PROVE  SaidInv'
  <2>1. /\ lines' = lines /\ i' = k + 1 /\ decision' # "pass" /\ records' = records
        /\ UNCHANGED <<pendingVerdict, pendingSha>>
    BY <1>7 DEF PassOver, Forward, pending, TypeOK
  <2>2. PendingIsSaid'
    BY <1>0, <1>7, <2>1, LineFacts, PendingStays
  <2> QED
    BY <1>0, <2>1, <2>2, SaidStep
<1>8. ASSUME NEW k \in 1..Len(lines), i = k, pc = "parse", lines[k].kind = "json", ReadJson, ~Unusable
      PROVE  SaidInv'
  <2> DEFINE r == [verdict |-> lines[k].verdict, sha |-> lines[k].sha]
  <2>1. /\ lines' = lines /\ decision' # "pass" /\ records' \in {<<>>, <<r>>}
        /\ UNCHANGED <<pendingVerdict, pendingSha>>
    BY <1>8 DEF ReadJson, Forward, pending, TypeOK
  <2>2. pendingVerdict = NoVerdict /\ pendingSha = NoSha
    BY <1>0, <1>8 DEF TypeOK
  <2>3. PendingIsSaid'
    BY <2>1, <2>2 DEF PendingIsSaid
  <2>4. RecordSaid(r)
    BY <1>8 DEF RecordSaid, Says
  <2> HIDE DEF r
  <2>5. \A n \in 1..Len(records') : RecordSaid(records'[n])
    BY <2>1, <2>4
  <2> QED
    BY <2>1, <2>3, <2>5, SaidStep
<1>9. CASE EndOfText /\ ~Unusable
  <2>1. /\ lines' = lines /\ decision' # "pass" /\ records' = Flushed
        /\ pendingVerdict' = NoVerdict /\ pendingSha' = NoSha
    BY <1>9 DEF EndOfText, Pend, TypeOK
  <2>2. PendingIsSaid'
    BY <2>1 DEF PendingIsSaid
  <2> QED
    BY <1>0, <2>1, <2>2, SaidStep
<1>10. CASE Evaluate
  <2>1. UNCHANGED <<lines, records, i, pendingVerdict, pendingSha, head>>
    BY <1>10 DEF Evaluate, pending
  <2>2. PendingIsSaid'
    BY <1>0, <2>1 DEF PendingIsSaid, Silent, Speaks, ShaAt
  <2>3. \A n \in 1..Len(records') : RecordSaid(records'[n])
    BY <1>0, <2>1
  <2>4. CASE decision' # "pass"
    BY <2>1, <2>2, <2>3, <2>4, SaidStep
  <2>5. CASE decision' = "pass"
    <3>1. LastForHead = "PASS"
      BY <1>10, <2>5 DEF Evaluate
    <3>2. PICK n \in 1..Len(records) : Concerns(records[n]) /\ records[n].verdict = "PASS"
      BY <3>1, LastFacts DEF NoVerdict
    <3>3. records[n].sha = head /\ head # NoSha
      BY <3>2, ShaAssumption DEF Concerns, TypeOK
    <3>4. \E k \in 1..Len(lines) : Says(k, "PASS", head)
      BY <1>0, <3>2, <3>3 DEF RecordSaid
    <3>5. AllowIsSaid'
      BY <2>1, <3>4 DEF AllowIsSaid, Says, Speaks
    <3> QED
      BY <2>1, <2>2, <2>3, <3>5 DEF SaidInv, RecordSaid, Says, Speaks
  <2> QED
    BY <2>4, <2>5
<1>11. CASE UNCHANGED vars
  BY <1>0, <1>11 DEF vars, pending, SaidInv, PendingIsSaid, Silent, Speaks, ShaAt, RecordSaid, Says, AllowIsSaid
<1> QED
  BY <1>1, <1>3, <1>4, <1>5, <1>6, <1>7, <1>8, <1>9, <1>10, <1>11
  DEF Next, ReadVerdict, ReadSha, ReadBare, PassOver, ReadJson

\* A merge is allowed only on a PASS that the file says of this very head.
THEOREM AllowIsSaidCorrect == Spec => []AllowIsSaid
<1>1. Init => SaidInv
  BY DEF Init, SaidInv, PendingIsSaid, AllowIsSaid
<1>2. SaidInv => AllowIsSaid
  BY DEF SaidInv
<1> QED
  BY <1>1, <1>2, NextSaid, InitReview, NextReview, PTL DEF Spec

-----------------------------------------------------------------------------
(* The last FAIL.                                                              *)

\* What follows the last FAIL says no verdict, and names no sha but the head if the
\* FAIL may still take one.
LEMMA AfterLastFail ==
  ASSUME TypeOK, NEW n \in 1..Len(lines), Closes(n), NEW k \in 1..Len(lines), n < k
  PROVE  /\ lines[k].verdict = NoVerdict
         /\ lines[n].kind = "verdict" /\ lines[k].kind = "sha" => lines[k].sha = head
<1>1. Len(lines) \in Nat
  BY LenProperties DEF TypeOK
<1>2. k..n = {}
  BY <1>1
<1> QED
  BY <1>1, <1>2 DEF Closes, Speaks

\* flush writes a pending FAIL down as the last record.
LEMMA FlushedFail ==
  ASSUME TypeOK, FailPending
  PROVE  /\ Flushed # <<>> /\ Flushed[Len(Flushed)].verdict = "FAIL"
         /\ Flushed[Len(Flushed)].sha \in {head, NoSha}
<1>1. Len(records) \in Nat
  BY LenProperties DEF TypeOK
<1>2. pendingVerdict # NoVerdict /\ pendingVerdict = "FAIL" /\ pendingSha \in {head, NoSha}
  BY DEF FailPending, NoVerdict
<1>3. /\ Len(Flushed) = Len(records) + 1
      /\ Flushed[Len(records) + 1] = [verdict |-> pendingVerdict, sha |-> pendingSha]
  BY <1>2, FlushFacts
<1>4. Flushed # <<>>
  BY <1>1, <1>3
<1> QED
  BY <1>2, <1>3, <1>4

\* A last FAIL that stands stands after the next line too, or the file is unusable.
LEMMA FailStays ==
  ASSUME TypeOK, NEW k \in 1..Len(lines), i = k, pc = "parse", ~Unusable,
         ReadVerdict \/ ReadSha \/ ReadBare \/ PassOver \/ ReadJson,
         NEW n \in 1..Len(lines), Closes(n), n < k, FailStands(n)
  PROVE  FailStands(n)'
<1>1. Len(lines) \in Nat /\ lines[k].verdict = NoVerdict
  BY AfterLastFail, LenProperties DEF TypeOK
<1>2. lines' = lines /\ head' = head
  BY DEF ReadVerdict, ReadSha, ReadBare, PassOver, ReadJson, Forward
<1>3. CASE FailRecorded
  <2>1. pendingVerdict = NoVerdict
    BY <1>3 DEF FailRecorded
  <2>2. ~ReadBare /\ ~ReadJson
    <3>1. lines[k].kind # "bare"
      BY <1>1, LineFacts DEF Speaks
    <3>2. lines[k].kind # "json"
      BY <1>1 DEF TypeOK
    <3> QED
      BY <3>1, <3>2 DEF ReadBare, ReadJson, AtLine
  <2>3. records' = records /\ pendingVerdict' = NoVerdict
    BY <1>1, <2>1, <2>2 DEF ReadVerdict, ReadSha, PassOver, Pend, pending
  <2> QED
    BY <1>2, <1>3, <2>3 DEF FailStands, FailRecorded
<1>4. CASE ~FailRecorded
  <2>1. lines[n].kind = "verdict" /\ FailPending
    BY <1>4 DEF FailStands
  <2>2. pendingVerdict # NoVerdict
    BY <2>1 DEF FailPending, NoVerdict
  <2>3. ReadVerdict \/ ReadSha \/ PassOver
    <3>1. lines[k].kind # "bare"
      BY <1>1, LineFacts DEF Speaks
    <3>2. lines[k].kind # "json"
      BY <1>1 DEF TypeOK
    <3> QED
      BY <3>1, <3>2 DEF ReadBare, ReadJson, AtLine
  <2>4. CASE records' = Flushed /\ pendingVerdict' = NoVerdict
    BY <1>2, <2>1, <2>4, FlushedFail DEF FailStands, FailRecorded
  <2>5. CASE pendingVerdict' = pendingVerdict /\ pendingSha' \in {pendingSha, head}
    BY <1>2, <2>1, <2>5 DEF FailStands, FailPending
  <2>6. ReadVerdict => records' = Flushed /\ pendingVerdict' = NoVerdict
    BY <1>1, <2>2 DEF ReadVerdict, Pend
  <2>7. ReadSha => \/ records' = Flushed /\ pendingVerdict' = NoVerdict
                   \/ pendingVerdict' = pendingVerdict /\ pendingSha' = head
    <3>1. ReadSha => lines[k].sha = head
      BY <2>1, AfterLastFail DEF ReadSha, AtLine
    <3> QED
      BY <2>2, <3>1 DEF ReadSha, Pend
  <2>8. PassOver => pendingVerdict' = pendingVerdict /\ pendingSha' = pendingSha
    BY DEF PassOver, pending
  <2> QED
    BY <2>3, <2>4, <2>5, <2>6, <2>7, <2>8
<1> QED
  BY <1>3, <1>4

\* Reading the last FAIL makes it stand: a sha that is pending with it is the head's.
LEMMA FailArrives ==
  ASSUME TypeOK, SaidInv, NEW k \in 1..Len(lines), i = k, pc = "parse", ~Unusable,
         ReadVerdict \/ ReadSha \/ ReadBare \/ PassOver \/ ReadJson, Closes(k)
  PROVE  FailStands(k)'
<1>1. Len(lines) \in Nat /\ lines[k].verdict = "FAIL" /\ lines[k].sha \in {head, NoSha}
  BY LenProperties DEF TypeOK, Closes
<1>2. lines' = lines /\ head' = head
  BY DEF ReadVerdict, ReadSha, ReadBare, PassOver, ReadJson, Forward
<1> DEFINE r == [verdict |-> lines[k].verdict, sha |-> lines[k].sha]
<1>3. CASE ReadVerdict
  <2>1. lines[k].kind = "verdict" /\ pendingVerdict' = "FAIL"
    BY <1>1, <1>3 DEF ReadVerdict, AtLine, Pend
  <2>2. pendingSha' = NoSha \/ (pendingVerdict = NoVerdict /\ pendingSha' = pendingSha)
    BY <1>3 DEF ReadVerdict, Pend
  <2>3. ASSUME pendingVerdict = NoVerdict, pendingSha # NoSha PROVE pendingSha = head
    <3>1. PICK j \in 1..Len(lines) : ShaAt(j, pendingSha) /\ Silent(j, k)
      BY <2>3 DEF SaidInv, PendingIsSaid
    <3>2. \A m \in j..k : m < k => ~Speaks(m)
      <4>1. ~Speaks(j)
        BY <3>1, LineFacts DEF ShaAt
      <4> QED
        BY <1>1, <3>1, <4>1 DEF Silent
    <3>3. lines[j].sha = head
      BY <2>1, <3>1, <3>2 DEF Closes, ShaAt
    <3> QED
      BY <3>1, <3>3 DEF ShaAt
  <2> QED
    BY <1>2, <2>1, <2>2, <2>3 DEF FailStands, FailPending
<1>4. CASE ReadBare
  <2>1. records' = Append(Flushed, r) /\ pendingVerdict' = NoVerdict
    BY <1>4 DEF ReadBare, Pend
  <2>2. Flushed \in Seq(Record) /\ r \in Record
    BY <1>1, FlushFacts DEF Record, Verdict, TypeOK
  <2>3. Len(Flushed) \in Nat
    BY <2>2, LenProperties
  <2> HIDE DEF r
  <2>4. records' # <<>> /\ records'[Len(records')] = r
    BY <2>1, <2>2, <2>3
  <2> QED
    BY <1>1, <1>2, <2>1, <2>4 DEF FailStands, FailRecorded, r
<1>5. CASE ReadJson
  <2>1. records' = <<r>> /\ pendingVerdict' = pendingVerdict
    BY <1>1, <1>5 DEF ReadJson, pending, NoVerdict
  <2>2. pendingVerdict = NoVerdict
    BY <1>1, <1>5 DEF ReadJson, AtLine, TypeOK
  <2>3. records' # <<>> /\ records'[Len(records')] = r
    BY <2>1
  <2> QED
    BY <1>1, <1>2, <2>1, <2>2, <2>3 DEF FailStands, FailRecorded
<1>6. ~ReadSha /\ ~PassOver
  BY <1>1, LineFacts DEF ReadSha, PassOver, AtLine, Speaks, NoVerdict
<1> QED
  BY <1>3, <1>4, <1>5, <1>6

\* The last FAIL keeps standing until evaluate looks at it, which finds it last.
LEMMA NextFail == TypeOK /\ SaidInv /\ FailInv /\ [Next]_vars => FailInv'
<1> SUFFICES ASSUME TypeOK, SaidInv, FailInv, [Next]_vars PROVE FailInv'
  OBVIOUS
<1>0. Len(lines) \in Nat
  BY LenProperties DEF TypeOK
<1>1. lines' = lines /\ head' = head
  BY DEF Next, ReadVerdict, ReadSha, ReadBare, PassOver, ReadJson, EndOfText, Evaluate,
     Unusable, Forward, vars
<1>2. SUFFICES ASSUME NEW n \in 1..Len(lines), Closes(n)
               PROVE  decision' # "pass" /\ (n < i' /\ pc' # "done" => FailStands(n)')
  BY <1>1 DEF FailInv, Closes, Speaks, FailStands
<1>3. decision # "pass" /\ (n < i /\ pc # "done" => FailStands(n))
  BY <1>2 DEF FailInv
<1>4. CASE Unusable
  BY <1>4 DEF Unusable
<1>5. CASE ~Unusable /\ (ReadVerdict \/ ReadSha \/ ReadBare \/ PassOver \/ ReadJson)
  <2>1. PICK k \in 1..Len(lines) : i = k
    <3>1. i <= Len(lines)
      BY <1>5 DEF ReadVerdict, ReadSha, ReadBare, PassOver, ReadJson, AtLine
    <3>2. i \in 1..Len(lines)
      BY <1>0, <3>1 DEF TypeOK
    <3> QED
      BY <3>2
  <2>2. pc = "parse" /\ i' = k + 1 /\ decision' = decision
    <3>1. pc = "parse"
      BY <1>5 DEF ReadVerdict, ReadSha, ReadBare, PassOver, ReadJson, AtLine
    <3>2. ReadVerdict => Forward
      BY <1>5 DEF ReadVerdict
    <3>3. ReadSha => Forward
      BY <1>5 DEF ReadSha
    <3>4. ReadBare \/ PassOver \/ ReadJson => Forward
      BY <1>5 DEF ReadBare, PassOver, ReadJson
    <3>5. Forward
      BY <1>5, <3>2, <3>3, <3>4
    <3> QED
      BY <2>1, <3>1, <3>5 DEF Forward
  <2>3. CASE n < k
    BY <1>2, <1>3, <1>5, <2>1, <2>2, <2>3, FailStays
  <2>4. CASE n = k
    BY <1>2, <1>3, <1>5, <2>1, <2>2, <2>4, FailArrives
  <2>5. CASE n > k
    BY <1>0, <1>3, <2>2, <2>5
  <2> QED
    BY <1>0, <2>3, <2>4, <2>5
<1>6. CASE EndOfText /\ ~Unusable
  <2>1. /\ pc = "parse" /\ n < i /\ decision' = decision
        /\ records' = Flushed /\ pendingVerdict' = NoVerdict
    BY <1>0, <1>6 DEF EndOfText, Pend, TypeOK
  <2>2. FailStands(n)
    BY <1>3, <2>1
  <2>3. CASE FailRecorded
    BY <1>1, <1>3, <2>1, <2>3, FlushFacts DEF FailStands, FailRecorded
  <2>4. CASE FailPending
    BY <1>1, <1>3, <2>1, <2>4, FlushedFail DEF FailStands, FailRecorded
  <2> QED
    BY <2>2, <2>3, <2>4 DEF FailStands
<1>7. CASE Evaluate
  <2>1. pc = "evaluate" /\ pc' = "done" /\ n < i /\ pendingVerdict = NoVerdict
    BY <1>0, <1>7 DEF Evaluate, TypeOK
  <2>2. FailRecorded
    BY <1>3, <2>1 DEF FailStands, FailPending, NoVerdict
  <2>3. Len(records) \in 1..Len(records) /\ Len(records) \in Nat
    BY <2>2, LenProperties, EmptySeq DEF FailRecorded, TypeOK
  <2>4. Concerns(records[Len(records)])
    BY <2>2 DEF FailRecorded, Concerns
  <2>5. LastForHead # NoVerdict
    BY <2>3, <2>4, LastFacts
  <2>6. PICK k \in 1..Len(records) :
          /\ LastForHead = records[k].verdict
          /\ \A j \in 1..Len(records) : Concerns(records[j]) => j <= k
    BY <2>5, LastFacts
  <2>7. k = Len(records)
    BY <2>3, <2>4, <2>6
  <2>8. LastForHead = "FAIL"
    BY <2>2, <2>6, <2>7 DEF FailRecorded
  <2>9. decision' = "no-pass"
    BY <1>7, <2>8 DEF Evaluate
  <2> QED
    BY <2>1, <2>9
<1>8. CASE UNCHANGED vars
  BY <1>3, <1>8 DEF vars, pending, FailStands, FailRecorded, FailPending
<1> QED
  BY <1>4, <1>5, <1>6, <1>7, <1>8 DEF Next

\* The last verdict of a file, when it is a FAIL about the head or about no sha at all,
\* refuses the merge, whatever stands before it.
THEOREM LastFailRefusesCorrect == Spec => []LastFailRefuses
<1>1. Init => SaidInv /\ FailInv
  BY DEF Init, SaidInv, PendingIsSaid, AllowIsSaid, FailInv
<1>2. FailInv => LastFailRefuses
  BY DEF FailInv, Closes, LastFailRefuses
<1> QED
  BY <1>1, <1>2, NextSaid, NextFail, InitReview, NextReview, PTL DEF Spec

=============================================================================
