------------------------ MODULE SessionMemoryProofs ------------------------
(* Proofs, for every window, reach and set of calls, about the session       *)
(* memory.                                                                   *)
EXTENDS SessionMemory, SequenceTheorems, TLAPS

\* The locals of classify_lock, and the log they are judged against.
FrameOK ==
  /\ tainted \in BOOLEAN
  /\ pc \in [Worker -> {"idle", "compose", "taint", "observe"}]
  /\ call \in [Worker -> Call]
  /\ verdict \in [Worker -> Verdict]
  /\ begun \in [Worker -> Nat]
  /\ log \in Seq(Entry)
  /\ \A w \in Worker : begun[w] <= Len(log)
  /\ \A j \in 1..Len(log) : log[j].begun < j

\* The window f holds the calls that l, the observed calls, ends with.
Holds(f, l) ==
  /\ f \in Seq(Call)
  /\ Len(f) <= Window /\ Len(f) <= Len(l)
  /\ Len(f) < Window => Len(f) = Len(l)
  /\ \A k \in 1..Len(f) : f[k] = l[Len(l) - Len(f) + k].call

MemoryInv == FrameOK /\ Holds(fragments, log)

\* A call appended to the window pushes out the oldest one, and no other.
LEMMA PushWindow ==
  ASSUME NEW f, NEW l \in Seq(Entry), NEW e \in Entry, Holds(f, l)
  PROVE  Holds(Push(f, e.call), Append(l, e))
<1> DEFINE g == Push(f, e.call)
           m == Append(l, e)
<1> SUFFICES Holds(g, m)
  OBVIOUS
<1>1. /\ Len(m) = Len(l) + 1 /\ m[Len(l) + 1] = e
      /\ \A i \in 1..Len(l) : m[i] = l[i]
  OBVIOUS
<1>2. f \in Seq(Call) /\ e.call \in Call /\ Len(l) \in Nat /\ Len(f) \in Nat
      /\ Window \in Nat \ {0} /\ Len(f) <= Window /\ Len(f) <= Len(l)
  BY WindowAssumption DEF Holds, Entry
<1>3. CASE Len(f) < Window
  <2>1. /\ g \in Seq(Call) /\ Len(g) = Len(f) + 1 /\ g[Len(f) + 1] = e.call
        /\ \A k \in 1..Len(f) : g[k] = f[k]
    BY <1>2, <1>3 DEF Push
  <2>2. Len(f) = Len(l)
    BY <1>3 DEF Holds
  <2>3. ASSUME NEW k \in 1..Len(g) PROVE g[k] = m[Len(m) - Len(g) + k].call
    <3>1. Len(m) - Len(g) + k = k
      BY <1>1, <1>2, <2>1, <2>2
    <3>2. CASE k = Len(f) + 1
      BY <1>1, <2>1, <2>2, <3>1, <3>2
    <3>3. CASE k \in 1..Len(f)
      <4>1. f[k] = l[k].call
        BY <1>2, <2>2, <3>3 DEF Holds
      <4> QED
        BY <1>1, <2>1, <2>2, <3>1, <3>3, <4>1
    <3> QED
      BY <1>2, <2>1, <3>2, <3>3
  <2> HIDE DEF g, m
  <2> QED
    BY <1>1, <1>2, <1>3, <2>1, <2>2, <2>3 DEF Holds
<1>4. CASE Len(f) = Window
  <2> DEFINE t == Tail(f)
  <2>1. t \in Seq(Call) /\ Len(t) = Len(f) - 1
        /\ \A k \in 1..(Len(f) - 1) : t[k] = f[k + 1]
    BY <1>2, <1>4
  <2>2. g = Append(t, e.call)
    BY <1>2, <1>4 DEF Push
  <2>3. g \in Seq(Call) /\ Len(g) = Len(f) /\ g[Len(f)] = e.call
        /\ \A k \in 1..(Len(f) - 1) : g[k] = f[k + 1]
    <3> HIDE DEF t, g
    <3> QED
      BY <1>2, <1>4, <2>1, <2>2
  <2>4. ASSUME NEW k \in 1..Len(g) PROVE g[k] = m[Len(m) - Len(g) + k].call
    <3> HIDE DEF g, m
    <3>1. CASE k = Len(f)
      BY <1>1, <1>2, <2>3, <3>1
    <3>2. CASE k # Len(f)
      <4>1. k \in 1..(Len(f) - 1) /\ k + 1 \in 1..Len(f)
        BY <1>2, <2>3, <3>2
      <4>2. f[k + 1] = l[Len(l) - Len(f) + (k + 1)].call
        BY <4>1 DEF Holds
      <4>3. Len(l) - Len(f) + (k + 1) \in 1..Len(l)
            /\ Len(m) - Len(g) + k = Len(l) - Len(f) + (k + 1)
        BY <1>1, <1>2, <2>3, <4>1
      <4> QED
        BY <1>1, <2>3, <4>1, <4>2, <4>3
    <3> QED
      BY <3>1, <3>2
  <2> HIDE DEF g, m
  <2> QED
    BY <1>1, <1>2, <1>4, <2>3, <2>4 DEF Holds
<1> QED
  BY <1>2, <1>3, <1>4

\* The memory starts empty.
LEMMA InitMemory == Init => MemoryInv
<1>1. NoCall \in Call
  BY CallAssumption DEF NoCall
<1>2. <<>> \in Seq(Call) /\ <<>> \in Seq(Entry) /\ Len(<<>>) = 0
  OBVIOUS
<1>3. Init => FrameOK
  <2> SUFFICES ASSUME Init PROVE FrameOK
    OBVIOUS
  <2>1. tainted \in BOOLEAN
    BY DEF Init
  <2>2. log = <<>> /\ \A w \in Worker : begun[w] = 0
    BY DEF Init
  <2>3. Len(log) = 0 /\ log \in Seq(Entry)
    BY <1>2, <2>2
  <2>4. /\ pc \in [Worker -> {"idle", "compose", "taint", "observe"}]
        /\ call \in [Worker -> Call]
        /\ verdict \in [Worker -> Verdict]
        /\ begun \in [Worker -> Nat]
    BY <1>1 DEF Init, Verdict
  <2> QED
    BY <2>1, <2>2, <2>3, <2>4 DEF FrameOK
<1>4. Init => Holds(fragments, log)
  BY <1>2, WindowAssumption DEF Init, Holds
<1> QED
  BY <1>3, <1>4 DEF MemoryInv

\* The memory and the locals stay what the model says they are.
LEMMA NextMemory == MemoryInv /\ [Next]_vars => MemoryInv'
<1> SUFFICES ASSUME MemoryInv, [Next]_vars PROVE MemoryInv'
  OBVIOUS
<1> USE CallAssumption DEF MemoryInv, FrameOK, Verdict
<1>1. ASSUME NEW w \in Worker, NEW c \in Call, Begin(w, c) PROVE MemoryInv'
  BY <1>1 DEF Begin, memory
<1>2. ASSUME NEW w \in Worker, ScanCompose(w) PROVE MemoryInv'
  BY <1>2 DEF ScanCompose, memory
<1>3. ASSUME NEW w \in Worker, ScanTaint(w) PROVE MemoryInv'
  BY <1>3 DEF ScanTaint, memory
<1>4. ASSUME NEW w \in Worker, Observe(w) PROVE MemoryInv'
  <2> DEFINE e == [call |-> call[w], verdict |-> verdict[w], begun |-> begun[w]]
  <2>1. e \in Entry /\ e.call = call[w]
    BY DEF Entry
  <2>2. log' = Append(log, e) /\ fragments' = Push(fragments, call[w])
    BY <1>4 DEF Observe
  <2>3. Holds(fragments', log')
    BY <2>1, <2>2, PushWindow
  <2>4. NoCall \in Call
    BY DEF NoCall
  <2>5. log' \in Seq(Entry) /\ Len(log') = Len(log) + 1 /\ Len(log) \in Nat
        /\ log'[Len(log) + 1] = e /\ \A i \in 1..Len(log) : log'[i] = log[i]
    BY <2>1, <2>2
  <2>6. ASSUME NEW j \in 1..Len(log') PROVE log'[j].begun < j
    <3>1. CASE j = Len(log) + 1
      <4>1. e.begun = begun[w] /\ begun[w] \in Nat
        OBVIOUS
      <4> QED
        BY <2>5, <3>1, <4>1
    <3>2. CASE j \in 1..Len(log)
      BY <2>5, <3>2
    <3> QED
      BY <2>5, <3>1, <3>2
  <2> QED
    BY <1>4, <2>3, <2>4, <2>5, <2>6 DEF Observe
<1>5. CASE UNCHANGED vars
  BY <1>5 DEF vars, memory, frame
<1> QED
  BY <1>1, <1>2, <1>3, <1>4, <1>5 DEF Next

\* A step of a thread leaves the observed calls as they are, or adds one.
LEMMA LogGrows ==
  ASSUME MemoryInv, [Next]_vars
  PROVE  \/ UNCHANGED log
         \/ \E w \in Worker : Observe(w)
<1> QED
  BY DEF Next, Begin, ScanCompose, ScanTaint, vars

\* What Observe adds to the log, and to the log alone.
LEMMA ObserveLog ==
  ASSUME MemoryInv, NEW w \in Worker, Observe(w)
  PROVE  /\ log' \in Seq(Entry) /\ Len(log') = Len(log) + 1 /\ Len(log) \in Nat
         /\ \A i \in 1..Len(log) : log'[i] = log[i]
         /\ log'[Len(log) + 1].call = call[w]
         /\ log'[Len(log) + 1].verdict = verdict[w]
         /\ log'[Len(log) + 1].begun = begun[w]
<1> DEFINE e == [call |-> call[w], verdict |-> verdict[w], begun |-> begun[w]]
<1>1. e \in Entry /\ log \in Seq(Entry)
  BY DEF MemoryInv, FrameOK, Entry
<1>2. log' = Append(log, e)
  BY DEF Observe
<1>3. e.call = call[w] /\ e.verdict = verdict[w] /\ e.begun = begun[w]
  OBVIOUS
<1> HIDE DEF e
<1> QED
  BY <1>1, <1>2, <1>3

\* An observed call began before it was observed.
LEMMA BegunBefore ==
  ASSUME MemoryInv, NEW j \in 1..Len(log)
  PROVE  log[j].begun \in Nat /\ log[j].begun < j
<1>1. log \in Seq(Entry) /\ \A k \in 1..Len(log) : log[k].begun < k
  BY DEF MemoryInv, FrameOK
<1>2. log[j] \in Entry
  BY <1>1
<1> QED
  BY <1>1, <1>2 DEF Entry

-----------------------------------------------------------------------------
(* Wipes. *)

\* The run of n calls of l from the i-th on; the run to the end of l, followed by c.
Run(l, i, n) == [k \in 1..n |-> l[i + k - 1].call]
RunTo(l, i, c) == Append(Run(l, i, Len(l) - i + 1), c)

\* A thread past the compose scan, whose call completes a remembered half that
\* is still in the window and in reach, was caught by that scan.
CaughtInv ==
  \A w \in Worker : pc[w] \in {"taint", "observe"} /\ call[w] \notin Wipe =>
    \A i \in 1..begun[w] :
      /\ Len(log) + 1 <= i + Window
      /\ Halves(log[i].call, call[w]) /\ RunTo(log, i, call[w]) \in Near
      => pc[w] = "observe" /\ verdict[w] = "deny"

WipeInv == CaughtInv /\ SecondHalfDenied

\* A run is a sequence of calls.
LEMMA RunIsSeq ==
  ASSUME NEW l \in Seq(Entry), NEW i \in 1..Len(l), NEW n \in Nat, i + n <= Len(l) + 1
  PROVE  /\ Run(l, i, n) \in Seq(Call) /\ Len(Run(l, i, n)) = n
         /\ \A k \in 1..n : Run(l, i, n)[k] = l[i + k - 1].call
<1>1. ASSUME NEW k \in 1..n PROVE l[i + k - 1].call \in Call
  <2>1. i + k - 1 \in 1..Len(l)
    OBVIOUS
  <2>2. l[i + k - 1] \in Entry
    BY <2>1
  <2> QED
    BY <2>2 DEF Entry
<1> DEFINE b == [k \in 1..n |-> l[i + k - 1].call]
<1>2. b \in Seq(Call) /\ Len(b) = n /\ \A k \in 1..n : b[k] = l[i + k - 1].call
  BY <1>1
<1>3. Run(l, i, n) = b
  BY DEF Run
<1> HIDE DEF b
<1> QED
  BY <1>2, <1>3

\* The run to a call, element by element.
LEMMA RunToIsSeq ==
  ASSUME NEW l \in Seq(Entry), NEW i \in 1..Len(l), NEW c \in Call
  PROVE  /\ RunTo(l, i, c) \in Seq(Call)
         /\ Len(RunTo(l, i, c)) = Len(l) - i + 2
         /\ \A k \in 1..(Len(l) - i + 1) : RunTo(l, i, c)[k] = l[i + k - 1].call
         /\ RunTo(l, i, c)[Len(l) - i + 2] = c
<1> DEFINE n == Len(l) - i + 1
           b == Run(l, i, n)
<1>1. n \in Nat /\ i + n <= Len(l) + 1
  OBVIOUS
<1>2. b \in Seq(Call) /\ Len(b) = n /\ \A k \in 1..n : b[k] = l[i + k - 1].call
  <2> HIDE DEF n
  <2> QED
    BY <1>1, RunIsSeq
<1>3. RunTo(l, i, c) = Append(b, c)
  BY DEF RunTo
<1>4. Len(l) - i + 2 = n + 1
  OBVIOUS
<1>5. /\ Append(b, c) \in Seq(Call) /\ Len(Append(b, c)) = n + 1
      /\ \A k \in 1..n : Append(b, c)[k] = b[k]
      /\ Append(b, c)[n + 1] = c
  <2> HIDE DEF b, n
  <2> QED
    BY <1>1, <1>2, AppendProperties
<1> HIDE DEF b
<1>6. \A k \in 1..n : Append(b, c)[k] = l[i + k - 1].call
  BY <1>2, <1>5
<1> HIDE DEF n
<1>7. /\ RunTo(l, i, c) \in Seq(Call) /\ Len(RunTo(l, i, c)) = n + 1
      /\ \A k \in 1..n : RunTo(l, i, c)[k] = l[i + k - 1].call
      /\ RunTo(l, i, c)[n + 1] = c
  BY <1>3, <1>5, <1>6
<1> QED
  BY <1>4, <1>7 DEF n

\* A half in the window and in reach of the next call is seen by its scan.
LEMMA ScanSees ==
  ASSUME MemoryInv, NEW w \in Worker, NEW i \in 1..Len(log),
         Len(log) + 1 <= i + Window, Halves(log[i].call, call[w]),
         RunTo(log, i, call[w]) \in Near
  PROVE  Composes(Append(fragments, call[w]))
<1> DEFINE k == i - (Len(log) - Len(fragments))
           f == Append(fragments, call[w])
           r == RunTo(log, i, call[w])
           n == Len(log) - i + 2
           q == SubSeq(f, k, Len(f))
<1>1. /\ fragments \in Seq(Call) /\ call[w] \in Call /\ log \in Seq(Entry)
      /\ Len(fragments) \in Nat /\ Len(log) \in Nat /\ Window \in Nat \ {0}
  BY WindowAssumption DEF MemoryInv, FrameOK, Holds
<1>2. Len(fragments) <= Len(log) /\ (Len(fragments) < Window => Len(fragments) = Len(log))
  BY DEF MemoryInv, Holds
<1>3. Len(fragments) <= Window
  BY DEF MemoryInv, Holds
<1>4. k \in 1..Len(fragments)
  BY <1>1, <1>2, <1>3
<1>5. \A m \in 1..Len(fragments) : fragments[m] = log[Len(log) - Len(fragments) + m].call
  BY DEF MemoryInv, Holds
<1>6. /\ f \in Seq(Call) /\ Len(f) = Len(fragments) + 1 /\ f[Len(f)] = call[w]
      /\ \A m \in 1..Len(fragments) : f[m] = fragments[m]
  BY <1>1
<1>7. /\ r \in Seq(Call) /\ Len(r) = n /\ r[n] = call[w]
      /\ \A m \in 1..(n - 1) : r[m] = log[i + m - 1].call
  <2>1. n - 1 = Len(log) - i + 1
    BY <1>1
  <2>2. /\ RunTo(log, i, call[w]) \in Seq(Call)
        /\ Len(RunTo(log, i, call[w])) = Len(log) - i + 2
        /\ \A m \in 1..(Len(log) - i + 1) : RunTo(log, i, call[w])[m] = log[i + m - 1].call
        /\ RunTo(log, i, call[w])[Len(log) - i + 2] = call[w]
    BY <1>1, RunToIsSeq
  <2> QED
    BY <2>1, <2>2
<1>8. n \in Nat /\ n = Len(f) - k + 1 /\ k \in 1..Len(f) /\ Len(f) \in 1..Len(f)
  BY <1>1, <1>4, <1>6
<1>9. f[k] = log[i].call
  BY <1>1, <1>4, <1>5, <1>6
<1> HIDE DEF f, r
<1>10. q \in Seq(Call) /\ Len(q) = n /\ \A m \in 1..n : q[m] = f[k + m - 1]
  BY <1>6, <1>8, SubSeqProperties
<1>11. ASSUME NEW m \in 1..n PROVE q[m] = r[m]
  <2>1. q[m] = f[k + m - 1]
    BY <1>10
  <2>2. CASE m = n
    BY <1>6, <1>7, <1>8, <2>1, <2>2
  <2>3. CASE m # n
    <3>1. m \in 1..(n - 1) /\ k + m - 1 \in 1..Len(fragments)
      <4>1. Len(fragments) \in Nat /\ Len(f) = Len(fragments) + 1
        BY <1>1, <1>6
      <4> HIDE DEF k, n, q
      <4>2. m \in 1..(n - 1)
        BY <1>8, <2>3
      <4> QED
        BY <1>4, <1>8, <4>1, <4>2
    <3>2. f[k + m - 1] = log[Len(log) - Len(fragments) + (k + m - 1)].call
      BY <1>5, <1>6, <3>1
    <3>3. Len(log) - Len(fragments) + (k + m - 1) = i + m - 1
      BY <1>1, <3>1
    <3> QED
      BY <1>7, <2>1, <3>1, <3>2, <3>3
  <2> QED
    BY <2>2, <2>3
<1>12. q = r
  <2> HIDE DEF q, n
  <2> QED
    BY <1>7, <1>10, <1>11, SeqEqual
<1>13. q \in Near
  BY <1>12 DEF r
<1>14. k <= Len(f) /\ Halves(f[k], f[Len(f)])
  BY <1>6, <1>8, <1>9
<1> HIDE DEF k
<1>15. Composes(f)
  BY <1>8, <1>13, <1>14 DEF Composes
<1> QED
  BY <1>15 DEF f

\* A run in reach is in reach without the call observed last.
LEMMA RunShrinks ==
  ASSUME NEW l \in Seq(Entry), NEW e \in Entry, NEW i \in 1..Len(l), NEW c \in Call,
         RunTo(Append(l, e), i, c) \in Near
  PROVE  RunTo(l, i, c) \in Near
<1> DEFINE m == Append(l, e)
           n == Len(l) - i + 1
           s == RunTo(m, i, c)
           q == SubSeq(s, 1, n)
           b == Run(l, i, n)
<1>1. /\ m \in Seq(Entry) /\ Len(m) = Len(l) + 1 /\ \A k \in 1..Len(l) : m[k] = l[k]
      /\ n \in Nat \ {0} /\ i \in 1..Len(m) /\ i + n <= Len(l) + 1
  OBVIOUS
<1>2. /\ s \in Seq(Call) /\ Len(s) = n + 2 /\ s[n + 2] = c
      /\ \A k \in 1..(n + 1) : s[k] = m[i + k - 1].call
  <2> HIDE DEF m
  <2>1. Len(m) - i + 2 = n + 2 /\ Len(m) - i + 1 = n + 1
    BY <1>1
  <2>2. /\ s \in Seq(Call) /\ Len(s) = Len(m) - i + 2 /\ s[Len(m) - i + 2] = c
        /\ \A k \in 1..(Len(m) - i + 1) : s[k] = m[i + k - 1].call
    BY <1>1, RunToIsSeq
  <2> HIDE DEF s, n
  <2> QED
    BY <2>1, <2>2
<1>3. b \in Seq(Call) /\ Len(b) = n /\ \A k \in 1..n : b[k] = l[i + k - 1].call
  <2> HIDE DEF n
  <2> QED
    BY <1>1, RunIsSeq
<1>4. ASSUME NEW k \in 1..n PROVE s[k] = b[k]
  <2>1. i + k - 1 \in 1..Len(l) /\ k \in 1..(n + 1)
    BY <1>1
  <2> HIDE DEF m, s, b, n
  <2> QED
    BY <1>1, <1>2, <1>3, <2>1
<1> HIDE DEF m, s, b, n
<1>5. \A k \in 1..n : s[k] \in Call
  BY <1>1, <1>2
<1>6. q \in Seq(Call) /\ Len(q) = n /\ \A k \in 1..n : q[k] = s[k]
  BY <1>1, <1>5, SubSeqProperties
<1>7. q = b
  <2> HIDE DEF q
  <2> QED
    BY <1>3, <1>4, <1>6, SeqEqual
<1>8. s \in Near /\ n \in 1..(Len(s) - 1) /\ s[Len(s)] = c
  BY <1>1, <1>2 DEF s, m
<1>9. Append(q, c) \in Near
  BY <1>8, ReachAssumption
<1> QED
  BY <1>7, <1>9 DEF RunTo, b, n

\* The run that ends with the call observed now.
LEMMA ObservedRun ==
  ASSUME NEW l \in Seq(Entry), NEW e \in Entry, NEW i \in 1..Len(l)
  PROVE  Run(Append(l, e), i, Len(l) + 1 - i + 1) = RunTo(l, i, e.call)
<1> DEFINE m == Append(l, e)
           n == Len(l) + 1 - i + 1
           b == Run(m, i, n)
           r == RunTo(l, i, e.call)
<1>1. /\ m \in Seq(Entry) /\ Len(m) = Len(l) + 1 /\ m[Len(l) + 1] = e
      /\ \A k \in 1..Len(l) : m[k] = l[k]
      /\ n \in Nat /\ i \in 1..Len(m) /\ i + n <= Len(m) + 1
  OBVIOUS
<1>2. e.call \in Call
  BY DEF Entry
<1>3. /\ r \in Seq(Call) /\ Len(r) = n /\ r[n] = e.call
      /\ \A k \in 1..(n - 1) : r[k] = l[i + k - 1].call
  <2>1. Len(l) - i + 2 = n /\ Len(l) - i + 1 = n - 1
    OBVIOUS
  <2>2. /\ r \in Seq(Call) /\ Len(r) = Len(l) - i + 2 /\ r[Len(l) - i + 2] = e.call
        /\ \A k \in 1..(Len(l) - i + 1) : r[k] = l[i + k - 1].call
    BY <1>2, RunToIsSeq
  <2> HIDE DEF r, n
  <2> QED
    BY <2>1, <2>2
<1>4. b \in Seq(Call) /\ Len(b) = n /\ \A k \in 1..n : b[k] = m[i + k - 1].call
  <2> HIDE DEF m, n
  <2> QED
    BY <1>1, RunIsSeq
<1>5. ASSUME NEW k \in 1..n PROVE b[k] = r[k]
  <2>1. CASE k = n
    <3>1. i + k - 1 = Len(l) + 1
      BY <2>1
    <3> HIDE DEF m, n, b, r
    <3> QED
      BY <1>1, <1>3, <1>4, <2>1, <3>1
  <2>2. CASE k # n
    <3>1. k \in 1..(n - 1) /\ i + k - 1 \in 1..Len(l)
      BY <2>2
    <3> HIDE DEF m, n, b, r
    <3> QED
      BY <1>1, <1>3, <1>4, <3>1
  <2> QED
    BY <2>1, <2>2
<1> HIDE DEF b, r, n
<1>6. b = r
  BY <1>3, <1>4, <1>5, SeqEqual
<1> QED
  BY <1>6 DEF b, r, n, m

\* Every step keeps WipeInv: calls pushed in between only bring the halves closer.
LEMMA NextWipe == MemoryInv /\ WipeInv /\ [Next]_vars => WipeInv'
<1> SUFFICES ASSUME MemoryInv, WipeInv, [Next]_vars PROVE WipeInv'
  OBVIOUS
<1>0. MemoryInv'
  BY NextMemory
<1> USE DEF WipeInv
<1>1. ASSUME NEW w \in Worker, NEW c \in Call, Begin(w, c) PROVE WipeInv'
  <2>1. UNCHANGED log
    BY <1>1 DEF Begin
  <2>2. SecondHalfDenied'
    BY <2>1 DEF SecondHalfDenied, Between
  <2>3. CaughtInv'
    BY <1>1 DEF Begin, CaughtInv, MemoryInv, FrameOK
  <2> QED
    BY <2>2, <2>3
<1>2. ASSUME NEW w \in Worker, ScanCompose(w) PROVE WipeInv'
  <2>1. UNCHANGED <<log, begun, call, fragments>>
    BY <1>2 DEF ScanCompose, memory
  <2>2. SecondHalfDenied'
    BY <2>1 DEF SecondHalfDenied, Between
  <2>3. CaughtInv'
    <3> SUFFICES ASSUME NEW v \in Worker, pc'[v] \in {"taint", "observe"}, call[v] \notin Wipe,
                        NEW i \in 1..begun[v],
                        Len(log) + 1 <= i + Window,
                        Halves(log[i].call, call[v]), RunTo(log, i, call[v]) \in Near
                 PROVE  pc'[v] = "observe" /\ verdict'[v] = "deny"
      BY <2>1 DEF CaughtInv
    <3>1. CASE v = w
      <4>1. i \in 1..Len(log)
        BY DEF MemoryInv, FrameOK
      <4>2. Composes(Append(fragments, call[w]))
        BY <3>1, <4>1, ScanSees
      <4> QED
        BY <1>2, <3>1, <4>2 DEF ScanCompose, MemoryInv, FrameOK
    <3>2. CASE v # w
      <4>1. pc'[v] = pc[v] /\ verdict'[v] = verdict[v]
        BY <1>2, <3>2 DEF ScanCompose, MemoryInv, FrameOK
      <4> QED
        BY <4>1 DEF CaughtInv
    <3> QED
      BY <3>1, <3>2
  <2> QED
    BY <2>2, <2>3
<1>3. ASSUME NEW w \in Worker, ScanTaint(w) PROVE WipeInv'
  <2>1. UNCHANGED <<log, begun, call>> /\ pc[w] = "taint"
    BY <1>3 DEF ScanTaint
  <2>2. SecondHalfDenied'
    BY <2>1 DEF SecondHalfDenied, Between
  <2>3. CaughtInv'
    BY <1>3, <2>1 DEF ScanTaint, CaughtInv, MemoryInv, FrameOK
  <2> QED
    BY <2>2, <2>3
<1>4. ASSUME NEW w \in Worker, Observe(w) PROVE WipeInv'
  <2>1. /\ Len(log') = Len(log) + 1 /\ Len(log) \in Nat
        /\ \A i \in 1..Len(log) : log'[i] = log[i]
        /\ log'[Len(log) + 1].call = call[w]
        /\ log'[Len(log) + 1].verdict = verdict[w]
        /\ log'[Len(log) + 1].begun = begun[w]
    BY <1>4, ObserveLog
  <2>2. pc[w] = "observe" /\ begun[w] \in Nat /\ begun[w] <= Len(log)
        /\ Window \in Nat /\ log \in Seq(Entry) /\ call[w] \in Call
    BY <1>4, WindowAssumption DEF Observe, MemoryInv, FrameOK
  <2> DEFINE e == [call |-> call[w], verdict |-> verdict[w], begun |-> begun[w]]
  <2>3. log' = Append(log, e) /\ e \in Entry /\ e.call = call[w]
    BY <1>4 DEF Observe, Entry, MemoryInv, FrameOK
  <2>4. SecondHalfDenied'
    <3> SUFFICES ASSUME NEW i \in 1..Len(log'), NEW j \in 1..Len(log'),
                        i <= log'[j].begun, j <= i + Window,
                        Halves(log'[i].call, log'[j].call), Between(i, j)' \in Near,
                        log'[j].call \notin Wipe
                 PROVE  log'[j].verdict = "deny"
      BY DEF SecondHalfDenied
    <3>1. CASE j = Len(log) + 1
      <4>1. i \in 1..begun[w] /\ i \in 1..Len(log)
        BY <2>1, <2>2, <3>1
      <4>2. Between(i, j)' = Run(log', i, Len(log) + 1 - i + 1)
        BY <3>1 DEF Between, Run
      <4>3. Between(i, j)' = RunTo(log, i, call[w])
        <5>1. log \in Seq(Entry)
          BY <2>2
        <5> HIDE DEF e
        <5>2. Run(Append(log, e), i, Len(log) + 1 - i + 1) = RunTo(log, i, e.call)
          BY <2>3, <4>1, <5>1, ObservedRun
        <5> QED
          BY <2>3, <4>2, <5>2
      <4> QED
        BY <2>1, <2>2, <3>1, <4>1, <4>3 DEF CaughtInv
    <3>2. CASE j # Len(log) + 1
      <4>1. j \in 1..Len(log)
        BY <2>1, <3>2
      <4>2. log[j].begun < j /\ log[j].begun \in Nat
        BY <4>1, BegunBefore
      <4>3. i \in 1..Len(log)
        BY <2>1, <4>1, <4>2
      <4>4. log'[i] = log[i] /\ log'[j] = log[j]
        BY <2>1, <4>1, <4>3
      <4>5. Between(i, j)' = Between(i, j)
        <5>1. \A k \in 1..(j - i + 1) : log'[i + k - 1] = log[i + k - 1]
          BY <2>1, <4>1, <4>3
        <5> QED
          BY <5>1 DEF Between
      <4> QED
        BY <4>1, <4>3, <4>4, <4>5 DEF SecondHalfDenied
    <3> QED
      BY <3>1, <3>2
  <2>5. CaughtInv'
    <3> SUFFICES ASSUME NEW v \in Worker, pc'[v] \in {"taint", "observe"}, call'[v] \notin Wipe,
                        NEW i \in 1..begun'[v],
                        Len(log') + 1 <= i + Window,
                        Halves(log'[i].call, call'[v]), RunTo(log', i, call'[v]) \in Near
                 PROVE  pc'[v] = "observe" /\ verdict'[v] = "deny"
      BY DEF CaughtInv
    <3>1. v # w
      BY <1>4 DEF Observe, MemoryInv, FrameOK
    <3>2. UNCHANGED <<pc[v], call[v], begun[v], verdict[v]>>
      BY <1>4, <3>1 DEF Observe, MemoryInv, FrameOK
    <3>3. begun[v] \in Nat /\ begun[v] <= Len(log)
      BY DEF MemoryInv, FrameOK
    <3>4. i \in 1..begun[v] /\ i \in 1..Len(log)
      BY <2>1, <3>2, <3>3
    <3>5. Len(log) + 1 <= i + Window
      BY <2>1, <2>2, <3>4
    <3>6. RunTo(log, i, call[v]) \in Near
      <4>1. call[v] \in Call /\ RunTo(Append(log, e), i, call[v]) \in Near
        BY <2>3, <3>2 DEF MemoryInv, FrameOK
      <4> HIDE DEF e
      <4> QED
        BY <2>2, <2>3, <3>4, <4>1, RunShrinks
    <3> QED
      BY <2>1, <3>2, <3>4, <3>5, <3>6 DEF CaughtInv
  <2> QED
    BY <2>4, <2>5
<1>5. CASE UNCHANGED vars
  BY <1>5 DEF vars, frame, CaughtInv, SecondHalfDenied, Between
<1> QED
  BY <1>1, <1>2, <1>3, <1>4, <1>5 DEF Next

\* The second half of a wipe that begins after the first was observed is denied, for every
\* window and set of calls, within the window and the reach of a pattern.
THEOREM SecondHalfCorrect == Spec => []SecondHalfDenied
<1>1. Init => MemoryInv /\ WipeInv
  BY InitMemory DEF Init, WipeInv, CaughtInv, SecondHalfDenied
<1>2. (MemoryInv /\ WipeInv) /\ [Next]_vars => (MemoryInv /\ WipeInv)'
  BY NextMemory, NextWipe
<1>3. WipeInv => SecondHalfDenied
  BY DEF WipeInv
<1> QED
  BY <1>1, <1>2, <1>3, PTL DEF Spec

-----------------------------------------------------------------------------
(* Secrets. *)

\* A secret read in the log has tainted the session, and no outbound call that
\* began after it is past the taint scan unless it is denied.
SecretInv ==
  /\ \A i \in 1..Len(log) : log[i].call \in SecretRead => tainted
  /\ \A w \in Worker : pc[w] = "observe" /\ call[w] \in Outbound =>
       \A i \in 1..begun[w] : log[i].call \in SecretRead => verdict[w] = "deny"
  /\ NoOutboundAfterSecret

\* Every step keeps SecretInv: the taint is never lifted.
LEMMA NextSecret == MemoryInv /\ SecretInv /\ [Next]_vars => SecretInv'
<1> SUFFICES ASSUME MemoryInv, SecretInv, [Next]_vars PROVE SecretInv'
  OBVIOUS
<1> USE DEF SecretInv
<1>0. \A v \in Worker : begun[v] \in Nat /\ begun[v] <= Len(log)
  BY DEF MemoryInv, FrameOK
<1>1. ASSUME NEW w \in Worker, NEW c \in Call, Begin(w, c) PROVE SecretInv'
  BY <1>1 DEF Begin, memory, NoOutboundAfterSecret, MemoryInv, FrameOK
<1>2. ASSUME NEW w \in Worker, ScanCompose(w) PROVE SecretInv'
  BY <1>2 DEF ScanCompose, memory, NoOutboundAfterSecret, MemoryInv, FrameOK
<1>3. ASSUME NEW w \in Worker, ScanTaint(w) PROVE SecretInv'
  <2>1. UNCHANGED <<log, begun, call, tainted>> /\ pc[w] = "taint"
    BY <1>3 DEF ScanTaint, memory
  <2>2. NoOutboundAfterSecret'
    BY <2>1 DEF NoOutboundAfterSecret
  <2>3. ASSUME NEW v \in Worker, pc'[v] = "observe", call[v] \in Outbound,
               NEW i \in 1..begun[v], log[i].call \in SecretRead
        PROVE  verdict'[v] = "deny"
    <3>1. tainted
      BY <1>0, <2>3
    <3> QED
      BY <1>3, <2>3, <3>1 DEF ScanTaint, MemoryInv, FrameOK
  <2> QED
    BY <2>1, <2>2, <2>3
<1>4. ASSUME NEW w \in Worker, Observe(w) PROVE SecretInv'
  <2>1. /\ Len(log') = Len(log) + 1 /\ Len(log) \in Nat
        /\ \A i \in 1..Len(log) : log'[i] = log[i]
        /\ log'[Len(log) + 1].call = call[w]
        /\ log'[Len(log) + 1].verdict = verdict[w]
        /\ log'[Len(log) + 1].begun = begun[w]
    BY <1>4, ObserveLog
  <2>2. pc[w] = "observe" /\ tainted' = (tainted \/ call[w] \in SecretRead)
    BY <1>4 DEF Observe
  <2>3. ASSUME NEW i \in 1..Len(log'), log'[i].call \in SecretRead PROVE tainted'
    <3>1. CASE i = Len(log) + 1
      BY <2>1, <2>2, <2>3, <3>1
    <3>2. CASE i \in 1..Len(log)
      BY <2>1, <2>2, <2>3, <3>2
    <3> QED
      BY <2>1, <3>1, <3>2
  <2>4. ASSUME NEW v \in Worker, pc'[v] = "observe", call'[v] \in Outbound,
               NEW i \in 1..begun'[v], log'[i].call \in SecretRead
        PROVE  verdict'[v] = "deny"
    <3>1. v # w
      BY <1>4, <2>4 DEF Observe, MemoryInv, FrameOK
    <3>2. UNCHANGED <<pc[v], call[v], begun[v], verdict[v]>>
      BY <1>4, <3>1 DEF Observe, MemoryInv, FrameOK
    <3>3. i \in 1..begun[v] /\ i \in 1..Len(log)
      BY <1>0, <2>1, <2>4, <3>2
    <3> QED
      BY <2>1, <2>4, <3>2, <3>3
  <2>5. NoOutboundAfterSecret'
    <3> SUFFICES ASSUME NEW i \in 1..Len(log'), NEW j \in 1..Len(log'),
                        i <= log'[j].begun,
                        log'[i].call \in SecretRead, log'[j].call \in Outbound
                 PROVE  log'[j].verdict = "deny"
      BY DEF NoOutboundAfterSecret
    <3>1. CASE j = Len(log) + 1
      <4>1. i \in 1..begun[w] /\ i \in 1..Len(log)
        BY <1>0, <2>1, <3>1
      <4> QED
        BY <2>1, <2>2, <3>1, <4>1
    <3>2. CASE j \in 1..Len(log)
      <4>1. log[j].begun < j /\ log[j].begun \in Nat
        BY <3>2, BegunBefore
      <4>2. i \in 1..Len(log)
        BY <2>1, <3>2, <4>1
      <4>3. log'[i] = log[i] /\ log'[j] = log[j]
        BY <2>1, <3>2, <4>2
      <4> QED
        BY <3>2, <4>2, <4>3 DEF NoOutboundAfterSecret
    <3> QED
      BY <2>1, <3>1, <3>2
  <2> QED
    BY <2>3, <2>4, <2>5
<1>5. CASE UNCHANGED vars
  BY <1>5 DEF vars, memory, frame, NoOutboundAfterSecret
<1> QED
  BY <1>1, <1>2, <1>3, <1>4, <1>5 DEF Next

\* NoOutboundAfterSecret holds for every window, reach and set of calls.
THEOREM SecretCorrect == Spec => []NoOutboundAfterSecret
<1>1. Init => MemoryInv /\ SecretInv
  BY InitMemory DEF Init, SecretInv, NoOutboundAfterSecret
<1>2. (MemoryInv /\ SecretInv) /\ [Next]_vars => (MemoryInv /\ SecretInv)'
  BY NextMemory, NextSecret
<1>3. SecretInv => NoOutboundAfterSecret
  BY DEF SecretInv
<1> QED
  BY <1>1, <1>2, <1>3, PTL DEF Spec

\* The type invariant, the bound of the window with it, holds in every behaviour.
THEOREM SessionTypeCorrect == Spec => []TypeOK
<1>1. MemoryInv /\ [Next]_vars => MemoryInv'
  BY NextMemory
<1>2. MemoryInv => TypeOK
  BY DEF MemoryInv, FrameOK, Holds, TypeOK
<1> QED
  BY <1>1, <1>2, InitMemory, PTL DEF Spec

-----------------------------------------------------------------------------
(* Lockouts. *)

\* Calls whose denial can only come from the remembered halves of others.
Innocent(c) == Rule[c] # "deny" /\ c \notin Left \cup Right \cup Outbound \cup Bypass

\* A half of a wipe was observed at most Window calls before the n-th, or since.
HalfSince(n) == \E i \in 1..Len(log) : i + Window > n /\ log[i].call \in Left \cup Right

LockoutInv ==
  /\ \A w \in Worker : pc[w] = "observe" /\ verdict[w] = "deny" /\ Innocent(call[w]) =>
       HalfSince(begun[w])
  /\ LockoutEnds

\* What an innocent call composes is in the window already.
LEMMA ComposedBefore ==
  ASSUME MemoryInv, NEW w \in Worker, Innocent(call[w]),
         Composes(Append(fragments, call[w]))
  PROVE  HalfSince(begun[w])
<1> DEFINE f == Append(fragments, call[w])
<1>1. /\ fragments \in Seq(Call) /\ call[w] \in Call /\ log \in Seq(Entry)
      /\ Len(fragments) \in Nat /\ Len(log) \in Nat /\ Window \in Nat \ {0}
      /\ Len(fragments) <= Window /\ Len(fragments) <= Len(log)
      /\ begun[w] \in Nat /\ begun[w] <= Len(log)
  BY WindowAssumption DEF MemoryInv, FrameOK, Holds
<1>2. PICK i \in 1..Len(f), j \in 1..Len(f) : Halves(f[i], f[j])
  BY DEF Composes
<1>3. f[i] \in Left \cup Right
  BY <1>2, CallAssumption DEF Halves
<1>4. Len(f) = Len(fragments) + 1 /\ f[Len(fragments) + 1] = call[w]
      /\ \A k \in 1..Len(fragments) : f[k] = fragments[k]
  BY <1>1
<1> HIDE DEF f
<1>5. i \in 1..Len(fragments)
  BY <1>1, <1>2, <1>3, <1>4 DEF Innocent
<1> DEFINE n == Len(log) - Len(fragments) + i
<1>6. n \in 1..Len(log) /\ n + Window > begun[w]
  BY <1>1, <1>5
<1>7. fragments[i] = log[n].call
  BY <1>5 DEF MemoryInv, Holds
<1> HIDE DEF n
<1> QED
  BY <1>3, <1>4, <1>5, <1>6, <1>7 DEF HalfSince

\* Every step keeps LockoutInv.
LEMMA NextLockout == MemoryInv /\ LockoutInv /\ [Next]_vars => LockoutInv'
<1> SUFFICES ASSUME MemoryInv, LockoutInv, [Next]_vars PROVE LockoutInv'
  OBVIOUS
<1> USE DEF LockoutInv
<1>1. ASSUME NEW w \in Worker, NEW c \in Call, Begin(w, c) PROVE LockoutInv'
  BY <1>1 DEF Begin, LockoutEnds, HalfSince, Innocent, MemoryInv, FrameOK
<1>2. ASSUME NEW w \in Worker, ScanCompose(w) PROVE LockoutInv'
  <2>1. UNCHANGED <<log, begun, call>> /\ pc[w] = "compose"
    BY <1>2 DEF ScanCompose
  <2>2. LockoutEnds'
    BY <2>1 DEF LockoutEnds
  <2>3. ASSUME NEW v \in Worker, pc'[v] = "observe", verdict'[v] = "deny", Innocent(call[v])
        PROVE  HalfSince(begun[v])
    <3>1. CASE v = w
      <4>1. Composes(Append(fragments, call[w]))
        BY <1>2, <2>3, <3>1 DEF ScanCompose, MemoryInv, FrameOK
      <4> QED
        BY <2>3, <3>1, <4>1, ComposedBefore
    <3>2. CASE v # w
      BY <1>2, <2>3, <3>2 DEF ScanCompose, MemoryInv, FrameOK
    <3> QED
      BY <3>1, <3>2
  <2> QED
    BY <2>1, <2>2, <2>3 DEF HalfSince, Innocent
<1>3. ASSUME NEW w \in Worker, ScanTaint(w) PROVE LockoutInv'
  <2>1. UNCHANGED <<log, begun, call>>
    BY <1>3 DEF ScanTaint
  <2>2. LockoutEnds'
    BY <2>1 DEF LockoutEnds
  <2>3. ASSUME NEW v \in Worker, pc'[v] = "observe", verdict'[v] = "deny", Innocent(call[v])
        PROVE  HalfSince(begun[v])
    BY <1>3, <2>3 DEF ScanTaint, Innocent, MemoryInv, FrameOK
  <2> QED
    BY <2>1, <2>2, <2>3 DEF HalfSince, Innocent
<1>4. ASSUME NEW w \in Worker, Observe(w) PROVE LockoutInv'
  <2>1. /\ Len(log') = Len(log) + 1 /\ Len(log) \in Nat
        /\ \A i \in 1..Len(log) : log'[i] = log[i]
        /\ log'[Len(log) + 1].call = call[w]
        /\ log'[Len(log) + 1].verdict = verdict[w]
        /\ log'[Len(log) + 1].begun = begun[w]
    BY <1>4, ObserveLog
  <2>2. pc[w] = "observe"
    BY <1>4 DEF Observe
  <2>3. ASSUME NEW n \in Nat, HalfSince(n)
        PROVE  \E i \in 1..Len(log) : i + Window > n /\ log'[i].call \in Left \cup Right
    BY <2>1, <2>3 DEF HalfSince
  <2>4. ASSUME NEW v \in Worker, pc'[v] = "observe", verdict'[v] = "deny", Innocent(call'[v])
        PROVE  \E i \in 1..Len(log') :
                 i + Window > begun'[v] /\ log'[i].call \in Left \cup Right
    <3>1. v # w
      BY <1>4, <2>4 DEF Observe, MemoryInv, FrameOK
    <3>2. UNCHANGED <<pc[v], call[v], begun[v], verdict[v]>> /\ begun[v] \in Nat
      BY <1>4, <3>1 DEF Observe, MemoryInv, FrameOK
    <3>3. HalfSince(begun[v])
      BY <2>4, <3>2
    <3> QED
      BY <2>1, <2>3, <3>2, <3>3 DEF HalfSince
  <2>5. LockoutEnds'
    <3> SUFFICES ASSUME NEW j \in 1..Len(log'),
                        log'[j].verdict = "deny", Innocent(log'[j].call)
                 PROVE  \E i \in 1..(j - 1) :
                          i + Window > log'[j].begun /\ log'[i].call \in Left \cup Right
      BY DEF LockoutEnds, Innocent
    <3>1. CASE j = Len(log) + 1
      <4>1. HalfSince(begun[w]) /\ begun[w] \in Nat
        BY <2>1, <2>2, <3>1 DEF MemoryInv, FrameOK
      <4> QED
        BY <2>1, <2>3, <3>1, <4>1
    <3>2. CASE j \in 1..Len(log)
      <4>1. log'[j] = log[j] /\ \A i \in 1..(j - 1) : log'[i] = log[i]
        BY <2>1, <3>2
      <4> QED
        BY <3>2, <4>1 DEF LockoutEnds, Innocent
    <3> QED
      BY <2>1, <3>1, <3>2
  <2> QED
    BY <2>4, <2>5 DEF HalfSince, Innocent
<1>5. CASE UNCHANGED vars
  BY <1>5 DEF vars, frame, LockoutEnds, HalfSince, Innocent
<1> QED
  BY <1>1, <1>2, <1>3, <1>4, <1>5 DEF Next

\* LockoutEnds holds for every window, reach and set of calls.
THEOREM LockoutCorrect == Spec => []LockoutEnds
<1>1. Init => MemoryInv /\ LockoutInv
  BY InitMemory DEF Init, LockoutInv, LockoutEnds
<1>2. (MemoryInv /\ LockoutInv) /\ [Next]_vars => (MemoryInv /\ LockoutInv)'
  BY NextMemory, NextLockout
<1>3. LockoutInv => LockoutEnds
  BY DEF LockoutInv
<1> QED
  BY <1>1, <1>2, <1>3, PTL DEF Spec

=============================================================================
