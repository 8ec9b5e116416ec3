--------------------------- MODULE ReceiptLedger ---------------------------
(***************************************************************************)
(* The Continuity receipt file of phoenix_gate/gateway.py: a JSONL file of  *)
(* hash-chained receipts with a ".tip" sidecar.  write_receipt takes no     *)
(* lock, so each of its file operations is an action, and threads (or        *)
(* processes) that share receipts_path interleave between them.  A writer    *)
(* may die at any of these points; the environment may cut or alter the      *)
(* file, which is what verify_receipt_chain is there to show.                *)
(*                                                                         *)
(* SHA-256 is taken to be collision free: the hash of a receipt is the       *)
(* sequence of bodies it commits to, and a body is a number (receipt_id is   *)
(* random, so no two bodies are equal).  The empty sequence is the missing   *)
(* hash that "genesis" stands for.                                           *)
(***************************************************************************)
EXTENDS Naturals, Sequences

CONSTANTS
  Writer,        \* threads or processes inside write_receipt
  MaxReceipts,   \* bound: receipts ever written
  MaxFaults,     \* bound: faults of the environment
  TipEnabled     \* _receipt_tip_enabled(), sealed at boot

ASSUME LedgerAssumption ==
  /\ MaxReceipts \in Nat /\ MaxFaults \in Nat
  /\ TipEnabled \in BOOLEAN

VARIABLES
  file,      \* the lines of receipts_path
  exists,    \* receipts_path exists
  torn,      \* the last line lacks its newline
  tip,       \* the sidecar
  pc, id, prev, count,   \* locals of write_receipt, per writer
  next,      \* the next body
  faults,    \* faults so far
  reported,  \* bodies whose write_receipt returned
  shortened, \* history: the file was cut
  settled    \* history: "yes" after a write that ran alone, and undisturbed, to its end

disk == <<file, exists, torn, tip>>
writer == <<pc, id, prev, count>>
vars == <<disk, writer, next, faults, reported, shortened, settled>>

NoHash == <<>>
HashReceipt(body, p) == Append(p, body)

Receipt(body, p) == [id |-> body, prev |-> p, hash |-> HashReceipt(body, p)]

\* A line that json.loads refuses.
Garbage == [id |-> 0, prev |-> NoHash, hash |-> NoHash]

TipOf(h, n) == [state |-> "ok", hash |-> h, count |-> n]
TipMissing == [state |-> "missing", hash |-> NoHash, count |-> 0]
TipTorn == [state |-> "torn", hash |-> NoHash, count |-> 0]

Init ==
  /\ file = <<>> /\ exists = FALSE /\ torn = FALSE /\ tip = TipMissing
  /\ pc = [w \in Writer |-> "idle"]
  /\ id = [w \in Writer |-> 0]
  /\ prev = [w \in Writer |-> NoHash]
  /\ count = [w \in Writer |-> 0]
  /\ next = 1 /\ faults = 0 /\ reported = {} /\ shortened = FALSE /\ settled = "no"

-----------------------------------------------------------------------------
(* write_receipt *)

\* Mutant: the last line is taken for the empty one after its newline.
LastButOneHash == IF Len(file) < 2 THEN NoHash ELSE file[Len(file) - 1].hash

\* None for a file that is missing or empty, and for a last line that is not JSON.
LastReceiptHash == IF file = <<>> THEN NoHash ELSE file[Len(file)].hash

\* Mutant: counted before the line is there.
CountBeforeAppend == Len(file) - 1

CountReceipts == Len(file)

ReadLast(w) ==
  /\ pc[w] = "idle"
  /\ next <= MaxReceipts
  /\ next' = next + 1
  /\ id' = [id EXCEPT ![w] = next]
  /\ prev' = [prev EXCEPT ![w] = LastReceiptHash]
  /\ pc' = [pc EXCEPT ![w] = "append"]
  /\ settled' = IF \A v \in Writer : pc[v] = "idle" THEN "writing" ELSE "no"
  /\ UNCHANGED <<disk, count, faults, reported, shortened>>

\* Mutant: the unterminated line is replaced.
AppendOverTorn(line) ==
  IF torn THEN [file EXCEPT ![Len(file)] = line] ELSE Append(file, line)

\* Mutant: the file is opened for writing, which empties it.
AppendTruncates(line) == <<line>>

\* An unterminated last line swallows the receipt that follows it.
AppendTo(line) ==
  IF torn THEN [file EXCEPT ![Len(file)] = Garbage] ELSE Append(file, line)

Leave(w) ==
  /\ pc' = [pc EXCEPT ![w] = "idle"]
  /\ id' = [id EXCEPT ![w] = 0]
  /\ prev' = [prev EXCEPT ![w] = NoHash]
  /\ count' = [count EXCEPT ![w] = 0]

Finish(w) ==
  /\ Leave(w)
  /\ reported' = reported \cup {id[w]}
  /\ settled' = IF settled = "writing" THEN "yes" ELSE "no"

AppendReceipt(w) ==
  /\ pc[w] = "append"
  /\ file' = AppendTo(Receipt(id[w], prev[w]))
  /\ exists' = TRUE
  /\ torn' = FALSE
  /\ IF TipEnabled
       THEN /\ pc' = [pc EXCEPT ![w] = "count"]
            /\ UNCHANGED <<id, prev, count, reported, settled>>
       ELSE Finish(w)
  /\ UNCHANGED <<tip, next, faults, shortened>>

Count(w) ==
  /\ pc[w] = "count"
  /\ count' = [count EXCEPT ![w] = CountReceipts]
  /\ pc' = [pc EXCEPT ![w] = "open"]
  /\ UNCHANGED <<disk, id, prev, next, faults, reported, shortened,
                 settled>>

\* write_text opens the sidecar for writing, which empties it.
OpenTip(w) ==
  /\ pc[w] = "open"
  /\ tip' = TipTorn
  /\ pc' = [pc EXCEPT ![w] = "tip"]
  /\ UNCHANGED <<file, exists, torn, id, prev, count, next, faults,
                 reported, shortened, settled>>

\* Mutant: the sidecar gets the hash that the receipt links to, which may be null.
WriteTipPrevious(w) ==
  /\ pc[w] = "tip"
  /\ tip' = TipOf(prev[w], count[w])
  /\ Finish(w)
  /\ UNCHANGED <<file, exists, torn, next, faults, shortened>>

WriteTip(w) ==
  /\ pc[w] = "tip"
  /\ tip' = TipOf(HashReceipt(id[w], prev[w]), count[w])
  /\ Finish(w)
  /\ UNCHANGED <<file, exists, torn, next, faults, shortened>>

Write(w) == ReadLast(w) \/ AppendReceipt(w) \/ Count(w) \/ OpenTip(w) \/ WriteTip(w)

-----------------------------------------------------------------------------
(* verify_receipt_chain *)

\* Mutant: only the links are compared, no hash is recomputed.
LinkOk(f, i) ==
  /\ f[i] # Garbage
  /\ f[i].prev = IF i = 1 THEN NoHash ELSE f[i - 1].hash

LineOk(f, i) ==
  /\ f[i] # Garbage
  /\ f[i].prev = IF i = 1 THEN NoHash ELSE f[i - 1].hash
  /\ f[i].hash = HashReceipt(f[i].id, f[i].prev)

ChainOk(f) == \A i \in 1..Len(f) : LineOk(f, i)

\* The sidecar t against n receipts of which the last hashes to h.
TipAgrees(t, h, n) ==
  \/ t.state = "ok" /\ t.count = n /\ (n > 0 => t.hash = h)
  \/ t.state = "missing" /\ ~(TipEnabled /\ n > 0)

VerifyOk == exists /\ ChainOk(file) /\ TipAgrees(tip, LastReceiptHash, Len(file))

-----------------------------------------------------------------------------
(* Faults. *)

Fault ==
  /\ faults < MaxFaults
  /\ faults' = faults + 1
  /\ settled' = "no"

\* A writer dies between two file operations.
Crash(w) ==
  /\ Fault
  /\ pc[w] # "idle"
  /\ Leave(w)
  /\ UNCHANGED <<disk, next, reported, shortened>>

\* A writer dies in the append: part of the line, or all but its newline, is there.
CrashInAppend(w) ==
  /\ Fault
  /\ pc[w] = "append"
  /\ \E line \in {Garbage, Receipt(id[w], prev[w])} : file' = AppendTo(line)
  /\ exists' = TRUE
  /\ torn' = TRUE
  /\ Leave(w)
  /\ UNCHANGED <<tip, next, reported, shortened>>

\* The tail of the file is lost.
Cut ==
  /\ Fault
  /\ \E n \in 0..Len(file) : n < Len(file) /\ file' = SubSeq(file, 1, n)
  /\ torn' = FALSE
  /\ shortened' = TRUE
  /\ UNCHANGED <<exists, tip, writer, next, reported>>

\* The body of a receipt is changed where it stands.
Alter ==
  /\ Fault
  /\ \E i \in 1..Len(file), body \in 1..MaxReceipts :
       /\ file[i] # Garbage /\ body # file[i].id
       /\ file' = [file EXCEPT ![i].id = body]
  /\ UNCHANGED <<exists, torn, tip, writer, next, reported, shortened>>

Next ==
  \/ \E w \in Writer : Write(w) \/ Crash(w) \/ CrashInAppend(w)
  \/ Cut
  \/ Alter

Spec == Init /\ [][Next]_vars

-----------------------------------------------------------------------------
(* Properties. *)

Hash == Seq(1..MaxReceipts)
Line == [id : 0..MaxReceipts, prev : Hash, hash : Hash]
Tip == [state : {"ok", "missing", "torn"}, hash : Hash, count : Nat]

\* The domains of the files, of the locals and of the history; a sidecar that can be
\* read names a receipt's hash, never null.
TypeOK ==
  /\ file \in Seq(Line)
  /\ exists \in BOOLEAN /\ torn \in BOOLEAN /\ settled \in {"no", "writing", "yes"}
  /\ tip \in Tip
  /\ tip.state = "ok" => tip.hash # NoHash
  /\ pc \in [Writer -> {"idle", "append", "count", "open", "tip"}]
  /\ id \in [Writer -> 0..MaxReceipts]
  /\ prev \in [Writer -> Hash]
  /\ count \in [Writer -> Nat]
  /\ next \in 1..(MaxReceipts + 1)
  /\ faults \in 0..MaxFaults
  /\ reported \subseteq 1..MaxReceipts
  /\ shortened \in BOOLEAN

Complete == \A body \in reported : \E i \in 1..Len(file) : file[i].id = body

\* A ledger that verifies, and was never cut, holds every receipt whose write was
\* reported to the gate: no crash, race of writers or change of a body hides a
\* receipt from it.
VerifiedMeansComplete == VerifyOk /\ ~shortened => Complete

\* A chain that is broken stays broken, whatever writers append after the break or
\* die on: only a change of the file itself talks it back into verifying.
BrokenChainStaysBroken ==
  [][exists /\ ~ChainOk(file) /\ ~Cut /\ ~Alter => ~ChainOk(file')]_vars

\* A write that runs alone and undisturbed leaves a sidecar that agrees with the
\* file: a crash between line and sidecar, or an emptied sidecar, costs no more
\* than the verification until the next write.
SettledVerifies == settled = "yes" /\ ChainOk(file) => VerifyOk

\* gateway.py:682: each call appends one receipt "with hash-chain links".  A writer
\* that runs alone extends a chain by a link and leaves it a chain, whatever other
\* writers and crashes left before it, an unterminated line excepted.
SoloWriteExtendsChain ==
  [][settled = "writing" /\ settled' # "no" /\ ~torn /\ ChainOk(file) => ChainOk(file')]_vars

=============================================================================
