--------------------------- MODULE ReceiptReader ---------------------------
(***************************************************************************)
(* load_receipts_verified of phoenix_gate/gateway.py beside the writers of  *)
(* ReceiptLedger: it has verify_receipt_chain read the file and then the     *)
(* sidecar, and when both agree it opens the file once more and hands out    *)
(* what it finds then.  Nothing is locked, so writers, crashes and changes   *)
(* of the file come between the three reads.                                *)
(***************************************************************************)
EXTENDS ReceiptLedger

VARIABLES
  rpc,        \* where the reader stands
  checked,    \* locals: the lines that were found chained
  loaded,     \* the receipts handed out
  rewritten   \* history: the file was cut or altered since it was read for the check

reader == <<rpc, checked, loaded, rewritten>>
rvars == <<vars, reader>>

RInit ==
  /\ Init
  /\ rpc = "idle" /\ checked = <<>> /\ loaded = <<>> /\ rewritten = FALSE

-----------------------------------------------------------------------------
\* The caller of load_receipts_verified has receipts, or an exception.
Hand(lines) ==
  /\ rpc' = "idle"
  /\ checked' = <<>>
  /\ loaded' = lines
  /\ rewritten' = FALSE

\* The walk over the lines: the first that is not chained ends it.
ReadChain ==
  /\ rpc = "idle"
  /\ exists /\ ChainOk(file)
  /\ rpc' = "tip"
  /\ checked' = file
  /\ loaded' = <<>>
  /\ rewritten' = FALSE
  /\ UNCHANGED vars

RefuseChain ==
  /\ rpc = "idle"
  /\ ~(exists /\ ChainOk(file))
  /\ Hand(<<>>)
  /\ UNCHANGED vars

LastHash(lines) == IF lines = <<>> THEN NoHash ELSE lines[Len(lines)].hash

ReadTip ==
  /\ rpc = "tip"
  /\ TipAgrees(tip, LastHash(checked), Len(checked))
  /\ rpc' = "load"
  /\ UNCHANGED <<vars, checked, loaded, rewritten>>

RefuseTip ==
  /\ rpc = "tip"
  /\ ~TipAgrees(tip, LastHash(checked), Len(checked))
  /\ Hand(<<>>)
  /\ UNCHANGED vars

\* Mutant: lines that cannot be read are skipped.
LoadSkipping ==
  /\ rpc = "load"
  /\ Hand(SelectSeq(file, LAMBDA line : line # Garbage))
  /\ UNCHANGED vars

\* The second read: a line that json.loads refuses raises.
Load ==
  /\ rpc = "load"
  /\ Hand(IF \E i \in 1..Len(file) : file[i] = Garbage THEN <<>> ELSE file)
  /\ UNCHANGED vars

Reader == ReadChain \/ RefuseChain \/ ReadTip \/ RefuseTip \/ Load

\* The reader keeps what it has read; loaded is only looked at when it is handed out.
Beside ==
  /\ rewritten' = (rewritten \/ (rpc # "idle" /\ (Cut \/ Alter)))
  /\ UNCHANGED <<rpc, checked, loaded>>

RNext ==
  \/ Next /\ Beside
  \/ Reader

RSpec == RInit /\ [][RNext]_rvars

-----------------------------------------------------------------------------
(* Properties. *)

\* The domains of the reader's variables.
ReaderTypeOK ==
  /\ rpc \in {"idle", "tip", "load"}
  /\ checked \in Seq(Line) /\ loaded \in Seq(Line)
  /\ rewritten \in BOOLEAN
  /\ rpc = "idle" => checked = <<>>

\* The second read loses nothing of what the first one checked, whatever writers do
\* in between, unless the file itself was cut or altered since.
HandedKeepsChecked ==
  [][rpc = "load" /\ rpc' = "idle" /\ ~rewritten /\ loaded' # <<>> =>
       /\ Len(checked) <= Len(loaded')
       /\ SubSeq(loaded', 1, Len(checked)) = checked]_rvars

\* Of a ledger that was never cut the reader hands out every receipt whose write was
\* reported, or raises: a receipt swallowed by an unterminated line, or one that was
\* altered, cannot silently be missing.
HandedIsWhole ==
  [][rpc = "load" /\ rpc' = "idle" /\ ~rewritten /\ ~shortened /\ loaded' # <<>> =>
       \A body \in reported : \E i \in 1..Len(loaded') : loaded'[i].id = body]_rvars

=============================================================================
