-------------------------- MODULE AllowlistRunner --------------------------
(***************************************************************************)
(* kits/hash-allowlist-runner/runner.py: a process that checks a git tree,   *)
(* reads a script, and runs the bytes it read when their hash is listed.     *)
(* Each system call or git process is an action; several runners and an       *)
(* editor of the tree, of HEAD and of the allowlist interleave between them.  *)
(*                                                                         *)
(* A Content stands for the bytes of the script and for their sha256.  The    *)
(* layout of the repository, its configuration and every file other than the  *)
(* script are one boolean each: what a check finds there, not how.  A refusal *)
(* is one verdict whatever its reason, and --script always lies in --root.    *)
(***************************************************************************)
EXTENDS Naturals

CONSTANTS
  Run,        \* runner processes
  Receipt,    \* paths given as --receipt
  Content,    \* what the script file may hold
  MaxEdits,   \* bound: changes of the environment
  Missing, Link,   \* no such file; a symlink in its place
  NoBytes, Empty,  \* nothing read or run; a receipt without its text
  Unwritten        \* the hash in a receipt whose writing has not come to it

Entry == Content \cup {Missing, Link}
Result == [decision : {"allow", "refuse"}, bytes : Content \cup {NoBytes}]
Text == [decision : {"allow", "refuse"}, bytes : Content \cup {NoBytes, Unwritten}]

ASSUME RunnerAssumption ==
  /\ MaxEdits \in Nat
  /\ Missing \notin Content /\ Link \notin Content /\ NoBytes \notin Content
  /\ Missing # Link
  /\ Unwritten \notin Content \cup {NoBytes}
  /\ Empty \notin Text
  /\ "nobody" \notin Run

VARIABLES
  \* the environment
  file,       \* the script in the work tree
  blob,       \* HEAD:<path of the script>
  stray,      \* another file differs from HEAD, is ignored or untracked
  flagged,    \* the script is skip-worktree or assume-unchanged
  plain,      \* a plain repository
  safe,       \* no filter, hook or fsmonitor in its configuration
  listed,     \* the allowlist file
  edits,      \* changes so far
  receipts,   \* the receipt files: their text, and which run created them
  \* locals of main and decide, per run
  pc, receipt, allowlist, first, result,
  \* history
  ran,        \* the bytes a run handed to the interpreter
  onDisk,     \* what the script file held since the run began
  inHead      \* what HEAD held since the run began

tree == <<file, blob, stray, flagged, plain, safe, listed, edits>>
frame == <<pc, receipt, allowlist, first, result>>
past == <<onDisk, inHead>>
vars == <<tree, receipts, frame, ran, past>>

NoReceipt == [by |-> "nobody", text |-> Empty]
Refusal(b) == [decision |-> "refuse", bytes |-> b]

Init ==
  /\ file \in Content /\ blob = file
  /\ stray = FALSE /\ flagged = FALSE /\ plain = TRUE /\ safe = TRUE
  /\ listed = {file}
  /\ edits = 0
  /\ receipts = [p \in Receipt |-> NoReceipt]
  /\ pc = [r \in Run |-> "idle"]
  /\ receipt \in [Run -> Receipt]
  /\ allowlist = [r \in Run |-> {}]
  /\ first = [r \in Run |-> NoBytes]
  /\ result = [r \in Run |-> Refusal(NoBytes)]
  /\ ran = [r \in Run |-> NoBytes]
  /\ onDisk = [r \in Run |-> {}]
  /\ inHead = [r \in Run |-> {}]

-----------------------------------------------------------------------------
(* main and decide *)

Goto(r, at) == pc' = [pc EXCEPT ![r] = at]

\* The script is looked for and the allowlist is read, once.
Start(r) ==
  /\ pc[r] = "idle"
  /\ file # Missing
  /\ allowlist' = [allowlist EXCEPT ![r] = listed]
  /\ Goto(r, "open")
  /\ onDisk' = [onDisk EXCEPT ![r] = {file}]
  /\ inHead' = [inHead EXCEPT ![r] = {blob}]
  /\ UNCHANGED <<tree, receipts, receipt, first, result, ran>>

\* Mutant: a receipt that a dead run left empty may be taken over.
OpenIfEmpty(r) ==
  /\ pc[r] = "open"
  /\ IF receipts[receipt[r]].text = Empty
       THEN /\ receipts' = [receipts EXCEPT ![receipt[r]] = [by |-> r, text |-> Empty]]
            /\ Goto(r, "layout")
       ELSE /\ Goto(r, "done")
            /\ UNCHANGED receipts
  /\ UNCHANGED <<tree, receipt, allowlist, first, result, ran, past>>

\* O_CREAT with O_EXCL: a path that exists, whoever made it, ends the run.
OpenReceipt(r) ==
  /\ pc[r] = "open"
  /\ IF receipts[receipt[r]] = NoReceipt
       THEN /\ receipts' = [receipts EXCEPT ![receipt[r]] = [by |-> r, text |-> Empty]]
            /\ Goto(r, "layout")
       ELSE /\ Goto(r, "done")
            /\ UNCHANGED receipts
  /\ UNCHANGED <<tree, receipt, allowlist, first, result, ran, past>>

Refuse(r, b) ==
  /\ result' = [result EXCEPT ![r] = Refusal(b)]
  /\ Goto(r, "write")

\* The run moves on from one check to the next, or refuses.
Check(r, at, ok, onward) ==
  /\ pc[r] = at
  /\ IF ok THEN Goto(r, onward) /\ UNCHANGED result ELSE Refuse(r, NoBytes)
  /\ UNCHANGED <<tree, receipts, receipt, allowlist, first, ran, past>>

\* tree_state: the layout, the configuration, git status, git ls-files -v.
CheckLayout(r) == Check(r, "layout", plain, "config")
CheckConfig(r) == Check(r, "config", safe, "status")
CheckStatus(r) ==
  Check(r, "status", plain /\ ~stray /\ (flagged \/ file = blob), "flags")
CheckFlags(r) == Check(r, "flags", plain /\ ~flagged, "first")

\* Mutant: the last path component may be a symlink.
ReadFirstFollowing(r) ==
  /\ pc[r] = "first"
  /\ file # Missing
  /\ first' = [first EXCEPT ![r] = file]
  /\ Goto(r, "second")
  /\ UNCHANGED <<tree, receipts, receipt, allowlist, result, ran, past>>

\* A missing file is a RunnerError, see Abort.
ReadFirst(r) ==
  /\ pc[r] = "first"
  /\ file # Missing
  /\ IF file = Link
       THEN Refuse(r, NoBytes) /\ UNCHANGED first
       ELSE /\ first' = [first EXCEPT ![r] = file]
            /\ Goto(r, "second")
            /\ UNCHANGED result
  /\ UNCHANGED <<tree, receipts, receipt, allowlist, ran, past>>

ReadSecond(r) == Check(r, "second", file = first[r], "head")

\* Mutant: the bytes are not compared with HEAD's.
CompareListOnly(r) ==
  /\ pc[r] = "head"
  /\ IF first[r] \in allowlist[r]
       THEN Goto(r, "run") /\ UNCHANGED result
       ELSE Refuse(r, first[r])
  /\ UNCHANGED <<tree, receipts, receipt, allowlist, first, ran, past>>

\* git cat-file, then the hash of the bytes against the list as it was read.
CompareHead(r) ==
  /\ pc[r] = "head"
  /\ IF ~plain \/ blob # first[r] THEN Refuse(r, NoBytes)
     ELSE IF first[r] \in allowlist[r] THEN Goto(r, "run") /\ UNCHANGED result
     ELSE Refuse(r, first[r])
  /\ UNCHANGED <<tree, receipts, receipt, allowlist, first, ran, past>>

\* The script starts: the buffer, not the path, is what the interpreter gets.
Execute(r) ==
  /\ pc[r] = "run"
  /\ ran' = [ran EXCEPT ![r] = first[r]]
  /\ Goto(r, "script")
  /\ UNCHANGED <<tree, receipts, receipt, allowlist, first, result, past>>

\* Mutant: the receipt carries the hash of the path, read once more.
CompletedHashPath(r) ==
  /\ pc[r] = "script"
  /\ result' = [result EXCEPT ![r] =
       [decision |-> "allow", bytes |-> IF file \in Content THEN file ELSE NoBytes]]
  /\ Goto(r, "write")
  /\ UNCHANGED <<tree, receipts, receipt, allowlist, first, ran, past>>

\* The script has ended, with whatever exit code; its hash is that of the buffer.
Completed(r) ==
  /\ pc[r] = "script"
  /\ result' = [result EXCEPT ![r] = [decision |-> "allow", bytes |-> first[r]]]
  /\ Goto(r, "write")
  /\ UNCHANGED <<tree, receipts, receipt, allowlist, first, ran, past>>

\* os.write takes part of the text: the decision comes before the hash.
WritePart(r) ==
  /\ pc[r] = "write"
  /\ receipts' = [receipts EXCEPT ![receipt[r]].text =
       [decision |-> result[r].decision, bytes |-> Unwritten]]
  /\ UNCHANGED <<tree, frame, ran, past>>

\* os.write takes all that is left.
WriteReceipt(r) ==
  /\ pc[r] = "write"
  /\ receipts' = [receipts EXCEPT ![receipt[r]].text = result[r]]
  /\ Goto(r, "done")
  /\ UNCHANGED <<tree, receipt, allowlist, first, result, ran, past>>

\* The run ends where it stands, its receipt with the text it has so far: RunnerError
\* (no git, a script that cannot be read), a write that fails, a kill, also while the
\* script is under way.
Abort(r) ==
  /\ pc[r] \notin {"idle", "done"}
  /\ Goto(r, "done")
  /\ UNCHANGED <<tree, receipts, receipt, allowlist, first, result, ran, past>>

Step(r) ==
  \/ Start(r) \/ OpenReceipt(r)
  \/ CheckLayout(r) \/ CheckConfig(r) \/ CheckStatus(r) \/ CheckFlags(r)
  \/ ReadFirst(r) \/ ReadSecond(r) \/ CompareHead(r)
  \/ Execute(r) \/ Completed(r) \/ WritePart(r) \/ WriteReceipt(r)
  \/ Abort(r)

-----------------------------------------------------------------------------
(* The environment. *)

Active(r) == pc[r] \notin {"idle", "done"}

Change ==
  /\ edits < MaxEdits
  /\ edits' = edits + 1
  /\ UNCHANGED <<receipts, frame, ran>>

Edit(e) ==
  /\ Change
  /\ e # file
  /\ file' = e
  /\ onDisk' = [r \in Run |-> onDisk[r] \cup IF Active(r) THEN {e} ELSE {}]
  /\ UNCHANGED <<blob, stray, flagged, plain, safe, listed, inHead>>

\* HEAD takes what the work tree holds.
Commit ==
  /\ Change
  /\ blob' = file
  /\ inHead' = [r \in Run |-> inHead[r] \cup IF Active(r) THEN {file} ELSE {}]
  /\ UNCHANGED <<file, stray, flagged, plain, safe, listed, onDisk>>

Litter ==
  /\ Change
  /\ stray' = ~stray
  /\ UNCHANGED <<file, blob, flagged, plain, safe, listed, past>>

Flag ==
  /\ Change
  /\ flagged' = ~flagged
  /\ UNCHANGED <<file, blob, stray, plain, safe, listed, past>>

Configure ==
  /\ Change
  /\ \/ plain' = ~plain /\ UNCHANGED safe
     \/ safe' = ~safe /\ UNCHANGED plain
  /\ UNCHANGED <<file, blob, stray, flagged, listed, past>>

List(s) ==
  /\ Change
  /\ listed' = s
  /\ UNCHANGED <<file, blob, stray, flagged, plain, safe, past>>

Next ==
  \/ \E r \in Run : Step(r)
  \/ \E e \in Entry : Edit(e)
  \/ Commit \/ Litter \/ Flag \/ Configure
  \/ \E s \in SUBSET Content : List(s)

Spec == Init /\ [][Next]_vars

-----------------------------------------------------------------------------
(* Properties. *)

\* The domains of the tree, the receipts, the locals and the history.
TypeOK ==
  /\ file \in Entry /\ blob \in Entry
  /\ <<stray, flagged, plain, safe>> \in BOOLEAN \X BOOLEAN \X BOOLEAN \X BOOLEAN
  /\ listed \in SUBSET Content /\ edits \in Nat
  /\ receipts \in [Receipt -> [by : Run \cup {"nobody"}, text : Text \cup {Empty}]]
  /\ pc \in [Run -> {"idle", "open", "layout", "config", "status", "flags", "first",
                     "second", "head", "run", "script", "write", "done"}]
  /\ receipt \in [Run -> Receipt]
  /\ allowlist \in [Run -> SUBSET Content]
  /\ first \in [Run -> Content \cup {NoBytes}]
  /\ result \in [Run -> Result]
  /\ ran \in [Run -> Content \cup {NoBytes}]
  /\ onDisk \in [Run -> SUBSET Entry] /\ inHead \in [Run -> SUBSET Entry]

\* What ran was on the list the run read, and had been, while the run looked, the
\* script on disk and the blob at HEAD, whatever was edited between the checks.
RanWasReviewed ==
  \A r \in Run :
    ran[r] # NoBytes => ran[r] \in allowlist[r] \cap onDisk[r] \cap inHead[r]

\* A script never runs under a receipt that another run made or takes over: a
\* retry with the path of a run that died does not run the script again.
RunOwnsItsReceipt ==
  \A r \in Run : ran[r] # NoBytes => receipts[receipt[r]].by = r

\* What a text says is so of a run that handed b to the interpreter.
Tells(text, b) ==
  IF text.decision = "allow"
    THEN b # NoBytes /\ text.bytes \in {b, Unwritten}
    ELSE b = NoBytes

\* The text of a receipt tells what its run did, as far as it goes: allow, with the hash
\* of the very bytes that ran, or a refusal of a run that started nothing.  This holds
\* too of the part of a text that a failing write or a death leaves.
ReceiptIsTrue ==
  \A p \in Receipt, r \in Run :
    receipts[p].by = r /\ receipts[p].text # Empty => Tells(receipts[p].text, ran[r])

=============================================================================
