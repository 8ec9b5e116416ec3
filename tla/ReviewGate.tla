----------------------------- MODULE ReviewGate -----------------------------
(***************************************************************************)
(* kits/review-gate/review_gate.py: a verdict file is parsed into records   *)
(* and the last record that concerns the head decides.  A file is a         *)
(* sequence of lines, and a line is what the parser tells apart: a           *)
(* "verdict:" line with the verdict of its first token, a "sha:" line with   *)
(* the sha it holds, or any other line with the first verdict token and the  *)
(* first sha in it.  Blank lines, comments and lines without a verdict are   *)
(* one kind of line, which is passed over.                                  *)
(***************************************************************************)
EXTENDS Naturals, Sequences

CONSTANTS
  Sha,        \* commit hashes
  MaxLines,   \* bound: lines of a file
  NoSha,      \* None: no sha on the line, or nothing after "sha:"
  BadSha      \* something after "sha:" that holds no sha

ASSUME ShaAssumption ==
  /\ NoSha \notin Sha /\ BadSha \notin Sha /\ NoSha # BadSha
  /\ MaxLines \in Nat

Verdict == {"PASS", "FAIL"}
NoVerdict == "none"

VerdictLine == [kind : {"verdict"}, verdict : Verdict \cup {NoVerdict}, sha : {NoSha}]
ShaLine == [kind : {"sha"}, verdict : {NoVerdict}, sha : Sha \cup {NoSha, BadSha}]
BareLine == [kind : {"bare"}, verdict : Verdict, sha : Sha \cup {NoSha}]
OtherLine == [kind : {"other"}, verdict : {NoVerdict}, sha : {NoSha}]
TextLine == VerdictLine \cup ShaLine \cup BareLine \cup OtherLine

\* A file that is one JSON object counts as one line of its own kind.
JsonLine == [kind : {"json"}, verdict : Verdict \cup {NoVerdict}, sha : Sha \cup {NoSha, BadSha}]
Line == TextLine \cup JsonLine

File == (UNION {[1..n -> TextLine] : n \in 0..MaxLines}) \cup {<<l>> : l \in JsonLine}

Record == [verdict : Verdict, sha : Sha \cup {NoSha}]

VARIABLES
  pc, head, lines, i,                  \* main and the loop of _parse_text
  records,                             \* records
  pendingVerdict, pendingSha, sawSha,  \* locals of _parse_text
  decision                             \* what is printed, or the exit code 2

pending == <<pendingVerdict, pendingSha, sawSha>>
vars == <<pc, head, lines, i, records, pending, decision>>

Init ==
  /\ pc = "parse"
  /\ head \in Sha
  /\ lines \in File
  /\ i = 1
  /\ records = <<>>
  /\ pendingVerdict = NoVerdict /\ pendingSha = NoSha /\ sawSha = FALSE
  /\ decision = "none"

-----------------------------------------------------------------------------
(* _parse_text *)

\* flush: a pending verdict becomes a record, a sha without a verdict is dropped.
Flushed ==
  IF pendingVerdict = NoVerdict THEN records
  ELSE Append(records, [verdict |-> pendingVerdict, sha |-> pendingSha])

\* flush raises: a "sha:" line came with the verdict, and nothing was on it.
FlushRaises == pendingVerdict # NoVerdict /\ sawSha /\ pendingSha = NoSha

Pend(v, s, saw) ==
  /\ pendingVerdict' = v
  /\ pendingSha' = s
  /\ sawSha' = saw

AtLine(kind) == pc = "parse" /\ i <= Len(lines) /\ lines[i].kind = kind
Forward == i' = i + 1 /\ UNCHANGED <<pc, head, lines, decision>>

Unusable ==
  /\ pc' = "done" /\ decision' = "unusable"
  /\ UNCHANGED <<head, lines, i, records, pending>>

\* A verdict that follows a sha line belongs to it; one that follows a verdict does not.
ReadVerdict ==
  /\ AtLine("verdict")
  /\ IF pendingVerdict = NoVerdict
       THEN Pend(lines[i].verdict, pendingSha, sawSha) /\ UNCHANGED records /\ Forward
     ELSE IF FlushRaises THEN Unusable
     ELSE Pend(lines[i].verdict, NoSha, FALSE) /\ records' = Flushed /\ Forward

\* A second sha line ends the record; after a verdict the first one completes it.
ReadSha ==
  /\ AtLine("sha")
  /\ IF lines[i].sha = BadSha THEN Unusable
     ELSE IF sawSha /\ pendingVerdict # NoVerdict
       THEN IF FlushRaises THEN Unusable
            ELSE Pend(NoVerdict, lines[i].sha, TRUE) /\ records' = Flushed /\ Forward
     ELSE Pend(pendingVerdict, lines[i].sha, TRUE) /\ UNCHANGED records /\ Forward

\* Mutant: the line leaves a pending sha where it is.
ReadBareKeepsSha ==
  /\ AtLine("bare")
  /\ IF FlushRaises THEN Unusable
     ELSE /\ records' = Append(Flushed, [verdict |-> lines[i].verdict, sha |-> lines[i].sha])
          /\ Pend(NoVerdict, pendingSha, sawSha)
          /\ Forward

ReadBare ==
  /\ AtLine("bare")
  /\ IF FlushRaises THEN Unusable
     ELSE /\ records' = Append(Flushed, [verdict |-> lines[i].verdict, sha |-> lines[i].sha])
          /\ Pend(NoVerdict, NoSha, FALSE)
          /\ Forward

PassOver == AtLine("other") /\ UNCHANGED <<records, pending>> /\ Forward

\* parse_verdict of a JSON object: its sha is looked at before its verdict.
ReadJson ==
  /\ AtLine("json")
  /\ IF lines[i].sha = BadSha THEN Unusable
     ELSE /\ records' = IF lines[i].verdict = NoVerdict THEN <<>>
                       ELSE <<[verdict |-> lines[i].verdict, sha |-> lines[i].sha]>>
          /\ UNCHANGED pending /\ Forward

EndOfText ==
  /\ pc = "parse" /\ i > Len(lines)
  /\ IF FlushRaises THEN Unusable
     ELSE /\ records' = Flushed
          /\ Pend(NoVerdict, NoSha, FALSE)
          /\ pc' = "evaluate"
          /\ UNCHANGED <<head, lines, i, decision>>

-----------------------------------------------------------------------------
(* evaluate *)

\* Mutant: a FAIL without a sha is not looked at.
ConcernsNamed(r) == r.sha = head

Concerns(r) == r.sha = head \/ (r.verdict = "FAIL" /\ r.sha = NoSha)

\* The verdict that the loop of evaluate ends with.
LastForHead ==
  LET about == {k \in 1..Len(records) : Concerns(records[k])}
  IN IF about = {} THEN NoVerdict
     ELSE records[CHOOSE k \in about : \A j \in about : j <= k].verdict

SomePass(shas) == \E k \in 1..Len(records) : records[k].verdict = "PASS" /\ records[k].sha \in shas

Evaluate ==
  /\ pc = "evaluate"
  /\ decision' =
       IF LastForHead = "PASS" THEN "pass"
       ELSE IF LastForHead = "FAIL" THEN "no-pass"
       ELSE IF SomePass(Sha \ {head}) THEN "stale"
       ELSE IF SomePass({NoSha}) THEN "missing-sha"
       ELSE "no-pass"
  /\ pc' = "done"
  /\ UNCHANGED <<head, lines, i, records, pending>>

Next ==
  \/ ReadVerdict \/ ReadSha \/ ReadBare \/ PassOver \/ ReadJson \/ EndOfText
  \/ Evaluate

Spec == Init /\ [][Next]_vars

-----------------------------------------------------------------------------
(* Properties. *)

Speaks(k) == lines[k].verdict # NoVerdict

\* Line k says v of the sha s: on the line itself, or on a "sha:" line with no other
\* verdict between the two.
Says(k, v, s) ==
  /\ lines[k].verdict = v
  /\ \/ lines[k].kind \in {"bare", "json"} /\ lines[k].sha = s
     \/ /\ lines[k].kind = "verdict"
        /\ \E j \in 1..Len(lines) :
             /\ lines[j].kind = "sha" /\ lines[j].sha = s
             /\ \A m \in 1..Len(lines) :
                  ((j < m /\ m < k) \/ (k < m /\ m < j)) => ~Speaks(m)

\* A merge is allowed only on a PASS that the file says of this head: a sha that is
\* merely mentioned, or that belongs to another verdict, is never paired with it.
AllowIsSaid == decision = "pass" => \E k \in 1..Len(lines) : Says(k, "PASS", head)

\* The last verdict of the file, when it is a FAIL that names no sha, or no other than
\* the head, refuses the merge, whatever stands before it.
LastFailRefuses ==
  \A k \in 1..Len(lines) :
    /\ lines[k].verdict = "FAIL" /\ lines[k].sha \in {head, NoSha}
    /\ \A m \in 1..Len(lines) : m > k => ~Speaks(m)
    /\ lines[k].kind = "verdict" =>
         \A j \in 1..Len(lines) :
           lines[j].kind = "sha" /\ (\A m \in j..k : m < k => ~Speaks(m)) => lines[j].sha = head
    => decision # "pass"

=============================================================================
