----------------------------- MODULE Transcript -----------------------------
(***************************************************************************)
(* What a JSONL transcript is to the capture pipeline: a sequence of       *)
(* records, and the turns that extractClaudeCodeTurns (claude-code.ts)     *)
(* reads out of a range of it.  Only the records that decide where a turn  *)
(* starts and ends are told apart.                                         *)
(***************************************************************************)
EXTENDS Integers, Sequences, FiniteSets

CONSTANTS
  UserLines,   \* text-bearing user records, each opens a turn
  ReplyLines,  \* text-bearing assistant records that do not end the turn
  FinalLines,  \* assistant records with stop_reason end_turn
  Refused,     \* lines whose turn the capture gate rejects
  Contents     \* what a file holds when it appears at the path

Line == UserLines \cup ReplyLines \cup FinalLines

ASSUME LineKindsDisjoint ==
  /\ UserLines \cap ReplyLines = {}
  /\ UserLines \cap FinalLines = {}
  /\ ReplyLines \cap FinalLines = {}

ASSUME ContentsAreLines == Contents \subseteq Seq(Line)

(* Lines a+1 .. b.                                                         *)
Slice(lines, a, b) == SubSeq(lines, a + 1, b)

(* Line q opened the cluster that is open just after line e was read.      *)
Opens(lines, q, e) ==
  /\ lines[q] \in UserLines
  /\ \A m \in (q + 1) .. e : lines[m] \notin UserLines
  /\ \A m \in (q + 1) .. (e - 1) : lines[m] \notin FinalLines

(* A turn opened by line q is closed with its last reply at line e, either *)
(* because the reply ends the turn or because the next user line follows.  *)
Closes(lines, q, e, through) ==
  /\ Opens(lines, q, e)
  /\ \/ lines[e] \in FinalLines
     \/ lines[e] \in ReplyLines /\ e < through /\ lines[e + 1] \in UserLines

Turns(lines, from, through) ==
  { [from |-> qe[1] - 1, offset |-> qe[2],
     lines |-> Slice(lines, qe[1] - 1, qe[2])] :
      qe \in { p \in ((from + 1) .. through) \X ((from + 1) .. through) :
                 p[1] < p[2] /\ Closes(lines, p[1], p[2], through) } }

(* User lines whose cluster is still open at the end of the page.          *)
OpenAt(lines, from, through) ==
  { q \in (from + 1) .. through :
      /\ lines[q] \in UserLines
      /\ \A m \in (q + 1) .. through : lines[m] \notin UserLines \cup FinalLines }

(* Mutant: the whole page is consumed, the open cluster with it.           *)
NewOffsetPastOpen(lines, from, through) == through

NewOffset(lines, from, through) ==
  IF OpenAt(lines, from, through) = {} THEN through
  ELSE (CHOOSE q \in OpenAt(lines, from, through) : TRUE) - 1

(* processCandidateWithPolicy lets the turn through.                       *)
Accepted(t) == \A i \in 1 .. Len(t.lines) : t.lines[i] \notin Refused

=============================================================================
