--------------------------- MODULE TranscriptLog ---------------------------
(***************************************************************************)
(* What durable capture promises of a transcript that is only appended to  *)
(* or replaced: every accepted turn of the file at the path is delivered,  *)
(* whole, in the order of the file and exactly once.                       *)
(***************************************************************************)
EXTENDS Transcript

VARIABLES
  lines,     \* the file at the path
  delivered  \* the turns of that file delivered so far

Due == { t \in Turns(lines, 0, Len(lines)) : Accepted(t) }

Init == lines \in Contents /\ delivered = {}

Extend ==
  /\ \E l \in Line : lines' = Append(lines, l)
  /\ UNCHANGED delivered

Replace == lines' \in Contents /\ delivered' = {}

(* The first turn that is due and not yet delivered.                       *)
Deliver ==
  /\ \E t \in Due \ delivered :
       /\ \A s \in Due : s.offset < t.offset => s \in delivered
       /\ delivered' = delivered \cup {t}
  /\ UNCHANGED lines

Next == Extend \/ Replace \/ Deliver

Spec ==
  Init /\ [][Next]_<<lines, delivered>> /\ WF_<<lines, delivered>>(Deliver)

=============================================================================
