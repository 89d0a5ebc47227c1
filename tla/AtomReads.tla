----------------------------- MODULE AtomReads -----------------------------
(***************************************************************************)
(* get_atoms: a client reads the atoms it has the ids of, in as many pages *)
(* as the response ceiling makes of them, repeating its request with the   *)
(* cursor of the last answer.                                              *)
(*                                                                         *)
(* The server keeps nothing between two calls.  A cursor carries a digest  *)
(* of the request and one of the order in which the entries are processed, *)
(* with the timestamp of each that exists; digests stand for their values. *)
(* Ids that were unknown may be captured between two pages.                *)
(***************************************************************************)
EXTENDS EventLedger

CONSTANTS
  Asked,       \* the requests: [ids, prefer, view]
  Oversize,    \* ids of atoms that exceed the response ceiling alone
  MaxIndex,    \* GET_ATOMS_MAX_IDS, the largest index a cursor may carry
  None

VARIABLES
  ledger,     \* the events captured so far
  request,    \* the read in progress, or None
  cursor,     \* the cursor of the last answer: none or one
  received,   \* the ids of the atoms received so far
  missing,    \* how many entries the answers called missing
  refused,    \* the code of the refusal that ended the read, or None
  stuck,      \* an answer stopped at an atom that never fits
  order       \* history: the existing entries of the first page, in its order

AllIds == {r.id : r \in Rows}

AtomBounds ==
  /\ MaxIndex \in Nat
  /\ \A q \in Asked : q.ids \in Seq(AllIds) /\ Len(q.ids) <= MaxIndex
  /\ None \notin Asked \cup {"INVALID", "MISMATCH", "STALE"}

vars == <<ledger, request, cursor, received, missing, refused, stuck, order>>

----------------------------------------------------------------------------
(* Fetching and ordering.                                                  *)

Ats(rows, id) == {r.ts : r \in {x \in rows : x.id = id}}

BytesOf(rows, s) ==
  FoldFunction(LAMBDA i, n : n + FoldSet(LAMBDA r, m : m + r.bytes, 0, {x \in rows : x.id = i}),
               0, s)

\* A batch that is too large for one storage read is split in halves.
GetByIds(rows, ids) ==
  LET fetch[s \in Seq(AllIds)] ==
        IF Len(s) > 1 /\ BytesOf(rows, s) > QueryBytes
          THEN fetch[First(s, Len(s) \div 2)] \cup fetch[SubSeq(s, Len(s) \div 2 + 1, Len(s))]
          ELSE {r \in rows : r.id \in ToSet(s)}
  IN  fetch[ids]

Occurrence(s, i) == CHOOSE n \in DOMAIN s : s[n] = i /\ \A m \in 1..(n - 1) : s[m] # i

\* Newest first drops repeated entries and puts the missing ones last; equal
\* timestamps and missing ones keep the order of the request.
NewestFirstBefore(s, fetched, i, j) ==
  LET at(x) == IF Ats(fetched, x) = {} THEN 0 ELSE CHOOSE t \in Ats(fetched, x) : TRUE
  IN  at(i) > at(j) \/ (at(i) = at(j) /\ Occurrence(s, i) < Occurrence(s, j))

NewestFirst(s, fetched) ==
  Sorted(ToSet(s), LAMBDA i, j : NewestFirstBefore(s, fetched, i, j))

BuildProcessOrder(q, fetched) ==
  IF q.prefer = "as_requested" THEN q.ids ELSE NewestFirst(q.ids, fetched)

Exists(fetched, i) == Ats(fetched, i) # {}

Existing(s, fetched) == Among(s, {r.id : r \in fetched})

\* Mutant: the digest covers the order of the ids but not which of them exist.
DigestOfIds(s, fetched) == [n \in DOMAIN s |-> <<s[n], {}>>]

ProcessDigest(s, fetched) == [n \in DOMAIN s |-> <<s[n], Ats(fetched, s[n])>>]

----------------------------------------------------------------------------
(* One page: existing entries from `start` on, until one does not fit.     *)
(* Which of those that would fit alone still do depends on their sizes.    *)

Cursor(q, s, fetched, index) ==
  [request |-> q, process |-> ProcessDigest(s, fetched), index |-> index]

Page(ids, absent, next, stopped) ==
  [code |-> None, ids |-> ids, missing |-> absent, next |-> next, stuck |-> stopped]

Refusal(code) == [code |-> code, ids |-> <<>>, missing |-> 0, next |-> {}, stuck |-> FALSE]

\* Mutant: the cursor points behind the entry that did not fit.
ResumeBehind(q, s, fetched, i) == {Cursor(q, s, fetched, i + 1)}

\* Entries are counted from 0 in a cursor.
ResumeAt(q, s, fetched, i) == {Cursor(q, s, fetched, i)}

\* The page whose cap fires at entry i of s, which exists.  A page that has
\* nothing gives no cursor, which would come back to the same entry.
CappedAt(q, s, fetched, start, absent, i) ==
  LET ids == Existing(SubSeq(s, start + 1, i - 1), fetched)
  IN  Page(ids, absent, IF ids = <<>> THEN {} ELSE ResumeAt(q, s, fetched, i - 1), ids = <<>>)

Whole(s, fetched, start, absent) ==
  Page(Existing(SubSeq(s, start + 1, Len(s)), fetched), absent, {}, FALSE)

Entries(s, fetched, start) == {i \in (start + 1)..Len(s) : Exists(fetched, s[i])}

\* Where the cap may fire: at an atom that never fits, or at one that has
\* others before it on the page.
Caps(s, fetched, start) ==
  {i \in Entries(s, fetched, start) :
     /\ \A m \in Entries(s, fetched, start) : m < i => s[m] \notin Oversize
     /\ s[i] \in Oversize \/ \E m \in Entries(s, fetched, start) : m < i}

Fits(s, fetched, start) == \A m \in Entries(s, fetched, start) : s[m] \notin Oversize

Pages(q, s, fetched, start, absent) ==
  {CappedAt(q, s, fetched, start, absent, i) : i \in Caps(s, fetched, start)}
    \cup IF Fits(s, fetched, start) THEN {Whole(s, fetched, start, absent)} ELSE {}

\* Absent entries are counted on the first page and never again.
FirstPages(q, s, fetched) ==
  Pages(q, s, fetched, 0, Cardinality({i \in DOMAIN s : ~Exists(fetched, s[i])}))

Decodes(c) == c.index \in 1..MaxIndex

\* Mutant: the order of the entries is not compared.
ContinueUnchecked(q, s, fetched, c) ==
  IF ~Decodes(c) THEN {Refusal("INVALID")}
  ELSE IF c.request # q THEN {Refusal("MISMATCH")}
  ELSE IF c.index >= Len(s) THEN {Refusal("STALE")}
  ELSE Pages(q, s, fetched, c.index, 0)

Continue(q, s, fetched, c) ==
  IF ~Decodes(c) THEN {Refusal("INVALID")}
  ELSE IF c.request # q THEN {Refusal("MISMATCH")}
  ELSE IF c.process # ProcessDigest(s, fetched) \/ c.index >= Len(s) THEN {Refusal("STALE")}
  ELSE Pages(q, s, fetched, c.index, 0)

FirstAnswers(q, fetched) == FirstPages(q, BuildProcessOrder(q, fetched), fetched)

NextAnswers(q, fetched, c) == Continue(q, BuildProcessOrder(q, fetched), fetched, c)

----------------------------------------------------------------------------

Init ==
  /\ ledger = {} /\ request = None /\ cursor = {} /\ received = <<>> /\ missing = 0
  /\ refused = None /\ stuck = FALSE /\ order = <<>>

Capture ==
  /\ \E r \in Rows \ ledger : ledger' = AppendEvent(ledger, r)
  /\ UNCHANGED <<request, cursor, received, missing, refused, stuck, order>>

Receive(a) ==
  /\ received' = received \o a.ids /\ missing' = missing + a.missing
  /\ cursor' = a.next /\ refused' = a.code /\ stuck' = a.stuck

Ask ==
  /\ request = None
  /\ \E q \in Asked :
       /\ request' = q
       /\ order' = Existing(BuildProcessOrder(q, GetByIds(ledger, q.ids)), ledger)
       /\ \E a \in FirstAnswers(q, GetByIds(ledger, q.ids)) : Receive(a)
  /\ UNCHANGED ledger

\* The client repeats its request, or another one with the same cursor.
AskOn ==
  /\ request # None
  /\ \E c \in cursor, q \in {request, [request EXCEPT !.view = "other"]} :
       \E a \in NextAnswers(q, GetByIds(ledger, q.ids), c) : Receive(a)
  /\ UNCHANGED <<ledger, request, order>>

Next == Capture \/ Ask \/ AskOn

Spec == Init /\ [][Next]_vars

----------------------------------------------------------------------------

\* Pages follow one another without a gap or a repetition: what was received is
\* the beginning of the entries that existed on the first page, in their order,
\* and all of them when the read came to its end; an entry is called missing
\* once, and an atom that is too large ends the read instead of looping.  The
\* server takes its own cursors, and refuses to go on only if the request or
\* what exists of it has changed.
AtomsArriveOnce ==
  request # None =>
    /\ IsPrefix(received, order)
    /\ cursor = {} /\ refused = None =>
         IF stuck THEN order[Len(received) + 1] \in Oversize ELSE received = order
    /\ Len(order) + missing =
         IF request.prefer = "as_requested" THEN Len(request.ids)
                                            ELSE Cardinality(ToSet(request.ids))
    /\ refused # "INVALID"
    /\ refused = "STALE" => \E r \in ledger : r.id \in ToSet(request.ids) \ ToSet(order)
=============================================================================
