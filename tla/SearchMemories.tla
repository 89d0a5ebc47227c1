--------------------------- MODULE SearchMemories ---------------------------
(***************************************************************************)
(* search_memories: a client pages through the ledger, newest first, by    *)
(* handing each answer's next_cursor back, while capture keeps appending.  *)
(*                                                                         *)
(* The server keeps nothing between two calls.  Within one call the ledger *)
(* does not change: the storage adapter is synchronous and its promises    *)
(* settle in one drain of the microtask queue, so a call is one step here  *)
(* and events are appended between calls.                                  *)
(***************************************************************************)
EXTENDS EventLedger

CONSTANTS
  Requests,       \* the searches: [scans, keeps, post, since, until, filtered, hits]
  Limit,          \* the caller's limit, at least 1
  ScanPageRows,   \* SEARCH_SCAN_PAGE_ROWS
  ScanPages,      \* SEARCH_SCAN_MAX_PAGES
  ScanRows,       \* SEARCH_SCAN_MAX_ROWS
  ScanBytes,      \* SEARCH_SCAN_MAX_BYTES
  None

\* A storage query never asks for more rows than its scan budget, and filters what
\* its indexes leave.
SearchBounds ==
  /\ Limit \in Nat \ {0}
  /\ Limit + 1 <= PageRows * MaxPages /\ ScanPageRows \in 1..(PageRows * MaxPages)
  /\ ScanPages \in Nat \ {0} /\ ScanRows \in Nat \ {0} /\ ScanBytes \in Nat \ {0}
  /\ \A q \in Requests : q.post \/ q.scans \subseteq q.keeps
  /\ None \notin Requests

VARIABLES
  ledger,    \* the events captured so far
  search,    \* the search in progress, or None
  cursor,    \* the cursor the next call passes: none or one
  more,      \* the last answer had a next_cursor
  found,     \* the matches received, in the order they came
  present    \* history: the ledger when the search began

vars == <<ledger, search, cursor, more, found, present>>

----------------------------------------------------------------------------
(* One page of storage, newest first.                                      *)

PageQuery(before, n) ==
  [scans |-> search.scans, keeps |-> search.keeps, post |-> search.post,
   since |-> search.since, until |-> search.until,
   order |-> "desc", cursor |-> before, limit |-> n]

Hits(s) == Among(s, {r \in ToSet(s) : r.class \in search.hits})

\* emitCursor: one match too many means there is a next page, after the last
\* match that is kept.
EmitCursor(matches) ==
  IF Len(matches) > Limit
    THEN [kept |-> First(matches, Limit), next |-> {CursorOf(matches[Limit])}]
    ELSE [kept |-> matches, next |-> {}]

----------------------------------------------------------------------------
(* A search by time only overfetches one row.                              *)

RecentCut(page, cut) ==
  LET rows == page.answer.rows
  IN  IF cut.next # {} THEN cut
      ELSE IF page.answer.kind = "scan_budget_exceeded"
        THEN [cut EXCEPT !.next = page.answer.cursor]
      ELSE IF page.limit <= Limit /\ Len(rows) = page.limit /\ rows # <<>>
        THEN [cut EXCEPT !.next = {CursorOf(Last(rows))}]
        ELSE cut

RecentOf(page) == RecentCut(page, EmitCursor(page.answer.rows))

RecentPage == RecentOf(AdaptivePage(ledger, PageQuery(cursor, Limit + 1)))

----------------------------------------------------------------------------
(* A search with a predicate scans pages until it has one match too many,  *)
(* the history ends, or a budget of rows, bytes or pages is used up.       *)

ScanStart ==
  [matches |-> <<>>, before |-> cursor, last |-> {}, rows |-> 0, bytes |-> 0,
   pageRows |-> ScanPageRows, kept |-> <<>>, next |-> {}, done |-> FALSE]

Finish(s, kept, next) == [s EXCEPT !.kept = kept, !.next = next, !.done = TRUE]

FinishCut(s, cut) == Finish(s, cut.kept, cut.next)

\* How many rows of a page the scan inspects: it stops before a row that is
\* past the byte budget (but never before its first), and after the row that
\* gave one match too many or used a budget up.
Consumed(s, rows) ==
  LET bytes(i) == s.bytes + StoredBytes(First(rows, i))
      hits(i)  == Len(s.matches) + Len(Hits(First(rows, i)))
      admits(i) == /\ s.rows + i - 1 > 0 => bytes(i) <= ScanBytes
                   /\ i > 1 => /\ hits(i - 1) <= Limit
                               /\ s.rows + i - 1 < ScanRows
                               /\ bytes(i - 1) < ScanBytes
  IN  CHOOSE k \in 0..Len(rows) : /\ \A i \in 1..k : admits(i)
                                  /\ k < Len(rows) => ~admits(k + 1)

Inspect(s, read, limit) ==
  [s EXCEPT !.matches = @ \o Hits(read),
            !.rows    = @ + Len(read),
            !.bytes   = @ + StoredBytes(read),
            !.last    = IF read = <<>> THEN @ ELSE {CursorOf(Last(read))},
            !.pageRows = limit]

BudgetLeft(s) == s.rows < ScanRows /\ s.bytes < ScanBytes

\* Mutant: after a sparse page resume where storage stopped, though the scan
\* stopped earlier.
AfterPageAtResume(t, page, read) ==
  LET rows == page.answer.rows
  IN  IF Len(t.matches) > Limit
        THEN FinishCut(t, EmitCursor(t.matches))
      ELSE IF page.answer.kind = "scan_budget_exceeded"
        THEN Finish(t, t.matches, page.answer.cursor)
      ELSE IF read < Len(rows)
        THEN Finish(t, t.matches, t.last)
      ELSE IF Len(rows) < page.limit
        THEN Finish(t, t.matches, {})
      ELSE IF ~BudgetLeft(t)
        THEN Finish(t, t.matches, t.last)
        ELSE [t EXCEPT !.before = t.last]

\* What one page does to a scan: `page` was read at s.before, and t is the scan
\* after it inspected the first `read` rows of it.
AfterPage(t, page, read) ==
  LET rows == page.answer.rows
  IN  IF Len(t.matches) > Limit
        THEN FinishCut(t, EmitCursor(t.matches))
      ELSE IF read < Len(rows)
        THEN Finish(t, t.matches, t.last)
      ELSE IF page.answer.kind = "scan_budget_exceeded"
        THEN Finish(t, t.matches, page.answer.cursor)
      ELSE IF Len(rows) < page.limit
        THEN Finish(t, t.matches, {})
      ELSE IF ~BudgetLeft(t)
        THEN Finish(t, t.matches, t.last)
        ELSE [t EXCEPT !.before = t.last]

InspectPage(s, page, read) ==
  AfterPage(Inspect(s, First(page.answer.rows, read), page.limit), page, read)

ConsumePage(s, page) == InspectPage(s, page, Consumed(s, page.answer.rows))

ScanPage(s) == ConsumePage(s, AdaptivePage(ledger, PageQuery(s.before, s.pageRows)))

ScanEnd(s) == IF s.done THEN [kept |-> s.kept, next |-> s.next]
                        ELSE [kept |-> s.matches, next |-> s.last]

FilteredPage ==
  LET scan[n \in Nat] ==
        IF n = 0 THEN ScanStart
        ELSE IF scan[n - 1].done THEN scan[n - 1] ELSE ScanPage(scan[n - 1])
  IN  ScanEnd(scan[ScanPages])

----------------------------------------------------------------------------
(* The response has a byte ceiling: matches are dropped from its end, and  *)
(* then the cursor resumes after the last one left, of which at least a    *)
(* stub always remains.  How many fit depends on their rendered size.      *)

\* Mutant: resume after the newest match instead of the last one returned.
ResponsesFromTop(answer) ==
  {answer} \cup
  {[kept |-> First(answer.kept, n), next |-> {CursorOf(answer.kept[1])}] :
     n \in 1..Len(answer.kept)}

Responses(answer) ==
  {answer} \cup
  {[kept |-> First(answer.kept, n), next |-> {CursorOf(answer.kept[n])}] :
     n \in 1..Len(answer.kept)}

Answers == Responses(IF search.filtered THEN FilteredPage ELSE RecentPage)

----------------------------------------------------------------------------

Init ==
  /\ ledger = {} /\ search = None /\ cursor = {} /\ more = FALSE
  /\ found = <<>> /\ present = {}

Capture ==
  /\ \E r \in Rows \ ledger : ledger' = AppendEvent(ledger, r)
  /\ UNCHANGED <<search, cursor, more, found, present>>

Begin ==
  /\ search = None
  /\ \E q \in Requests : search' = q
  /\ more' = TRUE /\ present' = ledger
  /\ UNCHANGED <<ledger, cursor, found>>

Call ==
  /\ more
  /\ \E a \in Answers :
       /\ found' = found \o a.kept
       /\ cursor' = a.next
       /\ more' = (a.next # {})
  /\ UNCHANGED <<ledger, search, present>>

Next == Capture \/ Begin \/ Call

Spec == Init /\ [][Next]_vars

----------------------------------------------------------------------------

Wanted(r) ==
  /\ r.class \in search.scans /\ r.class \in search.keeps
  /\ search.filtered => r.class \in search.hits
  /\ search.since <= r.ts /\ r.ts < search.until

\* Whatever a search has passed is settled: every matching event that was in
\* the ledger when it began and lies before its cursor has been received, and
\* all of them once there is no next_cursor, whatever budget cut the pages in
\* between and whatever was captured meanwhile.
NothingMissed ==
  cursor # {} \/ (search # None /\ ~more) =>
    \A r \in present :
      Wanted(r) /\ (\A c \in cursor : ~Older(r, c)) => r \in ToSet(found)

\* Matches arrive newest first across pages, none twice.
NewestFirst ==
  \A i, j \in DOMAIN found : i < j => Older(found[j], found[i])

\* Every call takes the search further back: no row is so large, and no gap so
\* sparse, that a next_cursor is not older than the cursor it was asked with.
\* The ledger behind a cursor is finite, so a search comes to its end.
CursorAdvances ==
  more => \A a \in Answers : \A c \in cursor, d \in a.next : Older(d, c)
=============================================================================
