---------------------------- MODULE EventLedger ----------------------------
(***************************************************************************)
(* How captured events are read back out of the ledger.                    *)
(*                                                                         *)
(* A ledger is a set of rows.  A row has a unique `id`, an event time `ts`,*)
(* a stored size `bytes` and a `class`, which stands for everything a      *)
(* filter can test about it: its source, its surface, its project.  Both   *)
(* adapters order rows by (ts, id) and page by that pair, so `id` decides  *)
(* between rows of the same millisecond.                                   *)
(*                                                                         *)
(* A query has a part SQLite answers from its indexes (`scans`, the classes*)
(* whose rows are candidates) and a part tested on each candidate          *)
(* (`keeps`); `post` says that there is such a part.  A query inspects a   *)
(* bounded number of candidates and admits a bounded number of bytes, and  *)
(* says so when it stopped for one of those reasons.                       *)
(***************************************************************************)
EXTENDS Selection, FiniteSetsExt

CONSTANTS
  Events,       \* the events that may be captured, in (ts, id) order
  PageRows,     \* STORAGE_DESCRIPTOR_PAGE_ROWS
  MaxPages,     \* STORAGE_MAX_DESCRIPTOR_PAGES
  QueryBytes    \* STORAGE_QUERY_STORED_BYTES

Older(a, b) == a.ts < b.ts \/ (a.ts = b.ts /\ a.id < b.id)

Rows == ToSet(Events)

\* Ids are unique, and any event fits a query on its own.
EventBounds ==
  /\ Events \in Seq(ToSet(Events))
  /\ \A r \in ToSet(Events) : r.ts \in Nat /\ r.id \in Nat /\ r.bytes \in 1..QueryBytes
  /\ \A i, j \in DOMAIN Events :
       i < j => Older(Events[i], Events[j]) /\ Events[i].id # Events[j].id

ASSUME EventsInOrder == EventBounds

StorageBounds ==
  PageRows \in Nat \ {0} /\ MaxPages \in Nat \ {0} /\ QueryBytes \in Nat \ {0}

ASSUME StorageBudgets == StorageBounds

----------------------------------------------------------------------------
(* Order and cursors.  A cursor is the (ts, id) of a row; `q.cursor` is the*)
(* set of the cursors given, none or one.                                  *)

Ahead(order, a, b) == IF order = "asc" THEN Older(a, b) ELSE Older(b, a)

CursorOf(r) == [ts |-> r.ts, id |-> r.id]

\* The rows of S as a sequence in the given order.
Directed(s, order) == IF order = "asc" THEN s ELSE Reverse(s)

InOrder(S, order) == Directed(Among(Events, S), order)

First(s, n) == SubSeq(s, 1, IF n < Len(s) THEN n ELSE Len(s))

\* S in the total order of Before.
Sorted(S, Before(_, _)) ==
  [n \in 1..Cardinality(S) |->
     CHOOSE x \in S : Cardinality({y \in S : Before(y, x)}) = n - 1]

StoredBytes(s) ==
  LET upTo[n \in 0..Len(s)] == IF n = 0 THEN 0 ELSE upTo[n - 1] + s[n].bytes
  IN  upTo[Len(s)]

\* append: a row whose id is known already is left as it was written first.
AppendEvent(rows, r) == IF \E s \in rows : s.id = r.id THEN rows ELSE rows \cup {r}

----------------------------------------------------------------------------
(* The query of both adapters.                                             *)

\* Mutant: the cursor's own row is read again.
CandidatesFromCursor(rows, q) ==
  {r \in rows : /\ r.class \in q.scans
                /\ q.since <= r.ts /\ r.ts < q.until
                /\ \A c \in q.cursor : ~Ahead(q.order, r, c)}

Candidates(rows, q) ==
  {r \in rows : /\ r.class \in q.scans
                /\ q.since <= r.ts /\ r.ts < q.until
                /\ \A c \in q.cursor : Ahead(q.order, c, r)}

\* MemoryStorage: filter everything, sort, cut.
MemoryQuery(rows, q) ==
  First(InOrder({r \in Candidates(rows, q) : r.class \in q.keeps}, q.order), q.limit)

\* SqliteStorage: descriptor pages of PageRows candidates, at most MaxPages of
\* them, each filtered after it was read.  The pages follow one another, so
\* together they are the first candidates in order.
Inspected(rows, q) == First(InOrder(Candidates(rows, q), q.order), PageRows * MaxPages)

Outcome(kind, rows, c) == [kind |-> kind, rows |-> rows, cursor |-> c]

\* Mutant: a scan that stopped at its budget passes for a complete answer.
AdmitQuietly(q, seen, admitted) ==
  IF StoredBytes(admitted) > QueryBytes
    THEN Outcome("request_too_large", <<>>, {})
    ELSE Outcome("rows", admitted, {})

Admit(q, seen, admitted) ==
  IF StoredBytes(admitted) > QueryBytes
    THEN Outcome("request_too_large", <<>>, {})
  ELSE IF q.post /\ Len(admitted) < q.limit /\ Len(seen) = PageRows * MaxPages
    THEN Outcome("scan_budget_exceeded", admitted, {CursorOf(Last(seen))})
    ELSE Outcome("rows", admitted, {})

AdmitFrom(q, seen) ==
  Admit(q, seen, First(Among(seen, {r \in ToSet(seen) : r.class \in q.keeps}), q.limit))

SqliteQuery(rows, q) == AdmitFrom(q, Inspected(rows, q))

----------------------------------------------------------------------------
(* What every reader of the ledger does with a refusal for bytes: ask again*)
(* at the same cursor for half as many rows.                               *)

ByteSafeLimit(rows, q) ==
  LET try[n \in Nat] ==
        IF n > 1 /\ SqliteQuery(rows, [q EXCEPT !.limit = n]).kind = "request_too_large"
          THEN try[n \div 2]
          ELSE n
  IN  try[q.limit]

\* A page of at most q.limit rows and the limit it was read with.
PageAt(rows, q, n) ==
  [limit |-> n, answer |-> SqliteQuery(rows, [q EXCEPT !.limit = n])]

AdaptivePage(rows, q) == PageAt(rows, q, ByteSafeLimit(rows, q))

----------------------------------------------------------------------------
(* What the adapters promise each other.                                   *)

\* The two adapters agree: whatever SQLite answers is what the plain filter,
\* sort and cut of the memory adapter answers, and when it stopped at its scan
\* budget, the matches it has and a query resumed at its cursor make up that
\* answer.  No row is lost or repeated at the seam.
Agrees(rows, q, a) ==
  CASE a.kind = "rows" -> a.rows = MemoryQuery(rows, q)
    [] a.kind = "scan_budget_exceeded" ->
         a.rows \o MemoryQuery(rows, [q EXCEPT !.cursor = a.cursor,
                                               !.limit = @ - Len(a.rows)])
           = MemoryQuery(rows, q)
    [] a.kind = "request_too_large" ->
         StoredBytes(MemoryQuery(rows, q)) > QueryBytes

AdaptersAgreeOn(rows, q) == Agrees(rows, q, SqliteQuery(rows, q))
=============================================================================
