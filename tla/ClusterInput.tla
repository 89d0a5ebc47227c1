---------------------------- MODULE ClusterInput ----------------------------
(***************************************************************************)
(* What the clustering tools read before they cluster: the observations of *)
(* a time window, in two lanes.  The first lane reads the rows captured in *)
(* the window, newest first.  When it is exhausted and more logical turns  *)
(* are wanted, the second reads rows captured after the window, oldest     *)
(* first, and keeps those whose work happened inside it.                   *)
(*                                                                         *)
(* A row's `ts` is when it was observed, `occ` when the work happened and  *)
(* `turn` the logical turn it is a copy of.                                *)
(***************************************************************************)
EXTENDS EventLedger

CONSTANTS
  ClusterPageRows,       \* CLUSTER_STORAGE_PAGE_ROWS
  ClusterWindows,        \* CLUSTER_MAX_STORAGE_SCAN_WINDOWS
  DelayedWindows,        \* CLUSTER_MAX_DELAYED_STORAGE_SCAN_WINDOWS
  MaxObservations,       \* CLUSTER_MAX_RAW_OBSERVATIONS
  MaxObservationBytes,   \* CLUSTER_MAX_RAW_STORED_BYTES
  MinPageRows,           \* the 100 rows a page asks for at least
  EndOfTime              \* later than every row

\* A page asks for no more rows than a scan can inspect, and a row is a copy of
\* at most one logical turn.
ClusterBounds ==
  /\ ClusterPageRows \in 1..(PageRows * MaxPages)
  /\ {ClusterWindows, DelayedWindows, MinPageRows} \subseteq Nat \ {0}
  /\ \A r \in Rows :
       /\ r.ts < EndOfTime /\ r.kind \in {"malformed", "unknown", "inherited", "original"}
       /\ IsFiniteSet(r.turn) /\ Cardinality(r.turn) <= 1

Smallest(a, b) == IF a < b THEN a ELSE b
Largest(a, b)  == IF a > b THEN a ELSE b

\* A row that cannot be normalised is kept by its capture time and counts for
\* no turn.  An inherited copy is kept, and counts only if it has no turn.
InWindow(r, f) ==
  LET t == IF r.kind = "malformed" THEN r.ts ELSE r.occ
  IN  f.since <= t /\ t < f.until

LogicalKeys(r) ==
  CASE r.kind = "malformed" -> {}
    [] r.turn = {} \/ r.kind = "unknown" -> {<<"raw", r.id>>}
    [] r.kind = "inherited" -> {}
    [] r.kind = "original" -> {<<"turn", t>> : t \in r.turn}

Keep(s, r) ==
  IF Cardinality(s.events) >= MaxObservations
    THEN [s EXCEPT !.reason = "raw_observations"]
  ELSE IF s.bytes + r.bytes > MaxObservationBytes
    THEN [s EXCEPT !.reason = "raw_bytes"]
    ELSE [s EXCEPT !.events = @ \cup {r}, !.bytes = @ + r.bytes,
                   !.logical = @ \cup LogicalKeys(r)]

ConsumeRow(s, r, f) ==
  IF s.reason # "none" \/ r \in s.seen THEN s
  ELSE IF ~InWindow(r, f) THEN [s EXCEPT !.seen = @ \cup {r}]
  ELSE Keep([s EXCEPT !.seen = @ \cup {r}], r)

Enough(s, requested) == Cardinality(s.logical) >= requested

\* A lane ends with no reason to warn when enough was found.
EndLane(s, requested) ==
  [s EXCEPT !.done = TRUE, !.reason = IF Enough(s, requested) THEN "none" ELSE @]

\* Mutant: a scan that stopped at its budget passes for the end of the lane.
LanePageShort(t, page, requested) ==
  IF t.reason # "none" \/ Enough(t, requested) \/ Len(page.answer.rows) < page.limit
    THEN EndLane(t, requested)
    ELSE [t EXCEPT !.cursor = {CursorOf(Last(page.answer.rows))}, !.pageRows = page.limit]

\* t is the lane after it consumed the page.
LanePage(t, page, requested) ==
  IF t.reason # "none"
    THEN EndLane(t, requested)
  ELSE IF page.answer.kind = "scan_budget_exceeded"
    THEN [t EXCEPT !.cursor = page.answer.cursor]
  ELSE IF Enough(t, requested) \/ Len(page.answer.rows) < page.limit
    THEN EndLane(t, requested)
    ELSE [t EXCEPT !.cursor = {CursorOf(Last(page.answer.rows))}, !.pageRows = page.limit]

ConsumeRows(s, rows, f) ==
  LET after[n \in 0..Len(rows)] ==
        IF n = 0 THEN s ELSE ConsumeRow(after[n - 1], rows[n], f)
  IN  after[Len(rows)]

LaneConsume(s, page, f, requested) ==
  LanePage(ConsumeRows(s, page.answer.rows, f), page, requested)

LaneLimit(s, requested) ==
  Smallest(Smallest(s.pageRows, ClusterPageRows),
           Largest(requested - Cardinality(s.logical), Smallest(requested, MinPageRows)))

LaneWindow(rows, q, f, requested, s) ==
  IF Enough(s, requested) THEN EndLane(s, requested)
  ELSE LaneConsume(s, AdaptivePage(rows, [q EXCEPT !.cursor = s.cursor,
                                                  !.limit = LaneLimit(s, requested)]),
                   f, requested)

OutOfWindows(s, requested) ==
  IF s.done THEN s
            ELSE EndLane([s EXCEPT !.reason = "storage_windows"], requested)

LaneStart(s) ==
  [s EXCEPT !.cursor = {}, !.pageRows = ClusterPageRows, !.done = FALSE]

LaneStep(rows, q, f, requested, s) ==
  IF s.done THEN s ELSE LaneWindow(rows, q, f, requested, s)

Lane(rows, q, f, requested, windows, s) ==
  LET scan[n \in Nat] ==
        IF n = 0 THEN LaneStart(s) ELSE LaneStep(rows, q, f, requested, scan[n - 1])
  IN  OutOfWindows(scan[windows], requested)

Untouched ==
  [events |-> {}, seen |-> {}, logical |-> {}, bytes |-> 0, cursor |-> {},
   pageRows |-> ClusterPageRows, reason |-> "none", done |-> FALSE]

\* f is the storage filter of the window: [scans, keeps, post, since, until].
LaneQuery(f, order, since, until) ==
  [scans |-> f.scans, keeps |-> f.keeps, post |-> f.post, since |-> since,
   until |-> until, order |-> order, cursor |-> {}, limit |-> ClusterPageRows]

\* Mutant: read late observations although timely ones were left unread.
LateLaneAlways(rows, f, requested, onTime) ==
  IF Enough(onTime, requested) THEN onTime
  ELSE Lane(rows, LaneQuery(f, "asc", f.until, EndOfTime), f, requested,
            DelayedWindows, [onTime EXCEPT !.reason = "none"])

LateLane(rows, f, requested, onTime) ==
  IF onTime.reason # "none" \/ Enough(onTime, requested) THEN onTime
  ELSE Lane(rows, LaneQuery(f, "asc", f.until, EndOfTime), f, requested,
            DelayedWindows, onTime)

QueryClusterEvents(rows, f, requested) ==
  LateLane(rows, f, requested,
           Lane(rows, LaneQuery(f, "desc", f.since, f.until), f, requested,
                ClusterWindows, Untouched))

----------------------------------------------------------------------------

Relevant(rows, f) ==
  {r \in rows : /\ r.class \in f.scans /\ r.class \in f.keeps
                /\ f.since <= r.ts /\ InWindow(r, f)}

\* An answer with no reason to warn that found less than was asked for has
\* read every observation of the window, captured in time or late.
CompleteOf(a, relevant, requested) ==
  a.reason = "none" /\ ~Enough(a, requested) => a.events = relevant

ClusterInputComplete(rows, f, requested) ==
  CompleteOf(QueryClusterEvents(rows, f, requested), Relevant(rows, f), requested)

\* Late observations never take the place of timely ones: when one is kept,
\* every timely one is.  Of the timely ones the newest are kept.
OnTimeOf(kept, timely, until) ==
  /\ (\E r \in kept : r.ts >= until) => timely \subseteq kept
  /\ \A r \in timely \ kept, x \in kept : x.ts < until => Older(r, x)

OnTimeFirst(rows, f, requested) ==
  OnTimeOf(QueryClusterEvents(rows, f, requested).events,
           {r \in Relevant(rows, f) : r.ts < f.until}, f.until)
=============================================================================
