----------------------------- MODULE MruResolve -----------------------------
(***************************************************************************)
(* echo_resolve_mru: the most recent eligible event of a filter, looked for*)
(* in a bounded number of storage windows.  An inherited copy is old work  *)
(* seen again in a new session and is not eligible.                        *)
(***************************************************************************)
EXTENDS EventLedger

CONSTANTS
  MruCandidates,  \* ECHO_RESOLVE_MRU_CANDIDATES_PER_WINDOW
  MruWindows      \* ECHO_RESOLVE_MRU_MAX_SCAN_WINDOWS

ASSUME MruBounds ==
  MruCandidates \in 1..(PageRows * MaxPages) /\ MruWindows \in Nat \ {0}

MruEligible(r) == r.kind # "inherited"

\* Mutant: a page shorter than its limit ends the search even when storage
\* stopped at its scan budget.
MruSeenShort(s, page, fit) ==
  IF fit # <<>>
    THEN [s EXCEPT !.row = {Head(fit)}, !.done = TRUE]
  ELSE IF Len(page.answer.rows) < page.limit
    THEN [s EXCEPT !.done = TRUE]
    ELSE [s EXCEPT !.before = {CursorOf(Last(page.answer.rows))}]

MruSeen(s, page, fit) ==
  IF fit # <<>>
    THEN [s EXCEPT !.row = {Head(fit)}, !.done = TRUE]
  ELSE IF page.answer.kind = "scan_budget_exceeded"
    THEN [s EXCEPT !.before = page.answer.cursor]
  ELSE IF Len(page.answer.rows) < page.limit
    THEN [s EXCEPT !.done = TRUE]
    ELSE [s EXCEPT !.before = {CursorOf(Last(page.answer.rows))}]

MruPage(s, page) ==
  MruSeen(s, page, Among(page.answer.rows, {r \in ToSet(page.answer.rows) : MruEligible(r)}))

MruWindow(rows, q, s) ==
  MruPage(s, AdaptivePage(rows, [q EXCEPT !.cursor = s.before, !.limit = MruCandidates]))

\* The row found, if any; `done` is FALSE when the windows ran out, which the
\* answer reports as a truncated scan.
NewestMatching(rows, q) ==
  LET scan[n \in Nat] ==
        IF n = 0 THEN [row |-> {}, before |-> q.cursor, done |-> FALSE]
        ELSE IF scan[n - 1].done THEN scan[n - 1] ELSE MruWindow(rows, q, scan[n - 1])
  IN  scan[MruWindows]

\* git with a repository path asks two ways and takes the newer answer: rows
\* that carry the project's identity (a), and rows of the exact git sources of
\* its roots, of which the first of the newest.
NewerOf(best, row) == IF \A r \in row : \E b \in best : r.ts <= b.ts THEN best ELSE row

ExactRow(rows, qbs) ==
  LET newest[n \in Nat] ==
        IF n = 0 THEN {} ELSE NewerOf(newest[n - 1], NewestMatching(rows, qbs[n]).row)
  IN  newest[Len(qbs)]

GitWinner(a, best) ==
  IF best = {} \/ \E x \in a : \A b \in best : x.ts >= b.ts THEN a ELSE best

ResolveGit(rows, qa, qbs) ==
  GitWinner(NewestMatching(rows, qa).row, ExactRow(rows, qbs))

----------------------------------------------------------------------------

Eligible(rows, q) ==
  {r \in Candidates(rows, q) : r.class \in q.keeps /\ MruEligible(r)}

\* What is resolved is the newest eligible row there is, and nothing is
\* resolved without a truncation warning only when there is none.
NewestOf(s, eligible) ==
  /\ \A r \in s.row : r \in eligible /\ \A x \in eligible : x = r \/ Older(x, r)
  /\ s.row = {} /\ s.done => eligible = {}

MruIsNewestOn(rows, q) == NewestOf(NewestMatching(rows, q), Eligible(rows, q))

\* The same for the two ways of asking about a repository, as long as neither
\* way ran out of windows: no eligible row of either is newer.
GitNewestOf(win, both) ==
  /\ win = {} <=> both = {}
  /\ \A r \in win : r \in both /\ \A x \in both : x.ts <= r.ts

GitIsNewestOn(rows, qa, qbs) ==
  (\A q \in {qa} \cup ToSet(qbs) : NewestMatching(rows, q).done) =>
     GitNewestOf(ResolveGit(rows, qa, qbs),
                 UNION {Eligible(rows, q) : q \in {qa} \cup ToSet(qbs)})
=============================================================================
