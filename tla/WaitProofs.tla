------------------------------ MODULE WaitProofs ------------------------------
(***************************************************************************)
(* What chaining next_since promises, for every cap, window and budget.    *)
(* The argument goes from the inside out: what one source of one poll has  *)
(* scanned is a beginning of its eligible rows (SourceKeeps); a source     *)
(* that stopped at its window holds more fresh rows than a page, so a page *)
(* never ends behind its horizon (PageBehindHorizon); and what a page      *)
(* leaves behind therefore lies after the next watermark (NothingLost).    *)
(***************************************************************************)
EXTENDS WaitForNewTurns, LedgerProofs

Bounds == EventBounds /\ StorageBounds /\ WaitBounds

LEMMA WindowFacts ==
  ASSUME Bounds
  PROVE  /\ Cap \in Nat \ {0} /\ Window \in Nat \ {0} /\ Window = 2 * Cap + 1
         /\ Window <= PageRows * MaxPages /\ PageRows * MaxPages \in Nat
         /\ ScanWindows \in Nat \ {0} /\ MaxTime \in Nat
         /\ \A r \in Rows : r.ts \in Nat /\ r.ts <= MaxTime
<1>1. Cap \in Nat \ {0} /\ Window = 2 * Cap + 1
  BY DEF Bounds, WaitBounds, Window
<1>2. PageRows * MaxPages \in Nat
  BY DEF Bounds, StorageBounds
<1>3. \A r \in Rows : r.ts \in Nat
  BY DEF Bounds, EventBounds, Rows
<1>4. MaxTime \in Nat /\ \A r \in Rows : r.ts <= MaxTime
  BY DEF Bounds, WaitBounds, Rows
<1> QED
  BY <1>1, <1>2, <1>3, <1>4 DEF Bounds, WaitBounds

--------------------------------------------------------------------------------
(* One source of one poll.                                                   *)

(* What the source may give: the rows from `since` on that are selected.     *)
Source(q) == {r \in ledger : r.class \in q.scans /\ since <= r.ts}

Offered(q) == {r \in Source(q) : r.class \in q.keeps /\ WakeEligible(r)}

ScanState ==
  [rows : Seq(Rows), after : SUBSET {CursorOf(x) : x \in Rows}, pageRows : 1..Window,
   done : BOOLEAN]

(* A scan in progress has passed everything up to its cursor.                *)
Scanned(s, q) ==
  /\ s \in ScanState
  /\ Begins(s.rows, Offered(q), "asc") /\ Len(s.rows) <= Window
  /\ s.done => Len(s.rows) = Window \/ ToSet(s.rows) = Offered(q)
  /\ ~s.done => /\ Len(s.rows) < Window
                /\ \/ s.after = {} /\ s.rows = <<>>
                   \/ \E x \in Source(q) :
                        s.after = {CursorOf(x)} /\ ToSet(s.rows) = Passed("asc", Offered(q), x)

(* The rows of a scan's filter behind its cursor.                            *)
LEMMA FilterFits ==
  ASSUME Bounds, ledger \subseteq Rows, NEW q, NEW after, NEW n, NEW f, f = PollFilter(q, after, n)
  PROVE  /\ Query(f) /\ f.order = "asc" /\ f.post /\ f.limit = n
         /\ Candidates(ledger, f) = {r \in Source(q) : \A c \in after : Ahead("asc", c, r)}
         /\ Matches(ledger, f) = {r \in Candidates(ledger, f) : r.class \in q.keeps}
<1>1. f = [scans |-> q.scans, keeps |-> q.keeps, post |-> TRUE, since |-> since,
           until |-> MaxTime + 1, order |-> "asc", cursor |-> after, limit |-> n]
  BY DEF PollFilter
<1>2. /\ f.scans = q.scans /\ f.keeps = q.keeps /\ f.post = TRUE /\ f.since = since
      /\ f.until = MaxTime + 1 /\ f.order = "asc" /\ f.cursor = after /\ f.limit = n
  BY <1>1
<1>3. Query(f)
  BY <1>1, <1>2 DEF Query
<1>4. \A r \in ledger : r.ts < MaxTime + 1
  BY WindowFacts
<1>5. Candidates(ledger, f) = {r \in Source(q) : \A c \in after : Ahead("asc", c, r)}
  BY <1>2, <1>4 DEF Candidates, Source
<1>6. Matches(ledger, f) = {r \in Candidates(ledger, f) : r.class \in q.keeps}
  BY <1>2 DEF Matches
<1> QED
  BY <1>2, <1>3, <1>5, <1>6

(* One more window.                                                          *)
LEMMA SourceKeeps ==
  ASSUME Bounds, ledger \subseteq Rows, NEW q, NEW s, Scanned(s, q), ~s.done
  PROVE  Scanned(SourceWindow(s, q), q)
<1> DEFINE n == SourceLimit(s)
           f == PollFilter(q, s.after, n)
           page == AdaptivePage(ledger, f)
           seen == page.answer.rows
           S == Source(q)
           E == Offered(q)
           H == ToSet(s.rows)
           C == Candidates(ledger, f)
           K == Matches(ledger, f)
           more == Waking(seen)
           rows == s.rows \o more
           sparse == page.answer.kind = "scan_budget_exceeded"
           ended == Len(rows) >= Window \/ (~sparse /\ Len(seen) < page.limit)
           t == SourceWindow(s, q)
<1>1. S \subseteq Rows /\ Distinct(S) /\ E \subseteq S /\ Distinct(E)
  <2>1. S \subseteq Rows /\ E \subseteq S
    BY DEF Source, Offered
  <2> QED
    BY <2>1, EventsBegin, DistinctIn DEF Bounds
<1>2. /\ Begins(s.rows, E, "asc") /\ Len(s.rows) < Window /\ s.pageRows \in 1..Window
      /\ \/ s.after = {} /\ s.rows = <<>>
         \/ \E x \in S : s.after = {CursorOf(x)} /\ H = Passed("asc", E, x)
  BY DEF Scanned, ScanState
<1>3. Len(s.rows) \in Nat /\ s.rows \in Seq(E) /\ H \subseteq E
  BY <1>2, BeginsElements
<1>4. n \in 1..Window
  <2>1. Window - Len(s.rows) \in 1..Window
    BY <1>2, <1>3, WindowFacts
  <2> QED
    BY <1>2, <2>1 DEF SourceLimit
<1> HIDE DEF n
<1>5. /\ Query(f) /\ f.order = "asc" /\ f.post /\ f.limit = n
      /\ C = {r \in S : \A c \in s.after : Ahead("asc", c, r)}
      /\ K = {r \in C : r.class \in q.keeps}
  <2> HIDE DEF f, S, C, K
  <2>1. Query(f) /\ f.order = "asc" /\ f.post /\ f.limit = n
    BY FilterFits DEF f
  <2>2. C = {r \in S : \A c \in s.after : Ahead("asc", c, r)}
    BY FilterFits DEF C, f, S
  <2>3. K = {r \in C : r.class \in q.keeps}
    BY FilterFits DEF K, C, f
  <2> QED
    BY <2>1, <2>2, <2>3
<1> HIDE DEF f, S, E
<1>6. Fitting(f)
  BY <1>4, <1>5, WindowFacts DEF Fitting
<1>7. page.limit \in 1..n /\ Exact(page.answer, ledger, f, page.limit)
  BY <1>5, <1>6, PageIsExact DEF Bounds
<1> HIDE DEF C, K, page
<1>8. /\ Begins(seen, K, "asc") /\ Len(seen) <= page.limit
      /\ ~sparse /\ Len(seen) < page.limit => ToSet(seen) = K
      /\ sparse => \E x \in C : page.answer.cursor = {CursorOf(x)} /\ ToSet(seen) = Passed("asc", K, x)
  BY <1>5, <1>7 DEF Exact, C, K
<1>9. page.limit \in 1..Window
  BY <1>4, <1>7, WindowFacts
<1> HIDE DEF H
<1>10. /\ C \subseteq S /\ K \subseteq C /\ Distinct(K)
       /\ E \ H = {r \in K : WakeEligible(r)}
       /\ \A x \in H, y \in E \ H : Ahead("asc", x, y)
  <2>1. E = {r \in S : r.class \in q.keeps /\ WakeEligible(r)}
    BY DEF E, S, Offered
  <2>2. C \subseteq S /\ K \subseteq C /\ Distinct(K)
    BY <1>1, <1>5, DistinctIn
  <2>3. CASE s.after = {} /\ s.rows = <<>>
    <3>1. H = {}
      BY <2>3 DEF H, ToSet
    <3>2. C = S
      BY <2>3, <1>5
    <3> QED
      BY <3>1, <3>2, <1>5, <2>1, <2>2
  <2>4. CASE \E x \in S : s.after = {CursorOf(x)} /\ H = Passed("asc", E, x)
    <3>1. PICK x \in S : s.after = {CursorOf(x)} /\ H = Passed("asc", E, x)
      BY <2>4
    <3>2. \A r : Ahead("asc", CursorOf(x), r) <=> Ahead("asc", x, r)
      BY DEF CursorOf, Ahead, Older
    <3>3. C = {r \in S : Ahead("asc", x, r)}
      BY <3>1, <3>2, <1>5
    <3>4. E \ H = {r \in E : Ahead("asc", x, r)}
      BY <3>1 DEF Passed
    <3>5. E \ H = {r \in K : WakeEligible(r)}
      BY <3>3, <3>4, <1>5, <2>1
    <3>6. ASSUME NEW y \in H, NEW z \in E \ H PROVE Ahead("asc", y, z)
      <4>1. y \in S /\ z \in S /\ ~Ahead("asc", x, y) /\ Ahead("asc", x, z)
        BY <3>1, <3>4, <1>1 DEF Passed
      <4>2. y = x \/ Ahead("asc", y, x)
        BY <4>1, <1>1, AheadInDistinct
      <4> QED
        BY <4>1, <4>2, <1>1, AheadInDistinct, SMTT(30)
    <3> QED
      BY <2>2, <3>5, <3>6
  <2> QED
    BY <1>2, <2>3, <2>4
<1>11. seen \in Seq(K) /\ Len(seen) \in Nat /\ ToSet(seen) \subseteq K
  BY <1>8, BeginsElements
<1>12. Begins(more, E \ H, "asc") /\ ToSet(more) = {r \in ToSet(seen) : WakeEligible(r)}
  <2> DEFINE A == {r \in ToSet(seen) : WakeEligible(r)}
  <2>1. Begins(Among(seen, A), K \cap A, "asc") /\ ToSet(Among(seen, A)) = ToSet(seen) \cap A
    <3>1. Begins(seen, K, "asc")
      BY <1>8
    <3> HIDE DEF A, seen, K
    <3> QED
      BY <3>1, AmongBegins
  <2>2. more = Among(seen, A)
    BY DEF Waking
  <2>3. K \cap A = A /\ ToSet(seen) \cap A = A /\ A \subseteq E \ H
    <3>1. A \subseteq ToSet(seen) /\ A \subseteq K
      BY <1>11
    <3>2. A \subseteq E \ H
      BY <1>10, <3>1
    <3> QED
      BY <3>1, <3>2
  <2> HIDE DEF more
  <2>4. Begins(more, A, "asc") /\ ToSet(more) = A
    BY <2>1, <2>2, <2>3
  <2>5. more \in Seq(A) /\ Len(more) \in Nat /\ \A i \in 1..Len(more) : more[i] \in A
    BY <2>4, BeginsElements
  <2>6. more \in Seq(E \ H)
    BY <2>3, <2>5
  <2>7. ASSUME NEW i \in 1..Len(more), NEW x \in E \ H, Ahead("asc", x, more[i])
        PROVE  x \in ToSet(more)
    <3>1. x \in K /\ WakeEligible(x)
      BY <1>10
    <3>2. more[i] \in ToSet(seen)
      BY <2>5
    <3>3. PICK k \in 1..Len(seen) : seen[k] = more[i]
      BY <3>2, <1>11, ElementsOf
    <3>4. x \in ToSet(seen)
      BY <3>1, <3>3, <2>7, <1>8 DEF Begins
    <3> QED
      BY <3>1, <3>4, <2>4
  <2>8. InTurn(more, "asc")
    BY <2>4 DEF Begins
  <2> QED
    BY <2>4, <2>6, <2>7, <2>8 DEF Begins
<1> HIDE DEF more
<1>13. Begins(rows, E, "asc")
  <2>1. ToSet(s.rows) = H
    BY DEF H
  <2> QED
    BY <2>1, <1>1, <1>2, <1>10, <1>12, BeginsJoin
<1>14. ToSet(rows) = H \cup ToSet(more)
  <2>1. more \in Seq(E \ H)
    BY <1>12, BeginsElements
  <2>2. more \in Seq(E)
    BY <2>1
  <2> QED
    BY <1>3, <2>2, Joined DEF H
<1> HIDE DEF rows
<1>15. t = [rows |-> First(rows, Window),
            after |-> IF ended THEN {}
                      ELSE IF sparse THEN page.answer.cursor ELSE {CursorOf(Last(seen))},
            pageRows |-> IF sparse THEN s.pageRows ELSE page.limit,
            done |-> ended]
  BY DEF SourceWindow, SourcePage, rows, more, page, f, n
<1> HIDE DEF t, sparse
<1>16. Len(rows) \in Nat /\ rows \in Seq(E)
  BY <1>13, BeginsElements
<1>17. /\ t.rows = First(rows, Window) /\ t.done = ended
       /\ t.after = IF ended THEN {} ELSE IF sparse THEN page.answer.cursor
                                     ELSE {CursorOf(Last(seen))}
       /\ t.pageRows = IF sparse THEN s.pageRows ELSE page.limit
  BY <1>15
<1>18. /\ Begins(t.rows, E, "asc")
       /\ Len(t.rows) = IF Window < Len(rows) THEN Window ELSE Len(rows)
       /\ Len(rows) <= Window => t.rows = rows
  <2>1. Begins(First(rows, Window), E, "asc")
    BY <1>1, <1>13, WindowFacts, FirstBegins
  <2>2. Len(First(rows, Window)) = IF Window < Len(rows) THEN Window ELSE Len(rows)
    BY <1>16, WindowFacts, FirstOf
  <2>3. Len(rows) <= Window => Len(First(rows, Window)) = Len(rows)
    BY <2>2, <1>16, WindowFacts
  <2>4. Len(rows) <= Window => First(rows, Window) = rows
    BY <2>1, <2>3, <1>1, <1>13, BeginsSame
  <2> QED
    BY <2>1, <2>2, <2>4, <1>17
<1>19. Len(t.rows) <= Window /\ t.pageRows \in 1..Window /\ t.done \in BOOLEAN
  BY <1>2, <1>9, <1>16, <1>17, <1>18, WindowFacts
<1>20. ASSUME ended PROVE Len(t.rows) = Window \/ ToSet(t.rows) = E
  <2>1. CASE Len(rows) >= Window
    BY <2>1, <1>16, <1>18, WindowFacts
  <2>2. CASE Len(rows) < Window /\ ~sparse /\ Len(seen) < page.limit
    <3>1. ToSet(seen) = K
      BY <2>2, <1>8 DEF sparse
    <3>2. ToSet(more) = E \ H
      BY <3>1, <1>10, <1>12
    <3>3. ToSet(rows) = E
      BY <3>2, <1>3, <1>14
    <3>4. t.rows = rows
      BY <2>2, <1>16, <1>18, WindowFacts
    <3> QED
      BY <3>3, <3>4
  <2> QED
    BY <1>16, <1>20, <2>1, <2>2, WindowFacts
<1>21. ASSUME ~ended
       PROVE  /\ Len(t.rows) < Window
              /\ \E x \in S : t.after = {CursorOf(x)} /\ ToSet(t.rows) = Passed("asc", E, x)
  <2>1. Len(rows) < Window /\ (sparse \/ ~(Len(seen) < page.limit))
    BY <1>16, <1>21, WindowFacts
  <2>2. t.rows = rows /\ Len(t.rows) < Window
    BY <2>1, <1>16, <1>18, WindowFacts
  <2>3. \E x \in C : t.after = {CursorOf(x)} /\ ToSet(seen) = Passed("asc", K, x)
    <3>1. CASE sparse
      BY <3>1, <1>8, <1>17, <1>21 DEF sparse
    <3>2. CASE ~sparse
      <4> DEFINE x == Last(seen)
      <4>1. Len(seen) # 0
        BY <3>2, <2>1, <1>9, <1>11
      <4>2. x \in K /\ ToSet(seen) = Passed("asc", K, x)
        BY <4>1, <1>8, <1>10, BeginsLast
      <4>3. t.after = {CursorOf(x)}
        BY <3>2, <1>17, <1>21
      <4> QED
        BY <4>2, <4>3, <1>10
    <3> QED
      BY <3>1, <3>2
  <2>4. PICK x \in C : t.after = {CursorOf(x)} /\ ToSet(seen) = Passed("asc", K, x)
    BY <2>3
  <2>5. x \in S
    BY <1>10
  <2>6. \A y \in H : ~Ahead("asc", x, y)
    <3>1. ASSUME NEW y \in H, Ahead("asc", x, y) PROVE FALSE
      <4>1. CASE s.after = {} /\ s.rows = <<>>
        BY <4>1 DEF H, ToSet
      <4>2. CASE \E z \in S : s.after = {CursorOf(z)} /\ H = Passed("asc", E, z)
        <5>1. PICK z \in S : s.after = {CursorOf(z)} /\ H = Passed("asc", E, z)
          BY <4>2
        <5>2. Ahead("asc", z, x)
          <6>1. Ahead("asc", CursorOf(z), x)
            BY <5>1, <1>5
          <6> QED
            BY <6>1 DEF CursorOf, Ahead, Older
        <5>3. ~Ahead("asc", z, y) /\ y \in S
          BY <5>1, <1>1 DEF Passed
        <5> QED
          BY <5>2, <5>3, <3>1, <2>5, <1>1, AheadInDistinct
      <4> QED
        BY <1>2, <4>1, <4>2
    <3> QED
      BY <3>1
  <2>7. ToSet(rows) = Passed("asc", E, x)
    <3>1. ASSUME NEW r \in E PROVE r \in ToSet(rows) <=> ~Ahead("asc", x, r)
      <4>1. CASE r \in H
        BY <4>1, <2>6, <1>14
      <4>2. CASE r \notin H
        <5>1. r \in K /\ WakeEligible(r)
          BY <4>2, <1>10
        <5>2. r \in ToSet(rows) <=> r \in ToSet(seen)
          BY <4>2, <5>1, <1>12, <1>14
        <5> QED
          BY <5>1, <5>2, <2>4 DEF Passed
      <4> QED
        BY <4>1, <4>2
    <3>2. ToSet(rows) \subseteq E
      BY <1>13, BeginsElements
    <3> QED
      BY <3>1, <3>2 DEF Passed
  <2> QED
    BY <2>2, <2>4, <2>5, <2>7
<1>22. Scanned(t, q)
  <2>1. t.done = ended
    BY <1>17
  <2>2. t \in ScanState
    <3>1. t.rows \in Seq(Rows)
      <4>1. t.rows \in Seq(E) /\ E \subseteq Rows
        BY <1>1, <1>18, BeginsElements
      <4> QED
        BY <4>1
    <3>2. t.after \in SUBSET {CursorOf(x) : x \in Rows}
      <4>1. ended => t.after = {}
        BY <1>17
      <4> HIDE DEF ended
      <4>2. CASE ~ended
        <5>1. PICK x \in S : t.after = {CursorOf(x)}
          BY <4>2, <1>21
        <5> QED
          BY <5>1, <1>1
      <4> QED
        BY <4>1, <4>2
    <3>3. t = [rows |-> t.rows, after |-> t.after, pageRows |-> t.pageRows, done |-> t.done]
      BY <1>15
    <3> QED
      BY <3>1, <3>2, <3>3, <1>19 DEF ScanState
  <2> HIDE DEF ended
  <2> QED
    BY <1>18, <1>19, <1>20, <1>21, <2>1, <2>2 DEF Scanned, E, S
<1> QED
  BY <1>22 DEF t

(* All windows of one source of one poll.                                    *)
LEMMA SourceScanned ==
  ASSUME Bounds, ledger \subseteq Rows, NEW q
  PROVE  Scanned(PollSource(q), q)
<1> DEFINE V == {s \in ScanState : Scanned(s, q)}
           Go(s) == IF s.done THEN s ELSE SourceWindow(s, q)
           step == [s \in V |-> Go(s)]
           Val(f, n) == IF n = 0 THEN SourceStart
                        ELSE IF f[n - 1].done THEN f[n - 1] ELSE SourceWindow(f[n - 1], q)
           U == CHOOSE f : f = [n \in Nat |-> Val(f, n)]
<1>1. SourceStart \in V
  <2> DEFINE s == SourceStart
  <2>1. s = [rows |-> <<>>, after |-> {}, pageRows |-> Window, done |-> FALSE]
    BY DEF SourceStart
  <2> HIDE DEF s
  <2>2. s.rows = <<>> /\ s.after = {} /\ s.pageRows = Window /\ s.done = FALSE
    BY <2>1
  <2>3. s \in ScanState
    BY <2>1, WindowFacts DEF ScanState
  <2>4. Begins(s.rows, Offered(q), "asc") /\ Len(s.rows) = 0
    BY <2>2 DEF Begins, InTurn
  <2>5. Scanned(s, q)
    BY <2>2, <2>3, <2>4, WindowFacts DEF Scanned
  <2> QED
    BY <2>3, <2>5 DEF s
<1>2. ASSUME NEW s \in V PROVE Go(s) \in V
  <2>1. Scanned(s, q)
    OBVIOUS
  <2>2. ~s.done => Scanned(SourceWindow(s, q), q)
    BY <2>1, SourceKeeps
  <2>3. \A t : Scanned(t, q) => t \in ScanState
    BY DEF Scanned
  <2> QED
    BY <2>1, <2>2, <2>3
<1>3. step \in [V -> V]
  <2> HIDE DEF V, Go
  <2> QED
    BY <1>2
<1>4. PICK f \in [Nat -> V] : f[0] = SourceStart /\ \A n \in Nat : f[n + 1] = step[f[n]]
  <2> HIDE DEF V, step
  <2> QED
    BY <1>1, <1>3, Iterated
<1>5. ASSUME NEW n \in Nat PROVE f[n] = Val(f, n)
  <2>1. CASE n = 0
    BY <1>4, <2>1
  <2>2. CASE n # 0
    <3>1. n - 1 \in Nat /\ (n - 1) + 1 = n
      BY <2>2
    <3>2. f[n] = step[f[n - 1]] /\ f[n - 1] \in V
      <4> HIDE DEF V, step
      <4>1. f[(n - 1) + 1] = step[f[n - 1]]
        BY <1>4, <3>1
      <4> QED
        BY <1>4, <3>1, <4>1
    <3>3. step[f[n - 1]] = Go(f[n - 1])
      <4> HIDE DEF V, Go
      <4> QED
        BY <3>2
    <3> HIDE DEF step
    <3> QED
      BY <2>2, <3>2, <3>3
  <2> QED
    BY <2>1, <2>2
<1>6. f = [n \in Nat |-> Val(f, n)]
  <2>1. f = [n \in Nat |-> f[n]]
    <3> HIDE DEF V
    <3> QED
      BY <1>4
  <2> HIDE DEF Val
  <2> QED
    BY <1>5, <2>1
<1>7. U = [n \in Nat |-> Val(U, n)]
  <2> HIDE DEF Val
  <2> QED
    BY <1>6
<1> HIDE DEF U
<1>8. ASSUME NEW n \in Nat PROVE U[n] = Val(U, n)
  <2> HIDE DEF Val
  <2> QED
    BY <1>7
<1> DEFINE Fine == {n \in Nat : U[n] \in V}
<1>9. 0 \in Fine
  <2>1. U[0] = SourceStart
    BY <1>8
  <2> HIDE DEF V
  <2> QED
    BY <1>1, <2>1
<1>10. ASSUME NEW n \in Nat, n \in Fine PROVE n + 1 \in Fine
  <2>1. n + 1 \in Nat /\ n + 1 # 0 /\ (n + 1) - 1 = n
    OBVIOUS
  <2>2. U[n + 1] = Go(U[n])
    BY <1>8, <2>1
  <2>3. U[n] \in V
    <3> HIDE DEF V
    <3> QED
      BY <1>10
  <2> HIDE DEF V, Go
  <2> QED
    BY <1>2, <2>1, <2>2, <2>3
<1>11. Nat \subseteq Fine
  <2> HIDE DEF Fine
  <2> QED
    BY <1>9, <1>10, SetInduction
<1>12. U[ScanWindows] \in V
  <2>1. ScanWindows \in Fine
    <3> HIDE DEF Fine
    <3> QED
      BY <1>11, WindowFacts
  <2> HIDE DEF V
  <2> QED
    BY <2>1
<1>13. PollSource(q) = U[ScanWindows]
  BY DEF PollSource, U
<1>14. Scanned(U[ScanWindows], q)
  BY <1>12
<1> HIDE DEF U
<1> QED
  BY <1>13, <1>14

--------------------------------------------------------------------------------
(* The page made of all sources.                                             *)

Results == {PollSource(q) : q \in Queries}

FreshRows == {r \in UNION {ToSet(s.rows) : s \in Results} : r.ts > since}

LEMMA FreshBegins ==
  ASSUME Bounds, ledger \subseteq Rows
  PROVE  /\ FreshRows \subseteq ledger /\ FreshRows \subseteq Rows /\ Distinct(FreshRows)
         /\ Begins(Fresh(Results), FreshRows, "asc") /\ ToSet(Fresh(Results)) = FreshRows
<1>1. ASSUME NEW r \in FreshRows PROVE r \in ledger
  <2>1. PICK q \in Queries : r \in ToSet(PollSource(q).rows)
    BY DEF FreshRows, Results
  <2>2. ToSet(PollSource(q).rows) \subseteq Offered(q)
    BY SourceScanned, BeginsElements DEF Scanned
  <2> QED
    BY <2>1, <2>2 DEF Offered, Source
<1>2. FreshRows \subseteq Rows
  BY <1>1
<1>3. Fresh(Results) = InOrder(FreshRows, "asc")
  BY DEF Fresh, FreshRows
<1> QED
  BY <1>1, <1>2, <1>3, InOrderBegins, EventsBegin, DistinctIn DEF Bounds

(* A page ends with the millisecond in which it is full.                     *)
LEMMA PageEndIs ==
  ASSUME Bounds, NEW T, NEW all \in Seq(T)
  PROVE  /\ PageEnd(all) \in 0..Len(all)
         /\ Len(all) <= Cap => PageEnd(all) = Len(all)
         /\ Len(all) > Cap => /\ PageEnd(all) >= Cap /\ all[PageEnd(all)].ts = all[Cap].ts
                              /\ PageEnd(all) < Len(all) => all[PageEnd(all) + 1].ts # all[Cap].ts
<1> DEFINE N == Len(all)
           Ends(n) == all[n].ts = all[Cap].ts /\ (n < N => all[n + 1].ts # all[Cap].ts)
<1>1. N \in Nat /\ Cap \in Nat \ {0}
  BY WindowFacts
<1> HIDE DEF N
<1>2. CASE N <= Cap
  <2>1. PageEnd(all) = N
    BY <1>2 DEF PageEnd, N
  <2> QED
    BY <2>1, <1>1, <1>2 DEF N
<1>3. CASE N > Cap
  <2>1. \E n \in Cap..N : Ends(n)
    <3> SUFFICES ASSUME \A n \in Cap..N : ~Ends(n) PROVE FALSE
      OBVIOUS
    <3> DEFINE Run == {k \in Nat : Cap + k \in Cap..N /\ all[Cap + k].ts = all[Cap].ts}
    <3>1. 0 \in Run
      BY <1>1, <1>3
    <3>2. ASSUME NEW k \in Nat, k \in Run PROVE k + 1 \in Run
      <4>1. Cap + k \in Cap..N /\ all[Cap + k].ts = all[Cap].ts
        BY <3>2
      <4>2. Cap + k < N /\ all[(Cap + k) + 1].ts = all[Cap].ts
        BY <4>1
      <4>3. Cap + (k + 1) = (Cap + k) + 1 /\ Cap + (k + 1) \in Cap..N /\ k + 1 \in Nat
        BY <1>1, <4>1, <4>2
      <4> QED
        BY <4>2, <4>3
    <3>3. Nat \subseteq Run
      <4> HIDE DEF Run
      <4> QED
        BY <3>1, <3>2, SetInduction
    <3>4. N - Cap + 1 \in Nat
      BY <1>1, <1>3
    <3>5. Cap + (N - Cap + 1) \in Cap..N
      BY <3>3, <3>4
    <3> QED
      BY <3>5, <1>1, <1>3
  <2>2. PageEnd(all) = CHOOSE n \in Cap..N : Ends(n)
    BY <1>1, <1>3 DEF PageEnd, N
  <2>3. PageEnd(all) \in Cap..N /\ Ends(PageEnd(all))
    <3> HIDE DEF Ends
    <3> QED
      BY <2>1, <2>2
  <2> QED
    BY <2>3, <1>1, <1>3 DEF N
<1> QED
  BY <1>1, <1>2, <1>3

LEMMA RowsFinite ==
  ASSUME EventBounds
  PROVE  IsFiniteSet(Rows)
<1> DEFINE g == [i \in 1..Len(Events) |-> Events[i]]
<1>1. Events \in Seq(Rows) /\ Len(Events) \in Nat
  BY EventsBegin, BeginsElements
<1>2. g \in [1..Len(Events) -> Rows]
  BY <1>1
<1>3. ASSUME NEW r \in Rows PROVE \E i \in 1..Len(Events) : g[i] = r
  <2>1. \E i \in 1..Len(Events) : Events[i] = r
    BY <1>1, ElementsOf DEF Rows
  <2> QED
    BY <2>1
<1> HIDE DEF g
<1>4. g \in Surjection(1..Len(Events), Rows)
  BY <1>2, <1>3 DEF Surjection
<1>5. IsFiniteSet(1..Len(Events))
  BY <1>1, FS_Interval
<1> QED
  BY <1>4, <1>5, FS_Surjection

(* A source that filled its window holds more fresh rows than a page: either *)
(* its watermark is crowded, or the page ends no later than the source does. *)
LEMMA PageBehindHorizon ==
  ASSUME Bounds, ledger \subseteq Rows, since \in Nat, NEW q \in Queries,
         Cardinality({r \in ledger : Selected(r, q) /\ r.ts = since}) <= Cap,
         Len(PollSource(q).rows) = Window
  PROVE  /\ Len(Fresh(Results)) > Cap
         /\ Fresh(Results)[Cap].ts <= Last(PollSource(q).rows).ts
<1> DEFINE s == PollSource(q).rows
           all == Fresh(Results)
           D == {r \in ledger : Selected(r, q) /\ r.ts = since}
           E == Offered(q)
<1>1. Begins(s, E, "asc") /\ Len(s) = Window
  BY SourceScanned DEF Scanned
<1>2. E \subseteq ledger /\ E \subseteq Rows /\ Distinct(E)
  <2>1. E \subseteq ledger
    BY DEF Offered, Source
  <2> QED
    BY <2>1, EventsBegin, DistinctIn DEF Bounds
<1>3. Cap \in Nat \ {0} /\ Len(s) = 2 * Cap + 1
  BY <1>1, WindowFacts
<1>4. s \in Seq(E) /\ InTurn(s, "asc") /\ \A i \in 1..Len(s) : s[i] \in E
  BY <1>1, BeginsElements DEF Begins
<1>5. \A r \in E : r.ts \in Nat /\ since <= r.ts /\ Selected(r, q)
  BY <1>2, WindowFacts DEF Offered, Source, Selected
<1>6. /\ Begins(all, FreshRows, "asc") /\ ToSet(all) = FreshRows /\ Distinct(FreshRows)
      /\ FreshRows \subseteq Rows
  BY FreshBegins
<1>7. \A i \in 1..Len(s) : s[i].ts > since => s[i] \in FreshRows
  BY <1>4, ElementsOf DEF FreshRows, Results
<1> HIDE DEF s, all, E
<1>8. \A i, j \in 1..Len(s) : i <= j => s[i].ts <= s[j].ts
  BY <1>2, <1>4, TimesGrow
<1>9. s[Cap + 1].ts > since
  <2> SUFFICES ASSUME ~(s[Cap + 1].ts > since) PROVE FALSE
    OBVIOUS
  <2> DEFINE f == [i \in 1..(Cap + 1) |-> s[i]]
  <2>1. Cap + 1 \in 1..Len(s) /\ Cap + 1 \in Nat
    BY <1>3
  <2>2. ASSUME NEW i \in 1..(Cap + 1) PROVE f[i] = s[i] /\ i \in 1..Len(s) /\ s[i] \in D
    <3>1. i \in 1..Len(s) /\ i <= Cap + 1
      BY <1>3
    <3>2. s[i].ts <= s[Cap + 1].ts
      BY <2>1, <3>1, <1>8
    <3>3. s[i] \in E /\ s[Cap + 1] \in E
      BY <2>1, <3>1, <1>4
    <3>4. s[i].ts = since
      BY <3>2, <3>3, <1>5
    <3> QED
      BY <3>1, <3>3, <3>4, <1>2, <1>5
  <2> HIDE DEF D
  <2>3. f \in [1..(Cap + 1) -> D]
    BY <2>2
  <2>4. ASSUME NEW i \in 1..(Cap + 1), NEW j \in 1..(Cap + 1), f[i] = f[j] PROVE i = j
    <3>1. i \in 1..Len(s) /\ j \in 1..Len(s) /\ s[i] = s[j]
      BY <2>2, <2>4
    <3>2. ~(i < j) /\ ~(j < i)
      BY <3>1, <1>2, <1>4, AheadInDistinct DEF InTurn
    <3> QED
      BY <3>2
  <2> HIDE DEF f
  <2>5. f \in Injection(1..(Cap + 1), D)
    BY <2>3, <2>4 DEF Injection, IsInjective
  <2>6. IsFiniteSet(D)
    <3>1. IsFiniteSet(Rows)
      BY RowsFinite DEF Bounds
    <3>2. D \subseteq Rows
      BY DEF D
    <3> QED
      BY <3>1, <3>2, FS_Subset
  <2>7. Cardinality(1..(Cap + 1)) <= Cardinality(D)
    BY <2>5, <2>6, FS_Injection
  <2>8. Cardinality(1..(Cap + 1)) = Cap + 1
    <3>1. 1 \in Int /\ Cap + 1 \in Int /\ ~(1 > Cap + 1) /\ (Cap + 1) - 1 + 1 = Cap + 1
      BY <1>3
    <3> QED
      BY <3>1, FS_Interval
  <2>9. Cardinality(D) \in Nat /\ Cardinality(D) <= Cap
    BY <2>6, FS_CardinalityType DEF D
  <2> QED
    BY <2>7, <2>8, <2>9, <1>3
<1> DEFINE t == SubSeq(s, 1 + Cap, Len(s))
<1>10. /\ t \in Seq(E) /\ Len(t) = Cap + 1
       /\ \A i \in 1..(Cap + 1) : t[i] = s[Cap + i] /\ Cap + i \in 1..Len(s)
  <2>1. Cap <= Len(s) /\ Cap \in Nat /\ Len(s) - Cap = Cap + 1
    BY <1>3
  <2>2. t \in Seq(E) /\ Len(t) = Len(s) - Cap /\ \A i \in 1..(Len(s) - Cap) : t[i] = s[Cap + i]
    <3> HIDE DEF t
    <3> QED
      BY <2>1, <1>4, TailOf DEF t
  <2> HIDE DEF t
  <2>3. \A i \in 1..(Cap + 1) : Cap + i \in 1..Len(s)
    BY <1>3
  <2> QED
    BY <2>1, <2>2, <2>3
<1> HIDE DEF t
<1>11. ASSUME NEW i \in 1..(Cap + 1) PROVE t[i] \in FreshRows
  <2>1. Cap + 1 <= Cap + i /\ Cap + 1 \in 1..Len(s)
    BY <1>3
  <2>2. s[Cap + 1].ts <= s[Cap + i].ts
    BY <2>1, <1>8, <1>10
  <2>3. s[Cap + 1].ts \in Nat /\ s[Cap + i].ts \in Nat
    BY <2>1, <1>4, <1>5, <1>10
  <2>4. s[Cap + i].ts > since
    BY <2>2, <2>3, <1>9
  <2> QED
    BY <2>4, <1>7, <1>10
<1>12. t \in Seq(FreshRows) /\ ToSet(t) \subseteq ToSet(all)
  <2>1. t \in Seq(FreshRows)
    BY <1>10, <1>11
  <2> QED
    BY <2>1, <1>6, ElementsOf
<1>13. InTurn(t, "asc")
  <2>1. ASSUME NEW i \in 1..Len(t), NEW j \in 1..Len(t), i < j PROVE Ahead("asc", t[i], t[j])
    <3>1. Cap + i < Cap + j /\ i \in 1..(Cap + 1) /\ j \in 1..(Cap + 1)
      BY <2>1, <1>3, <1>10
    <3> QED
      BY <3>1, <1>4, <1>10 DEF InTurn
  <2> QED
    BY <2>1 DEF InTurn
<1>14. all \in Seq(FreshRows) /\ InTurn(all, "asc") /\ Len(all) \in Nat
  BY <1>6, BeginsElements DEF Begins
<1>15. /\ Cap + 1 <= Len(all)
       /\ all[Cap + 1] = t[Cap + 1] \/ Ahead("asc", all[Cap + 1], t[Cap + 1])
  <2>1. Cap + 1 \in 1..Len(t)
    BY <1>3, <1>10
  <2> QED
    BY <2>1, <1>6, <1>10, <1>12, <1>13, <1>14, FartherOn
<1>16. Last(s) = t[Cap + 1]
  <2>1. Cap + 1 \in 1..(Cap + 1) /\ Cap + (Cap + 1) = Len(s)
    BY <1>3
  <2> QED
    BY <2>1, <1>10 DEF Last
<1>17. Cap \in 1..Len(all) /\ Cap + 1 \in 1..Len(all) /\ Cap <= Cap + 1 /\ Len(all) > Cap
  BY <1>3, <1>14, <1>15
<1>18. all[Cap].ts <= all[Cap + 1].ts
  BY <1>6, <1>14, <1>17, TimesGrow
<1>19. all[Cap].ts \in Nat /\ all[Cap + 1].ts \in Nat /\ t[Cap + 1].ts \in Nat
  <2>1. all[Cap] \in Rows /\ all[Cap + 1] \in Rows
    BY <1>6, <1>14, <1>17
  <2>2. t[Cap + 1] \in E
    BY <1>3, <1>10
  <2> QED
    BY <2>1, <2>2, <1>5, WindowFacts
<1>20. all[Cap + 1].ts <= t[Cap + 1].ts
  BY <1>15, <1>19 DEF Ahead, Older
<1>21. all[Cap].ts <= Last(s).ts
  BY <1>16, <1>18, <1>19, <1>20
<1> QED
  BY <1>17, <1>21 DEF s, all

(* What a page that is not flagged keeps, and what it leaves behind.         *)
PageKeeps(all, horizons, rows) ==
  \/ all = <<>> /\ rows = <<>>
  \/ /\ rows # <<>> /\ all # <<>> /\ PageEnd(all) \in 1..Len(all)
     /\ Last(rows) \in ToSet(all)
     /\ \A r \in ToSet(all) \ ToSet(rows) : r.ts > Last(rows).ts
     /\ \/ Last(rows).ts = all[PageEnd(all)].ts /\ all[PageEnd(all)].ts \notin horizons
        \/ Last(rows).ts < all[PageEnd(all)].ts

LEMMA PageFacts ==
  ASSUME Bounds, NEW T, Distinct(T), NEW all \in Seq(T), InTurn(all, "asc"), NEW horizons,
         NEW page, page = PageOf(all, horizons)
  PROVE  /\ page.rows \in Seq(ToSet(all)) /\ ToSet(page.rows) \subseteq ToSet(all)
         /\ ~page.flagged => PageKeeps(all, horizons, page.rows)
<1> DEFINE e == PageEnd(all)
           pg == First(all, e)
           last == Last(pg)
           older == Among(pg, {r \in ToSet(pg) : r.ts # last.ts})
<1>1. /\ e \in 0..Len(all) /\ Len(all) \in Nat /\ Cap \in Nat \ {0}
      /\ Len(all) <= Cap => e = Len(all)
      /\ Len(all) > Cap => /\ e >= Cap /\ all[e].ts = all[Cap].ts
                           /\ e < Len(all) => all[e + 1].ts # all[Cap].ts
  BY PageEndIs, WindowFacts
<1> HIDE DEF e
<1>2. e \in Nat /\ e <= Len(all)
  BY <1>1
<1>3. /\ pg \in Seq(T) /\ Len(pg) = e
      /\ \A i \in 1..e : i \in 1..Len(all) /\ pg[i] = all[i]
  <2>1. /\ pg \in Seq(T) /\ Len(pg) = IF e < Len(all) THEN e ELSE Len(all)
        /\ \A i \in 1..Len(pg) : i \in 1..Len(all) /\ pg[i] = all[i]
    BY <1>2, FirstOf
  <2> HIDE DEF pg
  <2>2. Len(pg) = e
    BY <2>1, <1>1, <1>2
  <2> QED
    BY <2>1, <2>2
<1> HIDE DEF pg
<1>4. \A i, j \in 1..Len(all) : i <= j => all[i].ts <= all[j].ts
  BY TimesGrow
<1>5. \A r \in T : r.ts \in Int
  BY DEF Distinct, Point
<1>6. \A x : x \in ToSet(pg) <=> \E i \in 1..e : all[i] = x
  BY <1>3, ElementsOf
<1>7. /\ \A x : x \in ToSet(all) <=> \E i \in 1..Len(all) : all[i] = x
      /\ \A i \in 1..Len(all) : all[i] \in ToSet(all) /\ all[i] \in T
  BY ElementsOf
<1>8. ToSet(pg) \subseteq ToSet(all)
  BY <1>1, <1>6, <1>7
<1>9. \A i \in 1..e : pg[i] \in ToSet(pg)
  BY <1>3, ElementsOf
<1>10. ASSUME e # 0 PROVE last = all[e] /\ e \in 1..Len(all) /\ last \in ToSet(pg)
  BY <1>1, <1>3, <1>9, <1>10 DEF Last
<1>11. ASSUME NEW r \in ToSet(all) \ ToSet(pg) PROVE e # 0 /\ r.ts > all[e].ts
  <2>1. PICK k \in 1..Len(all) : all[k] = r
    BY <1>7
  <2>2. ~(k \in 1..e)
    BY <2>1, <1>6
  <2>3. e < Len(all) /\ e + 1 <= k
    BY <2>2, <1>1
  <2>4. Len(all) > Cap /\ e >= Cap /\ all[e].ts = all[Cap].ts /\ all[e + 1].ts # all[Cap].ts
    BY <2>3, <1>1
  <2>5. e # 0 /\ e \in 1..Len(all) /\ e + 1 \in 1..Len(all) /\ e <= e + 1
    BY <2>3, <2>4, <1>1
  <2>6. all[e].ts <= all[e + 1].ts /\ all[e + 1].ts <= all[k].ts
    BY <2>3, <2>5, <1>4
  <2>7. all[e].ts \in Int /\ all[e + 1].ts \in Int /\ all[k].ts \in Int
    BY <2>5, <1>5, <1>7
  <2> QED
    BY <2>1, <2>4, <2>5, <2>6, <2>7
<1>12. /\ older \in Seq(ToSet(pg))
       /\ ToSet(older) = {r \in ToSet(pg) : r.ts # last.ts}
  <2> DEFINE A == {r \in ToSet(pg) : r.ts # last.ts}
  <2>1. pg \in Seq(ToSet(pg))
    BY <1>3, ElementsOf
  <2>2. Begins(pg, ToSet(pg), "asc")
    <3>1. InTurn(pg, "asc")
      BY <1>3 DEF InTurn
    <3> QED
      BY <2>1, <3>1 DEF Begins
  <2> HIDE DEF A
  <2>3. Among(pg, A) \in Seq(ToSet(pg)) /\ ToSet(Among(pg, A)) = ToSet(pg) \cap A
    BY <2>1, <2>2, AmongPlaces, AmongBegins
  <2>4. ToSet(pg) \cap A = A
    BY DEF A
  <2> QED
    BY <2>3, <2>4 DEF A
<1>13. page = HoldBack(pg, horizons)
  BY DEF PageOf, pg, e
<1>14. \/ page.rows = pg /\ (pg = <<>> \/ last.ts \notin horizons)
       \/ page.rows = older /\ pg # <<>> /\ older # <<>>
       \/ page.rows = pg /\ page.flagged
  BY <1>13 DEF HoldBack
<1> HIDE DEF older, last
<1>15. page.rows \in Seq(ToSet(all)) /\ ToSet(page.rows) \subseteq ToSet(all)
  <2>1. pg \in Seq(ToSet(all)) /\ older \in Seq(ToSet(all))
    <3>1. pg \in Seq(ToSet(pg))
      BY <1>3, ElementsOf
    <3> QED
      BY <3>1, <1>8, <1>12
  <2>2. page.rows \in Seq(ToSet(all))
    BY <1>14, <2>1
  <2> QED
    BY <2>2, ElementsOf
<1>16. ASSUME ~page.flagged PROVE PageKeeps(all, horizons, page.rows)
  <2>1. CASE e = 0
    <3>1. Len(all) = 0
      BY <2>1, <1>1
    <3>2. pg = <<>> /\ all = <<>>
      BY <2>1, <3>1, <1>3
    <3> QED
      BY <1>14, <1>16, <3>2 DEF PageKeeps
  <2>2. CASE e # 0
    <3>1. /\ last = all[e] /\ e \in 1..Len(all) /\ last \in ToSet(pg) /\ last \in ToSet(all)
          /\ all # <<>> /\ pg # <<>> /\ last = Last(pg)
      <4>1. all # <<>> /\ pg # <<>>
        BY <2>2, <1>2, <1>3
      <4> QED
        BY <2>2, <1>8, <1>10, <4>1 DEF last
    <3>2. CASE page.rows = pg /\ last.ts \notin horizons
      <4>1. \A r \in ToSet(all) \ ToSet(pg) : r.ts > Last(pg).ts
        BY <3>1, <1>11
      <4> QED
        BY <3>1, <3>2, <4>1 DEF PageKeeps, e
    <3>3. CASE page.rows = older /\ older # <<>>
      <4> DEFINE o == Last(older)
      <4>1. o \in ToSet(older)
        <5>1. Len(older) # 0 /\ Len(older) \in Nat
          BY <3>3, <1>12
        <5>2. Len(older) \in 1..Len(older)
          BY <5>1
        <5>3. older[Len(older)] \in ToSet(older)
          BY <5>2, <1>12, ElementsOf
        <5> QED
          BY <5>3 DEF Last
      <4> HIDE DEF o
      <4>2. o \in ToSet(pg) /\ o.ts # last.ts /\ o \in ToSet(all)
        BY <4>1, <1>8, <1>12
      <4>3. o.ts < all[e].ts
        <5>1. PICK k \in 1..e : all[k] = o
          BY <4>2, <1>6
        <5>2. k <= e /\ k \in 1..Len(all)
          BY <1>1
        <5>3. all[k].ts <= all[e].ts /\ all[k].ts \in Int /\ all[e].ts \in Int
          BY <5>2, <3>1, <1>4, <1>5, <1>7
        <5> QED
          BY <5>1, <5>3, <4>2, <3>1
      <4>4. ASSUME NEW r \in ToSet(all) \ ToSet(older) PROVE r.ts > o.ts
        <5>1. r.ts \in Int /\ o.ts \in Int /\ all[e].ts \in Int
          BY <4>2, <3>1, <1>5, <1>7
        <5>2. r \in ToSet(pg) => r.ts = all[e].ts
          BY <4>4, <1>12, <3>1
        <5>3. r \notin ToSet(pg) => r.ts > all[e].ts
          BY <1>11, <4>4
        <5> QED
          BY <5>1, <5>2, <5>3, <4>3
      <4> QED
        BY <3>1, <3>3, <4>2, <4>3, <4>4 DEF PageKeeps, o, e
    <3> QED
      BY <1>14, <1>16, <3>1, <3>2, <3>3
  <2> QED
    BY <2>1, <2>2
<1> QED
  BY <1>15, <1>16

(* Of the turns behind the watermark, what a poll without a warning does not *)
(* return lies after its next watermark.                                     *)
LEMMA NothingLost ==
  ASSUME Bounds, ledger \subseteq Rows, since \in Nat, now \in Nat, NEW a, a = PollOnce(Results),
         ~a.flagged, ~a.truncated,
         \A q \in Queries : Cardinality({r \in ledger : Selected(r, q) /\ r.ts = since}) <= Cap,
         NEW r \in Turns(ledger), r.ts > since, r \notin ToSet(a.rows)
  PROVE  r.ts > a.next /\ a.rows # <<>>
<1> DEFINE all == Fresh(Results)
           H == Horizons(Results)
           page == PageOf(all, H)
           e == PageEnd(all)
<1>1. a = Answer(page, \E s \in Results : Truncated(s))
  BY DEF PollOnce
<1> HIDE DEF page
<1>2. /\ a.rows = page.rows /\ ~page.flagged /\ \A s \in Results : ~Truncated(s)
      /\ a.next = ClampNextSince(IF page.rows = <<>> THEN since ELSE Last(page.rows).ts)
  BY <1>1 DEF Answer
<1>3. /\ Begins(all, FreshRows, "asc") /\ ToSet(all) = FreshRows /\ Distinct(FreshRows)
      /\ FreshRows \subseteq Rows
  BY FreshBegins
<1> HIDE DEF all, H
<1>4. all \in Seq(FreshRows) /\ InTurn(all, "asc") /\ Len(all) \in Nat
  BY <1>3, BeginsElements DEF Begins
<1>5. PageKeeps(all, H, page.rows)
  BY <1>2, <1>3, <1>4, PageFacts DEF page
<1>6. PICK q \in Queries : Selected(r, q)
  BY DEF Turns
<1> DEFINE s == PollSource(q).rows
<1>7. r \in ledger /\ r \in Rows /\ r.ts \in Nat
  BY WindowFacts DEF Turns
<1>8. r \in Offered(q)
  BY <1>6, <1>7 DEF Offered, Source, Selected
<1>9. /\ Scanned(PollSource(q), q) /\ ~Truncated(PollSource(q))
      /\ PollSource(q) \in Results
  BY <1>2, SourceScanned DEF Results
<1>10. Begins(s, Offered(q), "asc") /\ (Len(s) = Window \/ ToSet(s) = Offered(q))
  <2>1. Len(s) <= Window /\ Len(s) \in Nat
    BY <1>9, BeginsElements DEF Scanned
  <2>2. PollSource(q).done => Len(s) = Window \/ ToSet(s) = Offered(q)
    BY <1>9 DEF Scanned
  <2>3. ~PollSource(q).done => ~(Len(s) < Window)
    BY <1>9 DEF Truncated
  <2>4. Begins(s, Offered(q), "asc")
    BY <1>9 DEF Scanned
  <2> HIDE DEF s
  <2> QED
    BY <2>1, <2>2, <2>3, <2>4, WindowFacts
<1>11. \A x \in ToSet(all) : x.ts \in Nat
  BY <1>3, WindowFacts
<1>12. page.rows # <<>> /\ r.ts > Last(page.rows).ts
  <2>1. CASE r \in ToSet(s)
    <3>1. r \in ToSet(all)
      BY <2>1, <1>3, <1>9 DEF FreshRows
    <3>2. all # <<>>
      BY <3>1 DEF ToSet
    <3> QED
      BY <3>1, <3>2, <1>2, <1>5 DEF PageKeeps
  <2>2. CASE r \notin ToSet(s)
    <3>1. Len(s) = Window
      BY <2>2, <1>8, <1>10
    <3>2. Len(all) > Cap /\ all[Cap].ts <= Last(s).ts
      BY <3>1, PageBehindHorizon DEF all
    <3>3. Last(s).ts \in H
      BY <3>1, <1>9 DEF H, Horizons
    <3>4. Len(s) # 0 /\ Cap \in Nat \ {0}
      BY <3>1, WindowFacts
    <3>5. Last(s) \in Offered(q) /\ ToSet(s) = Passed("asc", Offered(q), Last(s))
      <4>1. Distinct(Offered(q))
        BY EventsBegin, DistinctIn DEF Bounds, Offered, Source
      <4> HIDE DEF s
      <4> QED
        BY <3>4, <4>1, <1>10, BeginsLast
    <3>6. Last(s).ts <= r.ts /\ Last(s).ts \in Nat
      <4>1. Ahead("asc", Last(s), r)
        BY <3>5, <2>2, <1>8 DEF Passed
      <4>2. Last(s).ts \in Nat
        BY <3>5, WindowFacts DEF Offered, Source
      <4> QED
        BY <4>1, <4>2, <1>7 DEF Ahead, Older
    <3>7. all # <<>> /\ e \in 1..Len(all) /\ all[e].ts = all[Cap].ts
      <4>1. Len(all) # 0 /\ e >= Cap /\ all[e].ts = all[Cap].ts /\ e \in 0..Len(all)
        BY <3>2, <3>4, <1>4, PageEndIs
      <4>2. all # <<>>
        BY <4>1, <1>4
      <4> HIDE DEF e
      <4> QED
        BY <4>1, <4>2, <3>4, <1>4
    <3>8. /\ page.rows # <<>> /\ Last(page.rows) \in ToSet(all)
          /\ \/ Last(page.rows).ts = all[e].ts /\ all[e].ts \notin H
             \/ Last(page.rows).ts < all[e].ts
      BY <3>7, <1>5 DEF PageKeeps
    <3>9. all[e].ts \in Nat /\ Last(page.rows).ts \in Nat
      BY <3>7, <3>8, <1>4, <1>11, ElementsOf
    <3>10. all[e].ts <= Last(s).ts /\ (all[e].ts \notin H => all[e].ts # Last(s).ts)
      BY <3>2, <3>3, <3>7
    <3> HIDE DEF s, e
    <3> QED
      BY <3>6, <3>8, <3>9, <3>10, <1>7
  <2> QED
    BY <2>1, <2>2
<1>13. Last(page.rows).ts \in Nat
  <2>1. page.rows \in Seq(ToSet(all)) /\ ToSet(page.rows) \subseteq ToSet(all)
    BY <1>3, <1>4, PageFacts DEF page
  <2>2. Len(page.rows) \in 1..Len(page.rows)
    BY <2>1, <1>12
  <2>3. page.rows[Len(page.rows)] \in ToSet(all)
    BY <2>1, <2>2
  <2> QED
    BY <2>3, <1>11 DEF Last
<1> QED
  BY <1>2, <1>7, <1>12, <1>13 DEF ClampNextSince

(* Whatever the poll says, its rows are turns behind the watermark.          *)
LEMMA AnswerRows ==
  ASSUME Bounds, ledger \subseteq Rows, since \in Nat, now \in Nat, NEW a, a = PollOnce(Results)
  PROVE  /\ \A r \in ToSet(a.rows) : r \in ledger /\ since < r.ts
         /\ a.next \in Nat /\ a.next <= now /\ (since <= now => since <= a.next)
         /\ a = [rows |-> a.rows, flagged |-> a.flagged, truncated |-> a.truncated,
                 next |-> a.next]
<1> DEFINE all == Fresh(Results)
           H == Horizons(Results)
           page == PageOf(all, H)
           last == IF page.rows = <<>> THEN since ELSE Last(page.rows).ts
<1>1. a = Answer(page, \E s \in Results : Truncated(s))
  BY DEF PollOnce
<1> HIDE DEF page
<1>2. a.rows = page.rows /\ a.next = ClampNextSince(last)
  BY <1>1 DEF Answer
<1>3. /\ Begins(all, FreshRows, "asc") /\ ToSet(all) = FreshRows /\ Distinct(FreshRows)
      /\ FreshRows \subseteq Rows /\ FreshRows \subseteq ledger
  BY FreshBegins
<1> HIDE DEF all, H
<1>4. all \in Seq(FreshRows) /\ InTurn(all, "asc")
  BY <1>3 DEF Begins
<1>5. page.rows \in Seq(FreshRows) /\ ToSet(page.rows) \subseteq FreshRows
  BY <1>3, <1>4, PageFacts DEF page
<1>6. \A r \in FreshRows : r.ts \in Nat /\ since < r.ts
  BY <1>3, WindowFacts DEF FreshRows
<1>7. last \in Nat /\ since <= last
  <2>1. CASE page.rows = <<>>
    BY <2>1
  <2>2. CASE page.rows # <<>>
    <3>1. Len(page.rows) \in 1..Len(page.rows)
      BY <2>2, <1>5
    <3>2. page.rows[Len(page.rows)] \in FreshRows
      BY <3>1, <1>5
    <3> QED
      BY <3>2, <2>2, <1>6 DEF Last
  <2> QED
    BY <2>1, <2>2
<1>8. a = [rows |-> a.rows, flagged |-> a.flagged, truncated |-> a.truncated, next |-> a.next]
  BY <1>1 DEF Answer
<1>9. \A r \in ToSet(a.rows) : r \in ledger /\ since < r.ts
  BY <1>2, <1>3, <1>5, <1>6
<1> HIDE DEF last
<1> QED
  BY <1>2, <1>7, <1>8, <1>9 DEF ClampNextSince

--------------------------------------------------------------------------------
(* The invariant: what an answer on its way says of the ledger it was made   *)
(* from, and that everything delivered lies behind the watermark unless it   *)
(* was early.                                                                *)

CrowdedIn(rows) ==
  \E q \in Queries : Cardinality({r \in rows : Selected(r, q) /\ r.ts = since}) > Cap

AnswerHolds ==
  /\ \A r \in ToSet(answer.rows) : r \in polled /\ since < r.ts
  /\ answer.next \in Nat /\ answer.next <= now
  /\ delivered # {} => since <= answer.next
  /\ ~Warned /\ ~CrowdedIn(polled) => NothingLeftBehind

WaitInv ==
  /\ polled \subseteq ledger /\ ledger \subseteq Rows /\ since \in Nat /\ now \in Nat
  /\ delivered \subseteq Rows /\ (delivered # {} => since <= now)
  /\ \A r \in delivered : r.ts <= since \/ r \in early
  /\ pc = "answered" => AnswerHolds
  /\ pc # "answered" => answer.rows = <<>>

LEMMA WaitStart ==
  ASSUME Bounds, Init
  PROVE  WaitInv
<1>1. /\ ledger = {r \in ToSet(Events) : r.id \in Backlog} /\ now = 1 /\ since \in Starts
      /\ pc = "none" /\ answer = NoAnswer /\ polled = {} /\ delivered = {}
  BY DEF Init
<1>2. answer.rows = <<>>
  BY <1>1 DEF NoAnswer
<1>3. since \in Nat
  BY <1>1 DEF Bounds, WaitBounds
<1>4. ledger \subseteq Rows
  BY <1>1 DEF Rows
<1> QED
  BY <1>1, <1>2, <1>3, <1>4 DEF WaitInv

(* The rows of a millisecond only become more.                               *)
LEMMA CrowdedGrows ==
  ASSUME Bounds, NEW R, NEW U, R \subseteq U, U \subseteq Rows, CrowdedIn(R)
  PROVE  CrowdedIn(U)
<1>1. PICK q \in Queries : Cardinality({r \in R : Selected(r, q) /\ r.ts = since}) > Cap
  BY DEF CrowdedIn
<1> DEFINE A == {r \in R : Selected(r, q) /\ r.ts = since}
           B == {r \in U : Selected(r, q) /\ r.ts = since}
<1>2. A \subseteq B /\ B \subseteq Rows
  OBVIOUS
<1> HIDE DEF A, B
<1>3. IsFiniteSet(B) /\ IsFiniteSet(A)
  BY <1>2, RowsFinite, FS_Subset DEF Bounds
<1>4. Cardinality(A) \in Nat /\ Cardinality(B) \in Nat /\ Cardinality(A) <= Cardinality(B)
  BY <1>2, <1>3, FS_Subset, FS_CardinalityType
<1>5. Cardinality(B) > Cap
  BY <1>1, <1>4, WindowFacts DEF A
<1> QED
  BY <1>5 DEF CrowdedIn, B

LEMMA WaitPolls ==
  ASSUME Bounds, WaitInv, Poll
  PROVE  WaitInv'
<1> DEFINE a == PollOnce(Results)
<1>1. /\ pc = "due" /\ UNCHANGED <<ledger, now, since, delivered, early>>
      /\ \/ pc' = "answered" /\ answer' = a /\ polled' = ledger
         \/ pc' = "sleeping" /\ UNCHANGED <<answer, polled>>
  BY DEF Poll, Results
<1>2. CASE pc' = "sleeping" /\ UNCHANGED <<answer, polled>>
  BY <1>1, <1>2 DEF WaitInv
<1>3. CASE pc' = "answered" /\ answer' = a /\ polled' = ledger
  <2>1. ledger \subseteq Rows /\ since \in Nat /\ now \in Nat /\ (delivered # {} => since <= now)
    BY DEF WaitInv
  <2>2. /\ \A r \in ToSet(a.rows) : r \in ledger /\ since < r.ts
        /\ a.next \in Nat /\ a.next <= now /\ (since <= now => since <= a.next)
    BY <2>1, AnswerRows
  <2> HIDE DEF a
  <2>3. ASSUME ~a.flagged, ~a.truncated, ~CrowdedIn(ledger), NEW r \in Turns(ledger), r.ts > since,
               r \notin ToSet(a.rows)
        PROVE  r.ts > a.next /\ a.rows # <<>>
    <3>1. ASSUME NEW q \in Queries
          PROVE  Cardinality({x \in ledger : Selected(x, q) /\ x.ts = since}) <= Cap
      <4> DEFINE A == {x \in ledger : Selected(x, q) /\ x.ts = since}
      <4>1. Cardinality(A) \in Nat
        <5>1. A \subseteq Rows
          BY <2>1
        <5> HIDE DEF A
        <5> QED
          BY <5>1, RowsFinite, FS_Subset, FS_CardinalityType DEF Bounds
      <4>2. ~(Cardinality(A) > Cap)
        BY <2>3 DEF CrowdedIn
      <4> HIDE DEF A
      <4>3. Cardinality(A) <= Cap
        BY <4>1, <4>2, WindowFacts
      <4> QED
        BY <4>3 DEF A
    <3> QED
      BY <2>1, <2>3, <3>1, NothingLost DEF a
  <2>4. Turns(ledger)' = Turns(ledger) /\ CrowdedIn(polled)' = CrowdedIn(ledger)
    BY <1>1, <1>3 DEF Turns, CrowdedIn, Selected, WakeEligible
  <2>5. Warned' = (a.flagged \/ a.truncated)
    BY <1>3 DEF Warned
  <2>6. Undelivered' = {r \in Turns(ledger) : r.ts > since} \ ToSet(a.rows)
    BY <1>1, <1>3 DEF Undelivered, Turns, Selected, WakeEligible
  <2>7. ASSUME ~Warned', ~CrowdedIn(polled)' PROVE NothingLeftBehind'
    <3>1. ~a.flagged /\ ~a.truncated /\ ~CrowdedIn(ledger)
      BY <2>4, <2>5, <2>7
    <3>2. \A r \in Undelivered' : r.ts > a.next /\ a.rows # <<>>
      BY <2>3, <2>6, <3>1
    <3> QED
      BY <3>2, <1>3 DEF NothingLeftBehind
  <2>8. (AnswerHolds)'
    BY <2>1, <2>2, <2>7, <1>1, <1>3 DEF AnswerHolds
  <2> QED
    BY <2>1, <2>8, <1>1, <1>3 DEF WaitInv
<1> QED
  BY <1>1, <1>2, <1>3

(* What no answer and no watermark is changed by.                            *)
LEMMA WaitGoesOn ==
  ASSUME Bounds, WaitInv, ledger \subseteq ledger', ledger' \subseteq Rows,
         now' \in Nat, now <= now', (pc' = "answered" <=> pc = "answered"),
         UNCHANGED <<since, answer, polled, delivered, early>>
  PROVE  WaitInv'
<1>1. AnswerHolds => AnswerHolds'
  <2>1. /\ Turns(polled)' = Turns(polled) /\ CrowdedIn(polled)' = CrowdedIn(polled)
        /\ Warned' = Warned
    BY DEF Turns, CrowdedIn, Selected, WakeEligible, Warned
  <2>2. NothingLeftBehind' = NothingLeftBehind
    BY DEF NothingLeftBehind, Undelivered, Turns, Selected, WakeEligible
  <2>3. answer.next \in Nat /\ answer.next <= now => answer'.next <= now'
    BY DEF WaitInv
  <2> QED
    BY <2>1, <2>2, <2>3 DEF AnswerHolds
<1>2. delivered # {} => since <= now'
  BY DEF WaitInv
<1> QED
  BY <1>1, <1>2 DEF WaitInv

LEMMA WaitReceives ==
  ASSUME Bounds, WaitInv, Receive
  PROVE  WaitInv'
<1>1. /\ pc = "answered" /\ pc' = "none" /\ since' = answer.next
      /\ delivered' = delivered \cup ToSet(answer.rows)
      /\ early' = early \cup {r \in ToSet(answer.rows) : r.ts > answer.next}
      /\ answer' = NoAnswer /\ polled' = {} /\ UNCHANGED <<ledger, now>>
  BY DEF Receive
<1>2. AnswerHolds /\ polled \subseteq ledger /\ ledger \subseteq Rows /\ since \in Nat
      /\ now \in Nat /\ delivered \subseteq Rows
      /\ \A r \in delivered : r.ts <= since \/ r \in early
  BY <1>1 DEF WaitInv
<1>3. /\ \A r \in ToSet(answer.rows) : r \in Rows
      /\ answer.next \in Nat /\ answer.next <= now /\ (delivered # {} => since <= answer.next)
  BY <1>2 DEF AnswerHolds
<1>4. \A r \in Rows : r.ts \in Nat
  BY WindowFacts
<1>5. ASSUME NEW r \in delivered' PROVE r.ts <= since' \/ r \in early'
  <2>1. CASE r \in delivered
    <3>1. r.ts \in Nat /\ since <= answer.next
      BY <2>1, <1>2, <1>3, <1>4
    <3> QED
      BY <3>1, <2>1, <1>1, <1>2, <1>3
  <2>2. CASE r \in ToSet(answer.rows)
    <3>1. r.ts \in Nat
      BY <2>2, <1>3, <1>4
    <3> QED
      BY <3>1, <2>2, <1>1, <1>3
  <2> QED
    BY <1>1, <2>1, <2>2
<1>6. answer'.rows = <<>>
  BY <1>1 DEF NoAnswer
<1> QED
  BY <1>1, <1>2, <1>3, <1>5, <1>6 DEF WaitInv

LEMMA WaitStep ==
  ASSUME Bounds, WaitInv, [Next]_vars
  PROVE  WaitInv'
<1>1. ledger \subseteq Rows /\ now \in Nat
  BY DEF WaitInv
<1>2. CASE Capture
  <2>1. PICK r \in ToSet(Events) \ ledger : ledger' = AppendEvent(ledger, r)
    BY <1>2 DEF Capture
  <2>2. ledger \subseteq ledger' /\ ledger' \subseteq Rows
    BY <2>1, <1>1 DEF AppendEvent, Rows
  <2> QED
    BY <2>2, <1>1, <1>2, WaitGoesOn DEF Capture
<1>3. CASE Tick
  BY <1>1, <1>3, WaitGoesOn DEF Tick
<1>4. CASE Call
  BY <1>1, <1>4, WaitGoesOn DEF Call
<1>5. CASE Poll
  BY <1>5, WaitPolls
<1>6. CASE Wake
  BY <1>1, <1>6, WaitGoesOn DEF Wake
<1>7. CASE Receive
  BY <1>7, WaitReceives
<1>8. CASE Abort
  <2>1. /\ pc' = "none" /\ answer' = NoAnswer /\ polled' = {}
        /\ UNCHANGED <<ledger, now, since, delivered, early>>
    BY <1>8 DEF Abort
  <2>2. answer'.rows = <<>>
    BY <2>1 DEF NoAnswer
  <2> QED
    BY <2>1, <2>2 DEF WaitInv
<1>9. CASE UNCHANGED vars
  BY <1>1, <1>9, WaitGoesOn DEF vars
<1> QED
  BY <1>2, <1>3, <1>4, <1>5, <1>6, <1>7, <1>8, <1>9 DEF Next

(* What the invariant says of the answers.                                   *)
LEMMA WaitHolds ==
  ASSUME Bounds, WaitInv
  PROVE  ChainingIsLossless /\ DeliveredOnce
<1>1. ChainingIsLossless
  <2> SUFFICES ASSUME pc = "answered", ~Warned, ~Crowded PROVE NothingLeftBehind
    BY DEF ChainingIsLossless
  <2>1. ~CrowdedIn(ledger)
    BY DEF Crowded, CrowdedIn
  <2>2. ~CrowdedIn(polled)
    <3>1. polled \subseteq ledger /\ ledger \subseteq Rows
      BY DEF WaitInv
    <3> QED
      BY <2>1, <3>1, CrowdedGrows
  <2> QED
    BY <2>2 DEF WaitInv, AnswerHolds
<1>2. DeliveredOnce
  <2> SUFFICES ASSUME NEW r \in delivered, r \in ToSet(answer.rows) PROVE r \in early
    BY DEF DeliveredOnce
  <2>1. pc = "answered"
    <3>1. answer.rows # <<>>
      BY DEF ToSet
    <3> QED
      BY <3>1 DEF WaitInv
  <2>2. since < r.ts /\ r.ts \in Nat /\ since \in Nat
    <3>1. r \in Rows
      BY DEF WaitInv
    <3> QED
      BY <2>1, <3>1, WindowFacts DEF WaitInv, AnswerHolds
  <2> QED
    BY <2>2 DEF WaitInv
<1> QED
  BY <1>1, <1>2

(* Chaining next_since loses no turn without a warning and repeats none, for  *)
(* every cap, window, budget and universe of events.                          *)
THEOREM ChainedWaits ==
  ASSUME WaitBounds
  PROVE  Spec => [](ChainingIsLossless /\ DeliveredOnce)
<1>1. Bounds
  BY EventsInOrder, StorageBudgets DEF Bounds
<1>2. Init => WaitInv
  BY <1>1, WaitStart
<1>3. WaitInv /\ [Next]_vars => WaitInv'
  BY <1>1, WaitStep
<1>4. WaitInv => ChainingIsLossless /\ DeliveredOnce
  BY <1>1, WaitHolds
<1> QED
  BY <1>2, <1>3, <1>4, PTL DEF Spec
================================================================================
