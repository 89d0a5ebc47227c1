-------------------------- MODULE WaitForNewTurns --------------------------
(***************************************************************************)
(* wait_for_new_turns: a client tails the ledger by calling with the       *)
(* next_since of its last answer, over and over.                           *)
(*                                                                         *)
(* The server keeps nothing between calls.  A call polls at once and then, *)
(* while it has nothing to say, sleeps and polls again until its deadline. *)
(* One poll runs without the event loop turning (the storage adapter is    *)
(* synchronous), so a poll is one step; events are captured, time passes   *)
(* and the client may give up between polls.                               *)
(*                                                                         *)
(* The watermark is a bare timestamp and events arrive with timestamps of  *)
(* the past, of the same millisecond or, from a skewed clock, of the       *)
(* future; a poll reads a bounded window of each source.                   *)
(***************************************************************************)
EXTENDS EventLedger

CONSTANTS
  Queries,      \* the selectors of the call: a set of [scans, keeps]
  Cap,          \* WAIT_MAX_RETURNED_TURNS
  ScanWindows,  \* WAIT_MAX_STORAGE_SCAN_WINDOWS
  Timeout,      \* the timeout of a call, in ticks; a poll interval is one tick
  Backlog,      \* the ids captured before the client begins
  Starts,       \* the watermarks the client may begin with
  Skew,         \* how far ahead of the server's clock a timestamp may be
  MaxTime,      \* bound: the clock stops here, and a call no longer waits
  MaxAborts     \* bound: calls that are cancelled

Window == 2 * Cap + 1     \* WAIT_PER_POLL_LIMIT_PER_SOURCE

WaitBounds ==
  /\ Cap \in Nat \ {0} /\ ScanWindows \in Nat \ {0} /\ Window <= PageRows * MaxPages
  /\ \A r \in ToSet(Events) : r.ts \in 1..MaxTime
  /\ Starts \subseteq Nat /\ MaxTime \in Nat

VARIABLES
  ledger,     \* the events captured so far
  now,        \* the server's clock
  since,      \* the client's watermark
  pc,         \* the call: "none", "due", "sleeping" or "answered"
  deadline,   \* when the call times out
  wake,       \* when a sleeping call polls again
  answer,     \* the answer on its way to the client
  aborts,     \* calls cancelled so far
  polled,     \* history: the ledger of the poll that was answered
  delivered,  \* history: the events the client has received
  early       \* history: those of them whose timestamp was still ahead

vars == <<ledger, now, since, pc, deadline, wake, answer, aborts, polled,
          delivered, early>>

----------------------------------------------------------------------------
(* One source of one poll: windows of storage until there are enough       *)
(* eligible rows or the source is exhausted.                               *)

WakeEligible(r) == r.kind # "inherited"

PollFilter(q, after, n) ==
  [scans |-> q.scans, keeps |-> q.keeps, post |-> TRUE, since |-> since,
   until |-> MaxTime + 1, order |-> "asc", cursor |-> after, limit |-> n]

SourceStart == [rows |-> <<>>, after |-> {}, pageRows |-> Window, done |-> FALSE]

\* The rows of s that wake a client.
Waking(s) == Among(s, {r \in ToSet(s) : WakeEligible(r)})

\* A scan cut short goes on behind its cursor; a full page goes on behind its
\* last row, eligible or not; a short page is the end of the source.
SourcePage(s, page) ==
  LET seen   == page.answer.rows
      sparse == page.answer.kind = "scan_budget_exceeded"
      rows   == s.rows \o Waking(seen)
      ended  == Len(rows) >= Window \/ (~sparse /\ Len(seen) < page.limit)
  IN  [rows |-> First(rows, Window),
       after |-> IF ended THEN {}
                 ELSE IF sparse THEN page.answer.cursor ELSE {CursorOf(Last(seen))},
       pageRows |-> IF sparse THEN s.pageRows ELSE page.limit,
       done |-> ended]

SourceLimit(s) ==
  IF s.pageRows < Window - Len(s.rows) THEN s.pageRows ELSE Window - Len(s.rows)

SourceWindow(s, q) ==
  SourcePage(s, AdaptivePage(ledger, PollFilter(q, s.after, SourceLimit(s))))

PollSource(q) ==
  LET scan[n \in Nat] ==
        IF n = 0 THEN SourceStart
        ELSE IF scan[n - 1].done THEN scan[n - 1] ELSE SourceWindow(scan[n - 1], q)
  IN  scan[ScanWindows]

Truncated(s) == ~s.done /\ Len(s.rows) < Window

----------------------------------------------------------------------------
(* The page made of all sources.                                           *)

\* Mutant: keep the rows at the watermark that storage returns.
FreshFromSince(results) ==
  InOrder({r \in UNION {ToSet(s.rows) : s \in results} : r.ts >= since}, "asc")

\* storage answers from `since` on; the contract is strictly after it.
Fresh(results) ==
  InOrder({r \in UNION {ToSet(s.rows) : s \in results} : r.ts > since}, "asc")

\* A source that filled its window may have more rows of its last timestamp.
Horizons(results) ==
  {Last(s.rows).ts : s \in {t \in results : Len(t.rows) = Window}}

\* Mutant: cut at the cap, through a millisecond if need be.
PageEndAtCap(all) == IF Len(all) <= Cap THEN Len(all) ELSE Cap

\* The oldest Cap rows and the rest of the last one's timestamp.
PageEnd(all) ==
  IF Len(all) <= Cap THEN Len(all)
  ELSE CHOOSE n \in Cap..Len(all) :
         /\ all[n].ts = all[Cap].ts
         /\ n < Len(all) => all[n + 1].ts # all[Cap].ts

\* Mutant: give the last timestamp back even when nothing else is left.
HoldBackAlways(all, horizons) ==
  LET older == Among(all, {r \in ToSet(all) : r.ts # Last(all).ts})
  IN  [rows |-> IF all = <<>> \/ Last(all).ts \notin horizons THEN all ELSE older,
       flagged |-> FALSE]

\* A page that ends at a horizon gives its last timestamp back, unless it
\* consists of nothing else.
HoldBack(all, horizons) ==
  LET older == Among(all, {r \in ToSet(all) : r.ts # Last(all).ts})
  IN  IF all = <<>> \/ Last(all).ts \notin horizons
        THEN [rows |-> all, flagged |-> FALSE]
      ELSE IF older # <<>>
        THEN [rows |-> older, flagged |-> FALSE]
        ELSE [rows |-> all, flagged |-> TRUE]

PageOf(all, horizons) == HoldBack(First(all, PageEnd(all)), horizons)

\* next_since is the last timestamp returned, or the caller's, and never ahead
\* of the server's clock.
ClampNextSince(t) == IF t > now THEN now ELSE t

Answer(page, truncated) ==
  [rows |-> page.rows, flagged |-> page.flagged, truncated |-> truncated,
   next |-> ClampNextSince(IF page.rows = <<>> THEN since ELSE Last(page.rows).ts)]

PollOnce(results) ==
  Answer(PageOf(Fresh(results), Horizons(results)), \E s \in results : Truncated(s))

----------------------------------------------------------------------------

NoAnswer == [rows |-> <<>>, flagged |-> FALSE, truncated |-> FALSE, next |-> 0]

Init ==
  /\ ledger = {r \in ToSet(Events) : r.id \in Backlog}
  /\ now = 1 /\ since \in Starts
  /\ pc = "none" /\ deadline = 0 /\ wake = 0 /\ answer = NoAnswer /\ aborts = 0
  /\ polled = {} /\ delivered = {} /\ early = {}

Capture ==
  /\ \E r \in ToSet(Events) \ ledger : r.ts <= now + Skew /\ ledger' = AppendEvent(ledger, r)
  /\ UNCHANGED <<now, since, pc, deadline, wake, answer, aborts, polled, delivered, early>>

Tick ==
  /\ now < MaxTime /\ now' = now + 1
  /\ UNCHANGED <<ledger, since, pc, deadline, wake, answer, aborts, polled, delivered, early>>

Call ==
  /\ pc = "none"
  /\ pc' = "due" /\ deadline' = now + Timeout
  /\ UNCHANGED <<ledger, now, since, wake, answer, aborts, polled, delivered, early>>

Expired == now >= deadline \/ now = MaxTime

\* An answer that carries turns, or reports a truncated scan, is given at once;
\* an empty one at the deadline.
Poll ==
  /\ pc = "due"
  /\ \E a \in {PollOnce({PollSource(q) : q \in Queries})} :
       IF a.rows # <<>> \/ a.truncated \/ Expired
         THEN pc' = "answered" /\ answer' = a /\ polled' = ledger /\ UNCHANGED wake
         ELSE /\ pc' = "sleeping"
              /\ wake' = IF deadline < now + 1 THEN deadline ELSE now + 1
              /\ UNCHANGED <<answer, polled>>
  /\ UNCHANGED <<ledger, now, since, deadline, aborts, delivered, early>>

Wake ==
  /\ pc = "sleeping" /\ (now >= wake \/ now = MaxTime)
  /\ pc' = "due"
  /\ UNCHANGED <<ledger, now, since, deadline, wake, answer, aborts, polled, delivered, early>>

Receive ==
  /\ pc = "answered"
  /\ pc' = "none" /\ since' = answer.next
  /\ delivered' = delivered \cup ToSet(answer.rows)
  /\ early' = early \cup {r \in ToSet(answer.rows) : r.ts > answer.next}
  /\ answer' = NoAnswer /\ polled' = {}
  /\ UNCHANGED <<ledger, now, deadline, wake, aborts>>

\* The client cancels: the call ends without an answer, or its answer is lost,
\* and the client keeps its watermark.
Abort ==
  /\ pc # "none" /\ aborts < MaxAborts
  /\ pc' = "none" /\ aborts' = aborts + 1 /\ answer' = NoAnswer /\ polled' = {}
  /\ UNCHANGED <<ledger, now, since, deadline, wake, delivered, early>>

Next == Capture \/ Tick \/ Call \/ Poll \/ Wake \/ Receive \/ Abort

\* Time passes, the event loop runs what is due, and the client keeps calling.
\* Poll is enabled exactly while a poll is due, so that its weak fairness says
\* that a poll does not stay due.
Spec ==
  /\ Init /\ [][Next]_vars
  /\ WF_vars(Tick) /\ WF_vars(Call) /\ WF_vars(Wake) /\ WF_vars(Receive)
  /\ []<>(pc # "due")

----------------------------------------------------------------------------

Selected(r, q) == r.class \in q.scans /\ r.class \in q.keeps /\ WakeEligible(r)

Turns(rows) == {r \in rows : \E q \in Queries : Selected(r, q)}

\* More turns of one source share the watermark than a page normally carries.
Crowded ==
  \E q \in Queries : Cardinality({r \in ledger : Selected(r, q) /\ r.ts = since}) > Cap

Warned == answer.flagged \/ answer.truncated

Undelivered == {r \in Turns(polled) : r.ts > since} \ ToSet(answer.rows)

\* What an answer leaves behind lies after its next_since, so that the next
\* call still asks for it, and an answer is empty only when there is nothing.
NothingLeftBehind ==
  /\ \A r \in Undelivered : r.ts > answer.next
  /\ answer.rows = <<>> => Undelivered = {}

\* Chaining loses no turn: unless the answer warns, or the watermark's own
\* millisecond crowds the window, every turn that was in the ledger is either
\* in the answer or still ahead of the next watermark.
ChainingIsLossless ==
  pc = "answered" /\ ~Warned /\ ~Crowded => NothingLeftBehind

\* The same without the exception for a crowded millisecond: the only answers
\* that leave turns behind are those that say so.
LossyOnlyWhenFlagged ==
  pc = "answered" /\ ~Warned => NothingLeftBehind

\* No turn is delivered twice, except one whose timestamp was ahead of the
\* server's clock when it was first delivered.
DeliveredOnce == delivered \cap ToSet(answer.rows) \subseteq early

\* The client always catches up again, also with turns that were held back: there
\* comes a time when each turn in the ledger was received or lies behind the
\* watermark, or the client is warned or stands on a crowded millisecond.
TurnsArrive ==
  []<>((\A r \in Turns(ledger) : r \in delivered \/ r.ts <= since) \/ Warned \/ Crowded)
=============================================================================
