---------------------------- MODULE JsonlCapture ----------------------------
(***************************************************************************)
(* Durable capture of one growing JSONL transcript by the Claude Code      *)
(* extractor: handleJsonlChange of src/capture/extractors/claude-code.ts   *)
(* and the source proofs of src/capture/extractors/_shared.ts.             *)
(*                                                                         *)
(* A handler run loads the durable checkpoint, proves that the file still  *)
(* is the one the checkpoint was taken from, reads one bounded page,       *)
(* appends the closed turns to the event ledger one at a time and          *)
(* checkpoints after each.  The agent that owns the transcript writes it   *)
(* at any moment, so every step below may find the file changed.           *)
(*                                                                         *)
(* Offsets count complete lines, not bytes; a SHA-256 proof is the slice   *)
(* of lines it digests.  An unterminated last record is invisible to the   *)
(* reader (readJsonlTail stops at the last newline) and is left out.       *)
(***************************************************************************)
EXTENDS Transcript

CONSTANTS
  PageLines,      \* MAX_JSONL_READ_BYTES
  BoundaryLines,  \* JSONL_CHECKPOINT_BOUNDARY_BYTES
  FragmentLines,  \* MAX_JSONL_RAW_FRAGMENT_BYTES
  MaxLines,       \* bound: lines in the file
  MaxWrites,      \* bound: writes to the file, of every kind
  MaxRewrites,    \* bound: those that change or cut lines in place
  MaxReplaces,    \* bound: those that rename another file over the path
  MaxAborts,      \* bound: crashes and failed storage calls
  None            \* an absent (undefined) field

ASSUME SizesArePositive ==
  /\ PageLines \in Nat \ {0}
  /\ BoundaryLines \in Nat
  /\ FragmentLines \in Nat \ {0}

ASSUME BoundsAreNatural ==
  /\ MaxLines \in Nat /\ MaxWrites \in Nat /\ MaxRewrites \in Nat
  /\ MaxReplaces \in Nat /\ MaxAborts \in Nat

VARIABLES
  file,        \* the transcript: identity (dev:ino:birthtime), change token, lines
  checkpoint,  \* the durable capture checkpoint of the path
  ledger,      \* the events appended under a dedupe key
  pc,          \* what the handler does next
  cur,         \* checkpoint entry this run works from
  latest,      \* latestDurableEntry, what the catch block rewinds from
  seen,        \* sourceAtResume
  snap,        \* readSnapshot, and pageStart, which is taken with it
  at,          \* end offset of the last turn or fragment processed
  next,        \* nextTurnIndex, or the next fragment number
  back,        \* where a rewind in progress will restart
  swallowed,   \* history: dedupe keys that dropped a different turn
  rewrites,    \* in-place writes so far
  aborts       \* crashes and failures so far

local    == <<cur, latest, seen, snap, at, next, back>>
durable  == <<checkpoint, ledger, swallowed>>
vars     == <<file, durable, pc, local, rewrites, aborts>>

-----------------------------------------------------------------------------
(* Proofs over line ranges.                                                *)

Boundary(lines, o) ==
  Slice(lines, IF o > BoundaryLines THEN o - BoundaryLines ELSE 0, o)

PageOf(lines, a, b) == [from |-> a, lines |-> Slice(lines, a, b)]

Through(page) == page.from + Len(page.lines)

(* Offsets at which a user line of the page starts; the least one is       *)
(* firstUserOffset.                                                        *)
UserOffsets(lines, from, through) ==
  { o \in from .. (through - 1) : lines[o + 1] \in UserLines }

-----------------------------------------------------------------------------
(* Checkpoint entries and the proofs they carry.                           *)

Inspect(o, page) ==
  [identity |-> file.identity, token |-> file.token,
   size     |-> Len(file.lines), boundary |-> Boundary(file.lines, o),
   page     |-> page]

(* readSnapshot.sourceAt(o, through): the proof of the page read so far.   *)
SourceAt(o, through) ==
  [identity |-> snap.identity, token |-> snap.token,
   size     |-> snap.size, boundary |-> Boundary(snap.lines, o),
   page     |-> PageOf(snap.lines, snap.from, through)]

Fresh ==
  [offset |-> 0, turnIndex |-> -1, generation |-> 0, source |-> None,
   pageStart |-> None, inflight |-> None, rawFallback |-> None]

PageStartOf(e) ==
  [offset |-> e.offset, turnIndex |-> e.turnIndex, rawFallback |-> e.rawFallback]

PageIntact(page) ==
  /\ Through(page) <= Len(file.lines)
  /\ Slice(file.lines, page.from, Through(page)) = page.lines

Replaced(e) == e.source.identity # file.identity

(* Mutant: growth is taken for a change of the durable prefix.             *)
DurableProofHoldsUngrown(e) ==
  /\ e.offset <= Len(file.lines)
  /\ e.source # None =>
       /\ ~Replaced(e)
       /\ e.source.size = Len(file.lines)
       /\ Boundary(file.lines, e.offset) = e.source.boundary

(* classifyJsonlDiscontinuity finds no fault with the durable prefix.      *)
DurableProofHolds(e) ==
  /\ e.offset <= Len(file.lines)
  /\ e.source # None =>
       /\ ~Replaced(e)
       /\ e.source.page # None => PageIntact(e.source.page)
       /\ \/ e.source.page # None
          \/ e.source.size # Len(file.lines)
          \/ e.source.token = file.token
       /\ Boundary(file.lines, e.offset) = e.source.boundary

InflightHolds(e) ==
  e.inflight # None => ~Replaced(e) /\ PageIntact(e.inflight)

(* inspectJsonlCheckpointProof answers "current".                          *)
ProofCurrent(e) == InflightHolds(e) /\ DurableProofHolds(e)

(* It answers "changed" with retry_at_durable_boundary: only the part of   *)
(* the in-flight page behind the durable offset was rewritten.             *)
RetryAtDurable(e) ==
  /\ ~InflightHolds(e)
  /\ e.source # None /\ e.source.page # None
  /\ ~Replaced(e)
  /\ DurableProofHolds(e)

(* The discontinuity is "page_rewritten" and the page start is still there.*)
BoundedRewind(e) ==
  /\ e.offset <= Len(file.lines)
  /\ e.source # None
  /\ ~Replaced(e)
  /\ e.source.page # None /\ ~PageIntact(e.source.page)
  /\ e.pageStart # None /\ e.pageStart.offset <= Len(file.lines)

RewindPoint(e) ==
  IF BoundedRewind(e) THEN e.pageStart
  ELSE [offset |-> 0, turnIndex |-> e.turnIndex, rawFallback |-> None]

\* Mutant: the reset keeps the old page start.
RestartKeepingPageStart(e, point, page) ==
  [offset |-> point.offset, turnIndex |-> point.turnIndex,
   generation |-> e.generation + 1, source |-> Inspect(point.offset, page),
   pageStart |-> e.pageStart, inflight |-> None, rawFallback |-> point.rawFallback]

\* Mutant: the reset reuses the generation.
RestartInGeneration(e, point, page) ==
  [offset |-> point.offset, turnIndex |-> point.turnIndex,
   generation |-> e.generation, source |-> Inspect(point.offset, page),
   pageStart |-> None, inflight |-> None, rawFallback |-> point.rawFallback]

(* The entry a reset or rewind of entry e saves: the next generation, from *)
(* the given point, with no page start and no in-flight page.              *)
Restart(e, point, page) ==
  [offset |-> point.offset, turnIndex |-> point.turnIndex,
   generation |-> e.generation + 1, source |-> Inspect(point.offset, page),
   pageStart |-> None, inflight |-> None, rawFallback |-> point.rawFallback]

(* Mutant: only the boundary bytes are compared.                           *)
BoundaryBytesCurrent ==
  /\ cur.offset <= Len(file.lines)
  /\ Boundary(file.lines, cur.offset) = seen.boundary

(* assertJsonlSourceSnapshotCurrent(path, sourceAtResume).                 *)
BoundaryCurrent ==
  /\ file.identity = seen.identity
  /\ cur.offset <= Len(file.lines)
  /\ Boundary(file.lines, cur.offset) = seen.boundary

(* assertJsonlReadSnapshotCurrent on lines from+1 .. through of the page.  *)
RangeCurrent(from, through) ==
  /\ file.identity = snap.identity
  /\ through <= Len(file.lines)
  /\ Slice(file.lines, from, through) = Slice(snap.lines, from, through)

PageEnd == Len(snap.lines)
PageCurrent == RangeCurrent(snap.from, PageEnd)

-----------------------------------------------------------------------------
(* The ledger: storage.append with a dedupe key, first write wins.         *)

Key(x) == IF x.raw THEN <<x.generation, x.from, x.offset, x.lines>>
                   ELSE <<x.generation, x.offset>>

Record(x) ==
  LET held == { y \in ledger : Key(y) = Key(x) } IN
  /\ ledger' = IF held = {} THEN ledger \cup {x} ELSE ledger
  /\ swallowed' = IF \E y \in held : y.lines # x.lines
                  THEN swallowed \cup {Key(x)} ELSE swallowed

(* What a run still has to emit, nearest first.                            *)
Pending ==
  { t \in Turns(snap.lines, snap.from, PageEnd) : t.offset > at }

(* Mutant: the newest turn of the page first.                              *)
LastTurn == CHOOSE t \in Pending : \A u \in Pending : u.offset <= t.offset

NextTurn == CHOOSE t \in Pending : \A u \in Pending : t.offset <= u.offset

TurnEvent(t) ==
  [raw |-> FALSE, generation |-> cur.generation, from |-> t.from,
   offset |-> t.offset, lines |-> t.lines, identity |-> snap.identity,
   index |-> next]

-----------------------------------------------------------------------------
(* Initial states: a transcript nobody has captured yet.                   *)

Rested ==
  /\ pc = "idle"
  /\ cur = Fresh /\ latest = Fresh
  /\ seen = None /\ snap = None /\ back = None
  /\ at = 0 /\ next = 0

Init ==
  /\ \E lines \in Contents :
       file = [identity |-> 0, token |-> 0, lines |-> lines]
  /\ checkpoint = Fresh
  /\ ledger = {} /\ swallowed = {}
  /\ Rested
  /\ rewrites = 0 /\ aborts = 0

(* The run returns or rethrows: its local state is gone.                   *)
Rest ==
  /\ pc' = "idle"
  /\ cur' = Fresh /\ latest' = Fresh
  /\ seen' = None /\ snap' = None /\ back' = None
  /\ at' = 0 /\ next' = 0

Goto(label) == pc' = label

(* A source proof failed: control enters the catch block.                  *)
Caught ==
  /\ Goto("caught")
  /\ UNCHANGED <<file, durable, local, rewrites, aborts>>

(* saveCheckpoint: upsert, then the same entry in the bounded cache.       *)
Save(e) ==
  /\ checkpoint' = e
  /\ latest' = e
  /\ UNCHANGED <<ledger, swallowed>>

-----------------------------------------------------------------------------
(* The handler, one action per stretch between two awaits whose order      *)
(* against the writer matters.  A proof that fails before an operation and *)
(* the same proof failing right after the previous one lead to the same    *)
(* catch, so an operation is one action with the proof in front of it.     *)

(* loadCheckpoint and inspectJsonlCheckpointProof.  A watch event, a probe *)
(* or a retry may start a run at any time the queue is idle.               *)
Resume ==
  /\ pc = "idle"
  /\ \/ /\ ProofCurrent(checkpoint)
        /\ seen' = Inspect(checkpoint.offset,
                     IF checkpoint.source = None THEN None
                     ELSE checkpoint.source.page)
        /\ cur' = checkpoint /\ latest' = checkpoint
        /\ Goto("read")
        /\ UNCHANGED <<durable, back>>
     \/ /\ ~ProofCurrent(checkpoint) /\ RetryAtDurable(checkpoint)
        /\ LET e == Restart(checkpoint, PageStartOf(checkpoint),
                            checkpoint.source.page)
           IN  Save(e) /\ cur' = e /\ seen' = e.source
        /\ Goto("read")
        /\ UNCHANGED back
     \/ /\ ~ProofCurrent(checkpoint) /\ ~RetryAtDurable(checkpoint)
        /\ cur' = checkpoint /\ latest' = checkpoint
        /\ back' = RewindPoint(checkpoint)
        /\ Goto("reset")
        /\ UNCHANGED <<durable, seen>>
  /\ UNCHANGED <<file, snap, at, next, rewrites, aborts>>

(* The reset inspects the retry offset afresh and persists the generation  *)
(* before anything is emitted.  If the file shrank below that offset       *)
(* meanwhile, makeJsonlCheckpointSource throws and the run fails.          *)
Reset ==
  /\ pc = "reset"
  /\ \/ /\ back.offset <= Len(file.lines)
        /\ LET e == Restart(cur, back, None)
           IN  Save(e) /\ cur' = e /\ seen' = e.source
        /\ back' = None
        /\ Goto("read")
        /\ UNCHANGED <<snap, at, next>>
     \/ /\ back.offset > Len(file.lines)
        /\ Rest /\ UNCHANGED durable
  /\ UNCHANGED <<file, rewrites, aborts>>

(* readJsonlTail: the unread lines, at most one page of them.  The page    *)
(* start (pageStart) is taken once, from the entry the page is read at:    *)
(* every save of the page names it, also when raw mode has ended since.    *)
ReadTail ==
  /\ pc = "read"
  /\ snap' = IF Len(file.lines) <= cur.offset THEN None
             ELSE LET through == IF Len(file.lines) - cur.offset > PageLines
                                 THEN cur.offset + PageLines
                                 ELSE Len(file.lines)
                  IN  [identity |-> file.identity, token |-> file.token,
                       size |-> Len(file.lines), from |-> cur.offset,
                       start |-> PageStartOf(cur),
                       lines |-> Slice(file.lines, 0, through)]
  /\ Goto("bound")
  /\ UNCHANGED <<file, durable, cur, latest, seen, at, next, back, rewrites, aborts>>

CheckBoundary ==
  /\ pc = "bound"
  /\ BoundaryCurrent
  /\ IF snap = None
     THEN Goto("page") /\ at' = cur.offset /\ next' = cur.turnIndex + 1
     ELSE Goto("ahead") /\ UNCHANGED <<at, next>>
  /\ UNCHANGED <<file, durable, cur, latest, seen, snap, back, rewrites, aborts>>

(* An entry at offset o of the page that was read.                         *)
EntryAt(o, turnIndex, inflight, rawFallback) ==
  [offset |-> o, turnIndex |-> turnIndex, generation |-> cur.generation,
   source |-> SourceAt(o, o), pageStart |-> snap.start,
   inflight |-> inflight, rawFallback |-> rawFallback]

InflightPage == PageOf(snap.lines, cur.offset, PageEnd)

(* Mutants: the page in flight is proved as if it were accepted; the       *)
(* write-ahead checkpoint forgets the page in flight.                      *)
SaveAheadAsAccepted ==
  /\ pc = "ahead"
  /\ PageCurrent
  /\ Save([EntryAt(cur.offset, cur.turnIndex, InflightPage, cur.rawFallback)
             EXCEPT !.source = SourceAt(cur.offset, PageEnd)])
  /\ Goto("aheadSaved")
  /\ UNCHANGED <<file, cur, seen, snap, at, next, back, rewrites, aborts>>

SaveAheadWithoutPage ==
  /\ pc = "ahead"
  /\ PageCurrent
  /\ Save(EntryAt(cur.offset, cur.turnIndex, None, cur.rawFallback))
  /\ Goto("aheadSaved")
  /\ UNCHANGED <<file, cur, seen, snap, at, next, back, rewrites, aborts>>

(* The write-ahead checkpoint: the durable offset stays, and the proof of  *)
(* the whole page in flight is persisted before any of it is appended.     *)
SaveAhead ==
  /\ pc = "ahead"
  /\ PageCurrent
  /\ Save(EntryAt(cur.offset, cur.turnIndex, InflightPage, cur.rawFallback))
  /\ Goto("aheadSaved")
  /\ UNCHANGED <<file, cur, seen, snap, at, next, back, rewrites, aborts>>

FirstUserAt(o) ==
  /\ o \in UserOffsets(snap.lines, snap.from, PageEnd)
  /\ \A p \in UserOffsets(snap.lines, snap.from, PageEnd) : o <= p

(* Mutant: a full page without a closed turn is read again and again.      *)
RawModeOnlyContinued(fallback) == fallback # None

(* Raw mode goes on, or starts because a full page holds no closed turn.   *)
RawMode(fallback) ==
  \/ fallback # None
  \/ /\ NewOffset(snap.lines, snap.from, PageEnd) = cur.offset
     /\ snap.size - cur.offset > PageLines

EnterLoop(fallback) ==
  IF RawMode(fallback)
  THEN Goto("raw") /\ next' = (IF fallback = None THEN 0 ELSE fallback.next)
  ELSE Goto("turn") /\ next' = cur.turnIndex + 1

VerifyAhead ==
  /\ pc = "aheadSaved"
  /\ PageCurrent
  /\ at' = cur.offset
  /\ IF cur.rawFallback # None /\ FirstUserAt(cur.offset)
     THEN Goto("clearRaw") /\ UNCHANGED next
     ELSE EnterLoop(cur.rawFallback)
  /\ UNCHANGED <<file, durable, cur, latest, seen, snap, back, rewrites, aborts>>

(* A user line stands where raw mode left off: the fallback is cleared     *)
(* durably.  latestDurableEntry is updated only after the closing proof.   *)
ClearRaw ==
  /\ pc = "clearRaw"
  /\ PageCurrent
  /\ checkpoint' = [latest EXCEPT !.rawFallback = None]
  /\ Goto("rawCleared")
  /\ UNCHANGED <<file, ledger, swallowed, local, rewrites, aborts>>

VerifyClear ==
  /\ pc = "rawCleared"
  /\ PageCurrent
  /\ cur' = [cur EXCEPT !.rawFallback = None]
  /\ latest' = checkpoint
  /\ EnterLoop(None)
  /\ UNCHANGED <<file, durable, seen, snap, at, back, rewrites, aborts>>

(* withJsonlReadSnapshot around processExtractorCandidate.                 *)
AppendTurn ==
  /\ pc = "turn"
  /\ Pending # {}
  /\ RangeCurrent(snap.from, NextTurn.offset)
  /\ IF Accepted(NextTurn)
     THEN Record(TurnEvent(NextTurn)) /\ next' = next + 1
     ELSE UNCHANGED <<ledger, swallowed, next>>
  /\ Goto("turnDone")
  /\ UNCHANGED <<file, checkpoint, cur, latest, seen, snap, at, back, rewrites, aborts>>

SaveTurn ==
  /\ pc = "turnDone"
  /\ RangeCurrent(snap.from, NextTurn.offset)
  /\ Save(EntryAt(NextTurn.offset, next - 1, InflightPage, None))
  /\ at' = NextTurn.offset
  /\ Goto("turn")
  /\ UNCHANGED <<file, cur, seen, snap, next, back, rewrites, aborts>>

CheckBoundaryAgain ==
  /\ pc = "turn"
  /\ Pending = {}
  /\ BoundaryCurrent
  /\ Goto("page")
  /\ UNCHANGED <<file, durable, local, rewrites, aborts>>

PageEntry ==
  IF snap = None
  THEN [cur EXCEPT !.turnIndex = next - 1, !.source = seen, !.inflight = None]
  ELSE EntryAt(NewOffset(snap.lines, snap.from, PageEnd), next - 1, None,
               cur.rawFallback)

SavePage ==
  /\ pc = "page"
  /\ snap # None => PageCurrent
  /\ Save(PageEntry)
  /\ Goto("pageSaved")
  /\ UNCHANGED <<file, cur, seen, snap, at, next, back, rewrites, aborts>>

Finish ==
  /\ pc = "pageSaved"
  /\ snap # None => PageCurrent
  /\ BoundaryCurrent
  /\ Rest
  /\ UNCHANGED <<file, durable, rewrites, aborts>>

(* An oversized cluster is kept as raw fragments of its bytes.             *)
RawThrough ==
  LET later == { o \in UserOffsets(snap.lines, snap.from, PageEnd) :
                   o > cur.offset /\ FirstUserAt(o) }
  IN  IF cur.rawFallback # None /\ later # {}
      THEN CHOOSE o \in later : TRUE ELSE PageEnd

Fallback ==
  IF cur.rawFallback # None THEN cur.rawFallback
  ELSE [start |-> cur.offset, next |-> 0, group |-> cur.generation]

FragmentEnd ==
  IF at + FragmentLines < RawThrough THEN at + FragmentLines ELSE RawThrough

FragmentEvent ==
  [raw |-> TRUE, generation |-> cur.generation, from |-> at,
   offset |-> FragmentEnd, lines |-> Slice(snap.lines, at, FragmentEnd),
   identity |-> snap.identity, index |-> next]

AppendFragment ==
  /\ pc = "raw"
  /\ at < RawThrough
  /\ IF at = cur.offset THEN RangeCurrent(snap.from, RawThrough)
                        ELSE RangeCurrent(at, FragmentEnd)
  /\ Record(FragmentEvent)
  /\ Goto("fragmentDone")
  /\ UNCHANGED <<file, checkpoint, local, rewrites, aborts>>

VerifyFragment ==
  /\ pc = "fragmentDone"
  /\ RangeCurrent(at, FragmentEnd)
  /\ at' = FragmentEnd /\ next' = next + 1
  /\ Goto("raw")
  /\ UNCHANGED <<file, durable, cur, latest, seen, snap, back, rewrites, aborts>>

SaveRaw ==
  /\ pc = "raw"
  /\ at = RawThrough
  /\ Save(EntryAt(RawThrough, cur.turnIndex, None,
                  IF RawThrough < PageEnd THEN None
                  ELSE [Fallback EXCEPT !.next = next]))
  /\ Goto("rawSaved")
  /\ UNCHANGED <<file, cur, seen, snap, at, next, back, rewrites, aborts>>

FinishRaw ==
  /\ pc = "rawSaved"
  /\ RangeCurrent(snap.from, RawThrough)
  /\ Rest
  /\ UNCHANGED <<file, durable, rewrites, aborts>>

-----------------------------------------------------------------------------
(* The catch block of handleJsonlChange.                                   *)

ProofFails ==
  /\ \/ pc = "bound" /\ ~BoundaryCurrent
     \/ /\ pc \in {"ahead", "aheadSaved", "clearRaw", "rawCleared"}
        /\ ~PageCurrent
     \/ /\ pc = "turn" /\ Pending = {}
        /\ ~BoundaryCurrent
     \/ /\ pc \in {"turn", "turnDone"} /\ Pending # {}
        /\ ~RangeCurrent(snap.from, NextTurn.offset)
     \/ /\ pc = "raw" /\ at < RawThrough
        /\ IF at = cur.offset THEN ~RangeCurrent(snap.from, RawThrough)
                              ELSE ~RangeCurrent(at, FragmentEnd)
     \/ pc = "fragmentDone" /\ ~RangeCurrent(at, FragmentEnd)
     \/ pc = "rawSaved" /\ ~RangeCurrent(snap.from, RawThrough)
     \/ pc = "page" /\ snap # None /\ ~PageCurrent
     \/ /\ pc = "pageSaved"
        /\ ~BoundaryCurrent \/ (snap # None /\ ~PageCurrent)
  /\ Caught

(* The latest durable entry still holds: only the transient read failed.   *)
CatchTransient ==
  /\ pc = "caught"
  /\ ProofCurrent(latest)
  /\ Rest
  /\ UNCHANGED <<file, durable, rewrites, aborts>>

(* rewindChangedRead at the durable boundary, then rethrow.                *)
CatchAtDurable ==
  /\ pc = "caught"
  /\ ~ProofCurrent(latest) /\ RetryAtDurable(latest)
  /\ checkpoint' = Restart(latest, PageStartOf(latest), latest.source.page)
  /\ Rest
  /\ UNCHANGED <<file, ledger, swallowed, rewrites, aborts>>

CatchChanged ==
  /\ pc = "caught"
  /\ ~ProofCurrent(latest) /\ ~RetryAtDurable(latest)
  /\ back' = RewindPoint(latest)
  /\ Goto("rewind")
  /\ UNCHANGED <<file, durable, cur, latest, seen, snap, at, next, rewrites, aborts>>

(* rewindChangedRead at the page start or at 0: the retry offset is        *)
(* inspected afresh, and beyond the end of the file the save throws.       *)
Rewind ==
  /\ pc = "rewind"
  /\ checkpoint' = IF back.offset <= Len(file.lines)
                   THEN Restart(latest, back, None) ELSE checkpoint
  /\ Rest
  /\ UNCHANGED <<file, ledger, swallowed, rewrites, aborts>>

(* A crash, or a storage call that throws: the run is gone, what it has    *)
(* persisted stays.                                                        *)
Abort ==
  /\ pc # "idle"
  /\ aborts < MaxAborts
  /\ aborts' = aborts + 1
  /\ Rest
  /\ UNCHANGED <<file, durable, rewrites>>

-----------------------------------------------------------------------------
(* The writer.  Every write moves the change token (ctime, mtime).         *)

Write(lines, identity) ==
  /\ file.token < MaxWrites
  /\ file' = [identity |-> identity, token |-> file.token + 1, lines |-> lines]

AppendLine ==
  /\ Len(file.lines) < MaxLines
  /\ \E l \in Line : Write(Append(file.lines, l), file.identity)
  /\ UNCHANGED rewrites

(* Same inode, same size: a line is changed in place (or only touched).    *)
RewriteLine ==
  /\ rewrites < MaxRewrites
  /\ \E i \in 1 .. Len(file.lines), l \in Line :
       Write([file.lines EXCEPT ![i] = l], file.identity)
  /\ rewrites' = rewrites + 1

Truncate ==
  /\ rewrites < MaxRewrites
  /\ \E n \in 0 .. (Len(file.lines) - 1) :
       Write(Slice(file.lines, 0, n), file.identity)
  /\ rewrites' = rewrites + 1

(* Another file is renamed over the path.                                  *)
Replace ==
  /\ file.identity < MaxReplaces
  /\ \E lines \in Contents : Write(lines, file.identity + 1)
  /\ UNCHANGED rewrites

WriterStep == AppendLine \/ RewriteLine \/ Truncate \/ Replace

Writer == WriterStep /\ UNCHANGED <<durable, pc, local, aborts>>

(* The catch block's own inspection races a write ("unstable"): the run    *)
(* rethrows without touching the checkpoint.                               *)
CatchUnstable ==
  /\ pc = "caught"
  /\ WriterStep
  /\ Rest
  /\ UNCHANGED <<durable, aborts>>

Handler ==
  \/ Resume \/ Reset \/ ReadTail \/ CheckBoundary
  \/ SaveAhead \/ VerifyAhead \/ ClearRaw \/ VerifyClear
  \/ AppendTurn \/ SaveTurn \/ CheckBoundaryAgain \/ SavePage \/ Finish
  \/ AppendFragment \/ VerifyFragment \/ SaveRaw \/ FinishRaw
  \/ ProofFails \/ CatchTransient \/ CatchAtDurable \/ CatchChanged \/ Rewind

Next == Handler \/ Writer \/ CatchUnstable \/ Abort

Spec == Init /\ [][Next]_vars

FairSpec == Spec /\ WF_vars(Handler)

-----------------------------------------------------------------------------
(* Types.                                                                  *)

Lines == Seq(Line)

File == [identity : Nat, token : Nat, lines : Lines]

Page == [from : Nat, lines : Lines]

Source ==
  [identity : Nat, token : Nat, size : Nat, boundary : Lines,
   page : Page \cup {None}]

RawFallback == [start : Nat, next : Nat, group : Nat]

Start ==
  [offset : Nat, turnIndex : Int, rawFallback : RawFallback \cup {None}]

Entry ==
  [offset : Nat, turnIndex : Int, generation : Nat,
   source : Source \cup {None}, pageStart : Start \cup {None},
   inflight : Page \cup {None}, rawFallback : RawFallback \cup {None}]

Snapshot ==
  [identity : Nat, token : Nat, size : Nat, from : Nat, start : Start,
   lines : Lines]

(* What is absent is told apart from every record it may be.               *)
ASSUME NoneIsNoRecord ==
  /\ None \notin Source /\ None \notin Page /\ None \notin Start
  /\ None \notin RawFallback /\ None \notin Snapshot

Event ==
  [raw : BOOLEAN, generation : Nat, from : Nat, offset : Nat, lines : Lines,
   identity : Nat, index : Int]

Labels ==
  {"idle", "read", "reset", "bound", "ahead", "aheadSaved", "clearRaw",
   "rawCleared", "turn", "turnDone", "page", "pageSaved", "raw",
   "fragmentDone", "rawSaved", "caught", "rewind"}

(* Every variable keeps its type.                                          *)
TypeOK ==
  /\ file \in File
  /\ checkpoint \in Entry /\ cur \in Entry /\ latest \in Entry
  /\ ledger \subseteq Event
  /\ pc \in Labels
  /\ seen \in Source \cup {None}
  /\ snap \in Snapshot \cup {None}
  /\ at \in Nat /\ next \in Int
  /\ back \in Start \cup {None}
  /\ rewrites \in Nat /\ aborts \in Nat

-----------------------------------------------------------------------------
(* Safety.                                                                 *)

(* readJsonlCheckpointSource, and the position the proof must end at.      *)
SourceLoads(c) ==
  /\ c.source \in Source
  /\ c.source.page # None =>
       c.source.page.from <= c.offset /\ c.offset <= Through(c.source.page)

(* readJsonlRawFallback, and what each reader of it asks for besides.      *)
RawFallbackLoads(raw, limit, c) ==
  /\ raw \in RawFallback
  /\ raw.start < limit /\ raw.next # 0
  /\ c.source # None /\ raw.group <= c.generation

(* readClaudeCodePageStart, and the proof of the page it is the start of.  *)
PageStartLoads(c) ==
  /\ c.pageStart.turnIndex >= -1
  /\ c.source # None /\ c.source.page # None
  /\ c.source.page.from = c.pageStart.offset
  /\ c.pageStart.offset <= c.offset
  /\ c.pageStart.turnIndex <= c.turnIndex
  /\ c.pageStart.rawFallback # None =>
       RawFallbackLoads(c.pageStart.rawFallback, c.pageStart.offset, c)

InflightLoads(c) ==
  /\ c.source # None /\ c.pageStart # None
  /\ c.inflight.from = c.pageStart.offset
  /\ c.source.page # None => Through(c.source.page) <= Through(c.inflight)

Loads(c) ==
  /\ c.source # None => SourceLoads(c)
  /\ c.pageStart # None => PageStartLoads(c)
  /\ c.rawFallback # None => RawFallbackLoads(c.rawFallback, c.offset, c)
  /\ c.inflight # None => InflightLoads(c)

(* What saveCheckpoint persists, loadCheckpoint accepts: none of the       *)
(* consistency checks at claude-code.ts:961-1019, whose TypeError would    *)
(* stop capture of the path for good, can fail after any sequence of       *)
(* rewinds, raw fallbacks, crashes and restarts.                           *)
CheckpointLoads == Loads(checkpoint)

Captured(t, generation) ==
  \/ ~Accepted(t)
  \/ \E x \in ledger : /\ ~x.raw /\ x.offset = t.offset /\ x.lines = t.lines
                       /\ x.generation <= generation
  \/ \E g \in 0 .. generation : <<g, t.offset>> \in swallowed

(* The checkpoint never vouches for a turn the ledger does not hold: every *)
(* turn closed inside the page it proves is in the ledger, whatever was    *)
(* written, rewound, aborted or retried since.                             *)
CheckpointVouches ==
  checkpoint.source # None /\ checkpoint.source.page # None
    /\ checkpoint.rawFallback = None =>
  LET page == checkpoint.source.page IN
    \A t \in Turns(page.lines, 0, Len(page.lines)) :
      Captured([t EXCEPT !.offset = @ + page.from], checkpoint.generation)

(* Until a line is rewritten in place: an event that is in the ledger and  *)
(* not yet behind the durable offset is covered by the in-flight page      *)
(* proof, so a restart cannot reuse its dedupe key for other bytes without *)
(* noticing.                                                               *)
WriteAheadCovers ==
  rewrites = 0 =>
    \A x \in ledger :
      ~x.raw /\ x.generation = checkpoint.generation /\ x.offset > checkpoint.offset
        => /\ checkpoint.inflight # None
           /\ x.offset <= Through(checkpoint.inflight)

HeldWhole(t) ==
  \E x \in ledger : /\ ~x.raw /\ x.identity = file.identity
                    /\ x.from = t.from /\ x.lines = t.lines

HeldInFragments(t) ==
  \A i \in (t.from + 1) .. t.offset :
    \E x \in ledger : /\ x.raw /\ x.identity = file.identity
                      /\ x.from < i /\ i <= x.offset
                      /\ x.lines[i - x.from] = file.lines[i]

(* Until a line is rewritten in place: every accepted turn the durable     *)
(* offset has passed is in the ledger, whole or as raw fragments, however  *)
(* the pages cut the file and wherever runs were lost.                     *)
NothingSkipped ==
  rewrites = 0 /\ checkpoint.source # None /\ ~Replaced(checkpoint) =>
    \A t \in Turns(file.lines, 0, checkpoint.offset) :
      Accepted(t) => HeldWhole(t) \/ HeldInFragments(t)

(* Until a line is rewritten in place: no line of a file is in two turns   *)
(* of the ledger, whatever was retried.                                    *)
CapturedOnce ==
  rewrites = 0 =>
    \A x, y \in ledger :
      ~x.raw /\ ~y.raw /\ x.identity = y.identity
        => x = y \/ x.offset <= y.from \/ y.offset <= x.from

(* Events of one generation come from one file: a replaced transcript is   *)
(* never captured under the generation of the file it replaced.            *)
GenerationIsOneFile ==
  \A x, y \in ledger : x.generation = y.generation => x.identity = y.identity

(* No dedupe key ever drops a turn whose bytes differ from those it holds. *)
NoTurnSwallowed == swallowed = {}

-----------------------------------------------------------------------------
(* Actions.                                                                *)

(* The durable cursor only moves forward inside a generation, and only a   *)
(* new generation may move it back.                                        *)
CursorMonotone ==
  [][ \/ checkpoint'.generation = checkpoint.generation + 1
      \/ /\ checkpoint'.generation = checkpoint.generation
         /\ checkpoint'.offset >= checkpoint.offset
         /\ checkpoint'.turnIndex >= checkpoint.turnIndex ]_checkpoint

-----------------------------------------------------------------------------
(* Liveness.                                                               *)

Remaining == Len(file.lines) - checkpoint.offset

CaughtUp ==
  /\ pc = "idle"
  /\ ProofCurrent(checkpoint)
  /\ Remaining <= PageLines
  /\ NewOffset(file.lines, checkpoint.offset, Len(file.lines)) = checkpoint.offset

(* Once the writer stops, capture reaches the end of the transcript, up to *)
(* a turn that is still open, and returns there run after run.             *)
EventuallyCaughtUp == []<>CaughtUp

=============================================================================
