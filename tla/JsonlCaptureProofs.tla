------------------------- MODULE JsonlCaptureProofs -------------------------
(***************************************************************************)
(* Theorems about JsonlCapture for every page size, boundary size, file    *)
(* content and number of writes, rewrites, replacements and aborts: first  *)
(* of its checkpoint, then of what it leaves in the event ledger. There,   *)
(* what a checkpoint vouches for holds always, and - as long as the file   *)
(* at the path is only appended to or replaced by another one - no turn is *)
(* captured twice, none the durable offset has passed is missing, and what *)
(* is ahead of it is covered by the page in flight.                        *)
(***************************************************************************)
EXTENDS JsonlCaptureLog, SequenceTheorems, FiniteSetTheorems,
        WellFoundedInduction, TLAPS

-----------------------------------------------------------------------------
(* The inductive invariant: which local variables hold a value at which    *)
(* step of the run, and where the page and the cursor in it lie.           *)

HoldsPage ==
  {"ahead", "aheadSaved", "clearRaw", "rawCleared", "turn", "turnDone",
   "raw", "fragmentDone", "rawSaved"}

HoldsCursor == HoldsPage \ {"ahead", "aheadSaved", "rawSaved"}

SeenKnown ==
  pc \in {"read", "bound", "page", "pageSaved"} \cup HoldsPage => seen \in Source

PageKnown ==
  /\ pc \in HoldsPage => snap \in Snapshot /\ snap # None
  /\ pc \in {"idle", "reset", "read"} => snap = None
  /\ snap # None => snap.from = cur.offset /\ snap.from < PageEnd

BackKnown == pc \in {"reset", "rewind"} => back \in Start

CursorInPage ==
  /\ pc \in HoldsCursor => cur.offset <= at /\ at <= PageEnd
  /\ pc = "turnDone" => Pending # {}
  /\ pc = "fragmentDone" => at < RawThrough
  /\ pc \in {"raw", "fragmentDone"} => next \in Nat /\ at <= RawThrough

Shape == TypeOK /\ SeenKnown /\ PageKnown /\ BackKnown /\ CursorInPage

(* What the handler and the checkpoint agree on while a run is in progress.*)
SameGeneration ==
  pc # "idle" => /\ cur.generation = checkpoint.generation
                 /\ latest.generation = checkpoint.generation

(* latestDurableEntry is the durable entry, save for its raw fallback.     *)
LatestSaved ==
  pc # "idle" => /\ latest.source = checkpoint.source
                 /\ latest.offset = checkpoint.offset
                 /\ latest.turnIndex = checkpoint.turnIndex

-----------------------------------------------------------------------------
(* The identity that events of the current generation come from.           *)

IdentityOrder ==
  /\ checkpoint.source # None => checkpoint.source.identity <= file.identity
  /\ pc \in {"read", "bound", "ahead", "page"} => seen.identity <= file.identity
  /\ pc = "bound" /\ snap # None =>
       seen.identity <= snap.identity /\ snap.identity <= file.identity

SameFile ==
  /\ pc \in {"read", "bound", "ahead", "page"} /\ checkpoint.source # None =>
       checkpoint.source.identity = seen.identity
  /\ pc \in HoldsPage => snap.identity = seen.identity
  /\ pc \in {"page", "pageSaved"} /\ snap # None => snap.identity = seen.identity
  /\ pc \in HoldsPage \ {"ahead"} =>
       checkpoint.source # None /\ checkpoint.source.identity = seen.identity

LedgerOfGeneration ==
  \A x \in ledger :
    /\ x.generation <= checkpoint.generation
    /\ x.generation = checkpoint.generation =>
         checkpoint.source # None /\ x.identity = checkpoint.source.identity

FileInv ==
  /\ Shape /\ SameGeneration /\ LatestSaved
  /\ IdentityOrder /\ SameFile /\ LedgerOfGeneration /\ GenerationIsOneFile

-----------------------------------------------------------------------------
(* What the operators of the model return.                                 *)

(* A slice within the file is a sequence of lines.                         *)
LEMMA SliceType ==
  ASSUME NEW lines \in Lines, NEW a \in Nat, NEW b \in Nat, b <= Len(lines)
  PROVE  /\ Slice(lines, a, b) \in Lines
         /\ Len(Slice(lines, a, b)) = IF a < b THEN b - a ELSE 0
<1>1. CASE a < b
  <2>1. /\ a + 1 \in 1 .. Len(lines) + 1
        /\ b \in (a + 1) - 1 .. Len(lines)
    BY <1>1 DEF Lines
  <2>2. /\ SubSeq(lines, a + 1, b) \in Seq(Line)
        /\ Len(SubSeq(lines, a + 1, b)) = IF a + 1 <= b THEN b - (a + 1) + 1 ELSE 0
    BY <2>1, SubSeqProperties DEF Lines
  <2> QED  BY <1>1, <2>2 DEF Slice, Lines
<1>2. CASE ~(a < b)
  <2>1. SubSeq(lines, a + 1, b) = <<>>
    BY <1>2, SubSeqEmpty DEF Lines
  <2> QED  BY <1>2, <2>1, EmptySeq DEF Slice, Lines
<1> QED  BY <1>1, <1>2

(* The boundary window before an offset of the file is a sequence of lines.*)
LEMMA BoundaryType ==
  ASSUME NEW lines \in Lines, NEW o \in Nat, o <= Len(lines)
  PROVE  Boundary(lines, o) \in Lines
<1>1. (IF o > BoundaryLines THEN o - BoundaryLines ELSE 0) \in Nat
  BY SizesArePositive
<1> QED  BY <1>1, SliceType DEF Boundary

(* An inspection of an offset of the file is a source proof.               *)
LEMMA InspectType ==
  ASSUME file \in File, NEW o \in Nat, o <= Len(file.lines),
         NEW page \in Page \cup {None}
  PROVE  Inspect(o, page) \in Source
<1>1. /\ file.lines \in Lines /\ file.identity \in Nat /\ file.token \in Nat
      /\ Len(file.lines) \in Nat
  BY LenProperties DEF File, Lines
<1> QED  BY <1>1, BoundaryType DEF Inspect, Source

(* So is the proof of any part of a page that was read.                    *)
LEMMA SourceAtType ==
  ASSUME snap \in Snapshot, NEW o \in Nat, NEW through \in Nat,
         o <= PageEnd, through <= PageEnd
  PROVE  /\ PageOf(snap.lines, snap.from, through) \in Page
         /\ SourceAt(o, through) \in Source
<1>1. /\ snap.lines \in Lines /\ snap.from \in Nat /\ snap.size \in Nat
      /\ snap.identity \in Nat /\ snap.token \in Nat
  BY DEF Snapshot
<1>2. Slice(snap.lines, snap.from, through) \in Lines
  BY <1>1, SliceType DEF PageEnd
<1>3. PageOf(snap.lines, snap.from, through) \in Page
  BY <1>1, <1>2 DEF PageOf, Page
<1>4. Boundary(snap.lines, o) \in Lines
  BY <1>1, BoundaryType DEF PageEnd
<1> QED  BY <1>1, <1>3, <1>4 DEF SourceAt, Source

(* Where an entry restarts is a start, and so is its own position.         *)
LEMMA StartType ==
  ASSUME NEW e \in Entry
  PROVE  RewindPoint(e) \in Start /\ PageStartOf(e) \in Start
<1>1. /\ e.offset \in Nat /\ e.turnIndex \in Int
      /\ e.rawFallback \in RawFallback \cup {None}
      /\ e.pageStart \in Start \cup {None}
  BY DEF Entry
<1>2. PageStartOf(e) \in Start
  BY <1>1 DEF PageStartOf, Start
<1>3. CASE BoundedRewind(e)
  BY <1>1, <1>2, <1>3 DEF RewindPoint, BoundedRewind
<1>4. CASE ~BoundedRewind(e)
  BY <1>1, <1>2, <1>4 DEF RewindPoint, Start
<1> QED  BY <1>2, <1>3, <1>4

(* What is saved of a page that was read is an entry.                      *)
LEMMA EntryAtType ==
  ASSUME snap \in Snapshot, cur \in Entry, snap.from = cur.offset,
         NEW o \in Nat, o <= PageEnd, NEW turnIndex \in Int,
         NEW inflight \in Page \cup {None},
         NEW rawFallback \in RawFallback \cup {None}
  PROVE  /\ InflightPage \in Page
         /\ EntryAt(o, turnIndex, inflight, rawFallback) \in Entry
         /\ EntryAt(o, turnIndex, InflightPage, rawFallback) \in Entry
<1>1. /\ SourceAt(o, o) \in Source /\ snap.start \in Start
      /\ cur.generation \in Nat
  BY SourceAtType DEF Entry, Snapshot
<1>2. PageEnd \in Nat
  BY LenProperties DEF Snapshot, Lines, PageEnd
<1>3. InflightPage \in Page
  BY <1>2, SourceAtType DEF InflightPage
<1> QED  BY <1>1, <1>3 DEF EntryAt, Entry

(* A turn lies inside the range it was read from.                          *)
LEMMA TurnInRange ==
  ASSUME NEW lines \in Lines, NEW from \in Nat, NEW through \in Nat,
         through <= Len(lines), NEW t \in Turns(lines, from, through)
  PROVE  /\ t = [from |-> t.from, offset |-> t.offset, lines |-> t.lines]
         /\ t.from \in Nat /\ t.offset \in Nat /\ t.lines \in Lines
         /\ from <= t.from /\ t.from + 1 < t.offset /\ t.offset <= through
         /\ Closes(lines, t.from + 1, t.offset, through)
<1>1. PICK qe \in ((from + 1) .. through) \X ((from + 1) .. through) :
        /\ qe[1] < qe[2] /\ Closes(lines, qe[1], qe[2], through)
        /\ t = [from |-> qe[1] - 1, offset |-> qe[2],
                lines |-> Slice(lines, qe[1] - 1, qe[2])]
  BY DEF Turns
<1>2. /\ qe[1] \in (from + 1) .. through /\ qe[2] \in (from + 1) .. through
      /\ qe[1] - 1 \in Nat /\ qe[2] \in Nat
  BY <1>1
<1>3. Slice(lines, qe[1] - 1, qe[2]) \in Lines
  BY <1>2, SliceType
<1>4. t.from + 1 = qe[1]
  BY <1>1, <1>2
<1> QED  BY <1>1, <1>2, <1>3, <1>4

(* The offset a page is consumed to lies inside the page.                  *)
LEMMA NewOffsetInRange ==
  ASSUME NEW lines, NEW from \in Nat, NEW through \in Nat, from <= through
  PROVE  NewOffset(lines, from, through) \in from .. through
<1>1. CASE OpenAt(lines, from, through) = {}
  BY <1>1 DEF NewOffset
<1>2. CASE OpenAt(lines, from, through) # {}
  <2> DEFINE q == CHOOSE q \in OpenAt(lines, from, through) : TRUE
  <2>1. q \in OpenAt(lines, from, through)
    BY <1>2
  <2>2. q \in (from + 1) .. through
    BY <2>1 DEF OpenAt
  <2> HIDE DEF q
  <2>3. q - 1 \in from .. through
    BY <2>2
  <2> QED  BY <1>2, <2>3 DEF NewOffset, q
<1> QED  BY <1>1, <1>2

(* A nonempty set of naturals has a least element.                         *)
LEMMA LeastNatural ==
  ASSUME NEW S \in SUBSET Nat, S # {}
  PROVE  \E m \in S : \A n \in S : m <= n
<1> DEFINE Below == { 0 .. n : n \in S }
<1>1. Below \subseteq FiniteSubsetsOf(Nat) /\ Below # {}
  <2>1. ASSUME NEW n \in S  PROVE 0 .. n \in FiniteSubsetsOf(Nat)
    <3>1. n \in Nat /\ n \in Int /\ 0 \in Int /\ 0 .. n \in SUBSET Nat
      OBVIOUS
    <3>2. IsFiniteSet(0 .. n)
      BY <3>1, FS_Interval
    <3> QED  BY <3>1, <3>2 DEF FiniteSubsetsOf
  <2> QED  BY <2>1
<1>2. PICK B \in Below : \A C \in Below : ~ (<<C, B>> \in StrictSubsetOrdering(Nat))
  BY <1>1, FS_StrictSubsetOrderingWellFounded, WFMin
<1>3. PICK m \in S : B = 0 .. m
  OBVIOUS
<1>4. ASSUME NEW n \in S, n < m  PROVE FALSE
  <2>1. 0 .. n \subseteq 0 .. m /\ 0 .. n # 0 .. m
    <3>1. m \in 0 .. m /\ m \notin 0 .. n
      BY <1>4
    <3> QED  BY <1>4, <3>1
  <2>2. <<0 .. n, 0 .. m>> \in StrictSubsetOrdering(Nat)
    BY <2>1 DEF StrictSubsetOrdering
  <2> QED  BY <1>2, <1>3, <2>2
<1> QED  BY <1>4

(* What is pending in a page is made of turns of the page beyond `at'.     *)
LEMMA PendingInPage ==
  ASSUME snap \in Snapshot, snap.from <= PageEnd, NEW t \in Pending
  PROVE  /\ t \in Turns(snap.lines, snap.from, PageEnd)
         /\ t.from \in Nat /\ t.offset \in Nat /\ t.lines \in Lines
         /\ snap.from < t.offset /\ t.offset <= PageEnd /\ at < t.offset
<1>1. /\ snap.lines \in Lines /\ snap.from \in Nat
      /\ PageEnd \in Nat /\ PageEnd <= Len(snap.lines)
  BY LenProperties DEF Snapshot, Lines, PageEnd
<1>2. t \in Turns(snap.lines, snap.from, PageEnd) /\ t.offset > at
  BY DEF Pending
<1>3. /\ t.from \in Nat /\ t.offset \in Nat /\ t.lines \in Lines
      /\ snap.from <= t.from /\ t.from + 1 < t.offset /\ t.offset <= PageEnd
  BY <1>1, <1>2, TurnInRange
<1> QED  BY <1>1, <1>2, <1>3

(* The nearest pending turn exists and is pending.                         *)
LEMMA NextTurnIsPending ==
  ASSUME snap \in Snapshot, snap.from <= PageEnd, Pending # {}
  PROVE  NextTurn \in Pending /\ \A t \in Pending : NextTurn.offset <= t.offset
<1> DEFINE Offsets == { t.offset : t \in Pending }
<1>1. Offsets \in SUBSET Nat /\ Offsets # {}
  BY PendingInPage
<1>2. PICK m \in Offsets : \A n \in Offsets : m <= n
  BY <1>1, LeastNatural
<1>3. \E t \in Pending : \A x \in Pending : t.offset <= x.offset
  BY <1>2
<1> QED  BY <1>3 DEF NextTurn

(* Raw fragments reach at most to the end of the page.                     *)
LEMMA RawThroughInPage ==
  ASSUME snap \in Snapshot, cur \in Entry, snap.from = cur.offset,
         cur.offset < PageEnd
  PROVE  RawThrough \in Nat /\ cur.offset < RawThrough /\ RawThrough <= PageEnd
<1> DEFINE later == { o \in UserOffsets(snap.lines, snap.from, PageEnd) :
                       o > cur.offset /\ FirstUserAt(o) }
<1>1. snap.from \in Nat /\ PageEnd \in Nat
  BY LenProperties DEF Snapshot, Lines, PageEnd
<1>2. CASE cur.rawFallback # None /\ later # {}
  <2>1. RawThrough = CHOOSE o \in later : TRUE
    BY <1>2 DEF RawThrough
  <2>2. RawThrough \in later
    BY <1>2, <2>1
  <2>3. RawThrough \in snap.from .. (PageEnd - 1) /\ RawThrough > cur.offset
    BY <2>2 DEF UserOffsets
  <2> QED  BY <1>1, <2>3
<1>3. CASE ~(cur.rawFallback # None /\ later # {})
  <2>1. RawThrough = PageEnd
    BY <1>3 DEF RawThrough
  <2> QED  BY <1>1, <2>1
<1> QED  BY <1>2, <1>3

(* A restart is an entry of the next generation at its point.              *)
LEMMA RestartType ==
  ASSUME file \in File, NEW e \in Entry, NEW point \in Start,
         point.offset <= Len(file.lines), NEW page \in Page \cup {None}
  PROVE  /\ Restart(e, point, page) \in Entry
         /\ Restart(e, point, page).generation = e.generation + 1
         /\ Restart(e, point, page).source = Inspect(point.offset, page)
         /\ Inspect(point.offset, page) \in Source
<1>1. /\ point.offset \in Nat /\ point.turnIndex \in Int
      /\ point.rawFallback \in RawFallback \cup {None}
      /\ e.generation + 1 \in Nat
  BY DEF Start, Entry
<1>2. Inspect(point.offset, page) \in Source
  BY <1>1, InspectType
<1> QED  BY <1>1, <1>2 DEF Restart, Entry

-----------------------------------------------------------------------------
(* The shape is inductive.                                                 *)

LEMMA FreshType == Fresh \in Entry
BY DEF Fresh, Entry

LEMMA ShapeInit == Init => Shape
<1> SUFFICES ASSUME Init PROVE Shape
  OBVIOUS
<1>1. TypeOK
  BY FreshType, ContentsAreLines
     DEF Init, Rested, TypeOK, File, Lines, Labels
<1>2. SeenKnown /\ PageKnown /\ BackKnown /\ CursorInPage
  BY DEF Init, Rested, SeenKnown, PageKnown, BackKnown, CursorInPage,
         HoldsPage, HoldsCursor
<1> QED  BY <1>1, <1>2 DEF Shape

(* Ending a run clears its local state.                                    *)
LEMMA ShapeRest ==
  ASSUME Shape, Rest, file' \in File, checkpoint' \in Entry, ledger' \subseteq Event,
         rewrites' \in Nat, aborts' \in Nat
  PROVE  Shape'
<1>1. TypeOK'
  BY FreshType DEF TypeOK, Rest, Labels
<1>2. (SeenKnown /\ PageKnown /\ BackKnown /\ CursorInPage)'
  BY DEF Rest, SeenKnown, PageKnown, BackKnown, CursorInPage, HoldsPage, HoldsCursor
<1> QED  BY <1>1, <1>2 DEF Shape

LEMMA ShapeResume == Shape /\ Resume => Shape'
<1> SUFFICES ASSUME Shape, Resume PROVE Shape'
  OBVIOUS
<1> USE DEF Goto
<1>1. /\ file \in File /\ checkpoint \in Entry /\ snap = None
      /\ pc = "idle"
      /\ checkpoint.source \in Source \cup {None}
      /\ checkpoint.source # None => checkpoint.source.page \in Page \cup {None}
      /\ checkpoint.offset \in Nat
  BY DEF Shape, TypeOK, PageKnown, Resume, Entry, Source
<1>2. CASE /\ ProofCurrent(checkpoint)
           /\ seen' = Inspect(checkpoint.offset,
                        IF checkpoint.source = None THEN None
                        ELSE checkpoint.source.page)
           /\ cur' = checkpoint /\ latest' = checkpoint
           /\ Goto("read")
           /\ UNCHANGED <<durable, back>>
  <2>1. checkpoint.offset <= Len(file.lines)
    BY <1>2 DEF ProofCurrent, DurableProofHolds
  <2>2. seen' \in Source
    BY <1>1, <1>2, <2>1, InspectType
  <2>3. TypeOK'
    BY <1>1, <1>2, <2>2 DEF Shape, TypeOK, Resume, durable, Labels
  <2> QED
    BY <1>1, <1>2, <2>2, <2>3
       DEF Shape, SeenKnown, PageKnown, BackKnown, CursorInPage, HoldsPage,
           HoldsCursor, Resume
<1>3. CASE /\ RetryAtDurable(checkpoint)
           /\ LET e == Restart(checkpoint, PageStartOf(checkpoint),
                               checkpoint.source.page)
              IN  Save(e) /\ cur' = e /\ seen' = e.source
           /\ Goto("read")
           /\ UNCHANGED back
  <2>1. /\ checkpoint.source # None /\ checkpoint.offset <= Len(file.lines)
        /\ PageStartOf(checkpoint) \in Start
        /\ PageStartOf(checkpoint).offset = checkpoint.offset
    BY <1>1, <1>3, StartType
       DEF RetryAtDurable, DurableProofHolds, InflightHolds, PageStartOf
  <2>2. cur' \in Entry /\ seen' \in Source
    BY <1>1, <1>3, <2>1, RestartType
  <2>3. TypeOK'
    BY <1>1, <1>3, <2>2 DEF Shape, TypeOK, Resume, Save, Labels
  <2> QED
    BY <1>1, <1>3, <2>2, <2>3
       DEF Shape, SeenKnown, PageKnown, BackKnown, CursorInPage, HoldsPage,
           HoldsCursor, Resume
<1>4. CASE /\ cur' = checkpoint /\ latest' = checkpoint
           /\ back' = RewindPoint(checkpoint)
           /\ Goto("reset")
           /\ UNCHANGED <<durable, seen>>
  <2>1. back' \in Start
    BY <1>1, <1>4, StartType
  <2>2. TypeOK'
    BY <1>1, <1>4, <2>1 DEF Shape, TypeOK, Resume, durable, Labels
  <2> QED
    BY <1>1, <1>4, <2>1, <2>2
       DEF Shape, SeenKnown, PageKnown, BackKnown, CursorInPage, HoldsPage,
           HoldsCursor, Resume
<1> QED  BY <1>2, <1>3, <1>4 DEF Resume

LEMMA ShapeReset == Shape /\ Reset => Shape'
<1> SUFFICES ASSUME Shape, Reset PROVE Shape'
  OBVIOUS
<1> USE DEF Goto
<1>1. /\ file \in File /\ cur \in Entry /\ back \in Start /\ snap = None
      /\ pc = "reset" /\ back.offset \in Nat /\ Len(file.lines) \in Nat
  BY LenProperties DEF Shape, TypeOK, PageKnown, BackKnown, Reset, File, Lines, Start
<1>2. CASE back.offset <= Len(file.lines)
  <2>1. /\ cur' = Restart(cur, back, None) /\ seen' = cur'.source
        /\ checkpoint' = cur' /\ latest' = cur' /\ pc' = "read"
        /\ back' = None /\ UNCHANGED <<snap, at, next, ledger>>
    BY <1>1, <1>2 DEF Reset, Save
  <2>3. cur' \in Entry /\ seen' \in Source
    BY <1>1, <1>2, <2>1, RestartType
  <2>2. TypeOK'
    BY <1>1, <2>1, <2>3 DEF Shape, TypeOK, Reset, Labels
  <2> QED
    BY <1>1, <2>1, <2>2, <2>3
       DEF Shape, SeenKnown, PageKnown, BackKnown, CursorInPage,
           HoldsPage, HoldsCursor
<1>3. CASE back.offset > Len(file.lines)
  <2>1. Rest /\ UNCHANGED <<file, durable, rewrites, aborts>>
    BY <1>1, <1>3 DEF Reset
  <2> QED  BY <2>1, ShapeRest DEF Shape, TypeOK, durable
<1> QED  BY <1>1, <1>2, <1>3 DEF Reset

(* What readJsonlTail returns: the unread lines, or one page of them.       *)
LEMMA ReadFacts ==
  ASSUME file \in File, cur \in Entry, ReadTail
  PROVE  /\ Len(file.lines) \in Nat /\ cur.offset \in Nat
         /\ Len(file.lines) <= cur.offset => snap' = None
         /\ ~(Len(file.lines) <= cur.offset) =>
              /\ snap' \in Snapshot /\ snap' # None
              /\ snap'.identity = file.identity /\ snap'.token = file.token
              /\ snap'.size = Len(file.lines) /\ snap'.from = cur.offset
              /\ snap'.start = PageStartOf(cur)
              /\ snap'.lines = Slice(file.lines, 0, PageEnd')
              /\ PageEnd' \in Nat /\ cur.offset < PageEnd'
              /\ PageEnd' <= Len(file.lines) /\ PageEnd' <= cur.offset + PageLines
              /\ PageEnd' = Len(file.lines) \/ PageEnd' = cur.offset + PageLines
<1>1. /\ file.lines \in Lines /\ Len(file.lines) \in Nat /\ cur.offset \in Nat
      /\ file.identity \in Nat /\ file.token \in Nat
  BY LenProperties DEF File, Lines, Entry
<1>2. CASE Len(file.lines) <= cur.offset
  BY <1>1, <1>2 DEF ReadTail
<1>3. CASE ~(Len(file.lines) <= cur.offset)
  <2> DEFINE through == IF Len(file.lines) - cur.offset > PageLines
                        THEN cur.offset + PageLines ELSE Len(file.lines)
  <2>1. snap' = [identity |-> file.identity, token |-> file.token,
                 size |-> Len(file.lines), from |-> cur.offset,
                 start |-> PageStartOf(cur),
                 lines |-> Slice(file.lines, 0, through)]
    BY <1>3 DEF ReadTail
  <2>2. /\ through \in Nat /\ cur.offset < through /\ through <= Len(file.lines)
        /\ through <= cur.offset + PageLines
        /\ through = Len(file.lines) \/ through = cur.offset + PageLines
    BY <1>1, <1>3, SizesArePositive
  <2> HIDE DEF through
  <2>3. /\ Slice(file.lines, 0, through) \in Lines
        /\ Len(Slice(file.lines, 0, through)) = through
    <3>1. 0 \in Nat /\ 0 < through /\ through - 0 = through
      BY <1>1, <2>2
    <3> QED  BY <1>1, <2>2, <3>1, SliceType
  <2>4. PageEnd' = through
    BY <2>1, <2>3 DEF PageEnd
  <2>5. snap' \in Snapshot
    BY <1>1, <2>1, <2>3, StartType DEF Snapshot
  <2> QED  BY <1>1, <1>3, <2>1, <2>2, <2>4, <2>5, NoneIsNoRecord
<1> QED  BY <1>2, <1>3

LEMMA ShapeReadTail == Shape /\ ReadTail => Shape'
<1> SUFFICES ASSUME Shape, ReadTail PROVE Shape'
  OBVIOUS
<1>1. /\ file \in File /\ cur \in Entry /\ pc = "read" /\ pc' = "bound"
      /\ UNCHANGED <<file, durable, cur, latest, seen, at, next, back, rewrites, aborts>>
  BY DEF Shape, TypeOK, ReadTail, Goto
<1>2. CASE snap' = None
  BY <1>1, <1>2
     DEF durable, Shape, TypeOK, Labels, SeenKnown, PageKnown, BackKnown,
         CursorInPage, HoldsPage, HoldsCursor
<1>3. CASE snap' # None
  <2>1. snap' \in Snapshot /\ snap'.from = cur.offset /\ snap'.from < PageEnd'
    BY <1>1, <1>3, ReadFacts
  <2> QED
    BY <1>1, <2>1
       DEF durable, Shape, TypeOK, Labels, SeenKnown, PageKnown, BackKnown,
           CursorInPage, HoldsPage, HoldsCursor
<1> QED  BY <1>2, <1>3

(* A step that leaves file, page, cursor position and history alone keeps  *)
(* what is derived from the page.                                          *)
LEMMA SamePage ==
  /\ UNCHANGED snap => PageEnd' = PageEnd
  /\ UNCHANGED <<snap, at>> => Pending' = Pending /\ NextTurn' = NextTurn
  /\ UNCHANGED <<snap, cur>> => RawThrough' = RawThrough
<1>1. UNCHANGED snap => PageEnd' = PageEnd
  BY DEF PageEnd
<1>2. UNCHANGED <<snap, at>> => Pending' = Pending /\ NextTurn' = NextTurn
  BY DEF PageEnd, Pending, NextTurn
<1>3. UNCHANGED <<snap, cur>> => RawThrough' = RawThrough
  BY DEF PageEnd, RawThrough, FirstUserAt
<1> QED  BY <1>1, <1>2, <1>3

(* The page of a run that holds one, and the cursor in it.                 *)
LEMMA PageFacts ==
  ASSUME Shape, pc \in HoldsPage
  PROVE  /\ snap \in Snapshot /\ snap # None
         /\ snap.from = cur.offset /\ snap.from < PageEnd
         /\ cur \in Entry /\ cur.offset \in Nat /\ cur.turnIndex \in Int
         /\ cur.generation \in Nat /\ PageEnd \in Nat
         /\ cur.rawFallback \in RawFallback \cup {None}
<1>1. snap \in Snapshot /\ snap # None /\ cur \in Entry
  BY DEF Shape, TypeOK, PageKnown
<1> QED  BY <1>1, LenProperties DEF Shape, PageKnown, Entry, Snapshot, Lines, PageEnd

LEMMA ShapeCheckBoundary == Shape /\ CheckBoundary => Shape'
<1> SUFFICES ASSUME Shape, CheckBoundary PROVE Shape'
  OBVIOUS
<1> USE DEF Goto
<1>1. /\ pc = "bound" /\ snap \in Snapshot \cup {None} /\ cur \in Entry
      /\ cur.offset \in Nat /\ cur.turnIndex \in Int
      /\ UNCHANGED <<file, durable, cur, latest, seen, snap, back, rewrites, aborts>>
      /\ PageEnd' = PageEnd
  BY SamePage DEF Shape, TypeOK, CheckBoundary, Entry
<1>2. CASE snap = None
  BY <1>1, <1>2
     DEF CheckBoundary, durable, Shape, TypeOK, Labels, SeenKnown, PageKnown,
         BackKnown, CursorInPage, HoldsPage, HoldsCursor
<1>3. CASE snap # None
  BY <1>1, <1>3
     DEF CheckBoundary, durable, Shape, TypeOK, Labels, SeenKnown, PageKnown,
         BackKnown, CursorInPage, HoldsPage, HoldsCursor
<1> QED  BY <1>2, <1>3

LEMMA ShapeSaveAhead == Shape /\ SaveAhead => Shape'
<1> SUFFICES ASSUME Shape, SaveAhead PROVE Shape'
  OBVIOUS
<1> USE DEF Goto
<1>1. pc = "ahead" /\ pc \in HoldsPage /\ pc' = "aheadSaved"
  BY DEF SaveAhead, HoldsPage
<1>2. /\ snap.from = cur.offset /\ snap \in Snapshot /\ cur \in Entry
      /\ cur.offset \in Nat /\ PageEnd \in Nat /\ cur.offset <= PageEnd
      /\ cur.turnIndex \in Int /\ cur.rawFallback \in RawFallback \cup {None}
  BY <1>1, PageFacts
<1>3. EntryAt(cur.offset, cur.turnIndex, InflightPage, cur.rawFallback) \in Entry
  BY <1>2, EntryAtType
<1>4. checkpoint' \in Entry /\ latest' \in Entry /\ ledger' = ledger
  BY <1>3 DEF SaveAhead, Save
<1>5. TypeOK'
  BY <1>1, <1>4 DEF SaveAhead, Shape, TypeOK, Labels
<1> QED
  BY <1>1, <1>5, SamePage
     DEF SaveAhead, Shape, SeenKnown, PageKnown, BackKnown, CursorInPage,
         HoldsPage, HoldsCursor

(* Entering the loop starts it at the cursor.                              *)
LEMMA EnterLoopType ==
  ASSUME NEW fallback \in RawFallback \cup {None}, cur \in Entry,
         EnterLoop(fallback)
  PROVE  /\ pc' \in {"raw", "turn"} /\ next' \in Int
         /\ pc' = "raw" => next' \in Nat
<1>1. cur.turnIndex + 1 \in Int
  BY DEF Entry
<1>2. fallback # None => fallback.next \in Nat
  BY DEF RawFallback
<1> QED  BY <1>1, <1>2 DEF EnterLoop, Goto

LEMMA ShapeVerifyAhead == Shape /\ VerifyAhead => Shape'
<1> SUFFICES ASSUME Shape, VerifyAhead PROVE Shape'
  OBVIOUS
<1>1. /\ pc = "aheadSaved" /\ pc \in HoldsPage /\ at' = cur.offset
      /\ UNCHANGED <<file, durable, cur, latest, seen, snap, back, rewrites, aborts>>
  BY DEF VerifyAhead, HoldsPage
<1>2. /\ snap.from = cur.offset /\ snap \in Snapshot /\ cur \in Entry
      /\ snap # None /\ cur.offset \in Nat /\ PageEnd \in Nat
      /\ cur.offset < PageEnd /\ cur.rawFallback \in RawFallback \cup {None}
  BY <1>1, PageFacts
<1>3. /\ pc' \in {"raw", "turn", "clearRaw"} /\ next' \in Int
      /\ pc' = "raw" => next' \in Nat
  BY <1>2, EnterLoopType DEF VerifyAhead, Goto, Shape, TypeOK
<1>4. RawThrough \in Nat /\ cur.offset <= RawThrough
  BY <1>2, RawThroughInPage
<1>5. PageEnd' = PageEnd /\ RawThrough' = RawThrough
  BY <1>1, SamePage
<1>6. TypeOK'
  BY <1>1, <1>2, <1>3 DEF Shape, TypeOK, durable, Labels
<1>7. CursorInPage'
  BY <1>1, <1>2, <1>3, <1>4, <1>5 DEF CursorInPage
<1> QED
  BY <1>1, <1>2, <1>3, <1>5, <1>6, <1>7
     DEF Shape, SeenKnown, PageKnown, BackKnown, HoldsPage

LEMMA ShapeClearRaw == Shape /\ ClearRaw => Shape'
<1> SUFFICES ASSUME Shape, ClearRaw PROVE Shape'
  OBVIOUS
<1> USE DEF Goto
<1>1. checkpoint' \in Entry
  BY DEF ClearRaw, Shape, TypeOK, Entry
<1>2. TypeOK'
  BY <1>1 DEF ClearRaw, local, Shape, TypeOK, Labels
<1> QED
  BY <1>2, SamePage
     DEF ClearRaw, local, Shape, SeenKnown, PageKnown, BackKnown,
         CursorInPage, HoldsPage, HoldsCursor

LEMMA ShapeVerifyClear == Shape /\ VerifyClear => Shape'
<1> SUFFICES ASSUME Shape, VerifyClear PROVE Shape'
  OBVIOUS
<1>1. /\ pc = "rawCleared" /\ pc \in HoldsPage /\ pc \in HoldsCursor
      /\ cur' = [cur EXCEPT !.rawFallback = None] /\ latest' = checkpoint
      /\ UNCHANGED <<file, durable, seen, snap, at, back, rewrites, aborts>>
  BY DEF VerifyClear, HoldsPage, HoldsCursor
<1>2. /\ snap.from = cur.offset /\ snap \in Snapshot /\ cur \in Entry
      /\ snap # None /\ cur.offset \in Nat /\ PageEnd \in Nat
      /\ cur.offset < PageEnd
  BY <1>1, PageFacts
<1>3. /\ pc' \in {"raw", "turn"} /\ next' \in Int
      /\ pc' = "raw" => next' \in Nat
  BY <1>2, EnterLoopType DEF VerifyClear
<1>4. cur' \in Entry /\ cur'.offset = cur.offset /\ cur'.rawFallback = None
  BY <1>1, <1>2 DEF Entry
<1>5. PageEnd' = PageEnd
  BY <1>1, SamePage
<1>6. RawThrough' = PageEnd'
  BY <1>4 DEF RawThrough
<1>7. TypeOK'
  BY <1>1, <1>3, <1>4 DEF Shape, TypeOK, durable, Labels
<1>8. CursorInPage'
  BY <1>1, <1>3, <1>4, <1>5, <1>6 DEF Shape, CursorInPage
<1> QED
  BY <1>1, <1>2, <1>3, <1>4, <1>5, <1>7, <1>8
     DEF Shape, SeenKnown, PageKnown, BackKnown, HoldsPage

(* Recording an event keeps the ledger a set of events.                    *)
LEMMA RecordType ==
  ASSUME ledger \subseteq Event, NEW x \in Event, Record(x)
  PROVE  ledger' \subseteq Event /\ ledger' \subseteq ledger \cup {x}
BY DEF Record

LEMMA ShapeAppendTurn == Shape /\ AppendTurn => Shape'
<1> SUFFICES ASSUME Shape, AppendTurn PROVE Shape'
  OBVIOUS
<1>1. /\ pc = "turn" /\ pc \in HoldsPage /\ Pending # {} /\ pc' = "turnDone"
      /\ UNCHANGED <<file, checkpoint, cur, latest, seen, snap, at, back, rewrites, aborts>>
  BY DEF AppendTurn, HoldsPage, Goto
<1>2. /\ snap \in Snapshot /\ snap.from <= PageEnd /\ cur.generation \in Nat
      /\ snap.identity \in Nat /\ next \in Int
  BY <1>1, PageFacts DEF Shape, TypeOK, Snapshot
<1>3. NextTurn \in Pending
  BY <1>1, <1>2, NextTurnIsPending
<1>4. TurnEvent(NextTurn) \in Event
  BY <1>2, <1>3, PendingInPage DEF TurnEvent, Event
<1>5. ledger' \subseteq Event /\ next' \in Int
  BY <1>2, <1>4, RecordType DEF AppendTurn, Shape, TypeOK
<1>6. TypeOK'
  BY <1>1, <1>5 DEF Shape, TypeOK, Labels
<1> QED
  BY <1>1, <1>6, SamePage
     DEF Shape, SeenKnown, PageKnown, BackKnown, CursorInPage, HoldsPage,
         HoldsCursor

LEMMA ShapeSaveTurn == Shape /\ SaveTurn => Shape'
<1> SUFFICES ASSUME Shape, SaveTurn PROVE Shape'
  OBVIOUS
<1>1. /\ pc = "turnDone" /\ pc \in HoldsPage /\ Pending # {} /\ pc' = "turn"
      /\ at' = NextTurn.offset
      /\ UNCHANGED <<file, cur, seen, snap, next, back, rewrites, aborts>>
  BY DEF SaveTurn, HoldsPage, Goto, Shape, CursorInPage
<1>2. /\ snap \in Snapshot /\ snap.from <= PageEnd /\ cur \in Entry /\ next \in Int
      /\ snap.from = cur.offset /\ cur.offset \in Nat /\ PageEnd \in Nat
      /\ PageStartOf(cur) \in Start
  BY <1>1, PageFacts, StartType DEF Shape, TypeOK
<1>3. /\ NextTurn.offset \in Nat /\ cur.offset < NextTurn.offset
      /\ NextTurn.offset <= PageEnd
  BY <1>1, <1>2, NextTurnIsPending, PendingInPage
<1>5. EntryAt(NextTurn.offset, next - 1, InflightPage, None) \in Entry
  BY <1>2, <1>3, EntryAtType
<1>6. checkpoint' \in Entry /\ latest' \in Entry /\ ledger' = ledger
  BY <1>5 DEF SaveTurn, Save
<1>7. TypeOK'
  BY <1>1, <1>3, <1>6 DEF Shape, TypeOK, Labels
<1>8. PageEnd' = PageEnd
  BY <1>1, SamePage
<1>9. CursorInPage'
  BY <1>1, <1>2, <1>3, <1>8 DEF CursorInPage
<1> QED
  BY <1>1, <1>2, <1>7, <1>8, <1>9
     DEF Shape, SeenKnown, PageKnown, BackKnown, HoldsPage

(* Both steps that go on to the page checkpoint.                           *)
LEMMA ShapeCheckBoundaryAgain == Shape /\ CheckBoundaryAgain => Shape'
<1> SUFFICES ASSUME Shape, CheckBoundaryAgain PROVE Shape'
  OBVIOUS
<1>1. TypeOK'
  BY DEF CheckBoundaryAgain, Goto, local, durable, Shape, TypeOK, Labels
<1> QED
  BY <1>1, SamePage
     DEF CheckBoundaryAgain, Goto, local, Shape, SeenKnown, PageKnown,
         BackKnown, CursorInPage, HoldsPage, HoldsCursor

LEMMA PageEntryType ==
  ASSUME Shape, pc = "page"
  PROVE  PageEntry \in Entry
<1>1. /\ cur \in Entry /\ next - 1 \in Int /\ seen \in Source
      /\ snap \in Snapshot \cup {None}
  BY DEF Shape, TypeOK, SeenKnown
<1>2. CASE snap = None
  BY <1>1, <1>2 DEF PageEntry, Entry
<1>3. CASE snap # None
  <2>1. /\ snap \in Snapshot /\ snap.from = cur.offset /\ snap.from < PageEnd
        /\ snap.from \in Nat /\ PageEnd \in Nat
        /\ cur.rawFallback \in RawFallback \cup {None}
    BY <1>1, <1>3, LenProperties
       DEF Shape, PageKnown, Snapshot, Lines, PageEnd, Entry
  <2> DEFINE o == NewOffset(snap.lines, snap.from, PageEnd)
  <2>2. o \in Nat /\ o <= PageEnd
    BY <2>1, NewOffsetInRange
  <2> HIDE DEF o
  <2>3. EntryAt(o, next - 1, None, cur.rawFallback) \in Entry
    BY <1>1, <2>1, <2>2, EntryAtType
  <2> QED  BY <1>3, <2>3 DEF PageEntry, o
<1> QED  BY <1>2, <1>3

LEMMA ShapeSavePage == Shape /\ SavePage => Shape'
<1> SUFFICES ASSUME Shape, SavePage PROVE Shape'
  OBVIOUS
<1>1. pc = "page" /\ pc' = "pageSaved"
  BY DEF SavePage, Goto
<1>2. checkpoint' \in Entry /\ latest' \in Entry /\ ledger' = ledger
  BY <1>1, PageEntryType DEF SavePage, Save
<1>3. TypeOK'
  BY <1>1, <1>2 DEF SavePage, Shape, TypeOK, Labels
<1> QED
  BY <1>1, <1>3, SamePage
     DEF SavePage, Shape, SeenKnown, PageKnown, BackKnown, CursorInPage,
         HoldsPage, HoldsCursor

(* The fragment at the cursor stays within the raw range.                  *)
LEMMA FragmentFacts ==
  ASSUME Shape, pc \in {"raw", "fragmentDone"}, at < RawThrough
  PROVE  /\ at \in Nat /\ FragmentEnd \in Nat /\ RawThrough \in Nat
         /\ at < FragmentEnd /\ FragmentEnd <= RawThrough
         /\ RawThrough <= PageEnd /\ cur.offset <= at
<1>1. pc \in HoldsPage /\ pc \in HoldsCursor
  BY DEF HoldsPage, HoldsCursor
<1>2. at \in Nat /\ cur.offset <= at
  BY <1>1 DEF Shape, TypeOK, CursorInPage
<1>3. RawThrough \in Nat /\ RawThrough <= PageEnd
  BY <1>1, PageFacts, RawThroughInPage
<1> QED  BY <1>2, <1>3, SizesArePositive DEF FragmentEnd

LEMMA ShapeAppendFragment == Shape /\ AppendFragment => Shape'
<1> SUFFICES ASSUME Shape, AppendFragment PROVE Shape'
  OBVIOUS
<1>1. /\ pc = "raw" /\ pc \in HoldsPage /\ at < RawThrough /\ pc' = "fragmentDone"
      /\ UNCHANGED <<file, checkpoint, local, rewrites, aborts>>
  BY DEF AppendFragment, HoldsPage, Goto
<1>2. /\ at \in Nat /\ FragmentEnd \in Nat /\ FragmentEnd <= PageEnd
      /\ snap.lines \in Lines /\ snap.identity \in Nat /\ cur.generation \in Nat
      /\ next \in Int /\ PageEnd \in Nat
  BY <1>1, FragmentFacts, PageFacts DEF Shape, TypeOK, Snapshot
<1>3. Slice(snap.lines, at, FragmentEnd) \in Lines
  BY <1>2, SliceType DEF PageEnd
<1>4. FragmentEvent \in Event
  BY <1>2, <1>3 DEF FragmentEvent, Event
<1>5. ledger' \subseteq Event
  BY <1>4, RecordType DEF AppendFragment, Shape, TypeOK
<1>6. TypeOK'
  BY <1>1, <1>5 DEF local, Shape, TypeOK, Labels
<1> QED
  BY <1>1, <1>6, SamePage
     DEF local, Shape, SeenKnown, PageKnown, BackKnown, CursorInPage,
         HoldsPage, HoldsCursor

LEMMA ShapeVerifyFragment == Shape /\ VerifyFragment => Shape'
<1> SUFFICES ASSUME Shape, VerifyFragment PROVE Shape'
  OBVIOUS
<1>1. /\ pc = "fragmentDone" /\ pc \in HoldsPage /\ pc' = "raw"
      /\ at < RawThrough /\ next \in Nat
      /\ at' = FragmentEnd /\ next' = next + 1
      /\ UNCHANGED <<file, durable, cur, latest, seen, snap, back, rewrites, aborts>>
  BY DEF VerifyFragment, HoldsPage, Goto, Shape, CursorInPage
<1>2. /\ FragmentEnd \in Nat /\ FragmentEnd <= RawThrough /\ cur.offset <= FragmentEnd
      /\ FragmentEnd <= PageEnd
  BY <1>1, FragmentFacts, PageFacts
<1>3. PageEnd' = PageEnd /\ RawThrough' = RawThrough
  BY <1>1, SamePage
<1>4. TypeOK'
  BY <1>1, <1>2 DEF durable, Shape, TypeOK, Labels
<1>5. CursorInPage'
  BY <1>1, <1>2, <1>3 DEF CursorInPage
<1> QED
  BY <1>1, <1>3, <1>4, <1>5
     DEF Shape, SeenKnown, PageKnown, BackKnown, HoldsPage

LEMMA ShapeSaveRaw == Shape /\ SaveRaw => Shape'
<1> SUFFICES ASSUME Shape, SaveRaw PROVE Shape'
  OBVIOUS
<1>1. /\ pc = "raw" /\ pc \in HoldsPage /\ pc' = "rawSaved" /\ next \in Nat
      /\ UNCHANGED <<file, cur, seen, snap, at, next, back, rewrites, aborts>>
  BY DEF SaveRaw, HoldsPage, Goto, Shape, CursorInPage
<1>2. /\ snap \in Snapshot /\ cur \in Entry /\ snap.from = cur.offset
      /\ cur.turnIndex \in Int /\ cur.offset \in Nat /\ cur.generation \in Nat
      /\ cur.rawFallback \in RawFallback \cup {None}
      /\ RawThrough \in Nat /\ RawThrough <= PageEnd
  BY <1>1, PageFacts, RawThroughInPage
<1>3. Fallback \in RawFallback
  BY <1>2 DEF Fallback, RawFallback
<1>4. [Fallback EXCEPT !.next = next] \in RawFallback
  BY <1>1, <1>3 DEF RawFallback
<1>5. EntryAt(RawThrough, cur.turnIndex, None,
              IF RawThrough < PageEnd THEN None
              ELSE [Fallback EXCEPT !.next = next]) \in Entry
  BY <1>2, <1>4, EntryAtType
<1>6. checkpoint' \in Entry /\ latest' \in Entry /\ ledger' = ledger
  BY <1>5 DEF SaveRaw, Save
<1>7. TypeOK'
  BY <1>1, <1>6 DEF Shape, TypeOK, Labels
<1> QED
  BY <1>1, <1>7, SamePage
     DEF Shape, SeenKnown, PageKnown, BackKnown, CursorInPage, HoldsPage,
         HoldsCursor

LEMMA ShapeProofFails == Shape /\ ProofFails => Shape'
<1> SUFFICES ASSUME Shape, Caught PROVE Shape'
  BY DEF ProofFails
<1>1. TypeOK'
  BY DEF Caught, Goto, local, durable, Shape, TypeOK, Labels
<1> QED
  BY <1>1, SamePage
     DEF Caught, Goto, local, Shape, SeenKnown, PageKnown, BackKnown,
         CursorInPage, HoldsPage, HoldsCursor

(* The steps that end a run without a new checkpoint.                      *)
LEMMA ShapeEnd ==
  Shape /\ (Finish \/ FinishRaw \/ CatchTransient \/ Abort) => Shape'
<1> SUFFICES ASSUME Shape, Finish \/ FinishRaw \/ CatchTransient \/ Abort
             PROVE  Shape'
  OBVIOUS
<1>1. /\ Rest /\ UNCHANGED <<file, checkpoint, ledger, rewrites>> /\ aborts' \in Nat
  BY DEF Finish, FinishRaw, CatchTransient, Abort, durable, Shape, TypeOK
<1> QED  BY <1>1, ShapeRest DEF Shape, TypeOK

LEMMA ShapeCatchAtDurable == Shape /\ CatchAtDurable => Shape'
<1> SUFFICES ASSUME Shape, CatchAtDurable PROVE Shape'
  OBVIOUS
<1>1. file \in File /\ latest \in Entry /\ PageStartOf(latest) \in Start
  BY StartType DEF Shape, TypeOK
<1>2. /\ PageStartOf(latest).offset <= Len(file.lines)
      /\ latest.source.page \in Page \cup {None}
  BY <1>1 DEF CatchAtDurable, RetryAtDurable, DurableProofHolds, PageStartOf,
              Entry, Source
<1>3. checkpoint' \in Entry
  BY <1>1, <1>2, RestartType DEF CatchAtDurable
<1> QED  BY <1>3, ShapeRest DEF CatchAtDurable, Shape, TypeOK

LEMMA ShapeCatchChanged == Shape /\ CatchChanged => Shape'
<1> SUFFICES ASSUME Shape, CatchChanged PROVE Shape'
  OBVIOUS
<1>1. back' \in Start
  BY StartType DEF CatchChanged, Shape, TypeOK
<1>2. TypeOK'
  BY <1>1 DEF CatchChanged, Goto, durable, Shape, TypeOK, Labels
<1> QED
  BY <1>1, <1>2, SamePage
     DEF CatchChanged, Goto, Shape, SeenKnown, PageKnown, BackKnown,
         CursorInPage, HoldsPage, HoldsCursor

LEMMA ShapeRewind == Shape /\ Rewind => Shape'
<1> SUFFICES ASSUME Shape, Rewind PROVE Shape'
  OBVIOUS
<1>1. file \in File /\ latest \in Entry /\ back \in Start /\ checkpoint \in Entry
  BY DEF Rewind, Shape, TypeOK, BackKnown
<1>2. checkpoint' \in Entry
  BY <1>1, RestartType DEF Rewind
<1> QED  BY <1>2, ShapeRest DEF Rewind, Shape, TypeOK

(* Every write leaves a file at the path.                                  *)
LEMMA WriterStepType ==
  ASSUME file \in File, rewrites \in Nat, WriterStep
  PROVE  /\ file' \in File /\ rewrites' \in Nat
         /\ file.identity <= file'.identity
<1>1. /\ file.identity \in Nat /\ file.token \in Nat /\ file.lines \in Lines
      /\ file.lines \in Seq(Line) /\ Len(file.lines) \in Nat
  BY LenProperties DEF File, Lines
<1>2. ASSUME NEW lines \in Lines, NEW identity \in Nat, file.identity <= identity,
             Write(lines, identity)
      PROVE  file' \in File /\ file.identity <= file'.identity
  BY <1>1, <1>2 DEF Write, File
<1>3. CASE AppendLine
  <2>1. PICK l \in Line : Write(Append(file.lines, l), file.identity)
    BY <1>3 DEF AppendLine
  <2>2. Append(file.lines, l) \in Lines
    BY <1>1, AppendProperties DEF Lines
  <2> QED  BY <1>1, <1>2, <1>3, <2>1, <2>2 DEF AppendLine
<1>4. CASE RewriteLine
  <2>1. PICK i \in 1 .. Len(file.lines), l \in Line :
          Write([file.lines EXCEPT ![i] = l], file.identity)
    BY <1>4 DEF RewriteLine
  <2>2. [file.lines EXCEPT ![i] = l] \in Lines
    BY <1>1, ExceptSeq DEF Lines
  <2> QED  BY <1>1, <1>2, <1>4, <2>1, <2>2 DEF RewriteLine
<1>5. CASE Truncate
  <2>1. PICK n \in 0 .. (Len(file.lines) - 1) :
          Write(Slice(file.lines, 0, n), file.identity)
    BY <1>5 DEF Truncate
  <2>2. Slice(file.lines, 0, n) \in Lines
    BY <1>1, SliceType
  <2> QED  BY <1>1, <1>2, <1>5, <2>1, <2>2 DEF Truncate
<1>6. CASE Replace
  <2>1. PICK lines \in Contents : Write(lines, file.identity + 1)
    BY <1>6 DEF Replace
  <2>2. lines \in Lines
    BY ContentsAreLines DEF Lines
  <2> QED  BY <1>1, <1>2, <1>6, <2>1, <2>2 DEF Replace
<1> QED  BY <1>3, <1>4, <1>5, <1>6 DEF WriterStep

LEMMA ShapeWriter == Shape /\ Writer => Shape'
<1> SUFFICES ASSUME Shape, Writer PROVE Shape'
  OBVIOUS
<1>1. file' \in File /\ rewrites' \in Nat
  BY WriterStepType DEF Writer, Shape, TypeOK
<1>2. TypeOK'
  BY <1>1 DEF Writer, local, durable, Shape, TypeOK
<1> QED
  BY <1>2, SamePage
     DEF Writer, local, Shape, SeenKnown, PageKnown, BackKnown, CursorInPage

LEMMA ShapeCatchUnstable == Shape /\ CatchUnstable => Shape'
<1> SUFFICES ASSUME Shape, CatchUnstable PROVE Shape'
  OBVIOUS
<1>1. file' \in File /\ rewrites' \in Nat
  BY WriterStepType DEF CatchUnstable, Shape, TypeOK
<1> QED  BY <1>1, ShapeRest DEF CatchUnstable, durable, Shape, TypeOK

LEMMA ShapeStutter == Shape /\ UNCHANGED vars => Shape'
<1> SUFFICES ASSUME Shape, UNCHANGED vars PROVE Shape'
  OBVIOUS
<1>1. TypeOK'
  BY DEF vars, local, durable, Shape, TypeOK
<1> QED
  BY <1>1, SamePage
     DEF vars, local, Shape, SeenKnown, PageKnown, BackKnown, CursorInPage

LEMMA ShapeNext == Shape /\ [Next]_vars => Shape'
BY ShapeResume, ShapeReset, ShapeReadTail, ShapeCheckBoundary, ShapeSaveAhead,
   ShapeVerifyAhead, ShapeClearRaw, ShapeVerifyClear, ShapeAppendTurn,
   ShapeSaveTurn, ShapeCheckBoundaryAgain, ShapeSavePage, ShapeAppendFragment,
   ShapeVerifyFragment, ShapeSaveRaw, ShapeProofFails, ShapeEnd,
   ShapeCatchAtDurable, ShapeCatchChanged, ShapeRewind, ShapeWriter,
   ShapeCatchUnstable, ShapeStutter
   DEF Next, Handler

(* Type correctness: no sequence of writes, proofs, retries and aborts     *)
(* makes handleJsonlChange hold a cursor, page or checkpoint of a wrong    *)
(* shape, for every page and boundary size.                                *)
THEOREM TypeCorrect == Spec => []TypeOK
<1>1. Init => Shape
  BY ShapeInit
<1>2. Shape /\ [Next]_vars => Shape'
  BY ShapeNext
<1>3. Shape => TypeOK
  BY DEF Shape
<1> QED  BY <1>1, <1>2, <1>3, PTL DEF Spec

-----------------------------------------------------------------------------
(* One file per generation.                                                *)

Agreement == SameGeneration /\ LatestSaved /\ IdentityOrder /\ SameFile

LedgerInv == LedgerOfGeneration /\ GenerationIsOneFile

LEMMA FileInit == Init => FileInv
<1> SUFFICES ASSUME Init PROVE FileInv
  OBVIOUS
<1>1. Shape
  BY ShapeInit
<1>2. SameGeneration /\ LatestSaved /\ IdentityOrder /\ SameFile
  BY DEF Init, Rested, Fresh, SameGeneration, LatestSaved, IdentityOrder, SameFile, HoldsPage
<1>3. LedgerOfGeneration /\ GenerationIsOneFile
  BY DEF Init, LedgerOfGeneration, GenerationIsOneFile
<1> QED  BY <1>1, <1>2, <1>3 DEF FileInv

(* A checkpoint of the next generation has no events yet.                  *)
LEMMA LedgerRestart ==
  ASSUME LedgerInv, ledger' = ledger, checkpoint \in Entry, ledger \subseteq Event,
         checkpoint'.generation = checkpoint.generation + 1
  PROVE  LedgerInv'
<1>1. checkpoint.generation \in Nat
  BY DEF Entry
<1>2. ASSUME NEW x \in ledger
      PROVE  x.generation < checkpoint'.generation /\ x.generation \in Nat
  BY <1>1 DEF LedgerInv, LedgerOfGeneration, Event
<1>3. LedgerOfGeneration'
  BY <1>1, <1>2 DEF LedgerOfGeneration
<1> QED  BY <1>3 DEF LedgerInv, GenerationIsOneFile

(* A checkpoint of the same generation and file keeps the events' origin.  *)
LEMMA LedgerSave ==
  ASSUME LedgerInv, ledger' = ledger,
         checkpoint'.generation = checkpoint.generation,
         checkpoint'.source # None,
         checkpoint.source # None =>
           checkpoint'.source.identity = checkpoint.source.identity
  PROVE  LedgerInv'
BY DEF LedgerInv, LedgerOfGeneration, GenerationIsOneFile

(* An appended event comes from the file the checkpoint is a proof of.     *)
LEMMA LedgerAppend ==
  ASSUME LedgerInv, ledger \subseteq Event, checkpoint \in Entry,
         checkpoint' = checkpoint, checkpoint.source # None,
         NEW x, x \in Event, ledger' \subseteq ledger \cup {x},
         x.generation = checkpoint.generation,
         x.identity = checkpoint.source.identity
  PROVE  LedgerInv'
<1>1. checkpoint.generation \in Nat
  BY DEF Entry
<1>2. LedgerOfGeneration'
  BY <1>1 DEF LedgerInv, LedgerOfGeneration
<1>3. ASSUME NEW y \in ledger', NEW z \in ledger', y.generation = z.generation
      PROVE  y.identity = z.identity
  <2>1. CASE y \in ledger /\ z \in ledger
    BY <1>3, <2>1 DEF LedgerInv, GenerationIsOneFile
  <2>2. CASE y = x \/ z = x
    BY <1>2, <1>3, <2>2 DEF LedgerOfGeneration
  <2> QED  BY <2>1, <2>2
<1> QED  BY <1>2, <1>3 DEF LedgerInv, GenerationIsOneFile

LEMMA FileResume == FileInv /\ Resume => (Agreement /\ LedgerInv)'
<1> SUFFICES ASSUME FileInv, Resume PROVE (Agreement /\ LedgerInv)'
  OBVIOUS
<1>1. /\ file \in File /\ checkpoint \in Entry /\ file.identity \in Nat
      /\ ledger \subseteq Event /\ LedgerInv
      /\ pc = "idle" /\ UNCHANGED <<file, snap>> /\ snap = None
      /\ checkpoint.source # None => checkpoint.source.identity <= file.identity
      /\ checkpoint.source \in Source \cup {None}
  BY DEF FileInv, LedgerInv, IdentityOrder, Shape, TypeOK, PageKnown, Resume,
         File, Entry
<1>2. CASE ProofCurrent(checkpoint)
  <2>1. /\ UNCHANGED durable /\ cur' = checkpoint /\ latest' = checkpoint
        /\ pc' = "read" /\ seen'.identity = file.identity
    BY <1>2 DEF Resume, Goto, Inspect
  <2>2. checkpoint.source # None => checkpoint.source.identity = file.identity
    BY <1>2 DEF ProofCurrent, DurableProofHolds, Replaced
  <2>3. Agreement'
    BY <1>1, <2>1, <2>2
       DEF Agreement, SameGeneration, LatestSaved, IdentityOrder, SameFile, HoldsPage, durable
  <2> QED
    BY <1>1, <2>1, <2>3
       DEF durable, LedgerInv, LedgerOfGeneration, GenerationIsOneFile
<1>3. CASE ~ProofCurrent(checkpoint) /\ RetryAtDurable(checkpoint)
  <2> DEFINE e == Restart(checkpoint, PageStartOf(checkpoint),
                          checkpoint.source.page)
  <2>1. /\ checkpoint' = e /\ latest' = e /\ cur' = e /\ seen' = e.source
        /\ pc' = "read" /\ ledger' = ledger
    BY <1>3 DEF Resume, Goto, Save
  <2>2. e.generation = checkpoint.generation + 1 /\ e.source.identity = file.identity
    BY DEF Restart, Inspect
  <2> HIDE DEF e
  <2>3. Agreement'
    BY <1>1, <2>1, <2>2
       DEF Agreement, SameGeneration, LatestSaved, IdentityOrder, SameFile, HoldsPage
  <2> QED  BY <1>1, <2>1, <2>2, <2>3, LedgerRestart
<1>4. CASE ~ProofCurrent(checkpoint) /\ ~RetryAtDurable(checkpoint)
  <2>1. /\ UNCHANGED durable /\ cur' = checkpoint /\ latest' = checkpoint
        /\ pc' = "reset"
    BY <1>4 DEF Resume, Goto
  <2>2. Agreement'
    BY <1>1, <2>1
       DEF Agreement, SameGeneration, LatestSaved, IdentityOrder, SameFile, HoldsPage, durable
  <2> QED
    BY <1>1, <2>1, <2>2
       DEF durable, LedgerInv, LedgerOfGeneration, GenerationIsOneFile
<1> QED  BY <1>2, <1>3, <1>4

(* A run that ends agrees with nothing any more.                           *)
LEMMA AgreementAtRest ==
  ASSUME pc' = "idle",
         checkpoint'.source # None => checkpoint'.source.identity <= file'.identity
  PROVE  Agreement'
BY DEF Agreement, SameGeneration, LatestSaved, IdentityOrder, SameFile, HoldsPage

LEMMA FileReset == FileInv /\ Reset => (Agreement /\ LedgerInv)'
<1> SUFFICES ASSUME FileInv, Reset PROVE (Agreement /\ LedgerInv)'
  OBVIOUS
<1>1. /\ file \in File /\ checkpoint \in Entry /\ file.identity \in Nat
      /\ ledger \subseteq Event /\ LedgerInv /\ pc = "reset" /\ snap = None
      /\ cur.generation = checkpoint.generation /\ UNCHANGED file
      /\ checkpoint.source # None => checkpoint.source.identity <= file.identity
  BY DEF FileInv, LedgerInv, IdentityOrder, SameGeneration, LatestSaved, Shape, TypeOK,
         PageKnown, Reset, File
<1>2. CASE pc' = "idle" /\ UNCHANGED durable
  BY <1>1, <1>2, AgreementAtRest
     DEF durable, LedgerInv, LedgerOfGeneration, GenerationIsOneFile
<1>3. CASE /\ LET e == Restart(cur, back, None)
               IN  Save(e) /\ cur' = e /\ seen' = e.source
           /\ pc' = "read" /\ UNCHANGED snap
  <2> DEFINE e == Restart(cur, back, None)
  <2>1. /\ checkpoint' = e /\ latest' = e /\ cur' = e /\ seen' = e.source
        /\ ledger' = ledger
    BY <1>3 DEF Save
  <2>2. e.generation = checkpoint.generation + 1 /\ e.source.identity = file.identity
    BY <1>1 DEF Restart, Inspect
  <2> HIDE DEF e
  <2>3. Agreement'
    BY <1>1, <1>3, <2>1, <2>2
       DEF Agreement, SameGeneration, LatestSaved, IdentityOrder, SameFile, HoldsPage
  <2> QED  BY <1>1, <2>1, <2>2, <2>3, LedgerRestart
<1> QED  BY <1>2, <1>3 DEF Reset, Rest, Goto

(* Steps of a run that change neither file, checkpoint nor ledger.         *)
LEMMA FileReadOnly ==
  FileInv /\ (\/ ReadTail \/ CheckBoundary \/ VerifyAhead \/ VerifyClear
              \/ CheckBoundaryAgain \/ VerifyFragment \/ ProofFails
              \/ CatchChanged \/ Finish \/ FinishRaw \/ CatchTransient \/ Abort)
    => (Agreement /\ LedgerInv)'
<1> SUFFICES ASSUME FileInv,
               \/ ReadTail \/ CheckBoundary \/ VerifyAhead \/ VerifyClear
               \/ CheckBoundaryAgain \/ VerifyFragment \/ ProofFails
               \/ CatchChanged \/ Finish \/ FinishRaw \/ CatchTransient \/ Abort
             PROVE  (Agreement /\ LedgerInv)'
  OBVIOUS
<1>1. UNCHANGED <<file, checkpoint, ledger>>
  BY DEF ReadTail, CheckBoundary, VerifyAhead, VerifyClear, CheckBoundaryAgain,
         VerifyFragment, ProofFails, Caught, CatchChanged, Finish, FinishRaw,
         CatchTransient, Abort, durable
<1>2. LedgerInv'
  BY <1>1 DEF FileInv, LedgerInv, LedgerOfGeneration, GenerationIsOneFile
<1>3. checkpoint.source # None => checkpoint.source.identity <= file.identity
  BY DEF FileInv, IdentityOrder
<1>4. CASE Finish \/ FinishRaw \/ CatchTransient \/ Abort
  BY <1>1, <1>2, <1>3, <1>4, AgreementAtRest
     DEF Finish, FinishRaw, CatchTransient, Abort, Rest
<1>5. CASE ReadTail
  <2>1. /\ pc = "read" /\ pc' = "bound" /\ UNCHANGED <<cur, latest, seen>>
        /\ snap' # None => snap'.identity = file.identity
        /\ file.identity \in Nat
    BY <1>5 DEF ReadTail, Goto, FileInv, Shape, TypeOK, File
  <2> QED
    BY <1>1, <1>2, <2>1
       DEF FileInv, Agreement, SameGeneration, LatestSaved, IdentityOrder, SameFile, HoldsPage
<1>6. CASE CheckBoundary
  <2>1. /\ pc = "bound" /\ pc' \in {"page", "ahead"} /\ file.identity = seen.identity
        /\ pc' = "page" => snap = None
        /\ pc' = "ahead" => snap # None
        /\ UNCHANGED <<cur, latest, seen, snap>>
    BY <1>6 DEF CheckBoundary, BoundaryCurrent, Goto
  <2>2. snap # None => snap.identity \in Nat /\ file.identity \in Nat
    BY DEF FileInv, Shape, TypeOK, Snapshot, File
  <2>3. snap # None => snap.identity = seen.identity
    BY <2>1, <2>2 DEF FileInv, IdentityOrder
  <2> QED
    BY <1>1, <1>2, <2>1, <2>3
       DEF FileInv, Agreement, SameGeneration, LatestSaved, IdentityOrder, SameFile, HoldsPage
<1>7. CASE VerifyAhead
  <2>1. /\ pc = "aheadSaved" /\ pc' \in {"clearRaw", "raw", "turn"}
        /\ UNCHANGED <<cur, latest, seen, snap>>
    BY <1>7 DEF VerifyAhead, EnterLoop, Goto
  <2> QED
    BY <1>1, <1>2, <2>1
       DEF FileInv, Agreement, SameGeneration, LatestSaved, IdentityOrder, SameFile, HoldsPage
<1>8. CASE VerifyClear
  <2>1. /\ pc = "rawCleared" /\ pc' \in {"raw", "turn"}
        /\ UNCHANGED <<seen, snap>> /\ latest' = checkpoint
        /\ cur' = [cur EXCEPT !.rawFallback = None] /\ cur \in Entry
    BY <1>8 DEF VerifyClear, EnterLoop, Goto, FileInv, Shape, TypeOK
  <2>2. cur'.generation = cur.generation
    BY <2>1 DEF Entry
  <2> QED
    BY <1>1, <1>2, <2>1, <2>2
       DEF FileInv, Agreement, SameGeneration, LatestSaved, IdentityOrder, SameFile, HoldsPage
<1>9. CASE CheckBoundaryAgain
  <2>1. pc = "turn" /\ pc' = "page" /\ UNCHANGED <<cur, latest, seen, snap>>
    BY <1>9 DEF CheckBoundaryAgain, Goto, local
  <2> QED
    BY <1>1, <1>2, <2>1
       DEF FileInv, Agreement, SameGeneration, LatestSaved, IdentityOrder, SameFile, HoldsPage
<1>10. CASE VerifyFragment
  <2>1. pc = "fragmentDone" /\ pc' = "raw" /\ UNCHANGED <<cur, latest, seen, snap>>
    BY <1>10 DEF VerifyFragment, Goto
  <2> QED
    BY <1>1, <1>2, <2>1
       DEF FileInv, Agreement, SameGeneration, LatestSaved, IdentityOrder, SameFile, HoldsPage
<1>11. CASE ProofFails \/ CatchChanged
  <2>1. pc # "idle" /\ pc' \in {"caught", "rewind"} /\ UNCHANGED <<cur, latest>>
    BY <1>11 DEF ProofFails, Caught, CatchChanged, Goto, local
  <2> QED
    BY <1>1, <1>2, <2>1
       DEF FileInv, Agreement, SameGeneration, LatestSaved, IdentityOrder, SameFile, HoldsPage
<1> QED
  BY <1>2, <1>4, <1>5, <1>6, <1>7, <1>8, <1>9, <1>10, <1>11

(* Checkpoints saved of a page that was read, in the run's generation.     *)
LEMMA FileSave ==
  FileInv /\ (SaveAhead \/ ClearRaw \/ SaveTurn \/ SavePage \/ SaveRaw)
    => (Agreement /\ LedgerInv)'
<1> SUFFICES ASSUME FileInv, SaveAhead \/ ClearRaw \/ SaveTurn \/ SavePage \/ SaveRaw
             PROVE  (Agreement /\ LedgerInv)'
  OBVIOUS
<1>1. /\ UNCHANGED <<file, cur, seen, snap, ledger>> /\ LedgerInv
      /\ checkpoint \in Entry /\ latest \in Entry /\ cur \in Entry
      /\ cur.generation = checkpoint.generation
      /\ latest.generation = checkpoint.generation
      /\ seen \in Source
      /\ checkpoint.source # None =>
           /\ checkpoint.source.identity <= file.identity
           /\ checkpoint.source.identity = seen.identity
  BY DEF SaveAhead, ClearRaw, SaveTurn, SavePage, SaveRaw, Save, local, FileInv,
         LedgerInv, Shape, TypeOK, SameGeneration, LatestSaved, IdentityOrder, SameFile,
         SeenKnown, HoldsPage
<1>2. /\ checkpoint'.generation = checkpoint.generation
      /\ latest'.generation = checkpoint.generation
      /\ checkpoint'.source # None
      /\ checkpoint'.source.identity = seen.identity
  <2>1. ASSUME NEW o \in Nat, NEW i \in Int, NEW page, NEW raw,
               snap \in Snapshot, o <= PageEnd, snap.identity = seen.identity
        PROVE  /\ EntryAt(o, i, page, raw).generation = checkpoint.generation
               /\ EntryAt(o, i, page, raw).source # None
               /\ EntryAt(o, i, page, raw).source.identity = seen.identity
    <3>1. SourceAt(o, o) \in Source
      BY <2>1, SourceAtType
    <3>2. SourceAt(o, o) # None
      BY <3>1, NoneIsNoRecord
    <3>3. SourceAt(o, o).identity = seen.identity
      BY <2>1 DEF SourceAt
    <3> QED  BY <1>1, <3>2, <3>3 DEF EntryAt
  <2>2. CASE SaveAhead
    <3>1. pc \in HoldsPage /\ checkpoint' = latest'
          /\ checkpoint' = EntryAt(cur.offset, cur.turnIndex, InflightPage, cur.rawFallback)
      BY <2>2 DEF SaveAhead, Save, HoldsPage
    <3>2. snap \in Snapshot /\ cur.offset \in Nat /\ cur.turnIndex \in Int
          /\ cur.offset <= PageEnd /\ snap.identity = seen.identity
      BY <3>1, PageFacts DEF FileInv, SameFile
    <3> QED  BY <2>1, <3>1, <3>2
  <2>3. CASE ClearRaw
    <3>1. /\ pc = "clearRaw" /\ pc \in HoldsPage \ {"ahead"} /\ latest' = latest
          /\ checkpoint' = [latest EXCEPT !.rawFallback = None]
      BY <2>3 DEF ClearRaw, HoldsPage, local
    <3>2. latest.source = checkpoint.source
      BY <3>1 DEF FileInv, LatestSaved
    <3>3. checkpoint'.source = latest.source /\ checkpoint'.generation = latest.generation
      BY <1>1, <3>1 DEF Entry
    <3> QED  BY <1>1, <3>1, <3>2, <3>3 DEF FileInv, SameFile
  <2>4. CASE SaveTurn
    <3>1. /\ pc = "turnDone" /\ pc \in HoldsPage /\ checkpoint' = latest'
          /\ checkpoint' = EntryAt(NextTurn.offset, next - 1, InflightPage, None)
          /\ Pending # {}
      BY <2>4 DEF SaveTurn, Save, HoldsPage, FileInv, Shape, CursorInPage
    <3>2. snap \in Snapshot /\ snap.from <= PageEnd /\ next - 1 \in Int
          /\ snap.identity = seen.identity
      BY <3>1, PageFacts DEF FileInv, Shape, TypeOK, SameFile, Snapshot
    <3>3. NextTurn.offset \in Nat /\ NextTurn.offset <= PageEnd
      BY <3>1, <3>2, NextTurnIsPending, PendingInPage
    <3> QED  BY <2>1, <3>1, <3>2, <3>3
  <2>5. CASE SavePage
    <3>1. pc = "page" /\ checkpoint' = PageEntry /\ latest' = PageEntry
      BY <2>5 DEF SavePage, Save
    <3>2. CASE snap = None
      <4>1. PageEntry = [cur EXCEPT !.turnIndex = next - 1, !.source = seen,
                                    !.inflight = None]
        BY <3>2 DEF PageEntry
      <4>2. PageEntry.source = seen /\ PageEntry.generation = cur.generation
        BY <1>1, <4>1 DEF Entry
      <4> QED  BY <1>1, <3>1, <4>2, NoneIsNoRecord
    <3>3. CASE snap # None
      <4>1. /\ snap \in Snapshot /\ snap.from \in Nat /\ PageEnd \in Nat
            /\ snap.from <= PageEnd /\ next - 1 \in Int
            /\ snap.identity = seen.identity
        BY <3>1, <3>3, LenProperties
           DEF FileInv, Shape, TypeOK, PageKnown, Snapshot, Lines, PageEnd, SameFile
      <4>2. NewOffset(snap.lines, snap.from, PageEnd) \in snap.from .. PageEnd
        BY <4>1, NewOffsetInRange
      <4>3. PageEntry = EntryAt(NewOffset(snap.lines, snap.from, PageEnd), next - 1,
                                None, cur.rawFallback)
        BY <3>3 DEF PageEntry
      <4> QED  BY <2>1, <3>1, <4>1, <4>2, <4>3
    <3> QED  BY <3>2, <3>3
  <2>6. CASE SaveRaw
    <3>1. /\ pc = "raw" /\ pc \in HoldsPage /\ checkpoint' = latest'
      BY <2>6 DEF SaveRaw, Save, HoldsPage
    <3>3. PICK raw : checkpoint' = EntryAt(RawThrough, cur.turnIndex, None, raw)
      BY <2>6 DEF SaveRaw, Save
    <3>2. snap \in Snapshot /\ RawThrough \in Nat /\ RawThrough <= PageEnd
          /\ cur.turnIndex \in Int /\ snap.identity = seen.identity
      BY <3>1, PageFacts, RawThroughInPage DEF FileInv, SameFile
    <3> QED  BY <2>1, <3>1, <3>2, <3>3
  <2> QED  BY <2>2, <2>3, <2>4, <2>5, <2>6
<1>3. LedgerInv'
  BY <1>1, <1>2, LedgerSave
<1>6. LatestSaved'
  <2>1. CASE ClearRaw
    <3>1. /\ latest' = latest /\ pc = "clearRaw"
          /\ checkpoint' = [latest EXCEPT !.rawFallback = None]
      BY <2>1 DEF ClearRaw, local
    <3> QED  BY <1>1, <3>1 DEF LatestSaved, Entry
  <2>2. CASE ~ClearRaw
    BY <2>2 DEF SaveAhead, SaveTurn, SavePage, SaveRaw, Save, LatestSaved
  <2> QED  BY <2>1, <2>2
<1>4. /\ pc \in HoldsPage \cup {"page"} /\ pc' \in HoldsPage \cup {"pageSaved"}
      /\ pc' # "ahead"
      /\ pc' \in HoldsPage => pc \in HoldsPage
      /\ pc' = "pageSaved" => pc = "page"
  BY DEF SaveAhead, ClearRaw, SaveTurn, SavePage, SaveRaw, HoldsPage, Goto
<1>5. seen.identity <= file.identity
  BY <1>1, <1>2, <1>4 DEF FileInv, IdentityOrder, SameFile, HoldsPage
<1> QED
  BY <1>1, <1>2, <1>3, <1>4, <1>5, <1>6
     DEF FileInv, Agreement, SameGeneration, IdentityOrder, SameFile, HoldsPage

(* Events appended: of the run's generation and of the page's file.        *)
LEMMA FileAppend ==
  FileInv /\ (AppendTurn \/ AppendFragment) => (Agreement /\ LedgerInv)'
<1> SUFFICES ASSUME FileInv, AppendTurn \/ AppendFragment
             PROVE  (Agreement /\ LedgerInv)'
  OBVIOUS
<1>1. /\ UNCHANGED <<file, checkpoint, cur, latest, seen, snap>>
      /\ pc \in HoldsPage \ {"ahead"} /\ pc' \in HoldsPage \ {"ahead"}
      /\ pc \in {"turn", "raw"}
  BY DEF AppendTurn, AppendFragment, HoldsPage, Goto, local
<1>2. /\ LedgerInv /\ ledger \subseteq Event /\ checkpoint \in Entry
      /\ cur.generation = checkpoint.generation /\ cur.generation \in Nat
      /\ checkpoint.source # None
      /\ snap.identity = checkpoint.source.identity
      /\ snap \in Snapshot /\ snap.from <= PageEnd /\ next \in Int
      /\ snap.identity \in Nat /\ snap.lines \in Lines /\ PageEnd \in Nat
  BY <1>1, PageFacts
     DEF FileInv, LedgerInv, Shape, TypeOK, SameGeneration, SameFile, HoldsPage,
         Snapshot
<1>3. Agreement'
  BY <1>1
     DEF FileInv, Agreement, SameGeneration, LatestSaved, IdentityOrder,
         SameFile, HoldsPage
<1>4. CASE AppendTurn
  <2>1. TurnEvent(NextTurn) \in Event
    BY <1>2, <1>4, NextTurnIsPending, PendingInPage
       DEF AppendTurn, TurnEvent, Event
  <2>2. ledger' \subseteq ledger \cup {TurnEvent(NextTurn)}
    BY <1>2, <1>4, <2>1, RecordType DEF AppendTurn
  <2>3. /\ TurnEvent(NextTurn).generation = checkpoint.generation
        /\ TurnEvent(NextTurn).identity = checkpoint.source.identity
    BY <1>2 DEF TurnEvent
  <2> QED  BY <1>1, <1>2, <1>3, <2>1, <2>2, <2>3, LedgerAppend
<1>5. CASE AppendFragment
  <2>1. /\ at \in Nat /\ FragmentEnd \in Nat /\ FragmentEnd <= PageEnd
    BY <1>2, <1>5, FragmentFacts DEF AppendFragment, FileInv
  <2>2. Slice(snap.lines, at, FragmentEnd) \in Lines
    BY <1>2, <2>1, SliceType DEF PageEnd
  <2>3. FragmentEvent \in Event
    BY <1>2, <2>1, <2>2 DEF FragmentEvent, Event
  <2>4. ledger' \subseteq ledger \cup {FragmentEvent}
    BY <1>2, <1>5, <2>3, RecordType DEF AppendFragment
  <2>5. /\ FragmentEvent.generation = checkpoint.generation
        /\ FragmentEvent.identity = checkpoint.source.identity
    BY <1>2 DEF FragmentEvent
  <2> QED  BY <1>1, <1>2, <1>3, <2>3, <2>4, <2>5, LedgerAppend
<1> QED  BY <1>4, <1>5

(* The catch block's rewinds open the next generation on the file as it is.*)
LEMMA FileRestart ==
  FileInv /\ (CatchAtDurable \/ Rewind) => (Agreement /\ LedgerInv)'
<1> SUFFICES ASSUME FileInv, CatchAtDurable \/ Rewind
             PROVE  (Agreement /\ LedgerInv)'
  OBVIOUS
<1>1. /\ LedgerInv /\ ledger \subseteq Event /\ checkpoint \in Entry
      /\ file \in File /\ file.identity \in Nat
      /\ latest.generation = checkpoint.generation
      /\ checkpoint.source # None => checkpoint.source.identity <= file.identity
      /\ UNCHANGED <<file, ledger>> /\ pc' = "idle"
  BY DEF FileInv, LedgerInv, Shape, TypeOK, SameGeneration, IdentityOrder, File,
         CatchAtDurable, Rewind, Rest
<1>2. \/ checkpoint' = checkpoint
      \/ \E point, page : checkpoint' = Restart(latest, point, page)
  BY DEF CatchAtDurable, Rewind
<1>3. CASE checkpoint' = checkpoint
  BY <1>1, <1>3, AgreementAtRest
     DEF LedgerInv, LedgerOfGeneration, GenerationIsOneFile
<1>4. ASSUME NEW point, NEW page, checkpoint' = Restart(latest, point, page)
      PROVE  (Agreement /\ LedgerInv)'
  <2>1. /\ checkpoint'.generation = checkpoint.generation + 1
        /\ checkpoint'.source.identity = file.identity
    BY <1>1, <1>4 DEF Restart, Inspect
  <2> QED  BY <1>1, <2>1, AgreementAtRest, LedgerRestart
<1> QED  BY <1>2, <1>3, <1>4

(* A write at any moment, and steps that change nothing.                   *)
LEMMA FileWriter ==
  FileInv /\ (Writer \/ CatchUnstable \/ UNCHANGED vars)
    => (Agreement /\ LedgerInv)'
<1> SUFFICES ASSUME FileInv, Writer \/ CatchUnstable \/ UNCHANGED vars
             PROVE  (Agreement /\ LedgerInv)'
  OBVIOUS
<1>1. /\ file \in File /\ file.identity \in Nat /\ checkpoint \in Entry
      /\ checkpoint.source # None => checkpoint.source.identity <= file.identity
      /\ checkpoint.source # None => checkpoint.source.identity \in Nat
      /\ UNCHANGED <<checkpoint, ledger>>
  BY DEF FileInv, Shape, TypeOK, IdentityOrder, File, Entry, Source, Writer,
         CatchUnstable, durable, vars
<1>2. file' \in File /\ file'.identity \in Nat /\ file.identity <= file'.identity
  BY <1>1, WriterStepType DEF FileInv, Shape, TypeOK, Writer, CatchUnstable, File,
     vars
<1>3. LedgerInv'
  BY <1>1 DEF FileInv, LedgerInv, LedgerOfGeneration, GenerationIsOneFile
<1>4. CASE CatchUnstable
  BY <1>1, <1>2, <1>3, <1>4, AgreementAtRest DEF CatchUnstable, Rest
<1>5. CASE Writer \/ UNCHANGED vars
  <2>1. UNCHANGED <<pc, cur, latest, seen, snap>>
    BY <1>5 DEF Writer, local, vars
  <2>2. /\ pc \in {"read", "bound", "ahead", "page"} => seen.identity \in Nat
        /\ snap # None => snap.identity \in Nat
    BY DEF FileInv, Shape, TypeOK, SeenKnown, HoldsPage, Source, Snapshot
  <2> QED
    BY <1>1, <1>2, <1>3, <2>1, <2>2
       DEF FileInv, Agreement, SameGeneration, LatestSaved, IdentityOrder,
           SameFile
<1> QED  BY <1>4, <1>5

LEMMA FileNext == FileInv /\ [Next]_vars => FileInv'
<1> SUFFICES ASSUME FileInv, [Next]_vars PROVE FileInv'
  OBVIOUS
<1>1. Shape'
  BY ShapeNext DEF FileInv
<1>2. (Agreement /\ LedgerInv)'
  BY FileResume, FileReset, FileReadOnly, FileSave, FileAppend, FileRestart,
     FileWriter
     DEF Next, Handler
<1> QED  BY <1>1, <1>2 DEF FileInv, Agreement, LedgerInv

(* One generation, one file: whatever is renamed over the transcript and   *)
(* whenever, the events handleJsonlChange appends under one generation all *)
(* come from one file, for every page size and every number of writes.     *)
THEOREM OneFilePerGeneration == Spec => []GenerationIsOneFile
<1>1. Init => FileInv
  BY FileInit
<1>2. FileInv /\ [Next]_vars => FileInv'
  BY FileNext
<1>3. FileInv => GenerationIsOneFile
  BY DEF FileInv
<1> QED  BY <1>1, <1>2, <1>3, PTL DEF Spec

-----------------------------------------------------------------------------
(* The cursor of a run against the durable one.                            *)

(* Nothing of the page has been checkpointed yet.                          *)
Unmoved ==
  \/ pc \in {"read", "bound", "ahead", "aheadSaved", "clearRaw", "rawCleared",
             "raw", "fragmentDone"}
  \/ pc = "page" /\ snap = None

(* Turns of the page are being appended and checkpointed.                  *)
InTurns == pc \in {"turn", "turnDone"} \/ (pc = "page" /\ snap # None)

CursorUnmoved ==
  Unmoved => /\ checkpoint.offset = cur.offset
             /\ checkpoint.turnIndex = cur.turnIndex
             /\ pc # "rawCleared" => checkpoint.rawFallback = cur.rawFallback

CursorAtTurn ==
  InTurns => /\ checkpoint.offset = at
             /\ \/ at = cur.offset
                \/ \E t \in Turns(snap.lines, snap.from, PageEnd) : at = t.offset
             /\ cur.turnIndex <= checkpoint.turnIndex
             /\ cur.rawFallback = None /\ checkpoint.rawFallback = None

CursorNext ==
  /\ pc \in {"turn", "page"} => next = checkpoint.turnIndex + 1
  /\ pc = "turnDone" => checkpoint.turnIndex + 1 <= next
  /\ pc \in {"clearRaw", "rawCleared"} => at = cur.offset
  /\ pc \in {"raw", "fragmentDone"} /\ at # cur.offset => next # 0
  /\ pc = "raw" /\ at = cur.offset /\ cur.rawFallback # None => next # 0
  /\ pc = "rawCleared" => checkpoint.rawFallback = None
  /\ pc = "reset" => cur = checkpoint

CursorInv == FileInv /\ CursorUnmoved /\ CursorAtTurn /\ CursorNext

(* The lines of a slice, counted from its start.                           *)
LEMMA SliceFacts ==
  ASSUME NEW lines \in Lines, NEW a \in Nat, NEW b \in Nat, a <= b, b <= Len(lines)
  PROVE  /\ Slice(lines, a, b) \in Lines
         /\ Len(Slice(lines, a, b)) = b - a
         /\ \A i \in 1 .. (b - a) : Slice(lines, a, b)[i] = lines[a + i]
<1>1. Len(lines) \in Nat /\ lines \in Seq(Line)
  BY LenProperties DEF Lines
<1>2. /\ Slice(lines, a, b) \in Lines
      /\ Len(Slice(lines, a, b)) = IF a < b THEN b - a ELSE 0
  BY SliceType
<1>3. Len(Slice(lines, a, b)) = b - a
  BY <1>2
<1>4. ASSUME NEW i \in 1 .. (b - a)
      PROVE  Slice(lines, a, b)[i] = lines[a + i]
  <2>1. /\ a + 1 \in 1 .. Len(lines) + 1 /\ b \in (a + 1) - 1 .. Len(lines)
        /\ i \in 1 .. (b - (a + 1) + 1) /\ (a + 1) + i - 1 = a + i
    BY <1>1
  <2>2. SubSeq(lines, a + 1, b)[i] = lines[(a + 1) + i - 1]
    BY <1>1, <2>1, SubSeqProperties
  <2> QED  BY <2>1, <2>2 DEF Slice
<1> QED  BY <1>2, <1>3, <1>4

(* A page of a range of lines begins and ends where the range does.        *)
LEMMA PageOfFacts ==
  ASSUME NEW lines \in Lines, NEW a \in Nat, NEW b \in Nat, a <= b, b <= Len(lines)
  PROVE  /\ PageOf(lines, a, b) \in Page
         /\ PageOf(lines, a, b).from = a
         /\ PageOf(lines, a, b).lines = Slice(lines, a, b)
         /\ Through(PageOf(lines, a, b)) = b
<1>1. Slice(lines, a, b) \in Lines /\ Len(Slice(lines, a, b)) = b - a
  BY SliceFacts
<1>2. /\ PageOf(lines, a, b) = [from |-> a, lines |-> Slice(lines, a, b)]
      /\ a + (b - a) = b
  BY DEF PageOf
<1> QED  BY <1>1, <1>2 DEF Page, Through

(* A page is consumed to behind every turn that is closed in it.           *)
LEMMA ClosedBeforeNewOffset ==
  ASSUME NEW lines \in Lines, NEW from \in Nat, NEW through \in Nat,
         through <= Len(lines), NEW q \in Nat, NEW e \in Nat, q < e, e <= through,
         Closes(lines, q, e, through)
  PROVE  e <= NewOffset(lines, from, through)
<1>1. CASE OpenAt(lines, from, through) = {}
  BY <1>1 DEF NewOffset
<1>2. CASE OpenAt(lines, from, through) # {}
  <2> DEFINE p == CHOOSE p \in OpenAt(lines, from, through) : TRUE
  <2>1. p \in OpenAt(lines, from, through)
    BY <1>2
  <2>2. /\ p \in (from + 1) .. through /\ lines[p] \in UserLines
        /\ \A m \in (p + 1) .. through : lines[m] \notin UserLines \cup FinalLines
    BY <2>1 DEF OpenAt
  <2> HIDE DEF p
  <2>3. \/ lines[e] \in FinalLines
        \/ lines[e] \in ReplyLines /\ e + 1 <= through /\ lines[e + 1] \in UserLines
    BY DEF Closes
  <2>4. p # e
    BY <2>2, <2>3, LineKindsDisjoint
  <2>5. ~(p < e)
    <3> SUFFICES ASSUME p < e PROVE FALSE
      OBVIOUS
    <3>1. e \in (p + 1) .. through
      BY <2>2
    <3>2. e + 1 <= through => e + 1 \in (p + 1) .. through
      BY <2>2
    <3> QED  BY <2>2, <2>3, <3>1, <3>2
  <2>6. e <= p - 1
    BY <2>2, <2>4, <2>5
  <2> QED  BY <1>2, <2>6 DEF NewOffset, p
<1> QED  BY <1>1, <1>2

LEMMA CursorInit == Init => CursorInv
BY FileInit
   DEF Init, Rested, CursorInv, CursorUnmoved, CursorAtTurn, CursorNext, Unmoved,
       InTurns

(* At these steps the cursor is of no account any more.                    *)
LEMMA CursorDropped ==
  ASSUME FileInv', pc' \in {"idle", "caught", "rewind", "rawSaved", "pageSaved"}
  PROVE  CursorInv'
BY DEF CursorInv, CursorUnmoved, CursorAtTurn, CursorNext, Unmoved, InTurns

LEMMA CursorStart ==
  ASSUME CursorInv, FileInv', Resume \/ Reset
  PROVE  CursorInv'
<1>1. CASE pc' = "idle"
  BY <1>1, CursorDropped
<1>2. CASE pc' = "read"
  <2>1. checkpoint' = cur'
    BY <1>2 DEF Resume, Reset, Save, Goto, Rest, durable
  <2> QED
    BY <1>2, <2>1
       DEF CursorInv, CursorUnmoved, CursorAtTurn, CursorNext, Unmoved, InTurns
<1>3. CASE pc' = "reset"
  <2>1. checkpoint' = cur'
    BY <1>3 DEF Resume, Reset, Save, Goto, Rest, durable
  <2> QED
    BY <1>3, <2>1
       DEF CursorInv, CursorUnmoved, CursorAtTurn, CursorNext, Unmoved, InTurns
<1> QED  BY <1>1, <1>2, <1>3 DEF Resume, Reset, Rest, Goto

LEMMA CursorRead ==
  ASSUME CursorInv, FileInv', ReadTail \/ CheckBoundary
  PROVE  CursorInv'
<1>1. CASE ReadTail
  BY <1>1
     DEF ReadTail, Goto, durable, CursorInv, CursorUnmoved, CursorAtTurn,
         CursorNext, Unmoved, InTurns
<1>2. CASE CheckBoundary
  <2>1. /\ pc = "bound" /\ UNCHANGED <<checkpoint, cur, snap>>
        /\ \/ pc' = "page" /\ snap = None /\ next' = cur.turnIndex + 1
           \/ pc' = "ahead" /\ snap # None
    BY <1>2 DEF CheckBoundary, Goto, durable
  <2> QED
    BY <2>1
       DEF CursorInv, CursorUnmoved, CursorAtTurn, CursorNext, Unmoved, InTurns
<1> QED  BY <1>1, <1>2

LEMMA CursorSaveAhead ==
  ASSUME CursorInv, FileInv', SaveAhead
  PROVE  CursorInv'
<1>1. /\ pc = "ahead" /\ pc' = "aheadSaved" /\ UNCHANGED <<cur, snap>>
      /\ checkpoint' = EntryAt(cur.offset, cur.turnIndex, InflightPage, cur.rawFallback)
  BY DEF SaveAhead, Save, Goto
<1>2. /\ checkpoint'.offset = cur.offset /\ checkpoint'.turnIndex = cur.turnIndex
      /\ checkpoint'.rawFallback = cur.rawFallback
  BY <1>1 DEF EntryAt
<1> QED
  BY <1>1, <1>2
     DEF CursorInv, CursorUnmoved, CursorAtTurn, CursorNext, Unmoved, InTurns

(* The loop starts where the durable cursor is, in the mode its fallback   *)
(* calls for.                                                              *)
LEMMA CursorVerifyAhead ==
  ASSUME CursorInv, FileInv', VerifyAhead, Loads(cur)
  PROVE  CursorInv'
<1>1. /\ pc = "aheadSaved" /\ pc \in HoldsPage
      /\ UNCHANGED <<checkpoint, cur, snap>> /\ at' = cur.offset
      /\ pc' \in {"clearRaw", "raw", "turn"}
      /\ pc' = "turn" => /\ next' = cur.turnIndex + 1 /\ cur.rawFallback = None
      /\ pc' = "raw" /\ cur.rawFallback # None => next' = cur.rawFallback.next
  BY DEF VerifyAhead, EnterLoop, RawMode, Goto, durable, HoldsPage
<1>2. /\ checkpoint.offset = cur.offset /\ checkpoint.turnIndex = cur.turnIndex
      /\ checkpoint.rawFallback = cur.rawFallback
  BY <1>1 DEF CursorInv, CursorUnmoved, Unmoved
<1>3. cur.turnIndex \in Int
  BY DEF CursorInv, FileInv, Shape, TypeOK, Entry
<1>4. cur.rawFallback # None => cur.rawFallback.next # 0
  BY DEF Loads, RawFallbackLoads
<1> QED
  BY <1>1, <1>2, <1>3, <1>4
     DEF CursorInv, CursorUnmoved, CursorAtTurn, CursorNext, Unmoved, InTurns

LEMMA CursorClearRaw ==
  ASSUME CursorInv, FileInv', ClearRaw \/ VerifyClear
  PROVE  CursorInv'
<1>1. CASE ClearRaw
  <2>1. /\ pc = "clearRaw" /\ pc' = "rawCleared" /\ UNCHANGED <<cur, snap, at>>
        /\ checkpoint' = [latest EXCEPT !.rawFallback = None]
        /\ latest \in Entry
    BY <1>1 DEF ClearRaw, Goto, local, CursorInv, FileInv, Shape, TypeOK
  <2>2. /\ checkpoint'.offset = latest.offset
        /\ checkpoint'.turnIndex = latest.turnIndex
        /\ checkpoint'.rawFallback = None
    BY <2>1 DEF Entry
  <2>3. /\ checkpoint'.offset = cur.offset /\ checkpoint'.turnIndex = cur.turnIndex
        /\ at = cur.offset
    BY <2>1, <2>2
       DEF CursorInv, CursorUnmoved, CursorNext, Unmoved, FileInv, LatestSaved
  <2> QED
    BY <2>1, <2>2, <2>3
       DEF CursorInv, CursorUnmoved, CursorAtTurn, CursorNext, Unmoved, InTurns
<1>2. CASE VerifyClear
  <2>1. /\ pc = "rawCleared" /\ UNCHANGED <<checkpoint, snap, at>>
        /\ cur' = [cur EXCEPT !.rawFallback = None] /\ cur \in Entry
        /\ pc' \in {"raw", "turn"}
        /\ pc' = "turn" => next' = cur.turnIndex + 1
    BY <1>2
       DEF VerifyClear, EnterLoop, Goto, durable, CursorInv, FileInv, Shape, TypeOK
  <2>2. /\ cur'.offset = cur.offset /\ cur'.turnIndex = cur.turnIndex
        /\ cur'.rawFallback = None
    BY <2>1 DEF Entry
  <2>3. /\ checkpoint.offset = cur.offset /\ checkpoint.turnIndex = cur.turnIndex
        /\ at = cur.offset /\ checkpoint.rawFallback = None /\ cur.turnIndex \in Int
    BY <2>1
       DEF CursorInv, CursorUnmoved, CursorNext, Unmoved, FileInv, Shape, TypeOK,
           Entry
  <2> QED
    BY <2>1, <2>2, <2>3
       DEF CursorInv, CursorUnmoved, CursorAtTurn, CursorNext, Unmoved, InTurns
<1> QED  BY <1>1, <1>2

LEMMA CursorTurn ==
  ASSUME CursorInv, FileInv', AppendTurn \/ SaveTurn \/ CheckBoundaryAgain
  PROVE  CursorInv'
<1>1. /\ pc \in {"turn", "turnDone"} /\ InTurns /\ pc \in HoldsPage
      /\ UNCHANGED <<cur, snap>> /\ PageEnd' = PageEnd
      /\ next \in Int /\ checkpoint.turnIndex \in Int
  BY SamePage
     DEF AppendTurn, SaveTurn, CheckBoundaryAgain, InTurns, HoldsPage, local,
         CursorInv, FileInv, Shape, TypeOK, Entry
<1>2. CASE AppendTurn
  <2>1. /\ pc = "turn" /\ pc' = "turnDone" /\ UNCHANGED <<checkpoint, at>>
        /\ next' = next \/ next' = next + 1
    BY <1>2 DEF AppendTurn, Goto
  <2> QED
    BY <1>1, <2>1
       DEF CursorInv, CursorUnmoved, CursorAtTurn, CursorNext, Unmoved, InTurns
<1>3. CASE SaveTurn
  <2>1. /\ pc = "turnDone" /\ pc' = "turn" /\ at' = NextTurn.offset /\ next' = next
        /\ checkpoint' = EntryAt(NextTurn.offset, next - 1, InflightPage, None)
        /\ Pending # {}
    BY <1>3 DEF SaveTurn, Save, Goto, CursorInv, FileInv, Shape, CursorInPage
  <2>2. /\ checkpoint'.offset = NextTurn.offset /\ checkpoint'.turnIndex = next - 1
        /\ checkpoint'.rawFallback = None
    BY <2>1 DEF EntryAt
  <2>3. NextTurn \in Turns(snap.lines, snap.from, PageEnd)
    <3>1. snap \in Snapshot /\ snap.from <= PageEnd
      BY <1>1, PageFacts DEF CursorInv, FileInv, Snapshot
    <3> QED  BY <2>1, <3>1, NextTurnIsPending, PendingInPage
  <2>4. cur.turnIndex \in Int /\ cur.turnIndex <= next - 1
        /\ cur.rawFallback = None /\ next = next - 1 + 1
    BY <1>1, <2>1
       DEF CursorInv, CursorAtTurn, CursorNext, FileInv, Shape, TypeOK, Entry
  <2> QED
    BY <1>1, <2>1, <2>2, <2>3, <2>4
       DEF CursorInv, CursorUnmoved, CursorAtTurn, CursorNext, Unmoved, InTurns
<1>4. CASE CheckBoundaryAgain
  <2>1. /\ pc = "turn" /\ pc' = "page" /\ UNCHANGED <<checkpoint, at, next>>
        /\ snap # None
    BY <1>1, <1>4, PageFacts
       DEF CheckBoundaryAgain, Goto, local, durable, CursorInv, FileInv
  <2> QED
    BY <1>1, <2>1
       DEF CursorInv, CursorUnmoved, CursorAtTurn, CursorNext, Unmoved, InTurns
<1> QED  BY <1>2, <1>3, <1>4

LEMMA CursorFragment ==
  ASSUME CursorInv, FileInv', AppendFragment \/ VerifyFragment
  PROVE  CursorInv'
<1>1. CASE AppendFragment
  BY <1>1
     DEF AppendFragment, Goto, local, CursorInv, CursorUnmoved, CursorAtTurn,
         CursorNext, Unmoved, InTurns
<1>2. CASE VerifyFragment
  <2>1. /\ pc = "fragmentDone" /\ pc' = "raw" /\ UNCHANGED <<checkpoint, cur, snap>>
        /\ at' = FragmentEnd /\ next' = next + 1 /\ next \in Nat /\ at < RawThrough
    BY <1>2
       DEF VerifyFragment, Goto, durable, CursorInv, FileInv, Shape, CursorInPage
  <2>2. next' # 0
    BY <2>1
  <2> QED
    BY <2>1, <2>2
       DEF CursorInv, CursorUnmoved, CursorAtTurn, CursorNext, Unmoved, InTurns
<1> QED  BY <1>1, <1>2

LEMMA CursorWriter ==
  ASSUME CursorInv, FileInv', Writer \/ UNCHANGED vars
  PROVE  CursorInv'
<1>1. UNCHANGED <<checkpoint, pc, cur, snap, at, next>> /\ PageEnd' = PageEnd
  BY SamePage DEF Writer, local, durable, vars
<1> QED
  BY <1>1
     DEF CursorInv, CursorUnmoved, CursorAtTurn, CursorNext, Unmoved, InTurns

LEMMA CursorStep ==
  ASSUME CursorInv, Loads(cur), [Next]_vars
  PROVE  CursorInv'
<1>1. FileInv'
  BY FileNext DEF CursorInv
<1>2. CASE SavePage \/ SaveRaw \/ ProofFails \/ CatchChanged \/ Finish
           \/ FinishRaw \/ CatchTransient \/ CatchAtDurable \/ Rewind \/ Abort
           \/ CatchUnstable
  <2>1. pc' \in {"idle", "caught", "rewind", "rawSaved", "pageSaved"}
    BY <1>2
       DEF SavePage, SaveRaw, ProofFails, Caught, CatchChanged, Finish, FinishRaw,
           CatchTransient, CatchAtDurable, Rewind, Abort, CatchUnstable, Rest, Goto
  <2> QED  BY <1>1, <2>1, CursorDropped
<1> QED
  BY <1>1, <1>2, CursorStart, CursorRead, CursorSaveAhead, CursorVerifyAhead,
     CursorClearRaw, CursorTurn, CursorFragment, CursorWriter
     DEF Next, Handler

-----------------------------------------------------------------------------
(* Every entry a run works from or saves is one that loadCheckpoint takes. *)

RawLoads(raw, limit, generation) ==
  raw.start < limit /\ raw.next # 0 /\ raw.group <= generation

StartLoads(s, generation) ==
  /\ s.turnIndex >= -1
  /\ s.rawFallback # None => RawLoads(s.rawFallback, s.offset, generation)

EntryLoads(c) == Loads(c) /\ c.turnIndex >= -1

(* What `seen' vouches for before a page is read is the entry's own page.  *)
SeenIsOwn ==
  pc \in {"read", "bound"} \/ (pc = "page" /\ snap = None) =>
    seen.page = IF cur.source = None THEN None ELSE cur.source.page

EntriesLoad ==
  /\ EntryLoads(checkpoint) /\ EntryLoads(cur) /\ EntryLoads(latest)
  /\ pc = "reset" => StartLoads(back, cur.generation)
  /\ pc = "rewind" => StartLoads(back, latest.generation)
  /\ SeenIsOwn

(* The start a page was read with is where the entry stands, in the raw    *)
(* mode of then: the run may have dropped its fallback since.              *)
StartIsOwn ==
  snap # None => /\ snap.start.offset = cur.offset
                 /\ snap.start.turnIndex = cur.turnIndex
                 /\ StartLoads(snap.start, cur.generation)

LoadInv == EntriesLoad /\ StartIsOwn

LEMMA FreshLoads == EntryLoads(Fresh)
BY DEF EntryLoads, Loads, Fresh

(* A restart from where an entry says it may restart loads again.          *)
LEMMA RestartLoads ==
  ASSUME file \in File, NEW e \in Entry, NEW point \in Start,
         point.offset <= Len(file.lines), NEW page \in Page \cup {None},
         StartLoads(point, e.generation),
         page # None => page.from <= point.offset /\ point.offset <= Through(page)
  PROVE  EntryLoads(Restart(e, point, page))
<1> DEFINE c == Restart(e, point, page)
<1>1. /\ c.offset = point.offset /\ c.turnIndex = point.turnIndex
      /\ c.generation = e.generation + 1 /\ c.pageStart = None
      /\ c.inflight = None /\ c.rawFallback = point.rawFallback
      /\ c.source = Inspect(point.offset, page)
  BY DEF Restart
<1>2. c.source \in Source /\ c.source # None /\ c.source.page = page
  BY <1>1, RestartType, NoneIsNoRecord DEF Inspect
<1> HIDE DEF c
<1>3. SourceLoads(c)
  BY <1>1, <1>2 DEF SourceLoads
<1>4. c.rawFallback # None => RawFallbackLoads(c.rawFallback, c.offset, c)
  <2>1. /\ point.rawFallback \in RawFallback \cup {None} /\ e.generation \in Nat
        /\ point.rawFallback # None => point.rawFallback.group \in Nat
    BY DEF Start, Entry, RawFallback
  <2> QED
    BY <1>1, <1>2, <2>1 DEF StartLoads, RawLoads, RawFallbackLoads
<1>5. c.turnIndex >= -1
  BY <1>1 DEF StartLoads
<1>6. Loads(c)
  BY <1>1, <1>2, <1>3, <1>4 DEF Loads
<1> QED  BY <1>5, <1>6 DEF EntryLoads, c

(* Where an entry that loads may restart.                                  *)
LEMMA StartsLoad ==
  ASSUME NEW e \in Entry, EntryLoads(e)
  PROVE  /\ StartLoads(PageStartOf(e), e.generation)
         /\ StartLoads(RewindPoint(e), e.generation)
<1>1. StartLoads(PageStartOf(e), e.generation)
  BY DEF EntryLoads, Loads, RawFallbackLoads, PageStartOf, StartLoads, RawLoads
<1>2. CASE BoundedRewind(e)
  <2>1. e.pageStart # None /\ RewindPoint(e) = e.pageStart
    BY <1>2 DEF BoundedRewind, RewindPoint
  <2>2. StartLoads(e.pageStart, e.generation)
    BY <2>1
       DEF EntryLoads, Loads, PageStartLoads, RawFallbackLoads, StartLoads, RawLoads
  <2> QED  BY <1>1, <2>1, <2>2
<1>3. CASE ~BoundedRewind(e)
  <2>1. RewindPoint(e) = [offset |-> 0, turnIndex |-> e.turnIndex, rawFallback |-> None]
    BY <1>3 DEF RewindPoint
  <2>2. RewindPoint(e).turnIndex = e.turnIndex /\ RewindPoint(e).rawFallback = None
    BY <2>1
  <2> QED  BY <1>1, <2>2 DEF EntryLoads, StartLoads
<1> QED  BY <1>1, <1>2, <1>3

(* What is saved of a page that was read loads again.                      *)
LEMMA EntryAtLoads ==
  ASSUME snap \in Snapshot, snap # None, cur \in Entry, snap.from = cur.offset,
         EntryLoads(cur), StartIsOwn,
         NEW o \in Nat, cur.offset <= o, o <= PageEnd,
         NEW turnIndex \in Int, cur.turnIndex <= turnIndex,
         NEW inflight \in {InflightPage, None},
         NEW raw \in RawFallback \cup {None},
         raw # None => RawLoads(raw, o, cur.generation)
  PROVE  EntryLoads(EntryAt(o, turnIndex, inflight, raw))
<1> DEFINE c == EntryAt(o, turnIndex, inflight, raw)
<1>1. /\ c.offset = o /\ c.turnIndex = turnIndex /\ c.generation = cur.generation
      /\ c.source = SourceAt(o, o) /\ c.pageStart = snap.start
      /\ c.inflight = inflight /\ c.rawFallback = raw
  BY DEF EntryAt
<1>2. /\ PageEnd \in Nat /\ cur.offset \in Nat /\ snap.lines \in Lines
      /\ PageEnd <= Len(snap.lines) /\ Len(snap.lines) \in Nat /\ cur.turnIndex \in Int
  BY LenProperties DEF Snapshot, Lines, PageEnd, Entry
<1>3. c.source \in Source /\ c.source # None
  BY <1>1, SourceAtType, NoneIsNoRecord
<1>4. /\ PageOf(snap.lines, snap.from, o) \in Page
      /\ InflightPage \in Page
  BY <1>2, SourceAtType DEF InflightPage
<1>5. c.source.page = PageOf(snap.lines, snap.from, o) /\ c.source.page # None
  BY <1>1, <1>4, NoneIsNoRecord DEF SourceAt
<1>6. c.source.page.from = cur.offset /\ Through(c.source.page) = o
  BY <1>2, <1>5, PageOfFacts
<1>7. InflightPage.from = cur.offset /\ Through(InflightPage) = PageEnd
  BY <1>2, PageOfFacts DEF InflightPage
<1>8. /\ c.pageStart \in Start /\ c.pageStart # None
      /\ c.pageStart.offset = cur.offset /\ c.pageStart.turnIndex = cur.turnIndex
      /\ StartLoads(c.pageStart, cur.generation)
  BY <1>1, NoneIsNoRecord DEF StartIsOwn, Snapshot
<1> HIDE DEF c
<1>9. ASSUME NEW r \in RawFallback, NEW limit, RawLoads(r, limit, cur.generation)
      PROVE  RawFallbackLoads(r, limit, c)
  BY <1>1, <1>3, <1>9 DEF RawLoads, RawFallbackLoads
<1>10. SourceLoads(c)
  BY <1>1, <1>3, <1>6 DEF SourceLoads
<1>11. PageStartLoads(c)
  <2>1. c.pageStart.rawFallback # None =>
          /\ c.pageStart.rawFallback \in RawFallback
          /\ RawLoads(c.pageStart.rawFallback, c.pageStart.offset, cur.generation)
    BY <1>8 DEF Start, StartLoads
  <2>2. c.pageStart.rawFallback # None =>
          RawFallbackLoads(c.pageStart.rawFallback, c.pageStart.offset, c)
    BY <1>9, <2>1
  <2> QED  BY <1>1, <1>3, <1>5, <1>6, <1>8, <2>2 DEF PageStartLoads, EntryLoads
<1>12. c.rawFallback # None => RawFallbackLoads(c.rawFallback, c.offset, c)
  BY <1>1, <1>9
<1>13. c.inflight # None => InflightLoads(c)
  BY <1>1, <1>3, <1>6, <1>7, <1>8 DEF InflightLoads
<1>14. c.turnIndex >= -1
  BY <1>1, <1>2 DEF EntryLoads
<1> QED  BY <1>10, <1>11, <1>12, <1>13, <1>14 DEF EntryLoads, Loads, c

LEMMA LoadInit == Init => LoadInv
BY FreshLoads DEF Init, Rested, LoadInv, EntriesLoad, SeenIsOwn, StartIsOwn

(* Ending a run keeps what is durable.                                     *)
LEMMA LoadRest ==
  ASSUME Rest, EntryLoads(checkpoint')
  PROVE  EntriesLoad'
BY FreshLoads DEF Rest, LoadInv, EntriesLoad, SeenIsOwn

(* Entries that stay, at steps where no rewind is due.                     *)
LEMMA LoadSame ==
  ASSUME LoadInv, UNCHANGED <<checkpoint, cur, latest>>,
         pc' \notin {"reset", "rewind"}, SeenIsOwn'
  PROVE  EntriesLoad'
BY DEF LoadInv, EntriesLoad

LEMMA LoadStart ==
  ASSUME CursorInv, LoadInv, Resume \/ Reset
  PROVE  EntriesLoad'
<1>1. /\ file \in File /\ checkpoint \in Entry /\ cur \in Entry
      /\ checkpoint.offset \in Nat /\ checkpoint.source \in Source \cup {None}
  BY DEF CursorInv, FileInv, Shape, TypeOK, Entry
<1>2. CASE Resume /\ ProofCurrent(checkpoint)
  <2>1. /\ checkpoint' = checkpoint /\ cur' = checkpoint /\ latest' = checkpoint
        /\ pc' = "read"
        /\ seen'.page = IF checkpoint.source = None THEN None
                        ELSE checkpoint.source.page
    BY <1>2 DEF Resume, Goto, durable, Inspect
  <2> QED  BY <2>1 DEF LoadInv, EntriesLoad, SeenIsOwn
<1>3. CASE Resume /\ ~ProofCurrent(checkpoint) /\ RetryAtDurable(checkpoint)
  <2> DEFINE point == PageStartOf(checkpoint)
             page == checkpoint.source.page
             e == Restart(checkpoint, point, page)
  <2>1. /\ checkpoint' = e /\ cur' = e /\ latest' = e /\ seen' = e.source
        /\ pc' = "read"
    BY <1>3 DEF Resume, Goto, Save
  <2>2. /\ checkpoint.source \in Source /\ page \in Page /\ page # None
        /\ checkpoint.offset <= Len(file.lines) /\ point.offset = checkpoint.offset
    BY <1>1, <1>3 DEF RetryAtDurable, DurableProofHolds, Source, PageStartOf
  <2>3. page.from <= point.offset /\ point.offset <= Through(page)
    BY <2>2, NoneIsNoRecord DEF LoadInv, EntriesLoad, EntryLoads, Loads, SourceLoads
  <2>4. point \in Start /\ StartLoads(point, checkpoint.generation)
    BY <1>1, StartType, StartsLoad DEF LoadInv, EntriesLoad
  <2> HIDE DEF point, page
  <2>5. EntryLoads(e) /\ e.source # None
    BY <1>1, <2>2, <2>3, <2>4, RestartLoads, RestartType, NoneIsNoRecord
  <2> HIDE DEF e
  <2> QED  BY <2>1, <2>5 DEF LoadInv, EntriesLoad, SeenIsOwn
<1>4. CASE Resume /\ ~ProofCurrent(checkpoint) /\ ~RetryAtDurable(checkpoint)
  <2>1. /\ checkpoint' = checkpoint /\ cur' = checkpoint /\ latest' = checkpoint
        /\ pc' = "reset" /\ back' = RewindPoint(checkpoint)
    BY <1>4 DEF Resume, Goto, durable
  <2>2. StartLoads(back', cur'.generation)
    BY <1>1, <2>1, StartsLoad DEF LoadInv, EntriesLoad
  <2> QED  BY <2>1, <2>2 DEF LoadInv, EntriesLoad, SeenIsOwn
<1>5. CASE Reset /\ back.offset <= Len(file.lines)
  <2> DEFINE e == Restart(cur, back, None)
  <2>1. /\ pc = "reset" /\ checkpoint' = e /\ cur' = e /\ latest' = e
        /\ seen' = e.source /\ pc' = "read"
    BY <1>5, LenProperties
       DEF Reset, Goto, Save, CursorInv, FileInv, Shape, TypeOK, BackKnown, Start, File,
           Lines
  <2>2. back \in Start /\ StartLoads(back, cur.generation)
    BY <2>1 DEF CursorInv, FileInv, Shape, BackKnown, LoadInv, EntriesLoad
  <2>3. EntryLoads(e) /\ e.source # None
    BY <1>1, <1>5, <2>2, RestartLoads, RestartType, NoneIsNoRecord
  <2> HIDE DEF e
  <2> QED  BY <2>1, <2>3 DEF LoadInv, EntriesLoad, SeenIsOwn
<1>6. CASE Reset /\ ~(back.offset <= Len(file.lines))
  <2>1. Rest /\ checkpoint' = checkpoint
    BY <1>6 DEF Reset, durable
  <2> QED  BY <2>1, LoadRest DEF LoadInv, EntriesLoad
<1> QED  BY <1>2, <1>3, <1>4, <1>5, <1>6 DEF Resume

(* Steps that leave all three entries alone.                               *)
LEMMA LoadReadOnly ==
  ASSUME CursorInv, LoadInv,
         \/ ReadTail \/ CheckBoundary \/ VerifyAhead \/ AppendTurn
         \/ CheckBoundaryAgain \/ AppendFragment \/ VerifyFragment \/ ProofFails
         \/ Writer \/ UNCHANGED vars
  PROVE  EntriesLoad'
<1>1. UNCHANGED <<checkpoint, cur, latest, seen, back>>
  BY DEF ReadTail, CheckBoundary, VerifyAhead, AppendTurn, CheckBoundaryAgain,
         AppendFragment, VerifyFragment, ProofFails, Caught, Writer, durable, local,
         vars
<1>2. CASE Writer \/ UNCHANGED vars
  <2>1. UNCHANGED <<pc, snap>>
    BY <1>2 DEF Writer, local, vars
  <2> QED  BY <1>1, <2>1 DEF LoadInv, EntriesLoad, SeenIsOwn
<1>3. CASE ReadTail \/ CheckBoundary
  <2>1. /\ pc \in {"read", "bound"} /\ pc' \in {"bound", "page", "ahead"}
    BY <1>3 DEF ReadTail, CheckBoundary, Goto
  <2> QED  BY <1>1, <2>1, LoadSame DEF LoadInv, EntriesLoad, SeenIsOwn
<1>4. CASE \/ VerifyAhead \/ AppendTurn \/ AppendFragment \/ VerifyFragment
           \/ ProofFails
  <2>1. pc' \in {"clearRaw", "raw", "turn", "turnDone", "fragmentDone", "caught"}
    BY <1>4 DEF VerifyAhead, AppendTurn, AppendFragment, VerifyFragment, ProofFails,
                Caught, EnterLoop, Goto
  <2> QED  BY <1>1, <2>1, LoadSame DEF SeenIsOwn
<1>5. CASE CheckBoundaryAgain
  <2>1. pc = "turn" /\ pc' = "page" /\ snap' = snap /\ snap # None
    BY <1>5, PageFacts
       DEF CheckBoundaryAgain, Goto, local, HoldsPage, CursorInv, FileInv
  <2> QED  BY <1>1, <2>1, LoadSame DEF SeenIsOwn
<1> QED  BY <1>2, <1>3, <1>4, <1>5

(* Checkpoints saved of a page that was read.                              *)
LEMMA LoadSave ==
  ASSUME CursorInv, LoadInv, SaveAhead \/ SaveTurn \/ SaveRaw
  PROVE  EntriesLoad'
<1>1. /\ pc \in HoldsPage /\ checkpoint' = latest' /\ cur' = cur
      /\ pc' \in {"aheadSaved", "turn", "rawSaved"}
  BY DEF SaveAhead, SaveTurn, SaveRaw, Save, HoldsPage, Goto
<1>2. /\ snap \in Snapshot /\ cur \in Entry /\ snap.from = cur.offset
      /\ snap.from < PageEnd /\ PageEnd \in Nat /\ cur.offset \in Nat
      /\ cur.turnIndex \in Int /\ cur.generation \in Nat
      /\ cur.rawFallback \in RawFallback \cup {None}
      /\ EntryLoads(cur) /\ snap # None /\ StartIsOwn
  BY <1>1, PageFacts DEF CursorInv, FileInv, LoadInv, EntriesLoad
<1>3. cur.rawFallback # None => RawLoads(cur.rawFallback, cur.offset, cur.generation)
  BY <1>2 DEF EntryLoads, Loads, RawFallbackLoads, RawLoads
<1>4. CASE SaveAhead
  <2>1. checkpoint' = EntryAt(cur.offset, cur.turnIndex, InflightPage, cur.rawFallback)
    BY <1>4 DEF SaveAhead, Save
  <2>2. EntryLoads(checkpoint')
    BY <1>2, <1>3, <2>1, EntryAtLoads
  <2> QED  BY <1>1, <2>2 DEF LoadInv, EntriesLoad, SeenIsOwn
<1>5. CASE SaveTurn
  <2>1. /\ pc = "turnDone" /\ Pending # {} /\ next \in Int
        /\ checkpoint' = EntryAt(NextTurn.offset, next - 1, InflightPage, None)
    BY <1>5 DEF SaveTurn, Save, CursorInv, FileInv, Shape, TypeOK, CursorInPage
  <2>2. /\ NextTurn.offset \in Nat /\ cur.offset <= NextTurn.offset
        /\ NextTurn.offset <= PageEnd
    BY <1>2, <2>1, NextTurnIsPending, PendingInPage
  <2>3. next - 1 \in Int /\ cur.turnIndex <= next - 1
    BY <1>2, <2>1
       DEF CursorInv, CursorAtTurn, CursorNext, InTurns, FileInv, Shape, TypeOK, Entry
  <2>4. EntryLoads(checkpoint')
    BY <1>2, <2>1, <2>2, <2>3, EntryAtLoads
  <2> QED  BY <1>1, <2>4 DEF LoadInv, EntriesLoad, SeenIsOwn
<1>6. CASE SaveRaw
  <2> DEFINE raw == IF RawThrough < PageEnd THEN None
                    ELSE [Fallback EXCEPT !.next = next]
  <2>1. /\ pc = "raw" /\ at = RawThrough /\ next \in Nat
        /\ checkpoint' = EntryAt(RawThrough, cur.turnIndex, None, raw)
    BY <1>6 DEF SaveRaw, Save, CursorInv, FileInv, Shape, CursorInPage
  <2>2. RawThrough \in Nat /\ cur.offset < RawThrough /\ RawThrough <= PageEnd
    BY <1>2, RawThroughInPage
  <2>3. next # 0
    BY <1>2, <2>1, <2>2 DEF CursorInv, CursorNext
  <2>4. /\ Fallback \in RawFallback /\ Fallback.start < RawThrough
        /\ Fallback.group <= cur.generation
    BY <1>2, <1>3, <2>2 DEF Fallback, RawFallback, RawLoads
  <2>5. /\ raw \in RawFallback \cup {None}
        /\ raw # None => RawLoads(raw, RawThrough, cur.generation)
    BY <2>1, <2>3, <2>4 DEF RawFallback, RawLoads
  <2> HIDE DEF raw
  <2>6. EntryLoads(checkpoint')
    BY <1>2, <2>1, <2>2, <2>5, EntryAtLoads
  <2> QED  BY <1>1, <2>6 DEF LoadInv, EntriesLoad, SeenIsOwn
<1> QED  BY <1>4, <1>5, <1>6

(* The fallback is dropped, durably and then in the run.                   *)
LEMMA LoadClear ==
  ASSUME CursorInv, LoadInv, ClearRaw \/ VerifyClear
  PROVE  EntriesLoad'
<1>1. ASSUME NEW e \in Entry, EntryLoads(e)
      PROVE  EntryLoads([e EXCEPT !.rawFallback = None])
  <2> DEFINE c == [e EXCEPT !.rawFallback = None]
  <2>1. /\ c.offset = e.offset /\ c.turnIndex = e.turnIndex
        /\ c.generation = e.generation /\ c.source = e.source
        /\ c.pageStart = e.pageStart /\ c.inflight = e.inflight
        /\ c.rawFallback = None
    BY DEF Entry
  <2> HIDE DEF c
  <2>2. /\ SourceLoads(e) => SourceLoads(c)
        /\ PageStartLoads(e) => PageStartLoads(c)
        /\ InflightLoads(e) => InflightLoads(c)
    BY <2>1 DEF SourceLoads, PageStartLoads, InflightLoads, RawFallbackLoads
  <2> QED  BY <1>1, <2>1, <2>2 DEF EntryLoads, Loads, c
<1>2. cur \in Entry /\ latest \in Entry
  BY DEF CursorInv, FileInv, Shape, TypeOK
<1>3. CASE ClearRaw
  <2>1. /\ checkpoint' = [latest EXCEPT !.rawFallback = None] /\ pc' = "rawCleared"
        /\ UNCHANGED <<cur, latest>>
    BY <1>3 DEF ClearRaw, Goto, local
  <2> QED  BY <1>1, <1>2, <2>1 DEF LoadInv, EntriesLoad, SeenIsOwn
<1>4. CASE VerifyClear
  <2>1. /\ cur' = [cur EXCEPT !.rawFallback = None] /\ pc' \in {"raw", "turn"}
        /\ checkpoint' = checkpoint /\ latest' = checkpoint
    BY <1>4 DEF VerifyClear, EnterLoop, Goto, durable
  <2> QED  BY <1>1, <1>2, <2>1 DEF LoadInv, EntriesLoad, SeenIsOwn
<1> QED  BY <1>3, <1>4

(* The page checkpoint: where it ends, and that it does not move back.     *)
LEMMA PageEntryFacts ==
  ASSUME CursorInv, LoadInv, pc = "page"
  PROVE  /\ EntryLoads(PageEntry)
         /\ PageEntry.generation = cur.generation
         /\ PageEntry.offset \in Nat /\ checkpoint.offset <= PageEntry.offset
         /\ PageEntry.turnIndex = checkpoint.turnIndex
         /\ PageEntry.rawFallback = cur.rawFallback
<1>1. /\ cur \in Entry /\ seen \in Source /\ next \in Int /\ checkpoint \in Entry
      /\ checkpoint.turnIndex \in Int /\ next - 1 = checkpoint.turnIndex
      /\ EntryLoads(cur) /\ StartIsOwn /\ cur.offset \in Nat /\ cur.turnIndex \in Int
  BY DEF CursorInv, CursorNext, FileInv, Shape, TypeOK, SeenKnown, LoadInv, EntriesLoad,
         Entry
<1>2. CASE snap = None
  <2>1. /\ checkpoint.offset = cur.offset /\ checkpoint.turnIndex = cur.turnIndex
        /\ seen.page = IF cur.source = None THEN None ELSE cur.source.page
    BY <1>2 DEF CursorInv, CursorUnmoved, Unmoved, LoadInv, EntriesLoad, SeenIsOwn
  <2> DEFINE c == PageEntry
  <2>2. /\ c.offset = cur.offset /\ c.turnIndex = cur.turnIndex
        /\ c.generation = cur.generation /\ c.source = seen
        /\ c.pageStart = cur.pageStart /\ c.inflight = None
        /\ c.rawFallback = cur.rawFallback
    BY <1>1, <1>2, <2>1 DEF PageEntry, Entry
  <2> HIDE DEF c
  <2>3. c.source # None /\ c.source \in Source
    BY <1>1, <2>2, NoneIsNoRecord
  <2>4. SourceLoads(c)
    BY <1>1, <2>1, <2>2, <2>3 DEF SourceLoads, EntryLoads, Loads
  <2>5. c.pageStart # None => PageStartLoads(c)
    <3> SUFFICES ASSUME cur.pageStart # None PROVE PageStartLoads(c)
      BY <2>2
    <3>1. PageStartLoads(cur) /\ c.source.page = cur.source.page
      BY <1>1, <2>1, <2>2 DEF EntryLoads, Loads, PageStartLoads
    <3> QED
      BY <2>2, <2>3, <3>1 DEF PageStartLoads, RawFallbackLoads
  <2>6. c.rawFallback # None => RawFallbackLoads(c.rawFallback, c.offset, c)
    BY <1>1, <2>2, <2>3 DEF EntryLoads, Loads, RawFallbackLoads
  <2>7. EntryLoads(c)
    BY <1>1, <2>2, <2>4, <2>5, <2>6 DEF EntryLoads, Loads
  <2> QED  BY <1>1, <2>1, <2>2, <2>7 DEF c
<1>3. CASE snap # None
  <2> DEFINE o == NewOffset(snap.lines, snap.from, PageEnd)
  <2>1. /\ snap \in Snapshot /\ snap.from = cur.offset /\ snap.from < PageEnd
        /\ PageEnd \in Nat /\ snap.lines \in Lines /\ PageEnd <= Len(snap.lines)
    BY <1>1, <1>3, LenProperties
       DEF CursorInv, FileInv, Shape, TypeOK, PageKnown, Snapshot, Lines, PageEnd
  <2>2. o \in Nat /\ cur.offset <= o /\ o <= PageEnd
    BY <1>1, <2>1, NewOffsetInRange
  <2>3. /\ checkpoint.offset = at /\ cur.turnIndex <= checkpoint.turnIndex
        /\ \/ at = cur.offset
           \/ \E t \in Turns(snap.lines, snap.from, PageEnd) : at = t.offset
        /\ cur.rawFallback = None
    BY <1>3 DEF CursorInv, CursorAtTurn, InTurns
  <2>4. ASSUME NEW t \in Turns(snap.lines, snap.from, PageEnd)
        PROVE  t.offset <= o
    <3>1. /\ t.from \in Nat /\ t.offset \in Nat /\ t.from + 1 < t.offset
          /\ t.offset <= PageEnd /\ Closes(snap.lines, t.from + 1, t.offset, PageEnd)
      BY <1>1, <2>1, TurnInRange
    <3> QED  BY <1>1, <2>1, <3>1, ClosedBeforeNewOffset
  <2>5. checkpoint.offset <= o
    BY <2>2, <2>3, <2>4
  <2> HIDE DEF o
  <2>6. PageEntry = EntryAt(o, checkpoint.turnIndex, None, None)
    BY <1>1, <1>3, <2>3 DEF PageEntry, o
  <2>7. EntryLoads(PageEntry)
    BY <1>1, <1>3, <2>1, <2>2, <2>3, <2>6, EntryAtLoads
  <2> QED  BY <2>2, <2>3, <2>5, <2>6, <2>7 DEF EntryAt
<1> QED  BY <1>2, <1>3

LEMMA LoadPage ==
  ASSUME CursorInv, LoadInv, SavePage
  PROVE  EntriesLoad'
<1>1. /\ pc = "page" /\ checkpoint' = PageEntry /\ latest' = PageEntry
      /\ pc' = "pageSaved" /\ cur' = cur
  BY DEF SavePage, Save, Goto
<1> QED  BY <1>1, PageEntryFacts DEF LoadInv, EntriesLoad, SeenIsOwn

(* The catch block's rewinds restart where the latest entry allows it.     *)
LEMMA LoadRestart ==
  ASSUME CursorInv, LoadInv, CatchAtDurable \/ CatchChanged \/ Rewind
  PROVE  EntriesLoad'
<1>1. /\ file \in File /\ latest \in Entry /\ EntryLoads(latest)
      /\ EntryLoads(checkpoint)
  BY DEF CursorInv, FileInv, Shape, TypeOK, LoadInv, EntriesLoad
<1>2. CASE CatchAtDurable
  <2> DEFINE point == PageStartOf(latest)
             page == latest.source.page
  <2>1. Rest /\ checkpoint' = Restart(latest, point, page)
    BY <1>2 DEF CatchAtDurable
  <2>2. /\ latest.source \in Source /\ page \in Page /\ page # None
        /\ latest.offset <= Len(file.lines) /\ point.offset = latest.offset
    BY <1>1, <1>2
       DEF CatchAtDurable, RetryAtDurable, DurableProofHolds, Source, PageStartOf, Entry
  <2>3. page.from <= point.offset /\ point.offset <= Through(page)
    BY <1>1, <2>2, NoneIsNoRecord DEF EntryLoads, Loads, SourceLoads
  <2>4. point \in Start /\ StartLoads(point, latest.generation)
    BY <1>1, StartType, StartsLoad
  <2> HIDE DEF point, page
  <2>5. EntryLoads(checkpoint')
    BY <1>1, <2>1, <2>2, <2>3, <2>4, RestartLoads
  <2> QED  BY <2>1, <2>5, LoadRest
<1>3. CASE CatchChanged
  <2>1. /\ back' = RewindPoint(latest) /\ pc' = "rewind"
        /\ UNCHANGED <<checkpoint, cur, latest>>
    BY <1>3 DEF CatchChanged, Goto, durable
  <2>2. StartLoads(back', latest'.generation)
    BY <1>1, <2>1, StartsLoad
  <2> QED  BY <2>1, <2>2 DEF LoadInv, EntriesLoad, SeenIsOwn
<1>4. CASE Rewind
  <2>1. /\ Rest /\ pc = "rewind"
        /\ checkpoint' = IF back.offset <= Len(file.lines)
                         THEN Restart(latest, back, None) ELSE checkpoint
    BY <1>4 DEF Rewind
  <2>2. back \in Start /\ StartLoads(back, latest.generation)
    BY <2>1 DEF CursorInv, FileInv, Shape, BackKnown, LoadInv, EntriesLoad
  <2>3. EntryLoads(checkpoint')
    BY <1>1, <2>1, <2>2, RestartLoads
  <2> QED  BY <2>1, <2>3, LoadRest
<1> QED  BY <1>2, <1>3, <1>4

(* The start of the page stays with the page.                              *)
LEMMA StartKept ==
  ASSUME CursorInv, LoadInv, [Next]_vars
  PROVE  StartIsOwn'
<1>1. /\ file \in File /\ cur \in Entry /\ EntryLoads(cur) /\ StartIsOwn
      /\ pc \in {"idle", "reset"} => snap = None
  BY DEF CursorInv, FileInv, Shape, TypeOK, PageKnown, LoadInv, EntriesLoad
<1>2. CASE Rest
  BY <1>2 DEF Rest, StartIsOwn
<1>3. CASE Resume \/ (Reset /\ ~Rest)
  <2>1. snap = None /\ snap' = snap
    BY <1>1, <1>3 DEF Resume, Reset
  <2> QED  BY <2>1 DEF StartIsOwn
<1>4. CASE ReadTail
  <2> SUFFICES ASSUME snap' # None PROVE StartIsOwn'
    BY DEF StartIsOwn
  <2>1. snap'.start = PageStartOf(cur) /\ cur' = cur
    BY <1>1, <1>4, ReadFacts DEF ReadTail
  <2>2. StartLoads(PageStartOf(cur), cur.generation)
    BY <1>1, StartsLoad
  <2>3. PageStartOf(cur).offset = cur.offset /\ PageStartOf(cur).turnIndex = cur.turnIndex
    BY DEF PageStartOf
  <2> QED  BY <2>1, <2>2, <2>3 DEF StartIsOwn
<1>5. CASE VerifyClear
  <2>1. /\ snap' = snap /\ cur'.offset = cur.offset /\ cur'.turnIndex = cur.turnIndex
        /\ cur'.generation = cur.generation
    BY <1>1, <1>5 DEF VerifyClear, Entry
  <2> QED  BY <1>1, <2>1 DEF StartIsOwn
<1>6. CASE snap' = snap /\ cur' = cur
  BY <1>1, <1>6 DEF StartIsOwn
<1>7. \/ Rest \/ Resume \/ (Reset /\ ~Rest) \/ ReadTail \/ VerifyClear
      \/ snap' = snap /\ cur' = cur
  BY DEF Next, Handler, CheckBoundary, SaveAhead, VerifyAhead, ClearRaw, AppendTurn,
         SaveTurn, CheckBoundaryAgain, SavePage, Finish, AppendFragment, VerifyFragment,
         SaveRaw, FinishRaw, ProofFails, Caught, CatchTransient, CatchAtDurable,
         CatchChanged, Rewind, Writer, CatchUnstable, Abort, local, vars
<1> QED  BY <1>2, <1>3, <1>4, <1>5, <1>6, <1>7

LEMMA LoadStep ==
  ASSUME CursorInv, LoadInv, [Next]_vars
  PROVE  LoadInv'
<1>1. ASSUME Finish \/ FinishRaw \/ CatchTransient \/ Abort \/ CatchUnstable
      PROVE  EntriesLoad'
  <2>1. Rest /\ checkpoint' = checkpoint
    BY <1>1 DEF Finish, FinishRaw, CatchTransient, Abort, CatchUnstable, durable
  <2> QED  BY <2>1, LoadRest DEF LoadInv, EntriesLoad
<1>2. EntriesLoad'
  BY <1>1, LoadStart, LoadReadOnly, LoadSave, LoadClear, LoadPage, LoadRestart
     DEF Next, Handler
<1> QED  BY <1>2, StartKept DEF LoadInv

(* The cursor and the entries are an inductive invariant together.         *)
LEMMA CheckpointInit == Init => CursorInv /\ LoadInv
BY CursorInit, LoadInit

LEMMA CheckpointNext ==
  CursorInv /\ LoadInv /\ [Next]_vars => (CursorInv /\ LoadInv)'
BY CursorStep, LoadStep DEF LoadInv, EntriesLoad, EntryLoads

(* Whatever a run persists, the next one loads: after any sequence of      *)
(* rewinds, raw fallbacks, crashes and restarts none of the consistency    *)
(* checks at claude-code.ts:961-1019 rejects the durable checkpoint.       *)
THEOREM CheckpointAlwaysLoads == Spec => []CheckpointLoads
<1>1. Init => CursorInv /\ LoadInv
  BY CheckpointInit
<1>2. CursorInv /\ LoadInv /\ [Next]_vars => (CursorInv /\ LoadInv)'
  BY CheckpointNext
<1>3. CursorInv /\ LoadInv => CheckpointLoads
  BY DEF LoadInv, EntriesLoad, EntryLoads, CheckpointLoads
<1> QED  BY <1>1, <1>2, <1>3, PTL DEF Spec

(* A checkpoint of the generation is at or behind the one saved over it.   *)
Forward ==
  \/ checkpoint'.generation = checkpoint.generation + 1
  \/ /\ checkpoint'.generation = checkpoint.generation
     /\ checkpoint'.offset >= checkpoint.offset
     /\ checkpoint'.turnIndex >= checkpoint.turnIndex

LEMMA ForwardStep ==
  ASSUME CursorInv, LoadInv, [Next]_vars
  PROVE  [Forward]_checkpoint
<1>1. /\ checkpoint \in Entry /\ cur \in Entry /\ latest \in Entry
      /\ checkpoint.offset \in Nat /\ checkpoint.turnIndex \in Int
      /\ checkpoint.generation \in Nat /\ cur.turnIndex \in Int
  BY DEF CursorInv, FileInv, Shape, TypeOK, Entry
<1>2. pc # "idle" =>
        cur.generation = checkpoint.generation /\ latest.generation = checkpoint.generation
  BY DEF CursorInv, FileInv, SameGeneration
<1>3. ASSUME NEW e, NEW point, NEW page, e.generation = checkpoint.generation,
             checkpoint' = Restart(e, point, page)
      PROVE  Forward
  BY <1>3 DEF Restart, Forward
<1>4. CASE Resume \/ Reset
  BY <1>1, <1>2, <1>3, <1>4 DEF Resume, Reset, Save, durable
<1>5. CASE CatchAtDurable \/ Rewind
  BY <1>1, <1>2, <1>3, <1>5 DEF CatchAtDurable, Rewind
<1>6. CASE SaveAhead \/ SaveRaw \/ ClearRaw
  <2>1. /\ pc \in HoldsPage /\ pc \in {"ahead", "raw", "clearRaw"}
    BY <1>6 DEF SaveAhead, SaveRaw, ClearRaw, HoldsPage
  <2>2. checkpoint.offset = cur.offset /\ checkpoint.turnIndex = cur.turnIndex
    BY <2>1 DEF CursorInv, CursorUnmoved, Unmoved
  <2>3. /\ snap \in Snapshot /\ snap.from = cur.offset /\ snap.from < PageEnd
    BY <2>1, PageFacts DEF CursorInv, FileInv
  <2>4. CASE SaveAhead
    BY <1>1, <1>2, <2>1, <2>2, <2>4 DEF SaveAhead, Save, EntryAt, Forward
  <2>5. CASE SaveRaw
    <3>1. cur.offset < RawThrough /\ RawThrough \in Nat
      BY <1>1, <2>3, RawThroughInPage
    <3> QED  BY <1>1, <1>2, <2>1, <2>2, <2>5, <3>1 DEF SaveRaw, Save, EntryAt, Forward
  <2>6. CASE ClearRaw
    <3>1. checkpoint' = [latest EXCEPT !.rawFallback = None]
      BY <2>6 DEF ClearRaw
    <3>2. latest.offset = checkpoint.offset /\ latest.turnIndex = checkpoint.turnIndex
      BY <2>1 DEF CursorInv, FileInv, LatestSaved
    <3>3. /\ checkpoint'.generation = latest.generation
          /\ checkpoint'.offset = latest.offset
          /\ checkpoint'.turnIndex = latest.turnIndex
      BY <1>1, <3>1 DEF Entry
    <3> QED  BY <1>1, <1>2, <2>1, <3>2, <3>3 DEF Forward
  <2> QED  BY <1>6, <2>4, <2>5, <2>6
<1>7. CASE SaveTurn
  <2>1. /\ pc = "turnDone" /\ pc \in HoldsPage /\ Pending # {} /\ next \in Int
        /\ checkpoint' = EntryAt(NextTurn.offset, next - 1, InflightPage, None)
    BY <1>7
       DEF SaveTurn, Save, HoldsPage, CursorInv, FileInv, Shape, TypeOK, CursorInPage
  <2>2. /\ checkpoint.offset = at /\ checkpoint.turnIndex + 1 <= next
    BY <2>1 DEF CursorInv, CursorAtTurn, CursorNext, InTurns
  <2>3. snap \in Snapshot /\ snap.from <= PageEnd
    BY <2>1, PageFacts DEF CursorInv, FileInv, Snapshot
  <2>4. NextTurn.offset \in Nat /\ at < NextTurn.offset
    BY <2>1, <2>3, NextTurnIsPending, PendingInPage
  <2> QED  BY <1>1, <1>2, <2>1, <2>2, <2>4 DEF EntryAt, Forward
<1>8. CASE SavePage
  <2>1. pc = "page" /\ checkpoint' = PageEntry
    BY <1>8 DEF SavePage, Save
  <2> QED  BY <1>1, <1>2, <2>1, PageEntryFacts DEF Forward
<1>9. CASE \/ ReadTail \/ CheckBoundary \/ VerifyAhead \/ VerifyClear \/ AppendTurn
           \/ CheckBoundaryAgain \/ Finish \/ AppendFragment \/ VerifyFragment
           \/ FinishRaw \/ ProofFails \/ CatchTransient \/ CatchChanged \/ Writer
           \/ CatchUnstable \/ Abort \/ UNCHANGED vars
  BY <1>9
     DEF ReadTail, CheckBoundary, VerifyAhead, VerifyClear, AppendTurn,
         CheckBoundaryAgain, Finish, AppendFragment, VerifyFragment, FinishRaw,
         ProofFails, Caught, CatchTransient, CatchChanged, Writer, CatchUnstable,
         Abort, durable, vars
<1> QED  BY <1>4, <1>5, <1>6, <1>7, <1>8, <1>9 DEF Next, Handler

(* The durable cursor never moves back inside a generation: a turn that a  *)
(* checkpoint has passed is read again only under the next generation.     *)
THEOREM CursorOnlyForward == Spec => CursorMonotone
<1>1. CursorInv /\ LoadInv /\ [Next]_vars => [Forward]_checkpoint
  BY ForwardStep
<1> QED
  BY <1>1, CheckpointInit, CheckpointNext, PTL DEF Spec, CursorMonotone, Forward

-----------------------------------------------------------------------------
(* Turns of a transcript.                                                  *)

(* A turn is given by the lines that open and close it.                    *)
LEMMA TurnFacts ==
  ASSUME NEW lines \in Lines, NEW from \in Nat, NEW through \in Nat,
         through <= Len(lines), NEW t \in Turns(lines, from, through)
  PROVE  /\ t = [from |-> t.from, offset |-> t.offset,
                 lines |-> Slice(lines, t.from, t.offset)]
         /\ t.from \in Nat /\ t.offset \in Nat
         /\ from <= t.from /\ t.from + 1 < t.offset /\ t.offset <= through
         /\ Closes(lines, t.from + 1, t.offset, through)
<1>1. PICK qe \in ((from + 1) .. through) \X ((from + 1) .. through) :
        /\ qe[1] < qe[2] /\ Closes(lines, qe[1], qe[2], through)
        /\ t = [from |-> qe[1] - 1, offset |-> qe[2],
                lines |-> Slice(lines, qe[1] - 1, qe[2])]
  BY DEF Turns
<1>2. t.from = qe[1] - 1 /\ t.offset = qe[2]
      /\ t.lines = Slice(lines, t.from, t.offset)
  BY <1>1
<1> QED  BY <1>1, <1>2, TurnInRange

LEMMA IsTurn ==
  ASSUME NEW lines, NEW from \in Nat, NEW through \in Nat,
         NEW q \in Nat, NEW e \in Nat, from < q, q < e, e <= through,
         Closes(lines, q, e, through)
  PROVE  [from |-> q - 1, offset |-> e, lines |-> Slice(lines, q - 1, e)]
           \in Turns(lines, from, through)
<1> DEFINE qe == <<q, e>>
<1>1. /\ qe \in ((from + 1) .. through) \X ((from + 1) .. through)
      /\ qe[1] = q /\ qe[2] = e
  OBVIOUS
<1> HIDE DEF qe
<1> QED  BY <1>1 DEF Turns

(* At most one turn ends at a line.                                        *)
LEMMA SameEndSameTurn ==
  ASSUME NEW lines \in Lines, NEW from \in Nat, NEW through \in Nat,
         through <= Len(lines),
         NEW t \in Turns(lines, from, through), NEW u \in Turns(lines, from, through),
         t.offset = u.offset
  PROVE  t = u
<1>1. /\ t.from \in Nat /\ u.from \in Nat /\ t.offset \in Nat
      /\ t.from + 1 < t.offset /\ u.from + 1 < t.offset
      /\ Closes(lines, t.from + 1, t.offset, through)
      /\ Closes(lines, u.from + 1, t.offset, through)
      /\ t = [from |-> t.from, offset |-> t.offset,
              lines |-> Slice(lines, t.from, t.offset)]
      /\ u = [from |-> u.from, offset |-> t.offset,
              lines |-> Slice(lines, u.from, t.offset)]
  BY TurnFacts
<1>2. ASSUME NEW q \in Nat, NEW p \in Nat, NEW e \in Nat, q < p, p < e,
             Closes(lines, q, e, through), Closes(lines, p, e, through)
      PROVE  FALSE
  <2>1. p \in (q + 1) .. e
    BY <1>2
  <2> QED  BY <1>2, <2>1 DEF Closes, Opens
<1>3. t.from = u.from
  <2>1. t.from + 1 \in Nat /\ u.from + 1 \in Nat
    BY <1>1
  <2>2. ~(t.from + 1 < u.from + 1) /\ ~(u.from + 1 < t.from + 1)
    BY <1>1, <1>2, <2>1
  <2> QED  BY <1>1, <2>2
<1> QED  BY <1>1, <1>3

(* A slice of a slice, counted in the whole.                               *)
LEMMA SliceOfSlice ==
  ASSUME NEW lines \in Lines, NEW a \in Nat, NEW b \in Nat, a <= b, b <= Len(lines),
         NEW c \in Nat, NEW d \in Nat, c <= d, d <= b - a
  PROVE  Slice(Slice(lines, a, b), c, d) = Slice(lines, a + c, a + d)
<1> DEFINE s == Slice(lines, a, b)
<1>1. /\ s \in Lines /\ Len(s) = b - a /\ Len(lines) \in Nat
      /\ \A i \in 1 .. (b - a) : s[i] = lines[a + i]
  BY SliceFacts, LenProperties DEF Lines
<1> HIDE DEF s
<1>2. /\ Slice(s, c, d) \in Lines /\ Len(Slice(s, c, d)) = d - c
      /\ \A i \in 1 .. (d - c) : Slice(s, c, d)[i] = s[c + i]
  BY <1>1, SliceFacts
<1>3. /\ Slice(lines, a + c, a + d) \in Lines
      /\ Len(Slice(lines, a + c, a + d)) = d - c
      /\ \A i \in 1 .. (d - c) : Slice(lines, a + c, a + d)[i] = lines[(a + c) + i]
  <2> DEFINE x == a + c
             y == a + d
  <2>1. x \in Nat /\ y \in Nat /\ x <= y /\ y <= Len(lines) /\ y - x = d - c
    BY <1>1
  <2> HIDE DEF x, y
  <2>2. /\ Slice(lines, x, y) \in Lines /\ Len(Slice(lines, x, y)) = y - x
        /\ \A i \in 1 .. (y - x) : Slice(lines, x, y)[i] = lines[x + i]
    BY <2>1, SliceFacts
  <2> QED  BY <2>1, <2>2 DEF x, y
<1>4. ASSUME NEW i \in 1 .. (d - c)
      PROVE  Slice(s, c, d)[i] = Slice(lines, a + c, a + d)[i]
  <2>1. c + i \in 1 .. (b - a) /\ a + (c + i) = (a + c) + i
    BY <1>1
  <2> QED  BY <1>1, <1>2, <1>3, <2>1
<1>5. Slice(s, c, d) = Slice(lines, a + c, a + d)
  BY <1>2, <1>3, <1>4, SeqEqual DEF Lines
<1> QED  BY <1>5 DEF s

(* The turns of a slice are turns of the whole, however far it is read.    *)
LEMMA ShiftedTurn ==
  ASSUME NEW lines \in Lines, NEW a \in Nat, NEW b \in Nat, NEW c \in Nat,
         a <= b, b <= c, c <= Len(lines),
         NEW t \in Turns(Slice(lines, a, b), 0, b - a)
  PROVE  \E u \in Turns(lines, a, c) :
           u.from = t.from + a /\ u.offset = t.offset + a /\ u.lines = t.lines
<1> DEFINE s == Slice(lines, a, b)
<1>0. Len(lines) \in Nat /\ b <= Len(lines)
  <2>1. Len(lines) \in Nat
    BY LenProperties DEF Lines
  <2> QED  BY <2>1
<1>1. /\ s \in Lines /\ Len(s) = b - a
      /\ \A i \in 1 .. (b - a) : s[i] = lines[a + i]
  BY <1>0, SliceFacts
<1> HIDE DEF s
<1>2. PICK f \in Nat, o \in Nat :
        /\ t.from = f /\ t.offset = o /\ t.lines = Slice(s, f, o)
        /\ f + 1 < o /\ o <= b - a /\ Closes(s, f + 1, o, b - a)
  <2>1. t \in Turns(s, 0, b - a) /\ 0 \in Nat /\ b - a \in Nat
    BY DEF s
  <2>2. /\ t = [from |-> t.from, offset |-> t.offset,
                lines |-> Slice(s, t.from, t.offset)]
        /\ t.from \in Nat /\ t.offset \in Nat /\ t.from + 1 < t.offset
        /\ t.offset <= b - a
        /\ Closes(s, t.from + 1, t.offset, b - a)
    BY <1>1, <2>1, TurnFacts
  <2>3. t.lines = Slice(s, t.from, t.offset)
    BY <2>2
  <2> QED  BY <2>2, <2>3
<1>3. PICK q \in Nat, e \in Nat : q = f + 1 + a /\ e = o + a
  OBVIOUS
<1>4. /\ f + 1 < o /\ o <= b - a
      /\ a < q /\ q < e /\ e <= b /\ e <= c /\ q - 1 = f + a
  BY <1>2, <1>3
<1>5. ASSUME NEW i \in 1 .. (b - a)  PROVE s[i] = lines[i + a]
  BY <1>1
<1>6. ASSUME NEW m \in q .. e
      PROVE  m - a \in (f + 1) .. o /\ m - a \in 1 .. (b - a) /\ lines[m] = s[m - a]
  <2>1. m - a \in (f + 1) .. o /\ m - a \in 1 .. (b - a) /\ (m - a) + a = m
    BY <1>3, <1>4
  <2> QED  BY <1>5, <2>1
<1>7. Opens(lines, q, e)
  <2>1. lines[q] \in UserLines
    <3>1. q \in q .. e /\ q - a = f + 1
      BY <1>3, <1>4
    <3> QED  BY <1>2, <1>6, <3>1 DEF Closes, Opens
  <2>2. ASSUME NEW m \in (q + 1) .. e  PROVE lines[m] \notin UserLines
    <3>1. m \in q .. e /\ m - a \in (f + 1 + 1) .. o
      BY <1>3, <1>4
    <3> QED  BY <1>2, <1>6, <3>1 DEF Closes, Opens
  <2>3. ASSUME NEW m \in (q + 1) .. (e - 1)  PROVE lines[m] \notin FinalLines
    <3>1. m \in q .. e /\ m - a \in (f + 1 + 1) .. (o - 1)
      BY <1>3, <1>4
    <3> QED  BY <1>2, <1>6, <3>1 DEF Closes, Opens
  <2> QED  BY <2>1, <2>2, <2>3 DEF Opens
<1>8. \/ lines[e] \in FinalLines
      \/ lines[e] \in ReplyLines /\ e < c /\ lines[e + 1] \in UserLines
  <2>1. e \in q .. e /\ e - a = o
    BY <1>3, <1>4
  <2>2. lines[e] = s[o]
    BY <1>6, <2>1
  <2>3. o < b - a => e < c /\ s[o + 1] = lines[e + 1]
    <3> SUFFICES ASSUME o < b - a PROVE e < c /\ s[o + 1] = lines[e + 1]
      OBVIOUS
    <3>1. e < c /\ o + 1 \in 1 .. (b - a) /\ (o + 1) + a = e + 1
      BY <1>3, <1>4
    <3> QED  BY <1>5, <3>1
  <2> QED  BY <1>2, <2>2, <2>3 DEF Closes
<1> DEFINE u == [from |-> q - 1, offset |-> e, lines |-> Slice(lines, q - 1, e)]
<1>9. u \in Turns(lines, a, c)
  BY <1>4, <1>7, <1>8, IsTurn DEF Closes
<1>10. u.lines = t.lines
  <2>1. Slice(s, f, o) = Slice(lines, a + f, a + o)
    <3>1. f <= o
      BY <1>4
    <3> QED  BY <1>0, <1>4, <3>1, SliceOfSlice DEF s
  <2>2. a + f = q - 1 /\ a + o = e
    BY <1>3
  <2> QED  BY <1>2, <2>1, <2>2
<1>11. u.from = t.from + a /\ u.offset = t.offset + a
  BY <1>2, <1>3
<1> QED  BY <1>9, <1>10, <1>11

-----------------------------------------------------------------------------
(* What a checkpoint vouches for, given the ledger L and the keys K that   *)
(* dropped a turn.                                                         *)

CapturedIn(L, K, t, generation) ==
  \/ ~Accepted(t)
  \/ \E x \in L : /\ ~x.raw /\ x.offset = t.offset /\ x.lines = t.lines
                  /\ x.generation <= generation
  \/ \E g \in 0 .. generation : <<g, t.offset>> \in K

Vouching(c) == c.source # None /\ c.source.page # None /\ c.rawFallback = None

VouchedIn(L, K, c) ==
  Vouching(c) =>
    \A t \in Turns(c.source.page.lines, 0, Len(c.source.page.lines)) :
      CapturedIn(L, K, [t EXCEPT !.offset = @ + c.source.page.from], c.generation)

(* The turns of a page that end by offset o are captured.                  *)
DoneIn(L, K, page, o, generation) ==
  \A t \in Turns(page.lines, page.from, Len(page.lines)) :
    t.offset <= o => CapturedIn(L, K, t, generation)

(* Before the first turn the checkpoint proves an empty page.              *)
NothingYet ==
  pc \in {"aheadSaved", "clearRaw", "rawCleared"} =>
    checkpoint.source # None /\ checkpoint.source.page.lines = <<>>

VouchInv ==
  /\ VouchedIn(ledger, swallowed, checkpoint)
  /\ VouchedIn(ledger, swallowed, latest)
  /\ pc \in {"read", "bound", "reset"} \/ (pc = "page" /\ snap = None) =>
       VouchedIn(ledger, swallowed, cur)
  /\ pc = "turn" => DoneIn(ledger, swallowed, snap, at, cur.generation)
  /\ pc = "turnDone" =>
       DoneIn(ledger, swallowed, snap, NextTurn.offset, cur.generation)
  /\ pc = "page" /\ snap # None =>
       DoneIn(ledger, swallowed, snap, PageEnd, cur.generation)
  /\ NothingYet

Grows == ledger \subseteq ledger' /\ swallowed \subseteq swallowed'

(* The ledger and its history only grow.                                   *)
LEMMA LedgerGrows == [Next]_vars => Grows
<1>1. ASSUME NEW x, Record(x)  PROVE Grows
  BY <1>1 DEF Record, Grows
<1>2. CASE AppendTurn \/ AppendFragment
  BY <1>1, <1>2 DEF AppendTurn, AppendFragment, Grows
<1>3. CASE UNCHANGED <<ledger, swallowed>>
  BY <1>3 DEF Grows
<1>4. CASE Resume \/ Reset \/ SaveAhead \/ SaveTurn \/ SavePage \/ SaveRaw
  BY <1>3, <1>4 DEF Resume, Reset, SaveAhead, SaveTurn, SavePage, SaveRaw, Save, durable
<1>5. CASE \/ ReadTail \/ CheckBoundary \/ VerifyAhead \/ ClearRaw \/ VerifyClear
           \/ CheckBoundaryAgain \/ Finish \/ VerifyFragment \/ FinishRaw
           \/ ProofFails \/ CatchTransient \/ CatchAtDurable \/ CatchChanged
           \/ Rewind \/ Writer \/ CatchUnstable \/ Abort \/ UNCHANGED vars
  BY <1>3, <1>5
     DEF ReadTail, CheckBoundary, VerifyAhead, ClearRaw, VerifyClear,
         CheckBoundaryAgain, Finish, VerifyFragment, FinishRaw, ProofFails, Caught,
         CatchTransient, CatchAtDurable, CatchChanged, Rewind, Writer,
         CatchUnstable, Abort, durable, vars
<1> QED  BY <1>2, <1>4, <1>5 DEF Next, Handler

LEMMA CapturedGrows ==
  ASSUME NEW L, NEW K, NEW M \in SUBSET Event, NEW N, L \subseteq M, K \subseteq N,
         NEW g \in Nat, NEW h \in Nat, g <= h, NEW t, CapturedIn(L, K, t, g)
  PROVE  CapturedIn(M, N, t, h)
<1>1. CASE ~Accepted(t)
  BY <1>1 DEF CapturedIn
<1>2. CASE \E x \in L : /\ ~x.raw /\ x.offset = t.offset /\ x.lines = t.lines
                        /\ x.generation <= g
  <2>1. PICK x \in L : /\ ~x.raw /\ x.offset = t.offset /\ x.lines = t.lines
                       /\ x.generation <= g
    BY <1>2
  <2>2. x \in M /\ x.generation \in Nat /\ x.generation <= h
    BY <2>1 DEF Event
  <2> QED  BY <2>1, <2>2 DEF CapturedIn
<1>3. CASE \E i \in 0 .. g : <<i, t.offset>> \in K
  <2>1. PICK i \in 0 .. g : <<i, t.offset>> \in K
    BY <1>3
  <2>2. i \in 0 .. h /\ <<i, t.offset>> \in N
    BY <2>1
  <2> QED  BY <2>2 DEF CapturedIn
<1> QED  BY <1>1, <1>2, <1>3 DEF CapturedIn

(* An entry of a later generation vouches for what its page did before.    *)
LEMMA VouchedGrows ==
  ASSUME NEW L, NEW K, NEW M \in SUBSET Event, NEW N, L \subseteq M, K \subseteq N,
         NEW c, NEW d, c.generation \in Nat, d.generation \in Nat,
         c.generation <= d.generation, VouchedIn(L, K, c),
         Vouching(d) => Vouching(c) /\ d.source.page = c.source.page
  PROVE  VouchedIn(M, N, d)
<1> SUFFICES ASSUME Vouching(d),
                    NEW t \in Turns(d.source.page.lines, 0, Len(d.source.page.lines))
             PROVE  CapturedIn(M, N, [t EXCEPT !.offset = @ + d.source.page.from],
                               d.generation)
  BY DEF VouchedIn
<1>1. CapturedIn(L, K, [t EXCEPT !.offset = @ + d.source.page.from], c.generation)
  BY DEF VouchedIn
<1> QED  BY <1>1, CapturedGrows

LEMMA DoneGrows ==
  ASSUME NEW L, NEW K, NEW M \in SUBSET Event, NEW N, L \subseteq M, K \subseteq N,
         NEW g \in Nat, NEW page, NEW o, DoneIn(L, K, page, o, g)
  PROVE  DoneIn(M, N, page, o, g)
BY CapturedGrows DEF DoneIn

(* A page with no line vouches for nothing.                                *)
LEMMA EmptyVouches ==
  ASSUME NEW L, NEW K, NEW c, c.source.page.lines = <<>>
  PROVE  VouchedIn(L, K, c)
<1>1. Turns(<<>>, 0, Len(<<>>)) = {}
  <2>1. Len(<<>>) = 0 /\ (0 + 1) .. 0 = {}
    OBVIOUS
  <2> QED  BY <2>1 DEF Turns
<1> QED  BY <1>1 DEF VouchedIn

(* An entry saved at offset o of a page whose turns up to o are captured.  *)
LEMMA PageVouches ==
  ASSUME snap \in Snapshot, snap.from = cur.offset, cur.offset \in Nat,
         NEW L, NEW K, NEW o \in Nat, cur.offset <= o, o <= PageEnd,
         NEW turnIndex, NEW inflight, NEW raw,
         DoneIn(L, K, snap, o, cur.generation)
  PROVE  VouchedIn(L, K, EntryAt(o, turnIndex, inflight, raw))
<1> DEFINE c == EntryAt(o, turnIndex, inflight, raw)
           page == PageOf(snap.lines, cur.offset, o)
<1>1. c.source.page = page /\ c.generation = cur.generation
  BY DEF EntryAt, SourceAt
<1>2. /\ snap.lines \in Lines /\ PageEnd \in Nat /\ PageEnd = Len(snap.lines)
      /\ o <= Len(snap.lines)
  BY LenProperties DEF Snapshot, Lines, PageEnd
<1>3. /\ page.from = cur.offset /\ page.lines = Slice(snap.lines, cur.offset, o)
      /\ Len(page.lines) = o - cur.offset
  BY <1>2, SliceFacts DEF PageOf
<1> HIDE DEF c, page
<1>4. ASSUME NEW t \in Turns(page.lines, 0, Len(page.lines))
      PROVE  CapturedIn(L, K, [t EXCEPT !.offset = @ + page.from], cur.generation)
  <2>1. \E u \in Turns(snap.lines, cur.offset, PageEnd) :
          /\ u.from = t.from + cur.offset /\ u.offset = t.offset + cur.offset
          /\ u.lines = t.lines
    <3>1. t \in Turns(Slice(snap.lines, cur.offset, o), 0, o - cur.offset)
      BY <1>3
    <3> DEFINE ls == snap.lines
               a == cur.offset
               z == PageEnd
    <3>2. /\ ls \in Lines /\ a \in Nat /\ o \in Nat /\ z \in Nat
          /\ a <= o /\ o <= z /\ z <= Len(ls)
          /\ t \in Turns(Slice(ls, a, o), 0, o - a)
      BY <1>2, <3>1
    <3> HIDE DEF ls, a, z
    <3>3. \E u \in Turns(ls, a, z) :
            u.from = t.from + a /\ u.offset = t.offset + a /\ u.lines = t.lines
      BY <3>2, ShiftedTurn
    <3> QED  BY <3>3 DEF ls, a, z
  <2>2. PICK u \in Turns(snap.lines, cur.offset, PageEnd) :
          u.offset = t.offset + cur.offset /\ u.lines = t.lines
    BY <2>1
  <2>3. t.offset \in Nat /\ t.offset <= o - cur.offset
        /\ t = [from |-> t.from, offset |-> t.offset, lines |-> t.lines]
    <3>1. page.lines \in Lines /\ 0 \in Nat /\ o - cur.offset \in Nat
      BY <1>2, <1>3, SliceFacts
    <3> QED  BY <1>3, <3>1, TurnInRange
  <2>4. u.offset <= o
    BY <2>2, <2>3
  <2>5. CapturedIn(L, K, u, cur.generation)
    BY <1>2, <2>4 DEF DoneIn
  <2> DEFINE v == [t EXCEPT !.offset = @ + page.from]
  <2>6. v.offset = u.offset /\ v.lines = u.lines
    BY <1>3, <2>2, <2>3
  <2> HIDE DEF v
  <2>7. Accepted(v) <=> Accepted(u)
    BY <2>6 DEF Accepted
  <2>8. CapturedIn(L, K, v, cur.generation)
    BY <2>5, <2>6, <2>7 DEF CapturedIn
  <2> QED  BY <2>8 DEF v
<1>5. VouchedIn(L, K, c)
  BY <1>1, <1>4 DEF VouchedIn
<1> QED  BY <1>5 DEF c

-----------------------------------------------------------------------------
(* The checkpoint vouches only for what is captured.                       *)

LEMMA VouchInit == Init => VouchInv
BY DEF Init, Rested, Fresh, VouchInv, VouchedIn, Vouching, NothingYet

(* Facts of a step that the cases below share.                             *)
LEMMA VouchFacts ==
  ASSUME CursorInv, CursorInv', Grows
  PROVE  /\ ledger \in SUBSET Event /\ ledger' \in SUBSET Event
         /\ ledger \subseteq ledger' /\ swallowed \subseteq swallowed'
         /\ checkpoint \in Entry /\ cur \in Entry /\ latest \in Entry
         /\ checkpoint.generation \in Nat /\ cur.generation \in Nat
         /\ latest.generation \in Nat
BY DEF CursorInv, FileInv, Shape, TypeOK, Entry, Grows

(* An entry that stays keeps its promise.                                  *)
LEMMA VouchKept ==
  ASSUME CursorInv, CursorInv', Grows, NEW c \in Entry, VouchedIn(ledger, swallowed, c)
  PROVE  VouchedIn(ledger', swallowed', c)
<1>1. c.generation \in Nat /\ c.generation <= c.generation
  BY DEF Entry
<1> QED  BY <1>1, VouchFacts, VouchedGrows

LEMMA VouchRestart ==
  ASSUME CursorInv, CursorInv', Grows, NEW e \in Entry, NEW point, NEW page,
         VouchedIn(ledger, swallowed, e),
         page # None => /\ point.rawFallback = e.rawFallback /\ page = e.source.page
                        /\ e.source # None
  PROVE  VouchedIn(ledger', swallowed', Restart(e, point, page))
<1> DEFINE d == Restart(e, point, page)
<1>1. /\ d.generation = e.generation + 1 /\ d.source.page = page
      /\ d.rawFallback = point.rawFallback
  BY DEF Restart, Inspect
<1>2. e.generation \in Nat /\ d.generation \in Nat /\ e.generation <= d.generation
  BY <1>1 DEF Entry
<1> HIDE DEF d
<1>3. Vouching(d) => Vouching(e) /\ d.source.page = e.source.page
  BY <1>1 DEF Vouching
<1>4. VouchedIn(ledger', swallowed', d)
  BY <1>2, <1>3, VouchFacts, VouchedGrows
<1> QED  BY <1>4 DEF d

LEMMA FreshVouches ==
  ASSUME NEW L, NEW K  PROVE VouchedIn(L, K, Fresh)
BY DEF Fresh, VouchedIn, Vouching

LEMMA VouchRest ==
  ASSUME Rest, VouchedIn(ledger', swallowed', checkpoint')
  PROVE  VouchInv'
BY FreshVouches DEF Rest, VouchInv, NothingYet

LEMMA VouchStart ==
  ASSUME CursorInv, CursorInv', VouchInv, Grows, Resume \/ Reset
  PROVE  VouchInv'
<1>1. /\ checkpoint \in Entry /\ cur \in Entry
      /\ VouchedIn(ledger, swallowed, checkpoint)
  BY VouchFacts DEF VouchInv
<1>2. CASE Resume /\ ~(~ProofCurrent(checkpoint) /\ RetryAtDurable(checkpoint))
  <2>1. /\ checkpoint' = checkpoint /\ cur' = checkpoint /\ latest' = checkpoint
        /\ pc' \in {"read", "reset"}
    BY <1>2 DEF Resume, Goto, durable
  <2>2. VouchedIn(ledger', swallowed', checkpoint)
    BY <1>1, VouchKept
  <2> QED  BY <2>1, <2>2 DEF VouchInv, NothingYet
<1>3. CASE Resume /\ ~ProofCurrent(checkpoint) /\ RetryAtDurable(checkpoint)
  <2> DEFINE point == PageStartOf(checkpoint)
             page == checkpoint.source.page
             e == Restart(checkpoint, point, page)
  <2>1. /\ checkpoint' = e /\ cur' = e /\ latest' = e /\ pc' = "read"
    BY <1>3 DEF Resume, Goto, Save
  <2>2. checkpoint.source # None /\ point.rawFallback = checkpoint.rawFallback
    BY <1>3 DEF RetryAtDurable, PageStartOf
  <2> HIDE DEF point
  <2>3. VouchedIn(ledger', swallowed', e)
    BY <1>1, <2>2, VouchRestart
  <2> HIDE DEF e
  <2> QED  BY <2>1, <2>3 DEF VouchInv, NothingYet
<1>4. CASE Reset /\ back.offset <= Len(file.lines)
  <2> DEFINE e == Restart(cur, back, None)
  <2>1. /\ pc = "reset" /\ checkpoint' = e /\ cur' = e /\ latest' = e
        /\ pc' = "read"
    BY <1>4, LenProperties
       DEF Reset, Goto, Save, CursorInv, FileInv, Shape, TypeOK, BackKnown, Start, File,
           Lines
  <2>2. VouchedIn(ledger, swallowed, cur)
    BY <2>1 DEF VouchInv
  <2>3. VouchedIn(ledger', swallowed', e)
    BY <1>1, <2>2, VouchRestart
  <2> HIDE DEF e
  <2> QED  BY <2>1, <2>3 DEF VouchInv, NothingYet
<1>5. CASE Reset /\ ~(back.offset <= Len(file.lines))
  <2>1. Rest /\ checkpoint' = checkpoint
    BY <1>5 DEF Reset, durable
  <2> QED  BY <1>1, <2>1, VouchKept, VouchRest
<1> QED  BY <1>2, <1>3, <1>4, <1>5

(* Steps that only read, and the writer's.                                 *)
LEMMA VouchReadOnly ==
  ASSUME CursorInv, CursorInv', VouchInv, Grows,
         \/ ReadTail \/ CheckBoundary \/ VerifyAhead \/ CheckBoundaryAgain
         \/ AppendFragment \/ VerifyFragment \/ ProofFails \/ CatchChanged
         \/ Writer \/ UNCHANGED vars
  PROVE  VouchInv'
<1>1. UNCHANGED <<checkpoint, cur, latest>>
  BY DEF ReadTail, CheckBoundary, VerifyAhead, CheckBoundaryAgain, AppendFragment,
         VerifyFragment, ProofFails, Caught, CatchChanged, Writer, durable, local, vars
<1>2. /\ VouchedIn(ledger', swallowed', checkpoint)
      /\ VouchedIn(ledger', swallowed', latest)
      /\ VouchedIn(ledger, swallowed, cur) => VouchedIn(ledger', swallowed', cur)
  BY VouchFacts, VouchKept DEF VouchInv
<1>3. ASSUME NEW o, DoneIn(ledger, swallowed, snap, o, cur.generation)
      PROVE  DoneIn(ledger', swallowed', snap, o, cur.generation)
  BY <1>3, VouchFacts, DoneGrows
<1>4. CASE Writer \/ UNCHANGED vars
  <2>1. UNCHANGED <<pc, snap, at>> /\ NextTurn' = NextTurn /\ PageEnd' = PageEnd
    BY <1>4, SamePage DEF Writer, local, vars
  <2> QED  BY <1>1, <1>2, <1>3, <2>1 DEF VouchInv, NothingYet
<1>5. CASE ReadTail \/ CheckBoundary
  <2>1. /\ pc \in {"read", "bound"} /\ pc' \in {"bound", "page", "ahead"}
        /\ pc' = "page" => snap' = None
    BY <1>5 DEF ReadTail, CheckBoundary, Goto
  <2> QED  BY <1>1, <1>2, <2>1 DEF VouchInv, NothingYet
<1>6. CASE VerifyAhead
  <2>1. /\ pc = "aheadSaved" /\ pc \in HoldsPage /\ pc' \in {"clearRaw", "raw", "turn"}
        /\ at' = cur.offset /\ snap' = snap
    BY <1>6 DEF VerifyAhead, EnterLoop, Goto, HoldsPage
  <2>2. DoneIn(ledger', swallowed', snap, cur.offset, cur.generation)
    <3>1. /\ snap \in Snapshot /\ snap.from = cur.offset /\ cur.offset \in Nat
          /\ snap.lines \in Lines /\ Len(snap.lines) \in Nat
      BY <2>1, PageFacts, LenProperties DEF CursorInv, FileInv, Snapshot, Lines
    <3>2. ASSUME NEW t \in Turns(snap.lines, snap.from, Len(snap.lines))
          PROVE  ~(t.offset <= cur.offset)
      BY <3>1, TurnInRange
    <3> QED  BY <3>2 DEF DoneIn
  <2> QED  BY <1>1, <1>2, <2>1, <2>2 DEF VouchInv, NothingYet
<1>7. CASE CheckBoundaryAgain
  <2>1. /\ pc = "turn" /\ pc' = "page" /\ UNCHANGED <<snap, at>> /\ snap # None
        /\ Pending = {} /\ PageEnd' = PageEnd /\ at \in Nat
        /\ snap.lines \in Lines /\ snap.from \in Nat
        /\ PageEnd = Len(snap.lines) /\ PageEnd \in Nat
    BY <1>7, PageFacts, SamePage
       DEF CheckBoundaryAgain, Goto, local, HoldsPage, CursorInv, FileInv, Shape,
           TypeOK, Snapshot, PageEnd
  <2>2. ASSUME NEW t \in Turns(snap.lines, snap.from, Len(snap.lines))
        PROVE  t.offset <= at
    <3>1. t.offset \in Nat
      BY <2>1, TurnInRange
    <3>2. t \notin Pending
      BY <2>1
    <3> QED  BY <2>1, <3>1, <3>2 DEF Pending
  <2>3. DoneIn(ledger, swallowed, snap, PageEnd, cur.generation)
    BY <2>1, <2>2 DEF VouchInv, DoneIn
  <2> QED  BY <1>1, <1>2, <1>3, <2>1, <2>3 DEF VouchInv, NothingYet
<1>8. CASE AppendFragment \/ VerifyFragment \/ ProofFails \/ CatchChanged
  <2>1. pc' \in {"raw", "fragmentDone", "caught", "rewind"}
    BY <1>8
       DEF AppendFragment, VerifyFragment, ProofFails, Caught, CatchChanged, Goto
  <2> QED  BY <1>1, <1>2, <2>1 DEF VouchInv, NothingYet
<1> QED  BY <1>4, <1>5, <1>6, <1>7, <1>8

(* The write-ahead checkpoint proves an empty page, and clearing the       *)
(* fallback changes none.                                                  *)
LEMMA VouchAhead ==
  ASSUME CursorInv, CursorInv', VouchInv, Grows, SaveAhead \/ ClearRaw \/ VerifyClear
  PROVE  VouchInv'
<1>1. pc \in HoldsPage
  BY DEF SaveAhead, ClearRaw, VerifyClear, HoldsPage
<1>2. /\ snap \in Snapshot /\ snap.from = cur.offset /\ cur.offset \in Nat
      /\ snap.lines \in Lines /\ Len(snap.lines) \in Nat /\ latest \in Entry
      /\ PageEnd = Len(snap.lines) /\ cur.offset < PageEnd /\ cur \in Entry
  BY <1>1, PageFacts, LenProperties, VouchFacts
     DEF CursorInv, FileInv, Snapshot, Lines, PageEnd
<1>3. CASE SaveAhead
  <2> DEFINE e == EntryAt(cur.offset, cur.turnIndex, InflightPage, cur.rawFallback)
  <2>1. checkpoint' = e /\ latest' = e /\ pc' = "aheadSaved"
    BY <1>3 DEF SaveAhead, Save, Goto
  <2>2. /\ e.source = SourceAt(cur.offset, cur.offset)
        /\ e.source.page.lines = Slice(snap.lines, cur.offset, cur.offset)
    BY <1>2 DEF EntryAt, SourceAt, PageOf
  <2>3. e.source # None
    BY <1>2, <2>2, SourceAtType, NoneIsNoRecord
  <2>4. e.source.page.lines = <<>>
    BY <1>2, <2>2, SubSeqEmpty DEF Slice, Lines
  <2> HIDE DEF e
  <2>5. VouchedIn(ledger', swallowed', e)
    BY <2>4, EmptyVouches
  <2> QED  BY <2>1, <2>3, <2>4, <2>5 DEF VouchInv, NothingYet
<1>4. CASE ClearRaw
  <2>1. /\ pc = "clearRaw" /\ pc' = "rawCleared" /\ latest' = latest
        /\ checkpoint' = [latest EXCEPT !.rawFallback = None]
    BY <1>4 DEF ClearRaw, Goto, local
  <2>2. /\ checkpoint'.source = checkpoint.source
        /\ checkpoint.source # None /\ checkpoint.source.page.lines = <<>>
    BY <1>2, <2>1 DEF CursorInv, FileInv, LatestSaved, Entry, VouchInv, NothingYet
  <2>3. VouchedIn(ledger', swallowed', checkpoint')
    BY <2>2, EmptyVouches
  <2>4. VouchedIn(ledger', swallowed', latest)
    BY <1>2, VouchKept DEF VouchInv
  <2> QED  BY <2>1, <2>2, <2>3, <2>4 DEF VouchInv, NothingYet
<1>5. CASE VerifyClear
  <2>1. /\ pc = "rawCleared" /\ pc' \in {"raw", "turn"}
        /\ checkpoint' = checkpoint /\ latest' = checkpoint /\ UNCHANGED <<snap, at>>
        /\ cur' = [cur EXCEPT !.rawFallback = None]
    BY <1>5 DEF VerifyClear, EnterLoop, Goto, durable
  <2>2. VouchedIn(ledger', swallowed', checkpoint)
    BY VouchFacts, VouchKept DEF VouchInv
  <2>3. at = cur.offset /\ cur'.generation = cur.generation
    BY <1>2, <2>1 DEF CursorInv, CursorNext, Entry
  <2>4. DoneIn(ledger', swallowed', snap, at, cur'.generation)
    <3>1. ASSUME NEW t \in Turns(snap.lines, snap.from, Len(snap.lines))
          PROVE  ~(t.offset <= cur.offset)
      BY <1>2, TurnInRange
    <3> QED  BY <2>3, <3>1 DEF DoneIn
  <2> QED  BY <2>1, <2>2, <2>4 DEF VouchInv, NothingYet
<1> QED  BY <1>3, <1>4, <1>5

(* A turn is captured before it is checkpointed.                           *)
LEMMA VouchTurn ==
  ASSUME CursorInv, CursorInv', VouchInv, Grows, AppendTurn \/ SaveTurn
  PROVE  VouchInv'
<1>1. pc \in HoldsPage /\ Pending # {} /\ pc \in HoldsCursor
  BY DEF AppendTurn, SaveTurn, HoldsPage, HoldsCursor, CursorInv, FileInv, Shape,
         CursorInPage
<1>2. /\ snap \in Snapshot /\ snap.from = cur.offset /\ cur.offset \in Nat
      /\ snap.from \in Nat /\ snap.from <= PageEnd /\ PageEnd \in Nat
      /\ snap.lines \in Lines /\ PageEnd = Len(snap.lines) /\ cur.generation \in Nat
      /\ cur \in Entry /\ latest \in Entry /\ checkpoint \in Entry /\ at \in Nat
      /\ ledger \in SUBSET Event /\ ledger' \in SUBSET Event
      /\ ledger \subseteq ledger' /\ swallowed \subseteq swallowed'
      /\ VouchedIn(ledger, swallowed, checkpoint)
      /\ VouchedIn(ledger, swallowed, latest)
  <2>1. /\ snap \in Snapshot /\ snap.from = cur.offset /\ cur.offset \in Nat
        /\ snap.from < PageEnd /\ PageEnd \in Nat /\ at \in Nat
    BY <1>1, PageFacts DEF CursorInv, FileInv, Shape, TypeOK
  <2>2. snap.lines \in Lines /\ PageEnd = Len(snap.lines)
    BY <2>1 DEF Snapshot, PageEnd
  <2> QED  BY <2>1, <2>2, VouchFacts DEF VouchInv
<1>3. /\ NextTurn \in Turns(snap.lines, snap.from, PageEnd) /\ NextTurn \in Pending
      /\ \A t \in Pending : NextTurn.offset <= t.offset
      /\ NextTurn.offset \in Nat /\ at < NextTurn.offset /\ NextTurn.offset <= PageEnd
      /\ cur.offset < NextTurn.offset
  BY <1>1, <1>2, NextTurnIsPending, PendingInPage
<1>4. CASE AppendTurn
  <2>1. /\ pc = "turn" /\ pc' = "turnDone" /\ NextTurn' = NextTurn
        /\ UNCHANGED <<checkpoint, cur, latest, snap, at>>
        /\ Accepted(NextTurn) => Record(TurnEvent(NextTurn))
    BY <1>4, SamePage DEF AppendTurn, Goto
  <2>2. CapturedIn(ledger', swallowed', NextTurn, cur.generation)
    <3> SUFFICES ASSUME Accepted(NextTurn)
                 PROVE  CapturedIn(ledger', swallowed', NextTurn, cur.generation)
      BY DEF CapturedIn
    <3> DEFINE x == TurnEvent(NextTurn)
               held == { y \in ledger : Key(y) = Key(x) }
    <3>1. /\ ~x.raw /\ x.offset = NextTurn.offset /\ x.lines = NextTurn.lines
          /\ x.generation = cur.generation
          /\ Key(x) = <<cur.generation, NextTurn.offset>>
      BY DEF TurnEvent, Key
    <3>2. /\ ledger' = IF held = {} THEN ledger \cup {x} ELSE ledger
          /\ swallowed' = IF \E y \in held : y.lines # x.lines
                          THEN swallowed \cup {Key(x)} ELSE swallowed
      BY <2>1 DEF Record
    <3> HIDE DEF x
    <3>3. CASE held = {}
      <4>1. x \in ledger'
        BY <3>2, <3>3
      <4> QED  BY <1>2, <3>1, <4>1 DEF CapturedIn
    <3>4. CASE \E y \in held : y.lines # x.lines
      <4>1. <<cur.generation, NextTurn.offset>> \in swallowed'
            /\ cur.generation \in 0 .. cur.generation
        BY <1>2, <3>1, <3>2, <3>4
      <4> QED  BY <4>1 DEF CapturedIn
    <3>5. CASE held # {} /\ ~ \E y \in held : y.lines # x.lines
      <4>1. PICK y \in ledger : Key(y) = <<cur.generation, NextTurn.offset>>
                                /\ y.lines = NextTurn.lines
        BY <3>1, <3>5
      <4>2. ~y.raw /\ y.offset = NextTurn.offset /\ y.generation = cur.generation
        <5>1. CASE y.raw
          <6>1. <<y.generation, y.from, y.offset, y.lines>>
                  = <<cur.generation, NextTurn.offset>>
            BY <4>1, <5>1 DEF Key
          <6> QED  BY <6>1
        <5>2. CASE ~y.raw
          BY <4>1, <5>2 DEF Key
        <5> QED  BY <5>1, <5>2
      <4> QED  BY <1>2, <4>1, <4>2 DEF CapturedIn
    <3> QED  BY <3>3, <3>4, <3>5
  <2>3. ASSUME NEW t \in Turns(snap.lines, snap.from, PageEnd),
               t.offset <= NextTurn.offset
        PROVE  CapturedIn(ledger', swallowed', t, cur.generation)
    <3>1. t.offset \in Nat
      BY <1>2, TurnInRange
    <3>2. CASE t.offset <= at
      <4>1. CapturedIn(ledger, swallowed, t, cur.generation)
        BY <1>2, <2>1, <3>2 DEF VouchInv, DoneIn, PageEnd
      <4> QED  BY <1>2, <4>1, CapturedGrows
    <3>3. CASE ~(t.offset <= at)
      <4>1. t \in Pending
        BY <1>2, <3>1, <3>3 DEF Pending
      <4>2. t.offset = NextTurn.offset
        BY <1>3, <2>3, <3>1, <4>1
      <4>3. t = NextTurn
        BY <1>2, <1>3, <4>2, SameEndSameTurn
      <4> QED  BY <2>2, <4>3
    <3> QED  BY <3>2, <3>3
  <2>4. DoneIn(ledger', swallowed', snap, NextTurn.offset, cur.generation)
    BY <2>3 DEF DoneIn, PageEnd
  <2>5. /\ VouchedIn(ledger', swallowed', checkpoint)
        /\ VouchedIn(ledger', swallowed', latest)
    BY <1>2, VouchKept
  <2> QED  BY <2>1, <2>4, <2>5 DEF VouchInv, NothingYet
<1>5. CASE SaveTurn
  <2>1. /\ pc = "turnDone" /\ pc' = "turn" /\ at' = NextTurn.offset
        /\ UNCHANGED <<cur, snap>> /\ checkpoint' = latest'
        /\ checkpoint' = EntryAt(NextTurn.offset, next - 1, InflightPage, None)
    BY <1>5 DEF SaveTurn, Save, Goto
  <2>2. DoneIn(ledger, swallowed, snap, NextTurn.offset, cur.generation)
    BY <2>1 DEF VouchInv
  <2>3. DoneIn(ledger', swallowed', snap, NextTurn.offset, cur.generation)
    BY <1>2, <2>2, DoneGrows
  <2>4. VouchedIn(ledger', swallowed', checkpoint')
    BY <1>2, <1>3, <2>1, <2>3, PageVouches
  <2> QED  BY <2>1, <2>3, <2>4 DEF VouchInv, NothingYet
<1> QED  BY <1>4, <1>5

(* The page checkpoint, in turns or of an empty read.                      *)
LEMMA VouchPage ==
  ASSUME CursorInv, CursorInv', LoadInv, VouchInv, Grows, SavePage
  PROVE  VouchInv'
<1>1. /\ pc = "page" /\ pc' = "pageSaved" /\ checkpoint' = PageEntry
      /\ latest' = PageEntry
  BY DEF SavePage, Save, Goto
<1>2. VouchedIn(ledger', swallowed', PageEntry)
  <2>1. CASE snap = None
    <3>1. VouchedIn(ledger, swallowed, cur) /\ cur \in Entry
      BY <1>1, <2>1, VouchFacts DEF VouchInv
    <3>2. /\ PageEntry = [cur EXCEPT !.turnIndex = next - 1, !.source = seen,
                                     !.inflight = None]
          /\ seen.page = IF cur.source = None THEN None ELSE cur.source.page
      BY <1>1, <2>1 DEF PageEntry, LoadInv, EntriesLoad, SeenIsOwn
    <3>3. /\ PageEntry.generation = cur.generation /\ PageEntry.source = seen
          /\ PageEntry.rawFallback = cur.rawFallback /\ cur.generation \in Nat
      BY <3>1, <3>2 DEF Entry
    <3>4. Vouching(PageEntry) =>
            Vouching(cur) /\ PageEntry.source.page = cur.source.page
      BY <3>2, <3>3 DEF Vouching
    <3> QED  BY <3>1, <3>3, <3>4, VouchFacts, VouchedGrows
  <2>2. CASE snap # None
    <3> DEFINE o == NewOffset(snap.lines, snap.from, PageEnd)
    <3>1. /\ snap \in Snapshot /\ snap.from = cur.offset /\ snap.from < PageEnd
          /\ PageEnd \in Nat /\ snap.lines \in Lines /\ PageEnd = Len(snap.lines)
          /\ cur.offset \in Nat /\ cur.generation \in Nat
          /\ ledger' \in SUBSET Event
          /\ ledger \subseteq ledger' /\ swallowed \subseteq swallowed'
      BY <2>2, <1>1, LenProperties, VouchFacts
         DEF CursorInv, FileInv, Shape, TypeOK, PageKnown, Snapshot, Lines, PageEnd,
             Entry
    <3>2. o \in Nat /\ cur.offset <= o /\ o <= PageEnd
      BY <3>1, NewOffsetInRange
    <3> HIDE DEF o
    <3>3. PageEntry = EntryAt(o, next - 1, None, cur.rawFallback)
      BY <2>2 DEF PageEntry, o
    <3>4. DoneIn(ledger, swallowed, snap, PageEnd, cur.generation)
      BY <1>1, <2>2 DEF VouchInv
    <3>5. DoneIn(ledger', swallowed', snap, o, cur.generation)
      <4>1. ASSUME NEW t \in Turns(snap.lines, snap.from, Len(snap.lines))
            PROVE  t.offset <= PageEnd
        BY <3>1, TurnInRange
      <4>2. DoneIn(ledger, swallowed, snap, o, cur.generation)
        BY <3>4, <4>1 DEF DoneIn
      <4> QED  BY <3>1, <4>2, DoneGrows
    <3> QED  BY <3>1, <3>2, <3>3, <3>5, PageVouches
  <2> QED  BY <2>1, <2>2
<1> QED  BY <1>1, <1>2 DEF VouchInv, NothingYet

(* Fragments reach to the next user line: no turn is closed among them.    *)
LEMMA VouchRaw ==
  ASSUME CursorInv, CursorInv', VouchInv, Grows, SaveRaw
  PROVE  VouchInv'
<1> DEFINE raw == IF RawThrough < PageEnd THEN None ELSE [Fallback EXCEPT !.next = next]
           e == EntryAt(RawThrough, cur.turnIndex, None, raw)
<1>1. /\ pc = "raw" /\ pc \in HoldsPage /\ pc' = "rawSaved"
      /\ checkpoint' = e /\ latest' = e
  BY DEF SaveRaw, Save, HoldsPage, Goto
<1>2. /\ snap \in Snapshot /\ snap.from = cur.offset /\ snap.from < PageEnd
      /\ cur \in Entry /\ cur.offset \in Nat /\ PageEnd \in Nat
      /\ snap.lines \in Lines /\ PageEnd = Len(snap.lines) /\ next \in Nat
      /\ cur.rawFallback \in RawFallback \cup {None} /\ cur.generation \in Nat
      /\ ledger' \in SUBSET Event
  BY <1>1, PageFacts, VouchFacts
     DEF CursorInv, FileInv, Shape, TypeOK, Snapshot, PageEnd, CursorInPage
<1>3. RawThrough \in Nat /\ cur.offset < RawThrough /\ RawThrough <= PageEnd
  BY <1>2, RawThroughInPage
<1>4. CASE RawThrough < PageEnd
  <2>1. ASSUME NEW i \in (cur.offset + 1) .. RawThrough
        PROVE  snap.lines[i] \notin UserLines
    <3>1. RawThrough \in { o \in UserOffsets(snap.lines, snap.from, PageEnd) :
                             o > cur.offset /\ FirstUserAt(o) }
      BY <1>2, <1>4 DEF RawThrough
    <3>2. \A p \in UserOffsets(snap.lines, snap.from, PageEnd) : RawThrough <= p
      BY <3>1 DEF FirstUserAt
    <3>3. i - 1 \in snap.from .. (PageEnd - 1) /\ ~(RawThrough <= i - 1)
          /\ (i - 1) + 1 = i
      BY <1>2, <1>3
    <3>4. i - 1 \notin UserOffsets(snap.lines, snap.from, PageEnd)
      BY <3>2, <3>3
    <3> QED  BY <3>3, <3>4 DEF UserOffsets
  <2>2. DoneIn(ledger', swallowed', snap, RawThrough, cur.generation)
    <3>1. ASSUME NEW t \in Turns(snap.lines, snap.from, Len(snap.lines)),
                 t.offset <= RawThrough
          PROVE  FALSE
      <4>1. /\ t.from \in Nat /\ t.offset \in Nat /\ cur.offset <= t.from
            /\ t.from + 1 < t.offset
            /\ Closes(snap.lines, t.from + 1, t.offset, Len(snap.lines))
        BY <1>2, TurnFacts
      <4>2. t.from + 1 \in (cur.offset + 1) .. RawThrough
        BY <1>2, <1>3, <3>1, <4>1
      <4> QED  BY <2>1, <4>1, <4>2 DEF Closes, Opens
    <3> QED  BY <3>1 DEF DoneIn
  <2>3. VouchedIn(ledger', swallowed', e)
    BY <1>2, <1>3, <2>2, PageVouches
  <2> HIDE DEF e
  <2> QED  BY <1>1, <2>3 DEF VouchInv, NothingYet
<1>5. CASE ~(RawThrough < PageEnd)
  <2>1. Fallback \in RawFallback
    BY <1>2 DEF Fallback, RawFallback
  <2>2. [Fallback EXCEPT !.next = next] \in RawFallback
    BY <1>2, <2>1 DEF RawFallback
  <2>3. e.rawFallback # None
    BY <1>5, <2>2, NoneIsNoRecord DEF EntryAt
  <2> HIDE DEF e
  <2>4. VouchedIn(ledger', swallowed', e)
    BY <2>3 DEF VouchedIn, Vouching
  <2> QED  BY <1>1, <2>4 DEF VouchInv, NothingYet
<1> QED  BY <1>4, <1>5

(* The catch block's rewinds promise no more than the latest entry did.    *)
LEMMA VouchEnd ==
  ASSUME CursorInv, CursorInv', VouchInv, Grows,
         \/ CatchAtDurable \/ Rewind \/ Finish \/ FinishRaw \/ CatchTransient
         \/ Abort \/ CatchUnstable
  PROVE  VouchInv'
<1>1. /\ Rest /\ latest \in Entry /\ checkpoint \in Entry
      /\ VouchedIn(ledger, swallowed, checkpoint)
      /\ VouchedIn(ledger, swallowed, latest)
  BY VouchFacts
     DEF CatchAtDurable, Rewind, Finish, FinishRaw, CatchTransient, Abort,
         CatchUnstable, VouchInv
<1>2. CASE checkpoint' = checkpoint
  BY <1>1, <1>2, VouchKept, VouchRest
<1>3. CASE CatchAtDurable
  <2> DEFINE point == PageStartOf(latest)
             page == latest.source.page
  <2>1. checkpoint' = Restart(latest, point, page)
    BY <1>3 DEF CatchAtDurable
  <2>2. latest.source # None /\ point.rawFallback = latest.rawFallback
    BY <1>3 DEF CatchAtDurable, RetryAtDurable, PageStartOf
  <2> HIDE DEF point
  <2>3. VouchedIn(ledger', swallowed', checkpoint')
    BY <1>1, <2>1, <2>2, VouchRestart
  <2> QED  BY <1>1, <2>3, VouchRest
<1>4. CASE Rewind /\ checkpoint' # checkpoint
  <2>1. checkpoint' = Restart(latest, back, None)
    BY <1>4 DEF Rewind
  <2>2. VouchedIn(ledger', swallowed', checkpoint')
    BY <1>1, <2>1, VouchRestart
  <2> QED  BY <1>1, <2>2, VouchRest
<1> QED
  BY <1>2, <1>3, <1>4
     DEF CatchAtDurable, Rewind, Finish, FinishRaw, CatchTransient, Abort,
         CatchUnstable, durable

LEMMA VouchNext ==
  CursorInv /\ LoadInv /\ VouchInv /\ [Next]_vars => VouchInv'
<1> SUFFICES ASSUME CursorInv, LoadInv, VouchInv, [Next]_vars PROVE VouchInv'
  OBVIOUS
<1>1. CursorInv' /\ Grows
  BY CheckpointNext, LedgerGrows
<1> QED
  BY <1>1, VouchStart, VouchReadOnly, VouchAhead, VouchTurn, VouchPage, VouchRaw,
     VouchEnd
     DEF Next, Handler

(* The checkpoint never vouches for a turn the ledger does not hold: after *)
(* any writes, rewrites, rewinds, crashes and retries, every turn closed   *)
(* inside the page that handleJsonlChange proves durably was appended, was *)
(* refused by the gate, or met its dedupe key already taken.               *)
THEOREM VouchesForCaptured == Spec => []CheckpointVouches
<1>1. Init => CursorInv /\ LoadInv /\ VouchInv
  BY CheckpointInit, VouchInit
<1>2. CursorInv /\ LoadInv /\ VouchInv /\ [Next]_vars
        => (CursorInv /\ LoadInv /\ VouchInv)'
  BY CheckpointNext, VouchNext
<1>3. CursorInv /\ LoadInv /\ VouchInv => CheckpointVouches
  BY DEF VouchInv, VouchedIn, Vouching, CapturedIn, CheckpointVouches, Captured
<1> QED  BY <1>1, <1>2, <1>3, PTL DEF Spec

-----------------------------------------------------------------------------
(* A transcript that is only appended to or replaced: what was read of a   *)
(* file stays true of it.  The file is a parameter: it is compared before  *)
(* and after a write.                                                      *)

Intact(f, page) ==
  /\ Through(page) <= Len(f.lines)
  /\ Slice(f.lines, page.from, Through(page)) = page.lines

(* Every line of an append-only file moves its change token once.          *)
SameAge(f, s) ==
  s.size <= Len(f.lines) /\ f.token - Len(f.lines) = s.token - s.size

SourceHolds(f, s, o) ==
  s.identity = f.identity =>
    /\ o <= Len(f.lines) /\ SameAge(f, s)
    /\ s.page # None => Intact(f, s.page)
    /\ Boundary(f.lines, o) = s.boundary

EntryHolds(f, c) ==
  /\ c.source = None => c.offset = 0
  /\ c.source # None => SourceHolds(f, c.source, c.offset)
  /\ c.source # None /\ c.source.identity = f.identity /\ c.inflight # None =>
       Intact(f, c.inflight)

(* A snapshot is a prefix of the file it was read from.                    *)
ReadFrom(f, s) ==
  s.identity = f.identity =>
    /\ Len(s.lines) <= s.size /\ SameAge(f, s)
    /\ s.lines = Slice(f.lines, 0, Len(s.lines))

(* A rewind is due only once another file stands at the path.              *)
RewindToStart ==
  pc \in {"reset", "rewind"} =>
    /\ checkpoint.source # None /\ checkpoint.source.identity < file.identity
    /\ back.offset = 0 /\ back.rawFallback = None

HoldsSnap == pc \in HoldsPage \cup {"bound", "page"} /\ snap # None

Growth ==
  /\ EntryHolds(file, checkpoint)
  /\ pc # "idle" => EntryHolds(file, latest)
  /\ pc \in {"read", "bound"} \/ (pc = "page" /\ snap = None) =>
       SourceHolds(file, seen, cur.offset)
  /\ HoldsSnap => snap.identity <= file.identity /\ ReadFrom(file, snap)
  /\ RewindToStart

(* Nothing is rewritten: a later file is another one, or one line longer.  *)
Grown(f, g) ==
  \/ f.identity < g.identity
  \/ /\ g.identity = f.identity /\ g.token = f.token + 1
     /\ \E l \in Line : g.lines = Append(f.lines, l)

LEMMA AppendFacts ==
  ASSUME NEW lines \in Lines, NEW l \in Line
  PROVE  /\ Append(lines, l) \in Lines /\ Len(lines) \in Nat
         /\ Len(Append(lines, l)) = Len(lines) + 1
         /\ \A i \in 1 .. Len(lines) : Append(lines, l)[i] = lines[i]
         /\ Append(lines, l)[Len(lines) + 1] = l
<1>1. lines \in Seq(Line) /\ Len(lines) \in Nat
  BY LenProperties DEF Lines
<1> QED  BY <1>1, AppendProperties DEF Lines

LEMMA AppendKeepsSlice ==
  ASSUME NEW lines \in Lines, NEW l \in Line, NEW a \in Nat, NEW b \in Nat,
         a <= b, b <= Len(lines)
  PROVE  Slice(Append(lines, l), a, b) = Slice(lines, a, b)
<1> DEFINE more == Append(lines, l)
<1>1. /\ more \in Lines /\ Len(lines) \in Nat /\ Len(more) = Len(lines) + 1
      /\ \A i \in 1 .. Len(lines) : more[i] = lines[i]
  BY AppendFacts
<1> HIDE DEF more
<1>2. /\ Slice(lines, a, b) \in Lines /\ Len(Slice(lines, a, b)) = b - a
      /\ \A i \in 1 .. (b - a) : Slice(lines, a, b)[i] = lines[a + i]
  BY SliceFacts
<1>3. /\ Slice(more, a, b) \in Lines /\ Len(Slice(more, a, b)) = b - a
      /\ \A i \in 1 .. (b - a) : Slice(more, a, b)[i] = more[a + i]
  <2>1. b <= Len(more)
    BY <1>1
  <2> QED  BY <1>1, <2>1, SliceFacts
<1>4. ASSUME NEW i \in 1 .. (b - a)
      PROVE  Slice(more, a, b)[i] = Slice(lines, a, b)[i]
  <2>1. a + i \in 1 .. Len(lines)
    BY <1>1
  <2> QED  BY <1>1, <1>2, <1>3, <2>1
<1>5. Slice(more, a, b) = Slice(lines, a, b)
  BY <1>2, <1>3, <1>4, SeqEqual DEF Lines
<1> QED  BY <1>5 DEF more

LEMMA AppendKeepsBoundary ==
  ASSUME NEW lines \in Lines, NEW l \in Line, NEW o \in Nat, o <= Len(lines)
  PROVE  Boundary(Append(lines, l), o) = Boundary(lines, o)
<1> DEFINE a == IF o > BoundaryLines THEN o - BoundaryLines ELSE 0
<1>1. a \in Nat /\ a <= o
  BY SizesArePositive
<1> HIDE DEF a
<1>2. Slice(Append(lines, l), a, o) = Slice(lines, a, o)
  BY <1>1, AppendKeepsSlice
<1> QED  BY <1>2 DEF Boundary, a

(* What a prefix of the lines shows of a range, the lines show.            *)
LEMMA PrefixSlice ==
  ASSUME NEW lines \in Lines, NEW n \in Nat, n <= Len(lines),
         NEW a \in Nat, NEW b \in Nat, a <= b, b <= n
  PROVE  Slice(Slice(lines, 0, n), a, b) = Slice(lines, a, b)
<1>1. 0 \in Nat /\ 0 <= n /\ b <= n - 0 /\ 0 + a = a /\ 0 + b = b
  OBVIOUS
<1>2. Slice(Slice(lines, 0, n), a, b) = Slice(lines, 0 + a, 0 + b)
  BY <1>1, SliceOfSlice
<1> QED  BY <1>1, <1>2

LEMMA PrefixBoundary ==
  ASSUME NEW lines \in Lines, NEW n \in Nat, n <= Len(lines), NEW o \in Nat, o <= n
  PROVE  Boundary(Slice(lines, 0, n), o) = Boundary(lines, o)
<1> DEFINE a == IF o > BoundaryLines THEN o - BoundaryLines ELSE 0
<1>1. a \in Nat /\ a <= o
  BY SizesArePositive
<1> HIDE DEF a
<1>2. Slice(Slice(lines, 0, n), a, o) = Slice(lines, a, o)
  BY <1>1, PrefixSlice
<1> QED  BY <1>2 DEF Boundary, a

LEMMA IntactGrows ==
  ASSUME NEW f \in File, NEW g \in File, Grown(f, g), f.identity = g.identity,
         NEW page \in Page, Intact(f, page)
  PROVE  Intact(g, page)
<1>1. PICK l \in Line : g.lines = Append(f.lines, l)
  BY DEF Grown, File
<1>2. /\ f.lines \in Lines /\ page.from \in Nat /\ Len(page.lines) \in Nat
      /\ Through(page) \in Nat /\ page.from <= Through(page)
  BY LenProperties DEF File, Page, Lines, Through
<1>3. Through(page) <= Len(f.lines)
      /\ Slice(f.lines, page.from, Through(page)) = page.lines
  BY DEF Intact
<1>4. Slice(g.lines, page.from, Through(page)) = Slice(f.lines, page.from, Through(page))
  BY <1>1, <1>2, <1>3, AppendKeepsSlice
<1>5. Through(page) <= Len(g.lines)
  BY <1>1, <1>2, <1>3, AppendFacts
<1> QED  BY <1>3, <1>4, <1>5 DEF Intact

LEMMA SameAgeGrows ==
  ASSUME NEW f \in File, NEW g \in File, Grown(f, g), f.identity = g.identity,
         NEW s, s.size \in Nat, s.token \in Nat, SameAge(f, s)
  PROVE  SameAge(g, s)
<1>1. PICK l \in Line : g.lines = Append(f.lines, l)
  BY DEF Grown, File
<1>2. g.token = f.token + 1 /\ f.token \in Nat /\ f.lines \in Lines
  BY DEF Grown, File
<1>3. Len(g.lines) = Len(f.lines) + 1 /\ Len(f.lines) \in Nat
  BY <1>1, <1>2, AppendFacts
<1>4. s.size <= Len(f.lines) /\ f.token - Len(f.lines) = s.token - s.size
  BY DEF SameAge
<1>5. s.size <= Len(g.lines) /\ g.token - Len(g.lines) = s.token - s.size
  BY <1>2, <1>3, <1>4, SMTT(30)
<1> QED  BY <1>5 DEF SameAge

LEMMA SourceGrows ==
  ASSUME NEW f \in File, NEW g \in File, Grown(f, g), NEW s \in Source, NEW o \in Nat,
         s.identity <= f.identity, SourceHolds(f, s, o)
  PROVE  SourceHolds(g, s, o)
<1> SUFFICES ASSUME s.identity = g.identity
             PROVE  /\ o <= Len(g.lines) /\ SameAge(g, s)
                    /\ s.page # None => Intact(g, s.page)
                    /\ Boundary(g.lines, o) = s.boundary
  BY DEF SourceHolds
<1>1. /\ f.identity \in Nat /\ g.identity \in Nat /\ f.lines \in Lines
      /\ s.size \in Nat /\ s.token \in Nat /\ s.page \in Page \cup {None}
  BY DEF File, Source
<1>2. f.identity = g.identity /\ s.identity = f.identity
  BY <1>1 DEF Grown
<1>3. PICK l \in Line : g.lines = Append(f.lines, l)
  BY <1>2, <1>1 DEF Grown
<1>4. /\ o <= Len(f.lines) /\ SameAge(f, s)
      /\ s.page # None => Intact(f, s.page)
      /\ Boundary(f.lines, o) = s.boundary
  BY <1>2 DEF SourceHolds
<1>5. o <= Len(g.lines)
  BY <1>1, <1>3, <1>4, AppendFacts
<1>6. SameAge(g, s)
  BY <1>1, <1>2, <1>4, SameAgeGrows
<1>7. s.page # None => Intact(g, s.page)
  BY <1>1, <1>2, <1>4, IntactGrows
<1>8. Boundary(g.lines, o) = s.boundary
  BY <1>1, <1>3, <1>4, AppendKeepsBoundary
<1> QED  BY <1>5, <1>6, <1>7, <1>8

LEMMA EntryGrows ==
  ASSUME NEW f \in File, NEW g \in File, Grown(f, g), NEW c \in Entry,
         c.source # None => c.source.identity <= f.identity, EntryHolds(f, c)
  PROVE  EntryHolds(g, c)
<1>1. /\ c.source \in Source \cup {None} /\ c.offset \in Nat
      /\ c.inflight \in Page \cup {None}
      /\ f.identity \in Nat /\ g.identity \in Nat
      /\ c.source # None => c.source.identity \in Nat
  BY DEF Entry, File, Source
<1>2. c.source # None => SourceHolds(g, c.source, c.offset)
  BY <1>1, SourceGrows DEF EntryHolds
<1>3. c.source # None /\ c.source.identity = g.identity /\ c.inflight # None =>
        Intact(g, c.inflight)
  <2> SUFFICES ASSUME c.source # None, c.source.identity = g.identity,
                      c.inflight # None
               PROVE  Intact(g, c.inflight)
    OBVIOUS
  <2>1. f.identity = g.identity
    BY <1>1 DEF Grown
  <2>2. Intact(f, c.inflight)
    BY <2>1 DEF EntryHolds
  <2> QED  BY <1>1, <2>1, <2>2, IntactGrows
<1> QED  BY <1>2, <1>3 DEF EntryHolds

LEMMA ReadFromGrows ==
  ASSUME NEW f \in File, NEW g \in File, Grown(f, g), NEW s \in Snapshot,
         s.identity <= f.identity, ReadFrom(f, s)
  PROVE  s.identity <= g.identity /\ ReadFrom(g, s)
<1>1. /\ f.identity \in Nat /\ g.identity \in Nat /\ f.lines \in Lines
      /\ s.identity \in Nat /\ s.size \in Nat /\ s.token \in Nat /\ s.lines \in Lines
      /\ Len(s.lines) \in Nat /\ Len(f.lines) \in Nat
  BY LenProperties DEF File, Snapshot, Lines
<1>2. f.identity <= g.identity
  BY <1>1 DEF Grown
<1>3. s.identity <= g.identity
  BY <1>1, <1>2
<1>4. ASSUME s.identity = g.identity
      PROVE  /\ Len(s.lines) <= s.size /\ SameAge(g, s)
             /\ s.lines = Slice(g.lines, 0, Len(s.lines))
  <2>1. f.identity = g.identity
    BY <1>1, <1>2, <1>4
  <2>2. PICK l \in Line : g.lines = Append(f.lines, l)
    BY <1>1, <2>1 DEF Grown
  <2>3. /\ Len(s.lines) <= s.size /\ SameAge(f, s)
        /\ s.lines = Slice(f.lines, 0, Len(s.lines))
    BY <1>4, <2>1 DEF ReadFrom
  <2>4. SameAge(g, s)
    BY <1>1, <2>1, <2>3, SameAgeGrows
  <2>5. Len(s.lines) <= Len(f.lines) /\ 0 <= Len(s.lines) /\ 0 \in Nat
    BY <1>1, <2>3 DEF SameAge
  <2>6. Slice(g.lines, 0, Len(s.lines)) = Slice(f.lines, 0, Len(s.lines))
    BY <1>1, <2>2, <2>5, AppendKeepsSlice
  <2> QED  BY <2>3, <2>4, <2>6
<1> QED  BY <1>3, <1>4 DEF ReadFrom

(* A write that rewrites nothing.                                          *)
LEMMA WriterGrows ==
  ASSUME file \in File, rewrites = 0, rewrites' = 0, WriterStep
  PROVE  Grown(file, file')
<1>1. file.identity \in Nat
  BY DEF File
<1>2. ~RewriteLine /\ ~Truncate
  BY DEF RewriteLine, Truncate
<1>3. CASE AppendLine
  <2>1. PICK l \in Line : Write(Append(file.lines, l), file.identity)
    BY <1>3 DEF AppendLine
  <2> QED  BY <2>1 DEF Write, Grown
<1>4. CASE Replace
  <2>1. PICK lines \in Contents : Write(lines, file.identity + 1)
    BY <1>4 DEF Replace
  <2> QED  BY <1>1, <2>1 DEF Write, Grown
<1> QED  BY <1>2, <1>3, <1>4 DEF WriterStep

(* As long as nothing is rewritten, the durable proof of a file holds.     *)
LEMMA CurrentUnlessReplaced ==
  ASSUME file \in File, NEW e \in Entry, EntryLoads(e), EntryHolds(file, e),
         e.source # None => ~Replaced(e)
  PROVE  ProofCurrent(e)
<1>1. /\ e.source \in Source \cup {None} /\ Len(file.lines) \in Nat
      /\ file.token \in Int
      /\ e.source # None => e.source.size \in Nat /\ e.source.token \in Nat
  BY LenProperties DEF Entry, Source, File, Lines
<1>2. CASE e.source = None
  BY <1>1, <1>2
     DEF EntryHolds, EntryLoads, Loads, InflightLoads, ProofCurrent, InflightHolds,
         DurableProofHolds
<1>3. CASE e.source # None
  <2>1. /\ e.source.identity = file.identity /\ SourceHolds(file, e.source, e.offset)
        /\ e.inflight # None => Intact(file, e.inflight)
    BY <1>3 DEF EntryHolds, Replaced
  <2>2. /\ e.offset <= Len(file.lines) /\ SameAge(file, e.source)
        /\ e.source.page # None => Intact(file, e.source.page)
        /\ Boundary(file.lines, e.offset) = e.source.boundary
    BY <2>1 DEF SourceHolds
  <2>3. e.source.size # Len(file.lines) \/ e.source.token = file.token
    BY <1>1, <1>3, <2>2 DEF SameAge
  <2>4. DurableProofHolds(e)
    BY <2>1, <2>2, <2>3 DEF DurableProofHolds, Replaced, Intact, PageIntact
  <2>5. InflightHolds(e)
    BY <2>1 DEF InflightHolds, Replaced, Intact, PageIntact
  <2> QED  BY <2>4, <2>5 DEF ProofCurrent
<1> QED  BY <1>2, <1>3

(* A proof taken from the file holds of it.                                *)
LEMMA InspectHolds ==
  ASSUME file \in File, NEW o \in Nat, o <= Len(file.lines), NEW page,
         page # None => Intact(file, page)
  PROVE  SourceHolds(file, Inspect(o, page), o)
<1>1. Len(file.lines) \in Nat /\ file.token \in Nat
  BY LenProperties DEF File, Lines
<1>2. SameAge(file, Inspect(o, page))
  BY <1>1 DEF SameAge, Inspect
<1> QED  BY <1>2 DEF SourceHolds, Inspect

(* So does the proof of any part of a page read from it.                   *)
LEMMA EntryAtHolds ==
  ASSUME file \in File, snap \in Snapshot, snap.from = cur.offset, cur.offset \in Nat,
         ReadFrom(file, snap), NEW o \in Nat, cur.offset <= o, o <= PageEnd,
         NEW turnIndex, NEW inflight \in {None, InflightPage}, NEW raw
  PROVE  EntryHolds(file, EntryAt(o, turnIndex, inflight, raw))
<1> DEFINE e == EntryAt(o, turnIndex, inflight, raw)
<1>1. /\ e.offset = o /\ e.source = SourceAt(o, o) /\ e.inflight = inflight
  BY DEF EntryAt
<1>2. e.source # None
  BY <1>1, SourceAtType, NoneIsNoRecord, LenProperties DEF Snapshot, Lines, PageEnd
<1> HIDE DEF e
<1> SUFFICES ASSUME snap.identity = file.identity
             PROVE  /\ o <= Len(file.lines) /\ SameAge(file, e.source)
                    /\ e.source.page # None => Intact(file, e.source.page)
                    /\ Boundary(file.lines, o) = e.source.boundary
                    /\ e.inflight # None => Intact(file, e.inflight)
  <2>1. e.source.identity = snap.identity
    BY <1>1 DEF SourceAt
  <2> QED  BY <1>1, <1>2, <2>1 DEF EntryHolds, SourceHolds, e
<1>3. PICK n \in Nat : n = PageEnd
  BY LenProperties DEF Snapshot, Lines, PageEnd
<1>4. /\ snap.lines \in Lines /\ Len(snap.lines) = n
      /\ n <= snap.size /\ SameAge(file, snap) /\ snap.lines = Slice(file.lines, 0, n)
      /\ snap.size \in Nat /\ snap.token \in Nat
  BY <1>3 DEF ReadFrom, Snapshot, PageEnd
<1>5. file.lines \in Lines /\ Len(file.lines) \in Nat /\ n <= Len(file.lines) /\ o <= n
  <2>1. file.lines \in Lines /\ Len(file.lines) \in Nat /\ snap.size <= Len(file.lines)
    BY <1>4, LenProperties DEF File, Lines, SameAge
  <2> QED  BY <1>3, <1>4, <2>1
<1>6. SameAge(file, e.source)
  BY <1>1, <1>4 DEF SameAge, SourceAt
<1>7. Boundary(file.lines, o) = e.source.boundary
  <2>1. e.source.boundary = Boundary(snap.lines, o)
    BY <1>1 DEF SourceAt
  <2>2. Boundary(Slice(file.lines, 0, n), o) = Boundary(file.lines, o)
    BY <1>5, PrefixBoundary
  <2> QED  BY <1>4, <2>1, <2>2
<1>8. ASSUME NEW b \in Nat, cur.offset <= b, b <= n
      PROVE  Intact(file, PageOf(snap.lines, cur.offset, b))
  <2>1. /\ PageOf(snap.lines, cur.offset, b).from = cur.offset
        /\ PageOf(snap.lines, cur.offset, b).lines = Slice(snap.lines, cur.offset, b)
        /\ Through(PageOf(snap.lines, cur.offset, b)) = b
    BY <1>4, <1>8, PageOfFacts
  <2>2. Slice(Slice(file.lines, 0, n), cur.offset, b) = Slice(file.lines, cur.offset, b)
    <3> DEFINE a == cur.offset
    <3>1. a \in Nat /\ a <= b
      BY <1>8
    <3> HIDE DEF a
    <3>2. Slice(Slice(file.lines, 0, n), a, b) = Slice(file.lines, a, b)
      BY <1>5, <1>8, <3>1, PrefixSlice
    <3> QED  BY <3>2 DEF a
  <2>3. b <= Len(file.lines)
    BY <1>5, <1>8
  <2> QED  BY <1>4, <2>1, <2>2, <2>3 DEF Intact
<1>9. e.source.page = PageOf(snap.lines, cur.offset, o)
  BY <1>1 DEF SourceAt
<1>10. InflightPage = PageOf(snap.lines, cur.offset, n)
  BY <1>3 DEF InflightPage
<1>11. cur.offset <= n
  BY <1>5
<1> QED  BY <1>1, <1>3, <1>5, <1>6, <1>7, <1>8, <1>9, <1>10, <1>11

(* Where a run starts over, nothing is kept that could be out of date.     *)
LEMMA RestartHolds ==
  ASSUME file \in File, NEW e, NEW point, point.offset = 0
  PROVE  /\ EntryHolds(file, Restart(e, point, None))
         /\ SourceHolds(file, Restart(e, point, None).source, 0)
<1>1. 0 <= Len(file.lines)
  BY LenProperties DEF File, Lines
<1>2. SourceHolds(file, Inspect(0, None), 0)
  BY <1>1, InspectHolds
<1> QED  BY <1>2 DEF Restart, EntryHolds

(* A proof that no longer holds is one of another file.                    *)
LEMMA ChangedMeansReplaced ==
  ASSUME file \in File, NEW e \in Entry, EntryLoads(e), EntryHolds(file, e),
         e.source # None => e.source.identity <= file.identity, ~ProofCurrent(e)
  PROVE  /\ ~RetryAtDurable(e)
         /\ e.source # None /\ e.source.identity < file.identity
         /\ RewindPoint(e).offset = 0 /\ RewindPoint(e).rawFallback = None
<1>1. e.source # None /\ Replaced(e)
  BY CurrentUnlessReplaced
<1>2. e.source.identity \in Nat /\ file.identity \in Nat
  BY <1>1 DEF Entry, Source, File
<1> QED  BY <1>1, <1>2 DEF Replaced, RetryAtDurable, RewindPoint, BoundedRewind

LEMMA GrowthInit == Init => Growth
BY FreshType
   DEF Init, Rested, Growth, EntryHolds, Fresh, HoldsSnap, HoldsPage, RewindToStart

(* At these steps only the entries are of account.                         *)
LEMMA GrowthDropped ==
  ASSUME pc' \in {"idle", "caught", "rawSaved", "pageSaved"},
         EntryHolds(file', checkpoint'), pc' # "idle" => EntryHolds(file', latest'),
         HoldsSnap' => snap'.identity <= file'.identity /\ ReadFrom(file', snap')
  PROVE  Growth'
BY DEF Growth, RewindToStart

LEMMA GrowthFacts ==
  ASSUME CursorInv, LoadInv, Growth
  PROVE  /\ file \in File /\ file.identity \in Nat /\ checkpoint \in Entry
         /\ cur \in Entry /\ latest \in Entry
         /\ EntryHolds(file, checkpoint) /\ EntryLoads(checkpoint)
         /\ EntryLoads(latest)
         /\ checkpoint.source # None => checkpoint.source.identity <= file.identity
         /\ pc # "idle" => /\ latest.source = checkpoint.source
                           /\ EntryHolds(file, latest)
BY DEF CursorInv, FileInv, Shape, TypeOK, IdentityOrder, LatestSaved, LoadInv,
       EntriesLoad, Growth,
       File

LEMMA GrowthResume ==
  ASSUME CursorInv, LoadInv, Growth, Resume \/ CatchChanged \/ CatchAtDurable
  PROVE  Growth'
<1>1. /\ file \in File /\ file.identity \in Nat /\ checkpoint \in Entry
      /\ latest \in Entry /\ file' = file
      /\ EntryHolds(file, checkpoint) /\ EntryLoads(checkpoint)
      /\ EntryLoads(latest)
      /\ checkpoint.source # None => checkpoint.source.identity <= file.identity
      /\ pc # "idle" => /\ latest.source = checkpoint.source
                        /\ EntryHolds(file, latest)
  BY GrowthFacts DEF Resume, CatchChanged, CatchAtDurable
<1>2. CASE Resume /\ ProofCurrent(checkpoint)
  <2> DEFINE page == IF checkpoint.source = None THEN None ELSE checkpoint.source.page
  <2>1. /\ seen' = Inspect(checkpoint.offset, page) /\ pc' = "read"
        /\ cur' = checkpoint /\ latest' = checkpoint /\ checkpoint' = checkpoint
    BY <1>2 DEF Resume, Goto, durable
  <2>2. /\ checkpoint.offset \in Nat /\ checkpoint.offset <= Len(file.lines)
        /\ page # None => Intact(file, page)
    BY <1>1, <1>2 DEF ProofCurrent, DurableProofHolds, PageIntact, Intact, Entry
  <2> HIDE DEF page
  <2>3. SourceHolds(file, seen', checkpoint.offset)
    BY <1>1, <2>1, <2>2, InspectHolds
  <2> QED
    BY <1>1, <2>1, <2>3 DEF Growth, HoldsSnap, HoldsPage, RewindToStart
<1>3. CASE Resume /\ ~ProofCurrent(checkpoint)
  <2>1. /\ ~RetryAtDurable(checkpoint)
        /\ checkpoint.source # None /\ checkpoint.source.identity < file.identity
        /\ RewindPoint(checkpoint).offset = 0
        /\ RewindPoint(checkpoint).rawFallback = None
    BY <1>1, <1>3, ChangedMeansReplaced
  <2>2. /\ cur' = checkpoint /\ latest' = checkpoint /\ checkpoint' = checkpoint
        /\ back' = RewindPoint(checkpoint) /\ pc' = "reset"
    BY <1>3, <2>1 DEF Resume, Goto, durable
  <2> QED
    BY <1>1, <2>1, <2>2 DEF Growth, HoldsSnap, HoldsPage, RewindToStart
<1>4. CASE CatchChanged \/ CatchAtDurable
  <2>1. pc = "caught" /\ ~ProofCurrent(latest)
    BY <1>4 DEF CatchChanged, CatchAtDurable
  <2>2. /\ ~RetryAtDurable(latest)
        /\ checkpoint.source # None /\ checkpoint.source.identity < file.identity
        /\ RewindPoint(latest).offset = 0
        /\ RewindPoint(latest).rawFallback = None
    BY <1>1, <2>1, ChangedMeansReplaced
  <2>3. /\ latest' = latest /\ checkpoint' = checkpoint
        /\ back' = RewindPoint(latest) /\ pc' = "rewind"
    BY <1>4, <2>2 DEF CatchChanged, CatchAtDurable, Goto, durable
  <2> QED
    BY <1>1, <2>1, <2>2, <2>3 DEF Growth, HoldsSnap, HoldsPage, RewindToStart
<1> QED  BY <1>2, <1>3, <1>4

(* Once the rewound checkpoint is saved the run, or the next one, reads    *)
(* the other file from its start.                                          *)
LEMMA GrowthReset ==
  ASSUME CursorInv, LoadInv, Growth, Reset \/ Rewind
  PROVE  Growth'
<1>1. /\ file \in File /\ file' = file /\ back.offset = 0 /\ Len(file.lines) \in Nat
      /\ pc \in {"reset", "rewind"}
  BY GrowthFacts, LenProperties
     DEF Reset, Rewind, Growth, RewindToStart, File, Lines
<1>2. CASE Reset
  <2>1. /\ checkpoint' = Restart(cur, back, None) /\ latest' = checkpoint'
        /\ cur' = checkpoint' /\ seen' = checkpoint'.source /\ pc' = "read"
    BY <1>1, <1>2 DEF Reset, Save, Goto
  <2>2. cur'.offset = 0
    BY <1>1, <2>1 DEF Restart
  <2> QED
    BY <1>1, <2>1, <2>2, RestartHolds DEF Growth, HoldsSnap, HoldsPage, RewindToStart
<1>3. CASE Rewind
  <2>1. Rest /\ checkpoint' = Restart(latest, back, None)
    BY <1>1, <1>3 DEF Rewind
  <2> QED
    BY <1>1, <2>1, RestartHolds
       DEF Rest, Growth, HoldsSnap, HoldsPage, RewindToStart
<1> QED  BY <1>2, <1>3

(* A page is a part of the file it is read from.                           *)
LEMMA GrowthRead ==
  ASSUME CursorInv, LoadInv, Growth, ReadTail
  PROVE  Growth'
<1>1. /\ file \in File /\ file' = file /\ pc = "read" /\ pc' = "bound"
      /\ UNCHANGED <<checkpoint, latest, seen, cur>>
      /\ EntryHolds(file, checkpoint) /\ EntryHolds(file, latest)
      /\ SourceHolds(file, seen, cur.offset)
      /\ cur.offset \in Nat /\ PageLines \in Nat
  BY GrowthFacts, SizesArePositive DEF ReadTail, Goto, durable, Growth, Entry
<1>2. ASSUME snap' # None
      PROVE  snap'.identity <= file.identity /\ ReadFrom(file, snap')
  <2>1. /\ snap' \in Snapshot /\ snap'.identity = file.identity
        /\ snap'.token = file.token /\ snap'.size = Len(file.lines)
        /\ snap'.lines = Slice(file.lines, 0, PageEnd')
        /\ PageEnd' <= Len(file.lines) /\ Len(file.lines) \in Nat
    BY <1>1, <1>2, ReadFacts, GrowthFacts
  <2>2. Len(snap'.lines) = PageEnd' /\ file.token \in Nat /\ file.identity \in Nat
    BY <1>1 DEF PageEnd, File
  <2> QED  BY <2>1, <2>2 DEF ReadFrom, SameAge
<1> QED
  BY <1>1, <1>2 DEF Growth, HoldsSnap, RewindToStart

LEMMA GrowthReadOnly ==
  ASSUME CursorInv, LoadInv, Growth,
         \/ CheckBoundary \/ VerifyAhead \/ AppendTurn \/ CheckBoundaryAgain
         \/ AppendFragment \/ VerifyFragment \/ ProofFails \/ Finish \/ FinishRaw
         \/ CatchTransient \/ Abort \/ UNCHANGED vars
  PROVE  Growth'
<1>1. /\ UNCHANGED <<file, checkpoint>> /\ EntryHolds(file, checkpoint)
      /\ pc # "idle" => EntryHolds(file, latest)
  BY DEF CheckBoundary, VerifyAhead, AppendTurn, CheckBoundaryAgain, AppendFragment,
         VerifyFragment, ProofFails, Caught, Finish, FinishRaw, CatchTransient, Abort,
         durable, vars, Growth
<1>2. CASE Finish \/ FinishRaw \/ CatchTransient \/ Abort
  <2>1. Rest
    BY <1>2 DEF Finish, FinishRaw, CatchTransient, Abort
  <2> QED  BY <1>1, <2>1 DEF Rest, Growth, HoldsSnap, HoldsPage, RewindToStart
<1>3. CASE CheckBoundary
  <2>1. /\ pc = "bound" /\ UNCHANGED <<latest, cur, seen, snap>>
        /\ pc' \in {"page", "ahead"}
    BY <1>3 DEF CheckBoundary, Goto
  <2> QED  BY <1>1, <2>1 DEF Growth, HoldsSnap, HoldsPage, RewindToStart
<1>4. CASE VerifyAhead \/ AppendTurn \/ AppendFragment \/ VerifyFragment
  <2>1. /\ pc \in HoldsPage /\ pc' \in HoldsPage /\ UNCHANGED <<latest, cur, seen, snap>>
    BY <1>4
       DEF VerifyAhead, EnterLoop, AppendTurn, AppendFragment, VerifyFragment, local,
           HoldsPage, Goto
  <2> QED  BY <1>1, <2>1 DEF Growth, HoldsSnap, HoldsPage, RewindToStart
<1>5. CASE CheckBoundaryAgain
  <2>1. /\ pc = "turn" /\ pc' = "page" /\ UNCHANGED <<latest, cur, seen, snap>>
        /\ pc \in HoldsPage
    BY <1>5 DEF CheckBoundaryAgain, local, HoldsPage, Goto
  <2>2. snap # None
    BY <2>1 DEF CursorInv, FileInv, Shape, PageKnown
  <2> QED  BY <1>1, <2>1, <2>2 DEF Growth, HoldsSnap, HoldsPage, RewindToStart
<1>6. CASE ProofFails
  <2>1. /\ pc # "idle" /\ pc' = "caught" /\ latest' = latest
    BY <1>6 DEF ProofFails, Caught, local, Goto
  <2> QED  BY <1>1, <2>1 DEF Growth, HoldsSnap, HoldsPage, RewindToStart
<1>7. CASE UNCHANGED vars
  BY <1>1, <1>7 DEF vars, local, Growth, HoldsSnap, RewindToStart
<1> QED  BY <1>2, <1>3, <1>4, <1>5, <1>6, <1>7

LEMMA GrowthSave ==
  ASSUME CursorInv, LoadInv, Growth,
         SaveAhead \/ ClearRaw \/ VerifyClear \/ SaveTurn \/ SavePage \/ SaveRaw
  PROVE  Growth'
<1>1. /\ file' = file /\ snap' = snap /\ pc \in HoldsPage \cup {"page"}
      /\ pc' \in HoldsPage \cup {"pageSaved"} /\ (pc = "page" => pc' = "pageSaved")
  BY DEF SaveAhead, ClearRaw, VerifyClear, EnterLoop, SaveTurn, SavePage, SaveRaw, local,
         HoldsPage, Goto
<1>2. /\ file \in File /\ cur \in Entry /\ latest \in Entry /\ cur.offset \in Nat
      /\ EntryHolds(file, checkpoint) /\ EntryHolds(file, latest)
      /\ next \in Int /\ cur.turnIndex \in Int
  BY <1>1, GrowthFacts DEF HoldsPage, Entry, CursorInv, FileInv, Shape, TypeOK
<1>3. ASSUME EntryHolds(file, checkpoint'), EntryHolds(file, latest')
      PROVE  Growth'
  <2>1. /\ pc' \notin {"read", "bound", "page", "reset", "rewind", "idle"}
        /\ HoldsSnap' => HoldsSnap
    BY <1>1 DEF HoldsSnap, HoldsPage
  <2>2. HoldsSnap => snap.identity <= file.identity /\ ReadFrom(file, snap)
    BY DEF Growth
  <2> QED  BY <1>1, <1>3, <2>1, <2>2 DEF Growth, RewindToStart
<1>4. ASSUME snap # None
      PROVE  /\ snap \in Snapshot /\ snap.from = cur.offset /\ snap.from < PageEnd
             /\ ReadFrom(file, snap) /\ PageEnd \in Nat
  <2>1. snap \in Snapshot /\ snap.from = cur.offset /\ snap.from < PageEnd
    BY <1>4 DEF CursorInv, FileInv, Shape, TypeOK, PageKnown
  <2>2. ReadFrom(file, snap)
    BY <1>1, <1>4 DEF Growth, HoldsSnap, HoldsPage
  <2> QED  BY <2>1, <2>2, LenProperties DEF Snapshot, Lines, PageEnd
<1>5. pc # "page" => snap # None
  BY <1>1 DEF CursorInv, FileInv, Shape, PageKnown
<1>6. CASE SaveAhead
  <2>1. /\ pc = "ahead" /\ latest' = checkpoint'
        /\ checkpoint' = EntryAt(cur.offset, cur.turnIndex, InflightPage, cur.rawFallback)
    BY <1>6 DEF SaveAhead, Save
  <2>2. cur.offset <= PageEnd /\ cur.offset <= cur.offset
    BY <1>2, <1>4, <1>5, <2>1
  <2> QED  BY <1>2, <1>3, <1>4, <1>5, <2>1, <2>2, EntryAtHolds
<1>7. CASE ClearRaw
  <2>1. /\ checkpoint' = [latest EXCEPT !.rawFallback = None] /\ latest' = latest
    BY <1>7 DEF ClearRaw, local
  <2>2. /\ checkpoint'.source = latest.source /\ checkpoint'.offset = latest.offset
        /\ checkpoint'.inflight = latest.inflight
    BY <1>2, <2>1 DEF Entry
  <2> QED  BY <1>2, <1>3, <2>1, <2>2 DEF EntryHolds
<1>8. CASE VerifyClear
  BY <1>2, <1>3, <1>8 DEF VerifyClear, durable
<1>9. CASE SaveTurn
  <2>1. /\ pc = "turnDone" /\ Pending # {} /\ latest' = checkpoint'
        /\ checkpoint' = EntryAt(NextTurn.offset, next - 1, InflightPage, None)
    BY <1>9 DEF SaveTurn, Save, CursorInv, FileInv, Shape, CursorInPage
  <2>2. /\ NextTurn.offset \in Nat /\ cur.offset <= NextTurn.offset
        /\ NextTurn.offset <= PageEnd
    BY <1>2, <1>4, <1>5, <2>1, NextTurnIsPending, PendingInPage
  <2> QED  BY <1>2, <1>3, <1>4, <1>5, <2>1, <2>2, EntryAtHolds
<1>10. CASE SavePage
  <2>1. pc = "page" /\ checkpoint' = PageEntry /\ latest' = PageEntry
    BY <1>10 DEF SavePage, Save
  <2>2. CASE snap = None
    <3>1. /\ PageEntry.source = seen /\ PageEntry.offset = cur.offset
          /\ PageEntry.inflight = None
      BY <1>2, <2>2 DEF PageEntry, Entry
    <3>2. seen # None /\ SourceHolds(file, seen, cur.offset)
      BY <2>1, <2>2, NoneIsNoRecord
         DEF Growth, CursorInv, FileInv, Shape, SeenKnown
    <3>3. EntryHolds(file, PageEntry)
      BY <3>1, <3>2 DEF EntryHolds
    <3> QED  BY <1>3, <2>1, <3>3
  <2>3. CASE snap # None
    <3> DEFINE o == NewOffset(snap.lines, snap.from, PageEnd)
    <3>1. o \in Nat /\ cur.offset <= o /\ o <= PageEnd
      BY <1>2, <1>4, <2>3, NewOffsetInRange
    <3>2. PageEntry = EntryAt(o, next - 1, None, cur.rawFallback)
      BY <2>3 DEF PageEntry
    <3> HIDE DEF o
    <3>3. EntryHolds(file, PageEntry)
      BY <1>2, <1>4, <2>3, <3>1, <3>2, EntryAtHolds
    <3> QED  BY <1>3, <2>1, <3>3
  <2> QED  BY <2>2, <2>3
<1>11. CASE SaveRaw
  <2>1. /\ pc = "raw" /\ latest' = checkpoint'
    BY <1>11 DEF SaveRaw, Save
  <2>2. PICK raw : checkpoint' = EntryAt(RawThrough, cur.turnIndex, None, raw)
    BY <1>11 DEF SaveRaw, Save
  <2>3. /\ RawThrough \in Nat /\ cur.offset <= RawThrough /\ RawThrough <= PageEnd
    BY <1>2, <1>4, <1>5, <2>1, RawThroughInPage
  <2> QED  BY <1>2, <1>3, <1>4, <1>5, <2>1, <2>2, <2>3, EntryAtHolds
<1> QED  BY <1>6, <1>7, <1>8, <1>9, <1>10, <1>11

LEMMA GrowthWriter ==
  ASSUME CursorInv, LoadInv, Growth, Writer \/ CatchUnstable, rewrites = 0, rewrites' = 0
  PROVE  Growth'
<1>1. /\ WriterStep /\ checkpoint' = checkpoint
  BY DEF Writer, CatchUnstable, durable
<1>2. /\ file \in File /\ file' \in File /\ Grown(file, file')
      /\ file.identity \in Nat /\ file'.identity \in Nat /\ checkpoint \in Entry
      /\ latest \in Entry /\ EntryHolds(file, checkpoint)
      /\ checkpoint.source # None => checkpoint.source.identity <= file.identity
      /\ pc # "idle" => latest.source = checkpoint.source /\ EntryHolds(file, latest)
  BY <1>1, GrowthFacts, WriterGrows, WriterStepType
     DEF CursorInv, FileInv, Shape, TypeOK, File
<1>3. EntryHolds(file', checkpoint)
  BY <1>2, EntryGrows
<1>4. CASE CatchUnstable
  BY <1>1, <1>3, <1>4
     DEF CatchUnstable, Rest, Growth, HoldsSnap, HoldsPage, RewindToStart
<1>5. CASE Writer
  <2>1. UNCHANGED <<pc, cur, latest, seen, snap, back>>
    BY <1>5 DEF Writer, local
  <2>2. pc # "idle" => EntryHolds(file', latest)
    BY <1>2, EntryGrows
  <2>3. pc \in {"read", "bound"} \/ (pc = "page" /\ snap = None) =>
          SourceHolds(file', seen, cur.offset)
    <3> SUFFICES ASSUME pc \in {"read", "bound"} \/ (pc = "page" /\ snap = None)
                 PROVE  SourceHolds(file', seen, cur.offset)
      OBVIOUS
    <3>1. /\ seen \in Source /\ seen.identity <= file.identity /\ cur.offset \in Nat
          /\ SourceHolds(file, seen, cur.offset)
      BY GrowthFacts
         DEF CursorInv, FileInv, Shape, SeenKnown, IdentityOrder, Growth, Entry
    <3> QED  BY <1>2, <3>1, SourceGrows
  <2>4. HoldsSnap => snap.identity <= file'.identity /\ ReadFrom(file', snap)
    <3> SUFFICES ASSUME HoldsSnap
                 PROVE  snap.identity <= file'.identity /\ ReadFrom(file', snap)
      OBVIOUS
    <3>1. /\ snap \in Snapshot /\ snap.identity <= file.identity /\ ReadFrom(file, snap)
      BY DEF HoldsSnap, Growth, CursorInv, FileInv, Shape, TypeOK
    <3> QED  BY <1>2, <3>1, ReadFromGrows
  <2>5. file.identity <= file'.identity
    BY <1>2 DEF Grown
  <2>6. RewindToStart'
    <3>1. checkpoint.source # None => checkpoint.source.identity \in Nat
      BY <1>2 DEF Entry, Source
    <3> QED  BY <1>1, <1>2, <2>1, <2>5, <3>1 DEF Growth, RewindToStart
  <2> QED  BY <1>1, <1>3, <2>1, <2>2, <2>3, <2>4, <2>6 DEF Growth, HoldsSnap
<1> QED  BY <1>4, <1>5

(* Rewrites are counted and never taken back.                              *)
LEMMA RewritesCounted ==
  ASSUME CursorInv, [Next]_vars, rewrites' = 0
  PROVE  rewrites = 0
<1>1. rewrites \in Nat
  BY DEF CursorInv, FileInv, Shape, TypeOK
<1>2. CASE Writer \/ CatchUnstable
  BY <1>1, <1>2
     DEF Writer, CatchUnstable, WriterStep, AppendLine, RewriteLine, Truncate, Replace
<1>3. CASE Handler \/ Abort \/ UNCHANGED vars
  BY <1>1, <1>3
     DEF Handler, Resume, Reset, ReadTail, CheckBoundary, SaveAhead, VerifyAhead, ClearRaw,
         VerifyClear, AppendTurn, SaveTurn, CheckBoundaryAgain, SavePage, Finish,
         AppendFragment, VerifyFragment, SaveRaw, FinishRaw, ProofFails, Caught,
         CatchTransient, CatchAtDurable, CatchChanged, Rewind, Abort, vars
<1> QED  BY <1>2, <1>3 DEF Next

LEMMA GrowthNext ==
  ASSUME CursorInv, LoadInv, Growth, [Next]_vars, rewrites' = 0
  PROVE  Growth'
BY RewritesCounted, GrowthResume, GrowthReset, GrowthRead, GrowthReadOnly, GrowthSave,
   GrowthWriter
   DEF Next, Handler

-----------------------------------------------------------------------------
(* What is a turn of a prefix is a turn of the whole.                      *)

LEMMA ClosesFurther ==
  ASSUME NEW lines, NEW more, NEW n \in Nat, NEW c \in Nat, n <= c,
         \A i \in 1 .. n : more[i] = lines[i],
         NEW q \in Nat, NEW e \in Nat, 0 < q, q < e, e <= n, Closes(lines, q, e, n)
  PROVE  Closes(more, q, e, c)
<1>1. Opens(more, q, e)
  <2>1. q \in 1 .. n /\ \A m \in (q + 1) .. e : m \in 1 .. n
    OBVIOUS
  <2>2. \A m \in (q + 1) .. (e - 1) : m \in 1 .. n
    OBVIOUS
  <2> QED  BY <2>1, <2>2 DEF Closes, Opens
<1>2. e \in 1 .. n /\ (e < n => e + 1 \in 1 .. n /\ e < c)
  OBVIOUS
<1>3. \/ more[e] \in FinalLines
      \/ more[e] \in ReplyLines /\ e < c /\ more[e + 1] \in UserLines
  BY <1>2 DEF Closes
<1> QED  BY <1>1, <1>3 DEF Closes

LEMMA SameSlice ==
  ASSUME NEW lines \in Lines, NEW more \in Lines, NEW n \in Nat,
         n <= Len(lines), n <= Len(more), \A i \in 1 .. n : more[i] = lines[i],
         NEW a \in Nat, NEW b \in Nat, a <= b, b <= n
  PROVE  Slice(more, a, b) = Slice(lines, a, b)
<1>0. Len(lines) \in Nat /\ Len(more) \in Nat
  BY LenProperties DEF Lines
<1>1. /\ Slice(lines, a, b) \in Lines /\ Len(Slice(lines, a, b)) = b - a
      /\ \A i \in 1 .. (b - a) : Slice(lines, a, b)[i] = lines[a + i]
  <2>1. b <= Len(lines)
    BY <1>0
  <2> QED  BY <2>1, SliceFacts
<1>2. /\ Slice(more, a, b) \in Lines /\ Len(Slice(more, a, b)) = b - a
      /\ \A i \in 1 .. (b - a) : Slice(more, a, b)[i] = more[a + i]
  <2>1. b <= Len(more)
    BY <1>0
  <2> QED  BY <2>1, SliceFacts
<1>3. ASSUME NEW i \in 1 .. (b - a)
      PROVE  Slice(more, a, b)[i] = Slice(lines, a, b)[i]
  <2>1. a + i \in 1 .. n
    OBVIOUS
  <2> QED  BY <1>1, <1>2, <2>1
<1> QED  BY <1>1, <1>2, <1>3, SeqEqual DEF Lines

LEMMA TurnsOfPrefix ==
  ASSUME NEW lines \in Lines, NEW more \in Lines, NEW n \in Nat,
         n <= Len(lines), n <= Len(more), \A i \in 1 .. n : more[i] = lines[i],
         NEW c \in Nat, n <= c, NEW a \in Nat, NEW z \in Nat, z <= a,
         NEW t \in Turns(lines, a, n)
  PROVE  t \in Turns(more, z, c)
<1>1. PICK f \in Nat, o \in Nat :
        /\ t = [from |-> f, offset |-> o, lines |-> Slice(lines, f, o)]
        /\ a <= f /\ f + 1 < o /\ o <= n /\ Closes(lines, f + 1, o, n)
  BY TurnFacts
<1>2. PICK q \in Nat : q = f + 1
  OBVIOUS
<1>3. /\ 0 < q /\ z < q /\ q < o /\ o <= c /\ q - 1 = f /\ f <= o
  BY <1>1, <1>2
<1>4. Closes(more, q, o, c)
  BY <1>1, <1>2, <1>3, ClosesFurther
<1>5. Slice(more, f, o) = Slice(lines, f, o)
  BY <1>1, <1>3, SameSlice
<1>6. [from |-> q - 1, offset |-> o, lines |-> Slice(more, q - 1, o)] \in Turns(more, z, c)
  BY <1>3, <1>4, IsTurn
<1> QED  BY <1>1, <1>3, <1>5, <1>6

(* Two turns of a transcript are the same or share no line.                *)
LEMMA TurnsDisjoint ==
  ASSUME NEW lines \in Lines, NEW from \in Nat, NEW through \in Nat,
         through <= Len(lines),
         NEW t \in Turns(lines, from, through), NEW u \in Turns(lines, from, through)
  PROVE  t = u \/ t.offset <= u.from \/ u.offset <= t.from
<1>1. PICK f \in Nat, o \in Nat :
        /\ t.from = f /\ t.offset = o /\ f + 1 < o /\ o <= through
        /\ Closes(lines, f + 1, o, through)
  BY TurnFacts
<1>2. PICK g \in Nat, p \in Nat :
        /\ u.from = g /\ u.offset = p /\ g + 1 < p /\ p <= through
        /\ Closes(lines, g + 1, p, through)
  BY TurnFacts
<1>4. CASE f < g
  <2>1. lines[g + 1] \in UserLines
    BY <1>2 DEF Closes, Opens
  <2>2. g + 1 \notin (f + 1 + 1) .. o
    BY <1>1, <2>1 DEF Closes, Opens
  <2>3. o <= g
    BY <1>4, <2>2
  <2> QED  BY <1>1, <1>2, <2>3
<1>5. CASE g < f
  <2>1. lines[f + 1] \in UserLines
    BY <1>1 DEF Closes, Opens
  <2>2. f + 1 \notin (g + 1 + 1) .. p
    BY <1>2, <2>1 DEF Closes, Opens
  <2>3. p <= f
    BY <1>5, <2>2
  <2> QED  BY <1>1, <1>2, <2>3
<1>6. CASE f = g
  <2>1. ASSUME NEW i \in Nat, NEW k \in Nat, f + 1 < i, i < k,
               Closes(lines, f + 1, i, through), Closes(lines, f + 1, k, through)
        PROVE  FALSE
    <3>1. i \in (f + 1 + 1) .. (k - 1) /\ i + 1 \in (f + 1 + 1) .. k
      BY <2>1
    <3> QED  BY <2>1, <3>1 DEF Closes, Opens
  <2>2. o = p
    <3>1. ~(o < p) /\ ~(p < o)
      BY <1>1, <1>2, <1>6, <2>1
    <3> QED  BY <3>1
  <2>3. t = u
    BY <1>1, <1>2, <2>2, SameEndSameTurn
  <2> QED  BY <2>3
<1> QED  BY <1>4, <1>5, <1>6

-----------------------------------------------------------------------------
(* The shape of the ledger while nothing is rewritten.                     *)

TurnOf(x) == [from |-> x.from, offset |-> x.offset, lines |-> x.lines]

(* Events come from the checkpoint's file or an earlier one; those of its  *)
(* own file carry its generation.                                          *)
Ordered(L, c) ==
  \A x \in L : /\ c.source # None /\ x.identity <= c.source.identity
               /\ x.identity = c.source.identity => x.generation = c.generation

(* What was captured whole of the file is a turn of it.                    *)
HoldsTurns(L, f) ==
  \A x \in L : ~x.raw /\ x.identity = f.identity =>
    TurnOf(x) \in Turns(f.lines, 0, Len(f.lines))

KeysApart(L) == \A x, y \in L : Key(x) = Key(y) => x = y

TurnsApart(L) ==
  \A x, y \in L : ~x.raw /\ ~y.raw /\ x.identity = y.identity =>
    x = y \/ x.offset <= y.from \/ y.offset <= x.from

LedgerShape ==
  /\ Ordered(ledger, checkpoint) /\ HoldsTurns(ledger, file)
  /\ KeysApart(ledger) /\ TurnsApart(ledger) /\ swallowed = {}

(* A checkpoint is saved over one of the same file and generation, or of   *)
(* an earlier file.                                                        *)
Succeeds(c, d) ==
  /\ d.source # None
  /\ c.source # None =>
       \/ d.source.identity = c.source.identity /\ d.generation = c.generation
       \/ c.source.identity < d.source.identity

LEMMA RestartSucceeds ==
  ASSUME file \in File, NEW c, NEW e \in Entry, NEW point, point.offset = 0,
         c.source # None, c.source.identity < file.identity
  PROVE  Succeeds(c, Restart(e, point, None))
<1>1. 0 \in Nat /\ 0 <= Len(file.lines)
  BY LenProperties DEF File, Lines
<1>2. Inspect(0, None) \in Source
  BY <1>1, InspectType
<1> QED  BY <1>2, NoneIsNoRecord DEF Succeeds, Restart, Inspect

LEMMA CheckpointSucceeds ==
  ASSUME CursorInv, CursorInv', LoadInv, Growth, [Next]_vars
  PROVE  checkpoint' = checkpoint \/ Succeeds(checkpoint, checkpoint')
<1>1. /\ file \in File /\ checkpoint \in Entry /\ cur \in Entry /\ latest \in Entry
      /\ EntryHolds(file, checkpoint) /\ EntryLoads(checkpoint)
      /\ EntryLoads(latest)
      /\ checkpoint.source # None => checkpoint.source.identity <= file.identity
      /\ pc # "idle" => /\ latest.source = checkpoint.source
                        /\ EntryHolds(file, latest)
  BY GrowthFacts
<1>2. CASE Resume
  <2>1. CASE ProofCurrent(checkpoint)
    BY <1>2, <2>1 DEF Resume, durable
  <2>2. CASE ~ProofCurrent(checkpoint)
    <3>1. ~RetryAtDurable(checkpoint)
      BY <1>1, <2>2, ChangedMeansReplaced
    <3> QED  BY <1>2, <2>2, <3>1 DEF Resume, durable
  <2> QED  BY <2>1, <2>2
<1>3. CASE CatchAtDurable
  <2>1. pc = "caught" /\ ~ProofCurrent(latest) /\ RetryAtDurable(latest)
    BY <1>3 DEF CatchAtDurable
  <2>2. ~RetryAtDurable(latest)
    BY <1>1, <2>1, ChangedMeansReplaced
  <2> QED  BY <2>1, <2>2
<1>4. CASE Reset \/ Rewind
  <2>1. /\ back.offset = 0 /\ checkpoint.source # None
        /\ checkpoint.source.identity < file.identity
    BY <1>4 DEF Reset, Rewind, Growth, RewindToStart
  <2> QED  BY <1>1, <1>4, <2>1, RestartSucceeds DEF Reset, Rewind, Save, durable
<1>5. CASE SaveAhead \/ ClearRaw \/ SaveTurn \/ SaveRaw
  <2>1. /\ pc \in HoldsPage /\ pc' \in HoldsPage \ {"ahead"} /\ UNCHANGED <<seen, cur>>
        /\ pc # "idle" /\ pc' # "idle"
    BY <1>5 DEF SaveAhead, ClearRaw, SaveTurn, SaveRaw, Save, local, HoldsPage, Goto
  <2>2. /\ checkpoint'.source # None /\ checkpoint'.source.identity = seen.identity
        /\ checkpoint'.generation = cur.generation
    BY <2>1 DEF CursorInv, FileInv, SameFile, SameGeneration
  <2>3. /\ checkpoint.source # None => checkpoint.source.identity = seen.identity
        /\ checkpoint.generation = cur.generation
    BY <2>1 DEF CursorInv, FileInv, SameFile, SameGeneration
  <2> QED  BY <2>2, <2>3 DEF Succeeds
<1>6. CASE SavePage
  <2>1. pc = "page" /\ checkpoint' = PageEntry
    BY <1>6 DEF SavePage, Save
  <2>2. /\ checkpoint.source # None => checkpoint.source.identity = seen.identity
        /\ checkpoint.generation = cur.generation /\ seen \in Source
        /\ snap # None => snap.identity = seen.identity
    BY <2>1 DEF CursorInv, FileInv, SameFile, SameGeneration, Shape, SeenKnown
  <2>3. PageEntry.generation = cur.generation
    BY <2>1, PageEntryFacts
  <2>4. PageEntry.source # None /\ PageEntry.source.identity = seen.identity
    <3>1. CASE snap = None
      <4>1. PageEntry.source = seen
        BY <1>1, <3>1 DEF PageEntry, Entry
      <4> QED  BY <2>2, <4>1, NoneIsNoRecord
    <3>2. CASE snap # None
      <4> DEFINE o == NewOffset(snap.lines, snap.from, PageEnd)
      <4>1. /\ snap \in Snapshot /\ PageEnd \in Nat /\ snap.from < PageEnd
            /\ snap.from \in Nat
        BY <2>1, <3>2, LenProperties
           DEF CursorInv, FileInv, Shape, TypeOK, PageKnown, Snapshot, Lines, PageEnd
      <4>2. o \in Nat /\ o <= PageEnd
        BY <4>1, NewOffsetInRange
      <4>3. PageEntry.source = SourceAt(o, o)
        BY <3>2 DEF PageEntry, EntryAt
      <4> HIDE DEF o
      <4>4. SourceAt(o, o) \in Source /\ SourceAt(o, o).identity = snap.identity
        BY <4>1, <4>2, SourceAtType DEF SourceAt
      <4> QED  BY <2>2, <3>2, <4>3, <4>4, NoneIsNoRecord
    <3> QED  BY <3>1, <3>2
  <2> QED  BY <2>1, <2>2, <2>3, <2>4 DEF Succeeds
<1>7. CASE \/ ReadTail \/ CheckBoundary \/ VerifyAhead \/ VerifyClear \/ AppendTurn
           \/ CheckBoundaryAgain \/ Finish \/ AppendFragment \/ VerifyFragment
           \/ FinishRaw \/ ProofFails \/ CatchTransient \/ CatchChanged \/ Writer
           \/ CatchUnstable \/ Abort \/ UNCHANGED vars
  BY <1>7
     DEF ReadTail, CheckBoundary, VerifyAhead, VerifyClear, AppendTurn,
         CheckBoundaryAgain, Finish, AppendFragment, VerifyFragment, FinishRaw,
         ProofFails, Caught, CatchTransient, CatchChanged, Writer, CatchUnstable,
         Abort, durable, vars
<1> QED  BY <1>2, <1>3, <1>4, <1>5, <1>6, <1>7 DEF Next, Handler

LEMMA OrderedKept ==
  ASSUME NEW L \in SUBSET Event, NEW c \in Entry, NEW d \in Entry, Ordered(L, c),
         d = c \/ Succeeds(c, d)
  PROVE  Ordered(L, d)
<1> SUFFICES ASSUME NEW x \in L, Succeeds(c, d)
             PROVE  /\ d.source # None /\ x.identity <= d.source.identity
                    /\ x.identity = d.source.identity => x.generation = d.generation
  BY DEF Ordered
<1>1. /\ x.identity \in Nat /\ d.source # None /\ d.source.identity \in Nat
      /\ c.source # None /\ c.source.identity \in Nat
  BY DEF Event, Entry, Source, Succeeds, Ordered
<1> QED  BY <1>1 DEF Succeeds, Ordered

LEMMA TurnsGrow ==
  ASSUME NEW f \in File, NEW g \in File, Grown(f, g), f.identity = g.identity,
         NEW t \in Turns(f.lines, 0, Len(f.lines))
  PROVE  t \in Turns(g.lines, 0, Len(g.lines))
<1>1. PICK l \in Line : g.lines = Append(f.lines, l)
  BY DEF Grown, File
<1>2. /\ f.lines \in Lines /\ g.lines \in Lines /\ Len(f.lines) \in Nat
      /\ Len(g.lines) = Len(f.lines) + 1
      /\ \A i \in 1 .. Len(f.lines) : g.lines[i] = f.lines[i]
  BY <1>1, AppendFacts DEF File
<1>3. PICK n \in Nat, m \in Nat : n = Len(f.lines) /\ m = Len(g.lines) /\ n <= m
  BY <1>2
<1>4. 0 \in Nat /\ 0 <= 0 /\ n <= Len(f.lines) /\ n <= Len(g.lines)
  BY <1>3
<1>5. t \in Turns(f.lines, 0, n)
  BY <1>3
<1>6. t \in Turns(g.lines, 0, m)
  BY <1>2, <1>3, <1>4, <1>5, TurnsOfPrefix
<1> QED  BY <1>3, <1>6

LEMMA HoldsTurnsGrows ==
  ASSUME NEW L \in SUBSET Event, NEW f \in File, NEW g \in File, Grown(f, g),
         HoldsTurns(L, f), \A x \in L : x.identity <= f.identity
  PROVE  HoldsTurns(L, g)
<1> SUFFICES ASSUME NEW x \in L, ~x.raw, x.identity = g.identity
             PROVE  TurnOf(x) \in Turns(g.lines, 0, Len(g.lines))
  BY DEF HoldsTurns
<1>1. f.identity = g.identity
  BY DEF Grown, File, Event
<1> QED  BY <1>1, TurnsGrow DEF HoldsTurns

(* The page is a prefix of the file it was read from.                      *)
LEMMA PageOfFile ==
  ASSUME file \in File, snap \in Snapshot, snap.identity = file.identity,
         ReadFrom(file, snap)
  PROVE  /\ PageEnd \in Nat /\ PageEnd <= Len(file.lines) /\ Len(file.lines) \in Nat
         /\ snap.lines \in Lines /\ file.lines \in Lines /\ PageEnd = Len(snap.lines)
         /\ \A i \in 1 .. PageEnd : file.lines[i] = snap.lines[i]
<1>1. PICK n \in Nat, m \in Nat : n = PageEnd /\ m = Len(file.lines)
  BY LenProperties DEF Snapshot, File, Lines, PageEnd
<1>2. /\ snap.lines \in Lines /\ file.lines \in Lines /\ Len(snap.lines) = n
      /\ n <= m /\ snap.lines = Slice(file.lines, 0, n)
  <2>1. /\ snap.lines \in Lines /\ file.lines \in Lines /\ Len(snap.lines) = n
        /\ snap.lines = Slice(file.lines, 0, n) /\ snap.size \in Nat
        /\ n <= snap.size /\ snap.size <= m
    BY <1>1 DEF Snapshot, File, PageEnd, ReadFrom, SameAge
  <2> QED  BY <2>1
<1>3. 0 \in Nat /\ 0 <= n /\ n <= Len(file.lines) /\ n - 0 = n
  BY <1>1, <1>2
<1>4. \A i \in 1 .. (n - 0) : Slice(file.lines, 0, n)[i] = file.lines[0 + i]
  BY <1>2, <1>3, SliceFacts
<1>5. \A i \in 1 .. n : file.lines[i] = snap.lines[i]
  BY <1>2, <1>3, <1>4
<1> QED  BY <1>1, <1>2, <1>5

(* Its turns are turns of the file.                                        *)
LEMMA PageTurns ==
  ASSUME file \in File, snap \in Snapshot, snap.identity = file.identity,
         ReadFrom(file, snap), NEW t \in Turns(snap.lines, snap.from, PageEnd)
  PROVE  t \in Turns(file.lines, 0, Len(file.lines))
<1>1. PICK n \in Nat, m \in Nat, a \in Nat :
        n = PageEnd /\ m = Len(file.lines) /\ a = snap.from
  BY PageOfFile DEF Snapshot
<1>2. PICK ls \in Lines : ls = snap.lines
  BY DEF Snapshot
<1>3. /\ file.lines \in Lines /\ n <= Len(ls) /\ n <= m /\ n <= Len(file.lines)
      /\ \A i \in 1 .. n : file.lines[i] = ls[i]
      /\ t \in Turns(ls, a, n) /\ 0 \in Nat /\ 0 <= a
  BY <1>1, <1>2, PageOfFile
<1>4. t \in Turns(file.lines, 0, m)
  BY <1>3, TurnsOfPrefix
<1> QED  BY <1>1, <1>4

(* An event appended under a key that was free.                            *)
LEMMA ShapeAppend ==
  ASSUME LedgerShape, NEW x \in Event, Record(x), ledger \in SUBSET Event,
         \A y \in ledger : Key(y) = Key(x) => y.lines = x.lines,
         checkpoint.source # None, x.identity = checkpoint.source.identity,
         x.generation = checkpoint.generation,
         ~x.raw => x.identity = file.identity /\ file \in File
                   /\ TurnOf(x) \in Turns(file.lines, 0, Len(file.lines))
  PROVE  /\ Ordered(ledger', checkpoint) /\ HoldsTurns(ledger', file)
         /\ KeysApart(ledger') /\ TurnsApart(ledger') /\ swallowed' = {}
<1>1. swallowed' = {}
  BY DEF LedgerShape, Record
<1>2. CASE \E y \in ledger : Key(y) = Key(x)
  <2>1. ledger' = ledger
    BY <1>2 DEF Record
  <2> QED  BY <1>1, <2>1 DEF LedgerShape
<1>3. CASE ~ \E y \in ledger : Key(y) = Key(x)
  <2>1. ledger' = ledger \cup {x}
    BY <1>3 DEF Record
  <2>2. Ordered(ledger', checkpoint)
    BY <2>1 DEF LedgerShape, Ordered, Event
  <2>3. HoldsTurns(ledger', file)
    BY <2>1 DEF LedgerShape, HoldsTurns
  <2>4. KeysApart(ledger')
    BY <1>3, <2>1 DEF LedgerShape, KeysApart
  <2>5. TurnsApart(ledger')
    <3>1. ASSUME NEW y \in ledger, ~x.raw, ~y.raw, x.identity = y.identity
          PROVE  x.offset <= y.from \/ y.offset <= x.from
      <4>1. /\ TurnOf(x) \in Turns(file.lines, 0, Len(file.lines))
            /\ TurnOf(y) \in Turns(file.lines, 0, Len(file.lines))
        BY <3>1 DEF LedgerShape, HoldsTurns
      <4>2. y.generation = x.generation
        BY <3>1 DEF LedgerShape, Ordered
      <4>3. TurnOf(x) # TurnOf(y)
        <5>1. y.offset # x.offset
          BY <1>3, <3>1, <4>2 DEF Key
        <5> QED  BY <5>1 DEF TurnOf
      <4>4. /\ file.lines \in Lines /\ Len(file.lines) \in Nat /\ 0 \in Nat
            /\ Len(file.lines) <= Len(file.lines)
        BY <3>1, LenProperties DEF File, Lines
      <4>5. TurnOf(x).offset <= TurnOf(y).from \/ TurnOf(y).offset <= TurnOf(x).from
        BY <4>1, <4>3, <4>4, TurnsDisjoint
      <4> QED  BY <4>5 DEF TurnOf
    <3> QED  BY <2>1, <3>1 DEF LedgerShape, TurnsApart
  <2> QED  BY <1>1, <2>2, <2>3, <2>4, <2>5
<1> QED  BY <1>2, <1>3

LEMMA ShapeTurn ==
  ASSUME CursorInv, LoadInv, Growth, LedgerShape, AppendTurn
  PROVE  LedgerShape'
<1>1. /\ pc = "turn" /\ pc \in HoldsPage /\ Pending # {} /\ UNCHANGED <<file, checkpoint>>
      /\ RangeCurrent(snap.from, NextTurn.offset)
      /\ IF Accepted(NextTurn) THEN Record(TurnEvent(NextTurn))
         ELSE UNCHANGED <<ledger, swallowed>>
  BY DEF AppendTurn, HoldsPage
<1>2. /\ file \in File /\ snap \in Snapshot /\ snap.from <= PageEnd
      /\ snap.identity = file.identity /\ ReadFrom(file, snap)
      /\ ledger \in SUBSET Event /\ next \in Int /\ cur.generation \in Nat
      /\ cur.generation = checkpoint.generation
      /\ checkpoint.source # None /\ snap.identity = checkpoint.source.identity
  BY <1>1, PageFacts, GrowthFacts
     DEF RangeCurrent, Growth, HoldsSnap, CursorInv, FileInv, Shape, TypeOK, PageKnown,
         SameGeneration, SameFile, HoldsPage, Snapshot, Entry
<1>3. /\ NextTurn \in Turns(snap.lines, snap.from, PageEnd)
      /\ NextTurn.from \in Nat /\ NextTurn.offset \in Nat /\ NextTurn.lines \in Lines
      /\ NextTurn \in Turns(file.lines, 0, Len(file.lines))
  BY <1>1, <1>2, NextTurnIsPending, PendingInPage, PageTurns
<1>4. CASE ~Accepted(NextTurn)
  BY <1>1, <1>4 DEF LedgerShape
<1>5. CASE Accepted(NextTurn)
  <2> DEFINE x == TurnEvent(NextTurn)
  <2>1. /\ ~x.raw /\ x.generation = checkpoint.generation /\ x.identity = file.identity
        /\ x.from = NextTurn.from /\ x.offset = NextTurn.offset
        /\ x.lines = NextTurn.lines
    BY <1>2 DEF TurnEvent
  <2>2. x \in Event
    BY <1>2, <1>3 DEF TurnEvent, Event, Snapshot
  <2>3. Record(x)
    BY <1>1, <1>5
  <2> HIDE DEF x
  <2>4. PICK t \in Turns(file.lines, 0, Len(file.lines)) : t = NextTurn
    BY <1>3
  <2>5. /\ file.lines \in Lines /\ Len(file.lines) \in Nat /\ 0 \in Nat
        /\ Len(file.lines) <= Len(file.lines)
    BY <1>2, LenProperties DEF File, Lines
  <2>6. TurnOf(x) = t
    <3>1. t = [from |-> t.from, offset |-> t.offset, lines |-> t.lines]
      BY <2>5, TurnInRange
    <3> QED  BY <2>1, <2>4, <3>1 DEF TurnOf
  <2>7. ASSUME NEW y \in ledger, Key(y) = Key(x)  PROVE y.lines = x.lines
    <3>1. Key(y) = <<x.generation, x.offset>>
      BY <2>1, <2>7 DEF Key
    <3>2. ~y.raw /\ y.generation = x.generation /\ y.offset = x.offset
      <4>1. CASE y.raw
        <5>1. <<y.generation, y.from, y.offset, y.lines>> = <<x.generation, x.offset>>
          BY <3>1, <4>1 DEF Key
        <5> QED  BY <5>1
      <4>2. CASE ~y.raw
        BY <3>1, <4>2 DEF Key
      <4> QED  BY <4>1, <4>2
    <3>3. y.identity = file.identity
      BY <1>2, <2>1, <3>2 DEF CursorInv, FileInv, LedgerOfGeneration
    <3>4. TurnOf(y) \in Turns(file.lines, 0, Len(file.lines))
      BY <3>2, <3>3 DEF LedgerShape, HoldsTurns
    <3>5. TurnOf(y).offset = t.offset
      BY <2>1, <2>4, <3>2 DEF TurnOf
    <3>6. TurnOf(y) = t
      BY <2>5, <3>4, <3>5, SameEndSameTurn
    <3> QED  BY <2>6, <3>6 DEF TurnOf
  <2> QED
    BY <1>1, <1>2, <2>1, <2>2, <2>3, <2>4, <2>6, <2>7, ShapeAppend DEF LedgerShape
<1> QED  BY <1>4, <1>5

LEMMA ShapeFragment ==
  ASSUME CursorInv, LoadInv, Growth, LedgerShape, AppendFragment
  PROVE  LedgerShape'
<1>1. /\ pc = "raw" /\ pc \in HoldsPage /\ UNCHANGED <<file, checkpoint>>
      /\ Record(FragmentEvent) /\ at < RawThrough
  BY DEF AppendFragment, HoldsPage
<1>2. /\ snap \in Snapshot /\ ledger \in SUBSET Event /\ next \in Int
      /\ cur.generation \in Nat /\ cur.generation = checkpoint.generation
      /\ checkpoint.source # None /\ snap.identity = checkpoint.source.identity
      /\ at \in Nat /\ FragmentEnd \in Nat /\ FragmentEnd <= PageEnd
  BY <1>1, PageFacts, FragmentFacts
     DEF CursorInv, FileInv, Shape, TypeOK, SameGeneration, SameFile, HoldsPage, Entry
<1>3. Slice(snap.lines, at, FragmentEnd) \in Lines
  BY <1>2, SliceType DEF Snapshot, PageEnd
<1>4. FragmentEvent \in Event
  BY <1>2, <1>3 DEF FragmentEvent, Event, Snapshot
<1>5. PICK x \in Event : x = FragmentEvent
  BY <1>4
<1>6. /\ x.raw /\ x.generation = checkpoint.generation
      /\ x.identity = checkpoint.source.identity
  BY <1>2, <1>5 DEF FragmentEvent
<1>7. ASSUME NEW y \in ledger, Key(y) = Key(x)  PROVE y.lines = x.lines
  <2>1. Key(y) = <<x.generation, x.from, x.offset, x.lines>>
    BY <1>6, <1>7 DEF Key
  <2>2. CASE ~y.raw
    <3>1. <<y.generation, y.offset>> = <<x.generation, x.from, x.offset, x.lines>>
      BY <2>1, <2>2 DEF Key
    <3> QED  BY <3>1
  <2>3. CASE y.raw
    BY <2>1, <2>3 DEF Key
  <2> QED  BY <2>2, <2>3
<1> QED  BY <1>1, <1>2, <1>5, <1>6, <1>7, ShapeAppend DEF LedgerShape

LEMMA LedgerShapeInit == Init => LedgerShape
BY DEF Init, LedgerShape, Ordered, HoldsTurns, KeysApart, TurnsApart

LEMMA LedgerShapeNext ==
  ASSUME CursorInv, LoadInv, Growth, LedgerShape, [Next]_vars, rewrites' = 0
  PROVE  LedgerShape'
<1>0. rewrites = 0 /\ CursorInv'
  BY RewritesCounted, CheckpointNext
<1>1. CASE AppendTurn \/ AppendFragment
  BY <1>1, ShapeTurn, ShapeFragment
<1>2. CASE ~(AppendTurn \/ AppendFragment)
  <2>1. UNCHANGED <<ledger, swallowed>>
    BY <1>2
       DEF Next, Handler, Resume, Reset, ReadTail, CheckBoundary, SaveAhead, VerifyAhead,
           ClearRaw, VerifyClear, SaveTurn, CheckBoundaryAgain, SavePage, Finish,
           VerifyFragment, SaveRaw, FinishRaw, ProofFails, Caught, CatchTransient,
           CatchAtDurable, CatchChanged, Rewind, Writer, CatchUnstable, Abort, Save,
           durable, vars
  <2>2. Ordered(ledger, checkpoint')
    <3>1. checkpoint' = checkpoint \/ Succeeds(checkpoint, checkpoint')
      BY <1>0, CheckpointSucceeds
    <3>2. ledger \in SUBSET Event /\ checkpoint \in Entry /\ checkpoint' \in Entry
      BY <1>0 DEF CursorInv, FileInv, Shape, TypeOK
    <3> QED  BY <3>1, <3>2, OrderedKept DEF LedgerShape
  <2>3. HoldsTurns(ledger, file')
    <3>1. CASE Writer \/ CatchUnstable
      <4>1. WriterStep
        BY <3>1 DEF Writer, CatchUnstable
      <4>2. /\ file \in File /\ file' \in File /\ Grown(file, file')
            /\ ledger \in SUBSET Event /\ checkpoint \in Entry
        BY <1>0, <4>1, WriterGrows DEF CursorInv, FileInv, Shape, TypeOK
      <4>3. ASSUME NEW x \in ledger  PROVE x.identity <= file.identity
        <5>1. /\ x.identity \in Nat /\ checkpoint.source # None
              /\ checkpoint.source.identity \in Nat /\ file.identity \in Nat
              /\ x.identity <= checkpoint.source.identity
              /\ checkpoint.source.identity <= file.identity
          BY <4>2
             DEF Event, Entry, Source, File, LedgerShape, Ordered, CursorInv, FileInv,
                 IdentityOrder
        <5> QED  BY <5>1
      <4> QED  BY <4>2, <4>3, HoldsTurnsGrows DEF LedgerShape
    <3>2. CASE ~(Writer \/ CatchUnstable)
      <4>1. file' = file
        BY <1>2, <3>2
           DEF Next, Handler, Resume, Reset, ReadTail, CheckBoundary, SaveAhead,
               VerifyAhead, ClearRaw, VerifyClear, SaveTurn, CheckBoundaryAgain, SavePage,
               Finish, VerifyFragment, SaveRaw, FinishRaw, ProofFails, Caught,
               CatchTransient, CatchAtDurable, CatchChanged, Rewind, Abort, vars
      <4> QED  BY <4>1 DEF LedgerShape
    <3> QED  BY <3>1, <3>2
  <2> QED  BY <2>1, <2>2, <2>3 DEF LedgerShape
<1> QED  BY <1>1, <1>2

(* What holds until something is rewritten.                                *)
Unrewritten == rewrites = 0 => Growth /\ LedgerShape

(* No line of a file is in two turns of the ledger: as long as the file at *)
(* the path is only appended to or replaced, no retry, rewind, crash or    *)
(* page cut makes handleJsonlChange append a turn again, or one that       *)
(* overlaps it.                                                            *)
THEOREM EveryTurnOnce == Spec => []CapturedOnce
<1> DEFINE I == CursorInv /\ LoadInv /\ Unrewritten
<1>1. Init => I
  BY CheckpointInit, GrowthInit, LedgerShapeInit DEF Unrewritten
<1>2. I /\ [Next]_vars => I'
  <2> SUFFICES ASSUME I, [Next]_vars PROVE I'
    OBVIOUS
  <2>1. (CursorInv /\ LoadInv)'
    BY CheckpointNext
  <2>2. ASSUME rewrites' = 0  PROVE Growth' /\ LedgerShape'
    <3>1. Growth /\ LedgerShape
      BY <2>2, RewritesCounted DEF Unrewritten
    <3> QED  BY <2>2, <3>1, GrowthNext, LedgerShapeNext
  <2> QED  BY <2>1, <2>2 DEF Unrewritten
<1>3. I => CapturedOnce
  BY DEF Unrewritten, LedgerShape, TurnsApart, CapturedOnce
<1> QED  BY <1>1, <1>2, <1>3, PTL DEF Spec

-----------------------------------------------------------------------------
(* The page in flight: how long it is, and where the checkpoint holds it.  *)

InflightShort(c) ==
  c.inflight # None => Through(c.inflight) <= c.offset + PageLines

InflightKnown ==
  /\ pc \in {"aheadSaved", "clearRaw", "rawCleared", "raw", "fragmentDone"} \/ InTurns =>
       checkpoint.inflight = InflightPage
  /\ pc # "idle" => latest.inflight = checkpoint.inflight
  /\ pc = "clearRaw" => cur.rawFallback # None

PageInv ==
  /\ InflightShort(checkpoint) /\ InflightKnown
  /\ HoldsSnap => PageEnd <= cur.offset + PageLines

LEMMA PageInvInit == Init => PageInv
BY DEF Init, Rested, Fresh, PageInv, InflightShort, InflightKnown, InTurns, HoldsSnap,
       HoldsPage

(* At these steps only the checkpoints are of account.                     *)
LEMMA PageInvDropped ==
  ASSUME pc' \in {"idle", "caught", "rewind", "reset", "read", "rawSaved", "pageSaved"},
         InflightShort(checkpoint'),
         pc' # "idle" => latest'.inflight = checkpoint'.inflight,
         HoldsSnap' => PageEnd' <= cur'.offset + PageLines
  PROVE  PageInv'
BY DEF PageInv, InflightKnown, InTurns

LEMMA RestartShort ==
  ASSUME NEW e, NEW point, NEW page
  PROVE  InflightShort(Restart(e, point, page))
BY DEF InflightShort, Restart

(* The page in flight of a run ends where what was read of the file does.  *)
LEMMA InflightPageFacts ==
  ASSUME snap \in Snapshot, cur.offset \in Nat, cur.offset <= PageEnd
  PROVE  /\ InflightPage \in Page /\ InflightPage # None
         /\ Through(InflightPage) = PageEnd /\ PageEnd \in Nat
<1>1. PICK ls \in Lines, a \in Nat, b \in Nat :
        /\ ls = snap.lines /\ a = cur.offset /\ b = PageEnd /\ a <= b /\ b <= Len(ls)
  BY LenProperties DEF Snapshot, Lines, PageEnd
<1>2. PageOf(ls, a, b) \in Page /\ Through(PageOf(ls, a, b)) = b
  BY <1>1, PageOfFacts
<1>3. InflightPage = PageOf(ls, a, b)
  BY <1>1 DEF InflightPage
<1> QED  BY <1>1, <1>2, <1>3, NoneIsNoRecord

LEMMA PageInvEnd ==
  ASSUME CursorInv, LoadInv, PageInv,
         \/ Resume \/ Reset \/ CatchAtDurable \/ CatchChanged \/ Rewind \/ ProofFails
         \/ Finish \/ FinishRaw \/ CatchTransient \/ CatchUnstable \/ Abort
  PROVE  PageInv'
<1>1. CASE Resume
  <2>1. /\ pc' \in {"read", "reset"} /\ snap' = snap /\ snap = None /\ latest' = checkpoint'
        /\ checkpoint' = checkpoint
             \/ \E point, page : checkpoint' = Restart(checkpoint, point, page)
    BY <1>1 DEF Resume, Goto, Save, durable, CursorInv, FileInv, Shape, PageKnown
  <2> QED  BY <2>1, PageInvDropped, RestartShort DEF PageInv, HoldsSnap
<1>2. CASE Reset
  <2>1. /\ pc' \in {"read", "idle"} /\ snap' = None
        /\ pc' # "idle" => latest' = checkpoint'
        /\ checkpoint' = checkpoint \/ checkpoint' = Restart(cur, back, None)
    BY <1>2 DEF Reset, Rest, Goto, Save, durable, CursorInv, FileInv, Shape, PageKnown
  <2> QED  BY <2>1, PageInvDropped, RestartShort DEF PageInv, HoldsSnap
<1>3. CASE CatchChanged \/ ProofFails
  <2>1. /\ pc # "idle" /\ pc' \in {"rewind", "caught"} /\ UNCHANGED <<checkpoint, latest>>
    BY <1>3 DEF CatchChanged, ProofFails, Caught, Goto, durable, local
  <2> QED
    BY <2>1, PageInvDropped DEF PageInv, InflightKnown, HoldsSnap, HoldsPage
<1>4. CASE \/ CatchAtDurable \/ Rewind \/ Finish \/ FinishRaw \/ CatchTransient
           \/ CatchUnstable \/ Abort
  <2>1. /\ pc' = "idle" /\ snap' = None
        /\ checkpoint' = checkpoint
             \/ \E point, page : checkpoint' = Restart(latest, point, page)
    BY <1>4
       DEF CatchAtDurable, Rewind, Finish, FinishRaw, CatchTransient, CatchUnstable,
           Abort, Rest, durable
  <2> QED  BY <2>1, PageInvDropped, RestartShort DEF PageInv, HoldsSnap
<1> QED  BY <1>1, <1>2, <1>3, <1>4

LEMMA PageInvRead ==
  ASSUME CursorInv, LoadInv, PageInv, ReadTail \/ CheckBoundary
  PROVE  PageInv'
<1>1. CASE ReadTail
  <2>1. /\ pc = "read" /\ pc' = "bound" /\ UNCHANGED <<checkpoint, latest, cur>>
    BY <1>1 DEF ReadTail, Goto, durable
  <2>2. ASSUME snap' # None  PROVE PageEnd' <= cur.offset + PageLines
    BY <1>1, <2>2, ReadFacts DEF CursorInv, FileInv, Shape, TypeOK
  <2> QED
    BY <2>1, <2>2 DEF PageInv, InflightKnown, InTurns, HoldsSnap
<1>2. CASE CheckBoundary
  <2>1. /\ pc = "bound" /\ UNCHANGED <<checkpoint, latest, cur, snap>>
        /\ \/ pc' = "page" /\ snap = None
           \/ pc' = "ahead" /\ snap # None
    BY <1>2 DEF CheckBoundary, Goto, durable
  <2>2. PageEnd' = PageEnd
    BY <2>1, SamePage
  <2> QED
    BY <2>1, <2>2 DEF PageInv, InflightKnown, InTurns, HoldsSnap, HoldsPage
<1> QED  BY <1>1, <1>2

LEMMA PageInvLoop ==
  ASSUME CursorInv, LoadInv, PageInv,
         \/ VerifyAhead \/ AppendTurn \/ CheckBoundaryAgain \/ AppendFragment
         \/ VerifyFragment \/ VerifyClear \/ ClearRaw \/ Writer \/ UNCHANGED vars
  PROVE  PageInv'
<1>1. CASE \/ VerifyAhead \/ AppendTurn \/ CheckBoundaryAgain \/ AppendFragment
           \/ VerifyFragment
  <2>1. /\ UNCHANGED <<checkpoint, latest, cur, snap>> /\ PageEnd' = PageEnd
        /\ InflightPage' = InflightPage /\ snap # None
        /\ pc \in {"aheadSaved", "turn", "raw", "fragmentDone"}
        /\ pc' \in {"clearRaw", "raw", "turn", "turnDone", "fragmentDone", "page"}
        /\ pc' = "clearRaw" => cur.rawFallback # None
    BY <1>1, SamePage
       DEF VerifyAhead, EnterLoop, AppendTurn, CheckBoundaryAgain, AppendFragment,
           VerifyFragment, Goto, durable, local, InflightPage, PageEnd, CursorInv,
           FileInv, Shape, PageKnown, HoldsPage
  <2> QED
    BY <2>1 DEF PageInv, InflightKnown, InTurns, HoldsSnap, HoldsPage
<1>2. CASE VerifyClear
  <2>1. /\ pc = "rawCleared" /\ pc' \in {"raw", "turn"} /\ latest' = checkpoint
        /\ UNCHANGED <<checkpoint, snap>> /\ cur' = [cur EXCEPT !.rawFallback = None]
        /\ PageEnd' = PageEnd /\ cur \in Entry /\ snap # None
    BY <1>2
       DEF VerifyClear, EnterLoop, Goto, durable, PageEnd, CursorInv, FileInv, Shape,
           TypeOK, PageKnown, HoldsPage
  <2>2. cur'.offset = cur.offset
    BY <2>1 DEF Entry
  <2>3. InflightPage' = InflightPage
    BY <2>1, <2>2 DEF InflightPage
  <2> QED
    BY <2>1, <2>2, <2>3 DEF PageInv, InflightKnown, InTurns, HoldsSnap, HoldsPage
<1>3. CASE ClearRaw
  <2>1. /\ pc = "clearRaw" /\ pc' = "rawCleared" /\ UNCHANGED <<latest, cur, snap>>
        /\ checkpoint' = [latest EXCEPT !.rawFallback = None] /\ latest \in Entry
        /\ PageEnd' = PageEnd /\ InflightPage' = InflightPage
    BY <1>3
       DEF ClearRaw, Goto, local, PageEnd, InflightPage, CursorInv, FileInv, Shape, TypeOK
  <2>2. /\ checkpoint'.inflight = latest.inflight /\ checkpoint'.offset = latest.offset
    BY <2>1 DEF Entry
  <2>3. latest.inflight = checkpoint.inflight /\ latest.offset = checkpoint.offset
    BY <2>1 DEF PageInv, InflightKnown, CursorInv, FileInv, LatestSaved
  <2> QED
    BY <2>1, <2>2, <2>3
       DEF PageInv, InflightShort, InflightKnown, InTurns, HoldsSnap, HoldsPage
<1>4. CASE Writer \/ UNCHANGED vars
  <2>1. UNCHANGED <<checkpoint, latest, cur, snap, pc>> /\ PageEnd' = PageEnd
        /\ InflightPage' = InflightPage
    BY <1>4 DEF Writer, durable, local, vars, PageEnd, InflightPage
  <2> QED
    BY <2>1 DEF PageInv, InflightKnown, InTurns, HoldsSnap
<1> QED  BY <1>1, <1>2, <1>3, <1>4

LEMMA PageInvSave ==
  ASSUME CursorInv, LoadInv, PageInv, SaveAhead \/ SaveTurn \/ SavePage \/ SaveRaw
  PROVE  PageInv'
<1>1. /\ UNCHANGED <<cur, snap>> /\ PageEnd' = PageEnd /\ InflightPage' = InflightPage
      /\ latest' = checkpoint' /\ cur.offset \in Nat /\ PageLines \in Nat
  BY SizesArePositive
     DEF SaveAhead, SaveTurn, SavePage, SaveRaw, Save, PageEnd, InflightPage, CursorInv,
         FileInv, Shape, TypeOK, Entry
<1>2. CASE SavePage \/ SaveRaw
  <2>1. checkpoint'.inflight = None
    <3>1. PageEntry.inflight = None
      <4>1. CASE snap = None
        <5>1. cur \in Entry
          BY DEF CursorInv, FileInv, Shape, TypeOK
        <5> QED  BY <4>1, <5>1 DEF PageEntry, Entry
      <4>2. CASE snap # None
        BY <4>2 DEF PageEntry, EntryAt
      <4> QED  BY <4>1, <4>2
    <3>2. CASE SavePage
      BY <3>1, <3>2 DEF SavePage, Save
    <3>3. CASE SaveRaw
      BY <3>3 DEF SaveRaw, Save, EntryAt
    <3> QED  BY <1>2, <3>2, <3>3
  <2>2. /\ pc \in {"page", "raw"} /\ pc' \in {"pageSaved", "rawSaved"}
    BY <1>2 DEF SavePage, SaveRaw, Goto
  <2> QED
    BY <1>1, <2>1, <2>2, PageInvDropped
       DEF PageInv, InflightShort, HoldsSnap, HoldsPage
<1>3. CASE SaveAhead \/ SaveTurn
  <2>1. /\ pc \in HoldsPage /\ pc' \in {"aheadSaved", "turn"}
        /\ pc \in {"ahead", "turnDone"}
        /\ \E o, i, raw : /\ o = cur.offset \/ (Pending # {} /\ o = NextTurn.offset)
                          /\ checkpoint' = EntryAt(o, i, InflightPage, raw)
    BY <1>3
       DEF SaveAhead, SaveTurn, Save, Goto, HoldsPage, CursorInv, FileInv, Shape,
           CursorInPage
  <2>2. /\ snap \in Snapshot /\ snap.from = cur.offset /\ cur.offset <= PageEnd
        /\ snap # None /\ snap.from <= PageEnd /\ snap.from \in Nat
    BY <1>1, <2>1, PageFacts DEF CursorInv, FileInv, Shape, PageKnown, Snapshot
  <2>3. PICK o \in Nat :
          cur.offset <= o /\ \E i, raw : checkpoint' = EntryAt(o, i, InflightPage, raw)
    BY <1>1, <2>1, <2>2, NextTurnIsPending, PendingInPage
  <2>4. checkpoint'.offset = o /\ checkpoint'.inflight = InflightPage
    BY <2>3 DEF EntryAt
  <2>5. Through(InflightPage) = PageEnd /\ PageEnd \in Nat
    BY <1>1, <2>2, InflightPageFacts
  <2>6. PageEnd <= cur.offset + PageLines
    BY <2>1, <2>2 DEF PageInv, HoldsSnap
  <2>7. InflightShort(checkpoint')
    BY <1>1, <2>3, <2>4, <2>5, <2>6 DEF InflightShort
  <2> QED
    BY <1>1, <2>1, <2>4, <2>6, <2>7
       DEF PageInv, InflightKnown, InTurns, HoldsSnap
<1> QED  BY <1>2, <1>3

LEMMA PageInvNext == CursorInv /\ LoadInv /\ PageInv /\ [Next]_vars => PageInv'
BY PageInvEnd, PageInvRead, PageInvLoop, PageInvSave DEF Next, Handler

-----------------------------------------------------------------------------
(* What is in the ledger ahead of the durable offset.                      *)

Ahead(L, c) ==
  { x \in L : ~x.raw /\ x.generation = c.generation /\ x.offset > c.offset }

(* Turns ahead of the offset are closed within the page in flight.         *)
Covered(L, c, f) ==
  \A x \in Ahead(L, c) :
    /\ c.inflight # None /\ x.from + 1 < x.offset /\ x.offset <= Through(c.inflight)
    /\ c.source.identity = f.identity =>
         Closes(f.lines, x.from + 1, x.offset, Through(c.inflight))

(* Nothing is ahead while raw fragments are written or nothing is unread.  *)
NoneAhead ==
  \/ checkpoint.rawFallback # None
  \/ pc \in {"raw", "fragmentDone", "rawCleared"}
  \/ pc = "page" /\ snap = None
  \/ pc = "bound" /\ snap = None /\ seen.identity = file.identity

(* A page read again reaches as far as the one in flight did.              *)
PageReaches ==
  pc \in {"bound", "ahead"} /\ snap # None /\ checkpoint.inflight # None
    /\ snap.identity = checkpoint.source.identity =>
  Through(checkpoint.inflight) <= PageEnd

CoverInv ==
  /\ Covered(ledger, checkpoint, file)
  /\ NoneAhead => Ahead(ledger, checkpoint) = {}
  /\ PageReaches

LEMMA AheadFacts ==
  ASSUME CursorInv, NEW x \in Ahead(ledger, checkpoint)
  PROVE  /\ x \in ledger /\ x \in Event /\ x.from \in Nat /\ x.offset \in Nat
         /\ ~x.raw /\ x.generation = checkpoint.generation
         /\ checkpoint.offset < x.offset /\ checkpoint.offset \in Nat
         /\ checkpoint.source # None /\ x.identity = checkpoint.source.identity
<1>1. x \in ledger /\ x \in Event /\ checkpoint \in Entry
  BY DEF Ahead, CursorInv, FileInv, Shape, TypeOK
<1> QED
  BY <1>1 DEF Ahead, Event, Entry, CursorInv, FileInv, LedgerOfGeneration

(* The page in flight of the checkpoint lies in the file it came from.     *)
LEMMA InflightInFile ==
  ASSUME CursorInv, LoadInv, Growth, checkpoint.inflight # None,
         checkpoint.source # None, checkpoint.source.identity = file.identity
  PROVE  /\ Through(checkpoint.inflight) \in Nat
         /\ Through(checkpoint.inflight) <= Len(file.lines)
<1>1. checkpoint \in Entry /\ EntryHolds(file, checkpoint)
  BY GrowthFacts
<1>2. checkpoint.inflight \in Page
  BY <1>1 DEF Entry
<1>3. Through(checkpoint.inflight) \in Nat
  BY <1>2, LenProperties DEF Page, Lines, Through
<1> QED  BY <1>1, <1>3 DEF EntryHolds, Intact

LEMMA CoverInit == Init => CoverInv
BY DEF Init, Rested, CoverInv, Covered, Ahead, PageReaches

(* The turns ahead stay so, or fewer are.                                  *)
LEMMA CoverKept ==
  ASSUME CursorInv, CoverInv, NEW d, d.generation = checkpoint.generation,
         d.offset \in Nat, checkpoint.offset <= d.offset, d.source = checkpoint.source \/
           (d.source # None /\ checkpoint.source # None
              /\ d.source.identity = checkpoint.source.identity),
         d.inflight = checkpoint.inflight
  PROVE  /\ Ahead(ledger, d) \subseteq Ahead(ledger, checkpoint)
         /\ Covered(ledger, d, file)
<1>1. ASSUME NEW x \in Ahead(ledger, d)  PROVE x \in Ahead(ledger, checkpoint)
  <2>1. x \in Event /\ checkpoint \in Entry
    BY DEF Ahead, CursorInv, FileInv, Shape, TypeOK
  <2> QED  BY <2>1 DEF Ahead, Event, Entry
<1> QED  BY <1>1 DEF Covered, CoverInv

(* No turn of a new generation is in the ledger.                           *)
LEMMA NewGeneration ==
  ASSUME CursorInv, NEW d, d.generation = checkpoint.generation + 1
  PROVE  Ahead(ledger, d) = {} /\ Covered(ledger, d, file)
<1>1. ASSUME NEW x \in ledger  PROVE x.generation # checkpoint.generation + 1
  <2>1. /\ x.generation \in Nat /\ checkpoint.generation \in Nat
        /\ x.generation <= checkpoint.generation
    BY DEF CursorInv, FileInv, Shape, TypeOK, Event, Entry, LedgerOfGeneration
  <2> QED  BY <2>1
<1>2. Ahead(ledger, d) = {}
  BY <1>1 DEF Ahead
<1> QED  BY <1>2 DEF Covered

LEMMA CoverRestart ==
  ASSUME CursorInv, LoadInv, Growth, CoverInv,
         \/ Resume \/ Reset \/ CatchAtDurable \/ CatchChanged \/ Rewind
  PROVE  CoverInv'
<1>1. /\ ledger' = ledger /\ file' = file
      /\ pc' \notin {"raw", "fragmentDone", "rawCleared", "page", "bound", "ahead"}
      /\ \/ checkpoint' = checkpoint
         \/ checkpoint'.generation = checkpoint.generation + 1
  BY DEF Resume, Reset, CatchAtDurable, CatchChanged, Rewind, Rest, Goto, Save, durable,
         Restart, CursorInv, FileInv, SameGeneration
<1>2. CASE checkpoint' = checkpoint
  BY <1>1, <1>2 DEF CoverInv, NoneAhead, PageReaches
<1>3. CASE checkpoint'.generation = checkpoint.generation + 1
  <2>1. Ahead(ledger, checkpoint') = {} /\ Covered(ledger, checkpoint', file)
    BY <1>3, NewGeneration
  <2> QED  BY <1>1, <2>1 DEF CoverInv, NoneAhead, PageReaches
<1> QED  BY <1>1, <1>2, <1>3

(* At these steps nothing of account changes.                              *)
LEMMA CoverEnd ==
  ASSUME CursorInv, CoverInv,
         \/ Finish \/ FinishRaw \/ CatchTransient \/ Abort \/ ProofFails
         \/ CheckBoundaryAgain \/ VerifyFragment \/ VerifyClear \/ UNCHANGED vars
  PROVE  CoverInv'
<1>1. UNCHANGED <<file, checkpoint, ledger>>
  BY DEF Finish, FinishRaw, CatchTransient, Abort, ProofFails, Caught, CheckBoundaryAgain,
         VerifyFragment, VerifyClear, durable, vars
<1>2. CASE Finish \/ FinishRaw \/ CatchTransient \/ Abort \/ ProofFails
  <2>1. pc' \in {"idle", "caught"}
    BY <1>2 DEF Finish, FinishRaw, CatchTransient, Abort, ProofFails, Caught, Rest, Goto
  <2> QED  BY <1>1, <2>1 DEF CoverInv, NoneAhead, PageReaches
<1>3. CASE CheckBoundaryAgain
  <2>1. pc' = "page" /\ snap' # None
    BY <1>3
       DEF CheckBoundaryAgain, Goto, local, CursorInv, FileInv, Shape, PageKnown, HoldsPage
  <2> QED  BY <1>1, <2>1 DEF CoverInv, NoneAhead, PageReaches
<1>4. CASE VerifyFragment \/ VerifyClear
  <2>1. pc \in {"fragmentDone", "rawCleared"} /\ pc' \in {"raw", "turn"}
    BY <1>4 DEF VerifyFragment, VerifyClear, EnterLoop, Goto
  <2> QED  BY <1>1, <2>1 DEF CoverInv, NoneAhead, PageReaches
<1>5. CASE UNCHANGED vars
  <2>1. UNCHANGED <<pc, snap, seen>> /\ PageEnd' = PageEnd
    BY <1>5, SamePage DEF vars, local
  <2> QED  BY <1>1, <2>1 DEF CoverInv, NoneAhead, PageReaches
<1> QED  BY <1>2, <1>3, <1>4, <1>5

(* What a run reads of an unchanged file covers what the last one appended.*)
LEMMA CoverRead ==
  ASSUME CursorInv, LoadInv, Growth, PageInv, CoverInv, ReadTail \/ CheckBoundary
  PROVE  CoverInv'
<1>1. UNCHANGED <<file, checkpoint, ledger, seen>>
  BY DEF ReadTail, CheckBoundary, durable
<1>2. CASE ReadTail
  <2>1. /\ pc = "read" /\ pc' = "bound" /\ checkpoint.offset = cur.offset
        /\ cur.offset \in Nat /\ Len(file.lines) \in Nat /\ file \in File /\ cur \in Entry
        /\ checkpoint.source # None => checkpoint.source.identity = seen.identity
    BY <1>2, LenProperties
       DEF ReadTail, Goto, CursorInv, CursorUnmoved, Unmoved, FileInv, Shape, TypeOK,
           Entry, File, Lines, SameFile
  <2>2. ASSUME snap' = None, seen.identity = file.identity,
               NEW x \in Ahead(ledger, checkpoint)
        PROVE  FALSE
    <3>1. Len(file.lines) <= cur.offset
      BY <1>2, <2>1, <2>2, ReadFacts
    <3>2. /\ x.offset \in Nat /\ cur.offset < x.offset /\ checkpoint.source # None
      BY <2>1, <2>2, AheadFacts
    <3>3. checkpoint.inflight # None /\ x.offset <= Through(checkpoint.inflight)
      BY <2>2 DEF CoverInv, Covered
    <3>4. /\ Through(checkpoint.inflight) \in Nat
          /\ Through(checkpoint.inflight) <= Len(file.lines)
      BY <2>1, <2>2, <3>2, <3>3, InflightInFile
    <3> QED  BY <2>1, <3>1, <3>2, <3>3, <3>4
  <2>3. ASSUME snap' # None, checkpoint.inflight # None,
               snap'.identity = checkpoint.source.identity
        PROVE  Through(checkpoint.inflight) <= PageEnd'
    <3>4. /\ snap'.identity = file.identity /\ PageEnd' \in Nat
          /\ PageEnd' = Len(file.lines) \/ PageEnd' = cur.offset + PageLines
      BY <1>2, <2>1, <2>3, ReadFacts
    <3>5. checkpoint.source # None
      BY <2>3 DEF LoadInv, EntriesLoad, EntryLoads, Loads, InflightLoads
    <3>6. /\ Through(checkpoint.inflight) \in Nat
          /\ Through(checkpoint.inflight) <= Len(file.lines)
          /\ Through(checkpoint.inflight) <= cur.offset + PageLines
      BY <2>1, <2>3, <3>4, <3>5, InflightInFile DEF PageInv, InflightShort
    <3> QED  BY <2>1, <3>4, <3>6
  <2>4. NoneAhead' => Ahead(ledger, checkpoint) = {}
    BY <1>1, <2>1, <2>2 DEF NoneAhead, CoverInv
  <2> QED  BY <1>1, <2>1, <2>3, <2>4 DEF CoverInv, PageReaches
<1>3. CASE CheckBoundary
  <2>1. /\ pc = "bound" /\ snap' = snap /\ seen.identity = file.identity
        /\ \/ pc' = "page" /\ snap = None
           \/ pc' = "ahead" /\ snap # None
    BY <1>3 DEF CheckBoundary, BoundaryCurrent, Goto
  <2>2. PageEnd' = PageEnd
    BY <2>1, SamePage
  <2> QED  BY <1>1, <2>1, <2>2 DEF CoverInv, NoneAhead, PageReaches
<1> QED  BY <1>2, <1>3

LEMMA CoverWriter ==
  ASSUME CursorInv, LoadInv, Growth, CoverInv, Writer \/ CatchUnstable,
         rewrites = 0, rewrites' = 0
  PROVE  CoverInv'
<1>1. WriterStep /\ UNCHANGED <<checkpoint, ledger>>
  BY DEF Writer, CatchUnstable, durable
<1>2. /\ file \in File /\ file' \in File /\ Grown(file, file')
      /\ file.identity \in Nat /\ file'.identity \in Nat
      /\ checkpoint.source # None => /\ checkpoint.source.identity <= file.identity
                                     /\ checkpoint.source.identity \in Nat
  BY <1>1, GrowthFacts, WriterGrows, WriterStepType
     DEF CursorInv, FileInv, Shape, TypeOK, File, Entry, Source
<1>3. Covered(ledger, checkpoint, file')
  <2> SUFFICES ASSUME NEW x \in Ahead(ledger, checkpoint),
                      checkpoint.source.identity = file'.identity
               PROVE  Closes(file'.lines, x.from + 1, x.offset,
                             Through(checkpoint.inflight))
    BY DEF Covered, CoverInv
  <2>1. /\ x.from \in Nat /\ x.offset \in Nat /\ checkpoint.source # None
    BY AheadFacts
  <2>2. checkpoint.source.identity = file.identity /\ file'.identity = file.identity
    BY <1>2, <2>1 DEF Grown
  <2>3. PICK q \in Nat, e \in Nat : q = x.from + 1 /\ e = x.offset
    BY <2>1
  <2>4. /\ checkpoint.inflight # None /\ q < e /\ 0 < q
    BY <2>1, <2>3 DEF CoverInv, Covered
  <2>5. PICK n \in Nat : n = Through(checkpoint.inflight) /\ n <= Len(file.lines)
    BY <2>1, <2>2, <2>4, InflightInFile
  <2>6. e <= n /\ Closes(file.lines, q, e, n)
    BY <2>2, <2>3, <2>5 DEF CoverInv, Covered
  <2>7. PICK l \in Line : file'.lines = Append(file.lines, l)
    BY <1>2, <2>2 DEF Grown
  <2>8. \A i \in 1 .. n : file'.lines[i] = file.lines[i]
    BY <1>2, <2>5, <2>7, AppendFacts DEF File
  <2>9. Closes(file'.lines, q, e, n)
    <3> DEFINE fl == file.lines
               gl == file'.lines
    <3>1. \A i \in 1 .. n : gl[i] = fl[i]
      BY <2>8
    <3>2. Closes(fl, q, e, n)
      BY <2>6
    <3>3. n <= n
      OBVIOUS
    <3> HIDE DEF fl, gl
    <3>4. Closes(gl, q, e, n)
      BY <2>4, <2>6, <3>1, <3>2, <3>3, ClosesFurther
    <3> QED  BY <3>4 DEF gl
  <2> QED  BY <2>3, <2>5, <2>9
<1>4. CASE CatchUnstable
  <2>1. pc = "caught" /\ pc' = "idle"
    BY <1>4 DEF CatchUnstable, Rest
  <2> QED  BY <1>1, <1>3, <2>1 DEF CoverInv, NoneAhead, PageReaches
<1>5. CASE Writer
  <2>1. UNCHANGED <<pc, snap, seen>> /\ PageEnd' = PageEnd
    BY <1>5, SamePage DEF Writer, local
  <2>2. pc = "bound" /\ seen.identity = file'.identity => seen.identity = file.identity
    <3> SUFFICES ASSUME pc = "bound", seen.identity = file'.identity
                 PROVE  seen.identity = file.identity
      OBVIOUS
    <3>1. seen.identity <= file.identity /\ file.identity <= file'.identity
      BY <1>2 DEF CursorInv, FileInv, IdentityOrder, Grown
    <3> QED  BY <1>2, <3>1
  <2> QED  BY <1>1, <1>3, <2>1, <2>2 DEF CoverInv, NoneAhead, PageReaches
<1> QED  BY <1>4, <1>5

(* The page a run holds and the file it is checked against.                *)
LEMMA HeldPage ==
  ASSUME CursorInv, LoadInv, Growth, pc \in HoldsPage \/ (pc = "page" /\ snap # None)
  PROVE  /\ file \in File /\ snap \in Snapshot /\ snap # None /\ ReadFrom(file, snap)
         /\ cur \in Entry /\ checkpoint \in Entry /\ latest \in Entry
         /\ cur.offset \in Nat /\ snap.from = cur.offset /\ cur.offset < PageEnd
         /\ PageEnd \in Nat /\ checkpoint.offset \in Nat
         /\ cur.generation = checkpoint.generation /\ cur.generation \in Nat
         /\ checkpoint.source # None => checkpoint.source.identity = snap.identity
         /\ ledger \in SUBSET Event /\ next \in Int
         /\ InflightPage \in Page /\ InflightPage # None
         /\ Through(InflightPage) = PageEnd
<1>1. /\ file \in File /\ snap \in Snapshot /\ snap # None /\ ReadFrom(file, snap)
      /\ cur \in Entry /\ checkpoint \in Entry /\ latest \in Entry
      /\ snap.from = cur.offset /\ cur.offset < PageEnd
      /\ ledger \in SUBSET Event /\ next \in Int
      /\ cur.generation = checkpoint.generation
      /\ checkpoint.source # None => checkpoint.source.identity = snap.identity
  BY GrowthFacts
     DEF Growth, HoldsSnap, CursorInv, FileInv, Shape, TypeOK, PageKnown, HoldsPage,
         SameGeneration, SameFile
<1>2. /\ cur.offset \in Nat /\ checkpoint.offset \in Nat /\ cur.generation \in Nat
      /\ PageEnd \in Nat
  BY <1>1, LenProperties DEF Entry, Snapshot, Lines, PageEnd
<1>3. cur.offset <= PageEnd
  BY <1>1, <1>2
<1> QED  BY <1>1, <1>2, <1>3, InflightPageFacts

(* Whatever is ahead of the checkpoint is closed within the page.          *)
LEMMA AheadInPage ==
  ASSUME CursorInv, LoadInv, Growth, CoverInv,
         pc \in HoldsPage \/ (pc = "page" /\ snap # None),
         checkpoint.inflight = InflightPage, file.identity = snap.identity,
         NEW x \in Ahead(ledger, checkpoint)
  PROVE  x.offset <= NewOffset(snap.lines, snap.from, PageEnd)
<1>1. /\ file \in File /\ snap \in Snapshot /\ ReadFrom(file, snap)
      /\ Through(InflightPage) = PageEnd
  BY HeldPage
<1>2. /\ PageEnd \in Nat /\ snap.lines \in Lines /\ PageEnd = Len(snap.lines)
      /\ \A i \in 1 .. PageEnd : file.lines[i] = snap.lines[i]
  BY <1>1, PageOfFile
<1>3. /\ x.from \in Nat /\ x.offset \in Nat /\ checkpoint.source # None
  BY AheadFacts
<1>4. checkpoint.source.identity = file.identity
  BY <1>3, HeldPage
<1>5. PICK q \in Nat, e \in Nat, n \in Nat, ls \in Lines, a \in Nat :
        /\ q = x.from + 1 /\ e = x.offset /\ n = PageEnd /\ ls = snap.lines
        /\ a = snap.from
  <2>1. x.from + 1 \in Nat /\ snap.from \in Nat
    BY <1>1, <1>3 DEF Snapshot
  <2> QED  BY <1>2, <1>3, <2>1
<1>6. 0 < q /\ q < e /\ e <= n /\ Closes(file.lines, q, e, n)
  BY <1>1, <1>3, <1>4, <1>5 DEF CoverInv, Covered
<1>7. /\ \A i \in 1 .. n : ls[i] = file.lines[i]
      /\ n <= n /\ n <= Len(ls)
  BY <1>2, <1>5
<1>8. Closes(ls, q, e, n)
  <2> DEFINE fl == file.lines
  <2>1. Closes(fl, q, e, n) /\ \A i \in 1 .. n : ls[i] = fl[i]
    BY <1>6, <1>7
  <2> HIDE DEF fl
  <2> QED  BY <1>6, <1>7, <2>1, ClosesFurther
<1>9. e <= NewOffset(ls, a, n)
  BY <1>6, <1>7, <1>8, ClosedBeforeNewOffset
<1> QED  BY <1>5, <1>9

(* Raw mode starts only on a page without a closed turn.                   *)
LEMMA CoverVerifyAhead ==
  ASSUME CursorInv, LoadInv, Growth, PageInv, CoverInv, VerifyAhead
  PROVE  CoverInv'
<1>1. /\ pc = "aheadSaved" /\ pc \in HoldsPage
      /\ UNCHANGED <<file, checkpoint, ledger, snap>>
      /\ pc' \in {"clearRaw", "raw", "turn"} /\ file.identity = snap.identity
      /\ pc' = "raw" =>
           \/ cur.rawFallback # None
           \/ NewOffset(snap.lines, snap.from, PageEnd) = cur.offset
  BY DEF VerifyAhead, EnterLoop, RawMode, Goto, durable, HoldsPage, PageCurrent,
         RangeCurrent
<1>2. /\ checkpoint.offset = cur.offset /\ checkpoint.rawFallback = cur.rawFallback
      /\ checkpoint.inflight = InflightPage
  BY <1>1 DEF CursorInv, CursorUnmoved, Unmoved, PageInv, InflightKnown
<1>3. ASSUME pc' = "raw", NEW x \in Ahead(ledger, checkpoint)  PROVE FALSE
  <2>1. cur.rawFallback = None
    BY <1>2, <1>3 DEF CoverInv, NoneAhead
  <2>2. x.offset <= cur.offset
    BY <1>1, <1>2, <1>3, <2>1, AheadInPage
  <2>3. x.offset \in Nat /\ cur.offset < x.offset /\ cur.offset \in Nat
    BY <1>2, <1>3, AheadFacts
  <2> QED  BY <2>2, <2>3
<1> QED  BY <1>1, <1>3 DEF CoverInv, NoneAhead, PageReaches

LEMMA CoverAppend ==
  ASSUME CursorInv, LoadInv, Growth, PageInv, CoverInv, AppendTurn \/ AppendFragment
  PROVE  CoverInv'
<1>1. /\ UNCHANGED <<file, checkpoint, snap, cur>> /\ pc \in HoldsPage
  BY DEF AppendTurn, AppendFragment, local, HoldsPage
<1>2. CASE AppendFragment
  <2>1. /\ pc = "raw" /\ pc' = "fragmentDone" /\ Record(FragmentEvent)
        /\ FragmentEvent.raw
    BY <1>2 DEF AppendFragment, Goto, FragmentEvent
  <2>2. ledger' = ledger \/ ledger' = ledger \cup {FragmentEvent}
    BY <2>1 DEF Record
  <2>3. Ahead(ledger', checkpoint) = Ahead(ledger, checkpoint)
    BY <2>1, <2>2 DEF Ahead
  <2> QED
    BY <1>1, <2>1, <2>3 DEF CoverInv, Covered, NoneAhead, PageReaches
<1>3. CASE AppendTurn
  <2>1. /\ pc = "turn" /\ pc' = "turnDone" /\ Pending # {}
        /\ file.identity = snap.identity
        /\ ledger' = ledger \/ Record(TurnEvent(NextTurn))
    BY <1>3 DEF AppendTurn, Goto, RangeCurrent
  <2>2. /\ checkpoint.rawFallback = None /\ checkpoint.inflight = InflightPage
    BY <2>1 DEF CursorInv, CursorAtTurn, InTurns, PageInv, InflightKnown
  <2> DEFINE t == NextTurn
             x == TurnEvent(t)
  <2>3. ledger' \subseteq ledger \cup {x}
    BY <2>1 DEF Record
  <2>4. /\ t.from \in Nat /\ t.offset \in Nat /\ t.from + 1 < t.offset
        /\ t.offset <= PageEnd /\ Closes(snap.lines, t.from + 1, t.offset, PageEnd)
    <3>1. /\ snap \in Snapshot /\ snap.from <= PageEnd /\ PageEnd \in Nat
          /\ snap.lines \in Lines /\ PageEnd <= Len(snap.lines) /\ snap.from \in Nat
      BY <1>1, HeldPage DEF Snapshot, PageEnd
    <3>2. t \in Turns(snap.lines, snap.from, PageEnd)
      BY <2>1, <3>1, NextTurnIsPending, PendingInPage
    <3> HIDE DEF t
    <3> QED  BY <3>1, <3>2, TurnInRange
  <2>5. Closes(file.lines, t.from + 1, t.offset, PageEnd)
    <3>1. PICK q \in Nat, e \in Nat, n \in Nat :
            q = t.from + 1 /\ e = t.offset /\ n = PageEnd
      BY <2>4, <1>1, HeldPage
    <3>2. \A i \in 1 .. n : file.lines[i] = snap.lines[i]
      BY <1>1, <2>1, <3>1, HeldPage, PageOfFile
    <3>3. /\ 0 < q /\ q < e /\ e <= n /\ n <= n /\ Closes(snap.lines, q, e, n)
      BY <2>4, <3>1
    <3> DEFINE fl == file.lines
               ls == snap.lines
    <3>4. /\ \A i \in 1 .. n : fl[i] = ls[i]
          /\ Closes(ls, q, e, n)
      BY <3>2, <3>3
    <3> HIDE DEF fl, ls
    <3>5. Closes(fl, q, e, n)
      BY <3>3, <3>4, ClosesFurther
    <3> QED  BY <3>1, <3>5 DEF fl
  <2>6. x.from = t.from /\ x.offset = t.offset
    BY DEF TurnEvent
  <2>7. Through(InflightPage) = PageEnd /\ InflightPage # None
    BY <1>1, HeldPage
  <2> HIDE DEF x, t
  <2>8. Covered(ledger', checkpoint, file)
    BY <2>2, <2>3, <2>4, <2>5, <2>6, <2>7 DEF Covered, Ahead, CoverInv
  <2>9. ~NoneAhead'
    BY <1>1, <2>1, <2>2 DEF NoneAhead
  <2> QED  BY <1>1, <2>1, <2>8, <2>9 DEF CoverInv, PageReaches
<1> QED  BY <1>2, <1>3

(* The page in flight replaces the one of the last run.                    *)
LEMMA CoverSaveAhead ==
  ASSUME CursorInv, LoadInv, Growth, PageInv, CoverInv, SaveAhead
  PROVE  CoverInv'
<1>1. /\ pc = "ahead" /\ pc \in HoldsPage /\ pc' = "aheadSaved"
      /\ UNCHANGED <<file, ledger, snap, seen>> /\ file.identity = snap.identity
      /\ checkpoint' = EntryAt(cur.offset, cur.turnIndex, InflightPage, cur.rawFallback)
  BY DEF SaveAhead, Save, Goto, HoldsPage, PageCurrent, RangeCurrent
<1>2. /\ checkpoint.offset = cur.offset /\ checkpoint.rawFallback = cur.rawFallback
      /\ checkpoint.generation = cur.generation
      /\ InflightPage # None /\ Through(InflightPage) = PageEnd /\ PageEnd \in Nat
      /\ checkpoint.source # None => checkpoint.source.identity = snap.identity
  BY <1>1, HeldPage DEF CursorInv, CursorUnmoved, Unmoved
<1>3. /\ checkpoint'.offset = checkpoint.offset
      /\ checkpoint'.generation = checkpoint.generation
      /\ checkpoint'.inflight = InflightPage
      /\ checkpoint'.rawFallback = checkpoint.rawFallback
  BY <1>1, <1>2 DEF EntryAt
<1>4. Ahead(ledger, checkpoint') = Ahead(ledger, checkpoint)
  BY <1>3 DEF Ahead
<1>5. ASSUME NEW x \in Ahead(ledger, checkpoint)
      PROVE  /\ x.from + 1 < x.offset /\ x.offset <= PageEnd
             /\ Closes(file.lines, x.from + 1, x.offset, PageEnd)
  <2>1. /\ x.from \in Nat /\ x.offset \in Nat /\ checkpoint.source # None
    BY <1>5, AheadFacts
  <2>2. checkpoint.source.identity = file.identity
    BY <1>1, <1>2, <2>1
  <2>3. checkpoint.inflight # None
    BY <1>5 DEF CoverInv, Covered
  <2>4. PICK q \in Nat, e \in Nat, n \in Nat, m \in Nat :
          /\ q = x.from + 1 /\ e = x.offset /\ n = Through(checkpoint.inflight)
          /\ m = PageEnd
    BY <1>2, <2>1, <2>2, <2>3, InflightInFile
  <2>5. q < e /\ 0 < q /\ e <= n /\ Closes(file.lines, q, e, n)
    BY <1>5, <2>1, <2>2, <2>4 DEF CoverInv, Covered
  <2>6. n <= m
    BY <1>1, <2>1, <2>2, <2>3, <2>4, HeldPage DEF CoverInv, PageReaches
  <2> DEFINE fl == file.lines
  <2>7. Closes(fl, q, e, n) /\ \A i \in 1 .. n : fl[i] = fl[i]
    BY <2>5
  <2> HIDE DEF fl
  <2>8. Closes(fl, q, e, m)
    BY <2>5, <2>6, <2>7, ClosesFurther
  <2> QED  BY <2>4, <2>5, <2>6, <2>8 DEF fl
<1>6. Covered(ledger, checkpoint', file)
  BY <1>2, <1>3, <1>4, <1>5 DEF Covered
<1>7. NoneAhead' => NoneAhead
  BY <1>1, <1>3 DEF NoneAhead
<1> QED  BY <1>1, <1>4, <1>6, <1>7 DEF CoverInv, PageReaches

LEMMA CoverSave ==
  ASSUME CursorInv, CursorInv', LoadInv, Growth, PageInv, CoverInv,
         ClearRaw \/ SaveTurn \/ SavePage \/ SaveRaw
  PROVE  CoverInv'
<1>0. UNCHANGED <<file, ledger, snap>> /\ checkpoint \in Entry
  BY DEF ClearRaw, SaveTurn, SavePage, SaveRaw, Save, local, CursorInv, FileInv, Shape,
         TypeOK
<1>1. CASE ClearRaw
  <2>1. /\ pc = "clearRaw" /\ pc' = "rawCleared" /\ latest \in Entry
        /\ checkpoint' = [latest EXCEPT !.rawFallback = None]
    BY <1>1 DEF ClearRaw, Goto, CursorInv, FileInv, Shape, TypeOK
  <2>2. /\ latest.source = checkpoint.source /\ latest.offset = checkpoint.offset
        /\ latest.generation = checkpoint.generation
        /\ latest.inflight = checkpoint.inflight
        /\ checkpoint.rawFallback = cur.rawFallback /\ cur.rawFallback # None
    BY <2>1
       DEF CursorInv, CursorUnmoved, Unmoved, FileInv, LatestSaved, SameGeneration,
           PageInv, InflightKnown
  <2>3. /\ checkpoint'.source = checkpoint.source
        /\ checkpoint'.offset = checkpoint.offset
        /\ checkpoint'.generation = checkpoint.generation
        /\ checkpoint'.inflight = checkpoint.inflight
    BY <2>1, <2>2 DEF Entry
  <2>4. Ahead(ledger, checkpoint') = Ahead(ledger, checkpoint)
    BY <2>3 DEF Ahead
  <2>5. Ahead(ledger, checkpoint) = {}
    BY <2>2 DEF CoverInv, NoneAhead
  <2> QED
    BY <1>0, <2>1, <2>4, <2>5 DEF CoverInv, Covered, PageReaches
<1>2. CASE SaveTurn
  <2>1. /\ pc = "turnDone" /\ pc \in HoldsPage /\ pc' = "turn" /\ Pending # {}
        /\ checkpoint' = EntryAt(NextTurn.offset, next - 1, InflightPage, None)
    BY <1>2
       DEF SaveTurn, Save, Goto, HoldsPage, CursorInv, FileInv, Shape, CursorInPage
  <2>2. /\ checkpoint.inflight = InflightPage /\ checkpoint.offset = at
        /\ cur.generation = checkpoint.generation
        /\ checkpoint.source # None /\ checkpoint'.source # None
        /\ checkpoint'.source.identity = checkpoint.source.identity
    <3>1. UNCHANGED seen
      BY <1>2 DEF SaveTurn
    <3> QED
      BY <2>1, <3>1
         DEF CursorInv, CursorAtTurn, InTurns, FileInv, SameGeneration, SameFile,
             HoldsPage, PageInv, InflightKnown
  <2>3. NextTurn.offset \in Nat /\ at < NextTurn.offset
    <3>1. snap \in Snapshot /\ snap.from <= PageEnd
      BY <2>1, HeldPage
    <3> QED  BY <2>1, <3>1, NextTurnIsPending, PendingInPage
  <2>4. /\ checkpoint'.offset = NextTurn.offset
        /\ checkpoint'.generation = checkpoint.generation
        /\ checkpoint'.inflight = checkpoint.inflight
        /\ checkpoint'.rawFallback = None
    BY <2>1, <2>2 DEF EntryAt
  <2>5. checkpoint.offset <= checkpoint'.offset /\ checkpoint'.offset \in Nat
    BY <1>0, <2>2, <2>3, <2>4 DEF Entry
  <2>6. Covered(ledger, checkpoint', file)
    BY <2>2, <2>4, <2>5, CoverKept
  <2> QED
    BY <1>0, <2>1, <2>4, <2>6 DEF CoverInv, NoneAhead, PageReaches
<1>3. ASSUME pc' \in {"pageSaved", "rawSaved"},
             \A x \in Ahead(ledger, checkpoint) :
               ~(x.generation = checkpoint'.generation /\ x.offset > checkpoint'.offset),
             checkpoint'.generation = checkpoint.generation,
             checkpoint'.offset \in Nat, checkpoint.offset <= checkpoint'.offset
      PROVE  CoverInv'
  <2>1. ASSUME NEW x \in Ahead(ledger, checkpoint')  PROVE FALSE
    <3>1. x \in Event /\ x \in ledger
      BY DEF Ahead, CursorInv, FileInv, Shape, TypeOK
    <3>2. x \in Ahead(ledger, checkpoint)
      BY <1>0, <1>3, <3>1 DEF Ahead, Event, Entry
    <3> QED  BY <1>3, <3>2 DEF Ahead
  <2> QED
    BY <1>0, <1>3, <2>1 DEF CoverInv, Covered, PageReaches
<1>4. CASE SaveRaw
  <2>1. /\ pc = "raw" /\ pc \in HoldsPage /\ pc' = "rawSaved"
    BY <1>4 DEF SaveRaw, HoldsPage, Goto
  <2>2. PICK raw : checkpoint' = EntryAt(RawThrough, cur.turnIndex, None, raw)
    BY <1>4 DEF SaveRaw, Save
  <2>3. /\ RawThrough \in Nat /\ cur.offset < RawThrough
        /\ checkpoint.offset = cur.offset /\ cur.offset \in Nat
        /\ cur.generation = checkpoint.generation
    BY <2>1, HeldPage, RawThroughInPage DEF CursorInv, CursorUnmoved, Unmoved
  <2>4. /\ checkpoint'.offset = RawThrough
        /\ checkpoint'.generation = checkpoint.generation
    BY <2>2, <2>3 DEF EntryAt
  <2>5. Ahead(ledger, checkpoint) = {}
    BY <2>1 DEF CoverInv, NoneAhead
  <2> QED  BY <1>3, <2>1, <2>3, <2>4, <2>5
<1>5. CASE SavePage
  <2>1. /\ pc = "page" /\ pc' = "pageSaved" /\ checkpoint' = PageEntry
        /\ cur.generation = checkpoint.generation
        /\ snap # None => file.identity = snap.identity
    BY <1>5
       DEF SavePage, Save, Goto, PageCurrent, RangeCurrent, CursorInv, FileInv,
           SameGeneration
  <2>2. /\ checkpoint'.generation = checkpoint.generation
        /\ checkpoint'.offset \in Nat /\ checkpoint.offset <= checkpoint'.offset
    BY <2>1, PageEntryFacts
  <2>3. ASSUME NEW x \in Ahead(ledger, checkpoint), x.offset > checkpoint'.offset
        PROVE  FALSE
    <3>1. snap # None
      BY <2>1, <2>3 DEF CoverInv, NoneAhead
    <3>2. checkpoint.inflight = InflightPage
      BY <2>1, <3>1 DEF PageInv, InflightKnown, InTurns
    <3>3. x.offset <= NewOffset(snap.lines, snap.from, PageEnd)
      BY <2>1, <2>3, <3>1, <3>2, AheadInPage
    <3>4. checkpoint'.offset = NewOffset(snap.lines, snap.from, PageEnd)
      BY <2>1, <3>1 DEF PageEntry, EntryAt
    <3>5. x.offset \in Nat
      BY <2>3, AheadFacts
    <3> QED  BY <2>2, <2>3, <3>3, <3>4, <3>5
  <2> QED  BY <1>3, <2>1, <2>2, <2>3
<1> QED  BY <1>1, <1>2, <1>4, <1>5

LEMMA CoverNext ==
  ASSUME CursorInv, LoadInv, Growth, PageInv, CoverInv, [Next]_vars, rewrites' = 0
  PROVE  CoverInv'
<1>1. rewrites = 0 /\ CursorInv'
  BY RewritesCounted, CheckpointNext
<1> QED
  BY <1>1, CoverRestart, CoverEnd, CoverRead, CoverWriter, CoverVerifyAhead, CoverAppend,
     CoverSaveAhead, CoverSave
     DEF Next, Handler

(* The write-ahead proof: as long as the file at the path is only appended *)
(* to or replaced, an event in the ledger that the durable offset has not  *)
(* passed lies within the page in flight of the checkpoint, so the run     *)
(* after a crash reads the same page before it appends under the same key. *)
THEOREM AheadIsCovered == Spec => []WriteAheadCovers
<1> DEFINE I == CursorInv /\ LoadInv /\ PageInv /\ (rewrites = 0 => Growth /\ CoverInv)
<1>1. Init => I
  BY CheckpointInit, PageInvInit, GrowthInit, CoverInit
<1>2. I /\ [Next]_vars => I'
  <2> SUFFICES ASSUME I, [Next]_vars PROVE I'
    OBVIOUS
  <2>1. (CursorInv /\ LoadInv /\ PageInv)'
    BY CheckpointNext, PageInvNext
  <2>2. ASSUME rewrites' = 0  PROVE Growth' /\ CoverInv'
    BY <2>2, RewritesCounted, GrowthNext, CoverNext
  <2> QED  BY <2>1, <2>2
<1>3. I => WriteAheadCovers
  BY DEF CoverInv, Covered, Ahead, WriteAheadCovers
<1> QED  BY <1>1, <1>2, <1>3, PTL DEF Spec

-----------------------------------------------------------------------------
(* What the ledger L holds of the n lines ls of the file with identity id. *)

Whole(L, id, ls, q, e) ==
  \E x \in L : /\ ~x.raw /\ x.identity = id /\ x.from = q - 1
               /\ x.lines = Slice(ls, q - 1, e)

InPieces(L, id, ls, a, b) ==
  \A i \in a .. b :
    \E x \in L : /\ x.raw /\ x.identity = id /\ x.from < i /\ i <= x.offset
                 /\ x.lines[i - x.from] = ls[i]

Kept(L, id, ls, q, e) ==
  Accepted([lines |-> Slice(ls, q - 1, e)]) =>
    Whole(L, id, ls, q, e) \/ InPieces(L, id, ls, q, e)

(* Every turn that ends by line o.                                         *)
Passed(L, id, ls, n, o) ==
  \A q, e \in 1 .. n :
    q < e /\ e <= o /\ Closes(ls, q, e, n) => Kept(L, id, ls, q, e)

(* A cluster still open at line o: either a user line follows and it is no *)
(* turn, or it is held in fragments so far and raw mode goes on.           *)
OpenKept(L, id, ls, n, o, raw) ==
  \A q \in OpenAt(ls, 0, o) :
    \/ o < n /\ ls[o + 1] \in UserLines
    \/ raw # None /\ InPieces(L, id, ls, q, o)

KeptTo(L, id, ls, n, o, raw) ==
  Passed(L, id, ls, n, o) /\ OpenKept(L, id, ls, n, o, raw)

LEMMA NothingToKeep ==
  ASSUME NEW L, NEW id, NEW ls, NEW n \in Nat, NEW raw
  PROVE  KeptTo(L, id, ls, n, 0, raw)
BY DEF KeptTo, Passed, OpenKept, OpenAt

LEMMA KeptAsLedgerGrows ==
  ASSUME NEW L, NEW M, L \subseteq M, NEW id, NEW ls, NEW n \in Nat, NEW o \in Nat,
         NEW raw, KeptTo(L, id, ls, n, o, raw)
  PROVE  KeptTo(M, id, ls, n, o, raw)
<1>1. ASSUME NEW a, NEW b, InPieces(L, id, ls, a, b)  PROVE InPieces(M, id, ls, a, b)
  BY <1>1 DEF InPieces
<1>2. ASSUME NEW q, NEW e, Kept(L, id, ls, q, e)  PROVE Kept(M, id, ls, q, e)
  BY <1>1, <1>2 DEF Kept, Whole
<1> QED  BY <1>1, <1>2 DEF KeptTo, Passed, OpenKept

(* Fragments that meet.                                                    *)
LEMMA PiecesMeet ==
  ASSUME NEW L, NEW id, NEW ls, NEW a \in Nat, NEW m \in Nat, NEW b \in Nat,
         InPieces(L, id, ls, a, m), InPieces(L, id, ls, m + 1, b)
  PROVE  InPieces(L, id, ls, a, b)
<1>1. ASSUME NEW i \in a .. b
      PROVE  i \in a .. m \/ i \in (m + 1) .. b
  OBVIOUS
<1> QED  BY <1>1 DEF InPieces

LEMMA PiecesWithin ==
  ASSUME NEW L, NEW id, NEW ls, NEW a \in Nat, NEW b \in Nat, NEW c \in Nat, NEW d \in Nat,
         a <= c, d <= b, InPieces(L, id, ls, a, b)
  PROVE  InPieces(L, id, ls, c, d)
BY DEF InPieces

(* A turn that was open at line o went on in raw mode.                     *)
LEMMA OpenTurn ==
  ASSUME NEW L, NEW id, NEW ls, NEW n \in Nat, NEW o \in Nat, NEW raw,
         OpenKept(L, id, ls, n, o, raw),
         NEW q \in Nat, NEW e \in Nat, 0 < q, q <= o, o < e, Opens(ls, q, e)
  PROVE  raw # None /\ InPieces(L, id, ls, q, o)
<1>1. q \in OpenAt(ls, 0, o)
  <2>1. q \in (0 + 1) .. o /\ ls[q] \in UserLines
    BY DEF Opens
  <2>2. ASSUME NEW m \in (q + 1) .. o
        PROVE  ls[m] \notin UserLines \cup FinalLines
    <3>1. m \in (q + 1) .. e /\ m \in (q + 1) .. (e - 1)
      OBVIOUS
    <3> QED  BY <3>1 DEF Opens
  <2> QED  BY <2>1, <2>2 DEF OpenAt
<1>2. ls[o + 1] \notin UserLines
  <2>1. o + 1 \in (q + 1) .. e
    OBVIOUS
  <2> QED  BY <2>1 DEF Opens
<1> QED  BY <1>1, <1>2 DEF OpenKept

(* A turn of the whole that ends before the prefix does is one of it.      *)
LEMMA ClosesWithin ==
  ASSUME NEW lines, NEW more, NEW n \in Nat, NEW c \in Nat, n <= c,
         \A i \in 1 .. n : more[i] = lines[i],
         NEW q \in Nat, NEW e \in Nat, 0 < q, q < e, e <= n, Closes(more, q, e, c),
         e < n \/ more[e] \in FinalLines
  PROVE  Closes(lines, q, e, n)
<1>1. Opens(lines, q, e)
  <2>1. q \in 1 .. n /\ \A m \in (q + 1) .. e : m \in 1 .. n
    OBVIOUS
  <2>2. \A m \in (q + 1) .. (e - 1) : m \in 1 .. n
    OBVIOUS
  <2> QED  BY <2>1, <2>2 DEF Closes, Opens
<1>2. e \in 1 .. n /\ (e < n => e + 1 \in 1 .. n)
  OBVIOUS
<1> QED  BY <1>1, <1>2 DEF Closes

(* A line is appended: the turn it closes was kept while it was open.      *)
LEMMA KeptAsFileGrows ==
  ASSUME NEW L, NEW id, NEW ls \in Lines, NEW more \in Lines, NEW n \in Nat, NEW m \in Nat,
         n = Len(ls), m = Len(more), n <= m, \A i \in 1 .. n : more[i] = ls[i],
         NEW o \in Nat, o <= n, NEW raw, KeptTo(L, id, ls, n, o, raw)
  PROVE  KeptTo(L, id, more, m, o, raw)
<1>1. ASSUME NEW a \in Nat, NEW b \in Nat, 0 < a, b <= n, InPieces(L, id, ls, a, b)
      PROVE  InPieces(L, id, more, a, b)
  <2>1. \A i \in a .. b : more[i] = ls[i]
    BY <1>1
  <2> QED  BY <1>1, <2>1 DEF InPieces
<1>2. ASSUME NEW q \in Nat, NEW e \in Nat, 0 < q, q < e, e <= n, Kept(L, id, ls, q, e)
      PROVE  Kept(L, id, more, q, e)
  <2>1. PICK a \in Nat : a = q - 1 /\ a <= e
    BY <1>2
  <2>2. Slice(more, a, e) = Slice(ls, a, e)
    <3>1. n <= Len(ls) /\ n <= Len(more)
      OBVIOUS
    <3>2. \A b \in Nat : a <= b /\ b <= n => Slice(more, a, b) = Slice(ls, a, b)
      BY <3>1, SameSlice, SMTT(30)
    <3> QED  BY <1>2, <2>1, <3>2
  <2>3. InPieces(L, id, ls, q, e) => InPieces(L, id, more, q, e)
    BY <1>1, <1>2
  <2> QED  BY <1>2, <2>1, <2>2, <2>3 DEF Kept, Whole
<1>3. ASSUME NEW q \in 1 .. m, NEW e \in 1 .. m, q < e, e <= o, Closes(more, q, e, m)
      PROVE  Kept(L, id, more, q, e)
  <2>1. q \in Nat /\ e \in Nat /\ 0 < q /\ e <= n /\ q \in 1 .. n /\ e \in 1 .. n
    BY <1>3
  <2>2. CASE e < n \/ more[e] \in FinalLines
    <3>1. Closes(ls, q, e, n)
      BY <1>3, <2>1, <2>2, ClosesWithin
    <3>2. Kept(L, id, ls, q, e)
      BY <1>3, <2>1, <3>1 DEF KeptTo, Passed
    <3> QED  BY <1>2, <1>3, <2>1, <3>2
  <2>3. CASE e = n /\ more[e] \notin FinalLines
    <3>1. q \in OpenAt(ls, 0, o)
      <4>1. q \in (0 + 1) .. o /\ ls[q] \in UserLines
        BY <1>3, <2>1 DEF Closes, Opens
      <4>2. ASSUME NEW k \in (q + 1) .. o
            PROVE  ls[k] \notin UserLines \cup FinalLines
        <5>1. /\ k \in (q + 1) .. e /\ ls[k] = more[k]
              /\ k = e \/ k \in (q + 1) .. (e - 1)
          BY <1>3, <2>1, <2>3
        <5> QED  BY <1>3, <2>3, <5>1 DEF Closes, Opens
      <4> QED  BY <4>1, <4>2 DEF OpenAt
    <3>2. InPieces(L, id, ls, q, o) /\ o = e
      BY <1>3, <2>1, <2>3, <3>1 DEF KeptTo, OpenKept
    <3> QED  BY <1>1, <2>1, <3>2 DEF Kept
  <2> QED  BY <2>1, <2>2, <2>3
<1>4. ASSUME NEW q \in OpenAt(more, 0, o)
      PROVE  \/ o < m /\ more[o + 1] \in UserLines
             \/ raw # None /\ InPieces(L, id, more, q, o)
  <2>1. /\ q \in (0 + 1) .. o /\ more[q] \in UserLines
        /\ \A k \in (q + 1) .. o : more[k] \notin UserLines \cup FinalLines
    BY <1>4 DEF OpenAt
  <2>2. q \in Nat /\ 0 < q /\ ls[q] = more[q] /\ \A k \in (q + 1) .. o : ls[k] = more[k]
    BY <2>1
  <2>3. q \in OpenAt(ls, 0, o)
    BY <2>1, <2>2 DEF OpenAt
  <2>4. CASE o < n /\ ls[o + 1] \in UserLines
    <3>1. o + 1 \in 1 .. n
      BY <2>4
    <3> QED  BY <2>4, <3>1
  <2>5. CASE raw # None /\ InPieces(L, id, ls, q, o)
    BY <1>1, <2>2, <2>5
  <2> QED  BY <2>3, <2>4, <2>5 DEF KeptTo, OpenKept
<1> QED  BY <1>3, <1>4 DEF KeptTo, Passed, OpenKept

(* The next turn is saved.                                                 *)
LEMMA KeptToTurn ==
  ASSUME NEW L, NEW id, NEW ls, NEW n \in Nat, NEW o \in Nat,
         KeptTo(L, id, ls, n, o, None), NEW p \in Nat, NEW d \in Nat,
         0 < p, p < d, o < d, d <= n, Closes(ls, p, d, n), Kept(L, id, ls, p, d),
         \A q, e \in Nat : o < q /\ q < e /\ e < d => ~Closes(ls, q, e, n)
  PROVE  KeptTo(L, id, ls, n, d, None)
<1>1. ASSUME NEW q \in 1 .. n, NEW e \in 1 .. n, q < e, e <= d, Closes(ls, q, e, n)
      PROVE  Kept(L, id, ls, q, e)
  <2>1. CASE e <= o
    BY <1>1, <2>1 DEF KeptTo, Passed
  <2>2. CASE o < e
    <3>1. o < q
      <4> SUFFICES ASSUME q <= o PROVE FALSE
        OBVIOUS
      <4>1. Opens(ls, q, e) /\ q \in Nat /\ e \in Nat /\ 0 < q /\ q <= o
        BY <1>1 DEF Closes
      <4>2. OpenKept(L, id, ls, n, o, None)
        BY DEF KeptTo
      <4>3. None # None
        BY <2>2, <4>1, <4>2, OpenTurn
      <4> QED  BY <4>3
    <3>2. e = d
      BY <1>1, <3>1
    <3>3. q = p
      <4>1. ~(q < p)
        <5>1. ls[p] \in UserLines /\ \A m \in (q + 1) .. d : ls[m] \notin UserLines
          BY <1>1, <3>2 DEF Closes, Opens
        <5> QED  BY <1>1, <5>1
      <4>2. ~(p < q)
        <5>1. ls[q] \in UserLines /\ \A m \in (p + 1) .. d : ls[m] \notin UserLines
          BY <1>1, <3>2 DEF Closes, Opens
        <5> QED  BY <1>1, <5>1
      <4> QED  BY <4>1, <4>2
    <3> QED  BY <3>2, <3>3
  <2> QED  BY <2>1, <2>2
<1>2. ASSUME NEW q \in OpenAt(ls, 0, d)
      PROVE  d < n /\ ls[d + 1] \in UserLines
  <2>1. /\ q \in (0 + 1) .. d /\ ls[q] \in UserLines
        /\ \A m \in (q + 1) .. d : ls[m] \notin UserLines \cup FinalLines
    BY <1>2 DEF OpenAt
  <2>2. ls[d] \notin FinalLines
    BY <2>1, LineKindsDisjoint
  <2> QED  BY <2>2 DEF Closes
<1> QED  BY <1>1, <1>2 DEF KeptTo, Passed, OpenKept

(* The cluster a page leaves open is the one it is consumed up to.         *)
LEMMA NewOffsetAtOpen ==
  ASSUME NEW ls, NEW a \in Nat, NEW k \in Nat, NEW q \in OpenAt(ls, a, k)
  PROVE  NewOffset(ls, a, k) = q - 1
<1> DEFINE p == CHOOSE p \in OpenAt(ls, a, k) : TRUE
<1>1. p \in OpenAt(ls, a, k)
  OBVIOUS
<1>2. NewOffset(ls, a, k) = p - 1
  BY DEF NewOffset
<1> HIDE DEF p
<1>3. p = q
  BY <1>1 DEF OpenAt
<1> QED  BY <1>2, <1>3

(* The page is saved: no closed turn of it is left.                        *)
LEMMA KeptToPage ==
  ASSUME NEW L, NEW id, NEW ls, NEW n \in Nat, NEW o \in Nat,
         KeptTo(L, id, ls, n, o, None), NEW a \in Nat, NEW k \in Nat,
         a <= o, a < k, k <= n, NEW d \in Nat, d = NewOffset(ls, a, k), o <= d, d <= k,
         \A q, e \in Nat : o < q /\ q < e /\ e <= k => ~Closes(ls, q, e, k)
  PROVE  KeptTo(L, id, ls, n, d, None)
<1>1. ASSUME NEW q \in 1 .. n, NEW e \in 1 .. n, q < e, e <= d, Closes(ls, q, e, n)
      PROVE  Kept(L, id, ls, q, e)
  <2>1. CASE e <= o
    BY <1>1, <2>1 DEF KeptTo, Passed
  <2>2. CASE o < e
    <3>1. o < q
      <4> SUFFICES ASSUME q <= o PROVE FALSE
        OBVIOUS
      <4>1. Opens(ls, q, e) /\ q \in Nat /\ e \in Nat /\ 0 < q /\ q <= o
        BY <1>1 DEF Closes
      <4>2. OpenKept(L, id, ls, n, o, None)
        BY DEF KeptTo
      <4>3. None # None
        BY <2>2, <4>1, <4>2, OpenTurn
      <4> QED  BY <4>3
    <3>2. ~Closes(ls, q, e, k)
      BY <1>1, <3>1
    <3>3. e = k /\ ls[e] \notin FinalLines
      BY <1>1, <3>2 DEF Closes
    <3>4. q \in OpenAt(ls, a, k)
      <4>1. q \in (a + 1) .. k /\ ls[q] \in UserLines
        BY <1>1, <3>1, <3>3 DEF Closes, Opens
      <4>2. ASSUME NEW m \in (q + 1) .. k
            PROVE  ls[m] \notin UserLines \cup FinalLines
        <5>1. m \in (q + 1) .. e /\ (m = e \/ m \in (q + 1) .. (e - 1))
          BY <1>1, <3>3
        <5> QED  BY <1>1, <3>3, <5>1 DEF Closes, Opens
      <4> QED  BY <4>1, <4>2 DEF OpenAt
    <3>5. d = q - 1
      BY <3>4, NewOffsetAtOpen
    <3> QED  BY <1>1, <3>5
  <2> QED  BY <2>1, <2>2
<1>2. ASSUME NEW q \in OpenAt(ls, 0, d)
      PROVE  d < n /\ ls[d + 1] \in UserLines
  <2>1. /\ q \in (0 + 1) .. d /\ ls[q] \in UserLines
        /\ \A m \in (q + 1) .. d : ls[m] \notin UserLines \cup FinalLines
    BY <1>2 DEF OpenAt
  <2>2. CASE OpenAt(ls, a, k) = {}
    <3>1. d = k
      BY <2>2 DEF NewOffset
    <3>2. q <= a
      <4> SUFFICES ASSUME a < q PROVE FALSE
        BY <2>1
      <4>1. q \in (a + 1) .. k
        BY <2>1, <3>1
      <4> QED  BY <2>1, <2>2, <3>1, <4>1 DEF OpenAt
    <3>3. q \in OpenAt(ls, 0, o)
      <4>1. q \in (0 + 1) .. o /\ \A m \in (q + 1) .. o : m \in (q + 1) .. d
        BY <2>1, <3>2
      <4> QED  BY <2>1, <4>1 DEF OpenAt
    <3>4. o < n /\ ls[o + 1] \in UserLines
      BY <3>3 DEF KeptTo, OpenKept
    <3>5. o = d
      <4> SUFFICES ASSUME o < d PROVE FALSE
        OBVIOUS
      <4>1. o + 1 \in (q + 1) .. d
        BY <2>1, <3>2
      <4> QED  BY <2>1, <3>4, <4>1
    <3> QED  BY <3>4, <3>5
  <2>3. CASE OpenAt(ls, a, k) # {}
    <3>1. PICK p \in OpenAt(ls, a, k) : TRUE
      BY <2>3
    <3>2. d = p - 1 /\ p \in (a + 1) .. k /\ ls[p] \in UserLines
      BY <3>1, NewOffsetAtOpen DEF OpenAt
    <3> QED  BY <3>2
  <2> QED  BY <2>2, <2>3
<1> QED  BY <1>1, <1>2 DEF KeptTo, Passed, OpenKept

(* Fragments from line o to line d are saved.                              *)
LEMMA KeptToFragments ==
  ASSUME NEW L, NEW id, NEW ls, NEW n \in Nat, NEW o \in Nat, NEW raw,
         KeptTo(L, id, ls, n, o, raw), NEW d \in Nat, o < d, d <= n,
         InPieces(L, id, ls, o + 1, d),
         NEW after, after # None \/ (d < n /\ ls[d + 1] \in UserLines)
  PROVE  KeptTo(L, id, ls, n, d, after)
<1>1. ASSUME NEW q \in 1 .. n, NEW e \in 1 .. n, q < e, e <= d, Closes(ls, q, e, n)
      PROVE  Kept(L, id, ls, q, e)
  <2>1. CASE e <= o
    BY <1>1, <2>1 DEF KeptTo, Passed
  <2>2. CASE o < e /\ q <= o
    <3>1. InPieces(L, id, ls, q, o)
      <4>1. Opens(ls, q, e)
        BY <1>1 DEF Closes
      <4> QED  BY <1>1, <2>2, <4>1, OpenTurn DEF KeptTo
    <3>2. InPieces(L, id, ls, q, d)
      BY <1>1, <3>1, PiecesMeet
    <3>3. InPieces(L, id, ls, q, e)
      BY <1>1, <3>2, PiecesWithin
    <3> QED  BY <3>3 DEF Kept
  <2>3. CASE o < q
    <3>1. InPieces(L, id, ls, q, e)
      BY <1>1, <2>3, PiecesWithin
    <3> QED  BY <3>1 DEF Kept
  <2> QED  BY <1>1, <2>1, <2>2, <2>3
<1>2. ASSUME NEW q \in OpenAt(ls, 0, d), after # None
      PROVE  InPieces(L, id, ls, q, d)
  <2>1. /\ q \in (0 + 1) .. d /\ ls[q] \in UserLines
        /\ \A m \in (q + 1) .. d : ls[m] \notin UserLines \cup FinalLines
    BY <1>2 DEF OpenAt
  <2>2. CASE o < q
    BY <2>1, <2>2, PiecesWithin
  <2>3. CASE q <= o
    <3>1. q \in OpenAt(ls, 0, o)
      <4>1. q \in (0 + 1) .. o /\ \A m \in (q + 1) .. o : m \in (q + 1) .. d
        BY <2>1, <2>3
      <4> QED  BY <2>1, <4>1 DEF OpenAt
    <3>2. ls[o + 1] \notin UserLines
      <4>1. o + 1 \in (q + 1) .. d
        BY <2>1, <2>3
      <4> QED  BY <2>1, <4>1
    <3>3. InPieces(L, id, ls, q, o)
      BY <3>1, <3>2 DEF KeptTo, OpenKept
    <3> QED  BY <2>1, <3>3, PiecesMeet
  <2> QED  BY <2>1, <2>2, <2>3
<1> QED  BY <1>1, <1>2 DEF KeptTo, Passed, OpenKept

(* Raw mode ends where a user line follows.                                *)
LEMMA KeptInMode ==
  ASSUME NEW L, NEW id, NEW ls, NEW n \in Nat, NEW o \in Nat, NEW raw,
         KeptTo(L, id, ls, n, o, raw), NEW after,
         after = raw \/ (o < n /\ ls[o + 1] \in UserLines)
  PROVE  KeptTo(L, id, ls, n, o, after)
BY DEF KeptTo, OpenKept

-----------------------------------------------------------------------------
(* What the ledger holds of the checkpoint's file, and of the page of a    *)
(* run.                                                                    *)

KeptOf(L, f, c) ==
  c.source # None /\ c.source.identity = f.identity =>
    KeptTo(L, f.identity, f.lines, Len(f.lines), c.offset, c.rawFallback)

TurnKept ==
  pc = "turnDone" /\ Accepted(NextTurn) =>
    \E x \in ledger : /\ ~x.raw /\ x.identity = snap.identity
                      /\ x.from = NextTurn.from /\ x.lines = NextTurn.lines

FragmentsKept ==
  pc \in {"raw", "fragmentDone"} =>
    InPieces(ledger, snap.identity, snap.lines, cur.offset + 1,
             IF pc = "raw" THEN at ELSE FragmentEnd)

RunKept ==
  /\ TurnKept /\ FragmentsKept
  /\ pc = "page" /\ snap # None => Pending = {}
  /\ pc = "clearRaw" => snap.lines[cur.offset + 1] \in UserLines

SkipInv == KeptOf(ledger, file, checkpoint) /\ RunKept

LEMMA SkipInit == Init => SkipInv
BY DEF Init, Rested, Fresh, SkipInv, KeptOf, RunKept, TurnKept, FragmentsKept

(* At these steps the run owes the ledger nothing.                         *)
LEMMA RunDropped ==
  ASSUME pc' \notin {"turnDone", "raw", "fragmentDone", "clearRaw"},
         pc' = "page" => snap' = None
  PROVE  RunKept'
BY DEF RunKept, TurnKept, FragmentsKept

LEMMA KeptBefore ==
  ASSUME CursorInv, LoadInv, Growth, SkipInv,
         checkpoint.source # None => checkpoint.source.identity = file.identity
  PROVE  KeptTo(ledger, file.identity, file.lines, Len(file.lines), checkpoint.offset,
                checkpoint.rawFallback)
<1>1. CASE checkpoint.source # None
  BY <1>1 DEF SkipInv, KeptOf
<1>2. CASE checkpoint.source = None
  <2>1. checkpoint.offset = 0 /\ Len(file.lines) \in Nat
    BY <1>2, GrowthFacts, LenProperties DEF EntryHolds, File, Lines
  <2> QED  BY <2>1, NothingToKeep
<1> QED  BY <1>1, <1>2

LEMMA KeptOfLedger ==
  ASSUME CursorInv, SkipInv, ledger \subseteq ledger', UNCHANGED <<file, checkpoint>>
  PROVE  KeptOf(ledger', file', checkpoint')
<1>1. Len(file.lines) \in Nat /\ checkpoint.offset \in Nat
  BY LenProperties DEF CursorInv, FileInv, Shape, TypeOK, File, Lines, Entry
<1>2. PICK n \in Nat, o \in Nat, id \in {file.identity}, ls \in {file.lines},
           raw \in {checkpoint.rawFallback} :
        /\ n = Len(file.lines) /\ o = checkpoint.offset /\ id = file.identity
        /\ ls = file.lines /\ raw = checkpoint.rawFallback
  BY <1>1
<1>3. KeptTo(ledger, id, ls, n, o, raw) => KeptTo(ledger', id, ls, n, o, raw)
  BY KeptAsLedgerGrows
<1> QED  BY <1>2, <1>3 DEF SkipInv, KeptOf

LEMMA SkipStart ==
  ASSUME CursorInv, LoadInv, Growth, SkipInv,
         Resume \/ Reset \/ CatchAtDurable \/ CatchChanged \/ Rewind
  PROVE  SkipInv'
<1>1. /\ file \in File /\ checkpoint \in Entry /\ latest \in Entry
      /\ EntryHolds(file, checkpoint) /\ EntryLoads(checkpoint) /\ EntryLoads(latest)
      /\ checkpoint.source # None => checkpoint.source.identity <= file.identity
      /\ pc # "idle" => /\ latest.source = checkpoint.source
                        /\ EntryHolds(file, latest)
  BY GrowthFacts
<1>2. checkpoint' = checkpoint \/ checkpoint'.offset = 0
  <2>1. CASE Resume
    <3>1. ProofCurrent(checkpoint) \/ ~RetryAtDurable(checkpoint)
      BY <1>1, ChangedMeansReplaced
    <3> QED  BY <2>1, <3>1 DEF Resume, durable
  <2>2. CASE CatchAtDurable
    <3>1. pc = "caught" /\ ~ProofCurrent(latest) /\ RetryAtDurable(latest)
      BY <2>2 DEF CatchAtDurable
    <3> QED  BY <1>1, <3>1, ChangedMeansReplaced
  <2>3. CASE Reset \/ Rewind
    <3>1. back.offset = 0
      BY <2>3 DEF Reset, Rewind, Growth, RewindToStart
    <3> QED  BY <2>3, <3>1 DEF Reset, Rewind, Save, Restart, durable
  <2>4. CASE CatchChanged
    BY <2>4 DEF CatchChanged, durable
  <2> QED  BY <2>1, <2>2, <2>3, <2>4
<1>3. /\ UNCHANGED <<file, ledger>> /\ pc' \in {"idle", "read", "reset", "rewind"}
  BY DEF Resume, Reset, CatchAtDurable, CatchChanged, Rewind, Rest, Goto, Save, durable
<1>4. KeptOf(ledger, file, checkpoint')
  <2>1. CASE checkpoint'.offset = 0
    <3>1. Len(file.lines) \in Nat
      BY <1>1, LenProperties DEF File, Lines
    <3> QED  BY <2>1, <3>1, NothingToKeep DEF KeptOf
  <2> QED  BY <1>2, <2>1 DEF SkipInv
<1> QED  BY <1>3, <1>4, RunDropped DEF SkipInv

LEMMA SkipReadOnly ==
  ASSUME CursorInv, LoadInv, Growth, SkipInv,
         \/ ReadTail \/ CheckBoundary \/ VerifyAhead \/ VerifyClear \/ CheckBoundaryAgain
         \/ Finish \/ VerifyFragment \/ FinishRaw \/ ProofFails \/ CatchTransient
         \/ Abort \/ UNCHANGED vars
  PROVE  SkipInv'
<1>1. UNCHANGED <<file, checkpoint, ledger>>
  BY DEF ReadTail, CheckBoundary, VerifyAhead, VerifyClear, CheckBoundaryAgain, Finish,
         VerifyFragment, FinishRaw, ProofFails, Caught, CatchTransient, Abort, durable, vars
<1>2. KeptOf(ledger', file', checkpoint')
  BY <1>1, KeptOfLedger
<1>3. CASE ReadTail \/ CheckBoundary \/ Finish \/ FinishRaw \/ ProofFails
           \/ CatchTransient \/ Abort
  <2>1. /\ pc' \in {"bound", "page", "ahead", "idle", "caught"}
        /\ pc' = "page" => snap' = None
    BY <1>3
       DEF ReadTail, CheckBoundary, Finish, FinishRaw, ProofFails, Caught, CatchTransient,
           Abort, Rest, Goto
  <2> QED  BY <1>2, <2>1, RunDropped DEF SkipInv
<1>4. CASE CheckBoundaryAgain
  <2>1. pc' = "page" /\ Pending' = {}
    BY <1>4, SamePage DEF CheckBoundaryAgain, Goto, local
  <2> QED  BY <1>2, <2>1 DEF SkipInv, RunKept, TurnKept, FragmentsKept
<1>5. CASE VerifyAhead \/ VerifyClear
  <2>1. /\ pc \in HoldsPage /\ pc' \in {"clearRaw", "raw", "turn"}
        /\ UNCHANGED snap /\ cur'.offset = cur.offset /\ at' = cur.offset
        /\ pc' = "clearRaw" => FirstUserAt(cur.offset)
    BY <1>5
       DEF VerifyAhead, VerifyClear, EnterLoop, Goto, HoldsPage, CursorInv, CursorNext,
           FileInv, Shape, TypeOK, Entry
  <2>2. cur.offset \in Nat
    BY <2>1, HeldPage
  <2>3. InPieces(ledger', snap'.identity, snap'.lines, cur'.offset + 1, at')
    BY <2>1, <2>2 DEF InPieces
  <2>4. pc' = "clearRaw" => snap'.lines[cur'.offset + 1] \in UserLines
    BY <2>1 DEF FirstUserAt, UserOffsets
  <2> QED  BY <1>2, <2>1, <2>3, <2>4 DEF SkipInv, RunKept, TurnKept, FragmentsKept
<1>6. CASE VerifyFragment
  <2>1. pc = "fragmentDone" /\ pc' = "raw" /\ UNCHANGED <<cur, snap>> /\ at' = FragmentEnd
    BY <1>6 DEF VerifyFragment, Goto
  <2> QED  BY <1>1, <1>2, <2>1 DEF SkipInv, RunKept, TurnKept, FragmentsKept
<1>7. CASE UNCHANGED vars
  <2>1. /\ UNCHANGED <<pc, snap, at, cur>> /\ Pending' = Pending /\ NextTurn' = NextTurn
        /\ FragmentEnd' = FragmentEnd
    BY <1>7, SamePage DEF vars, local, FragmentEnd
  <2> QED  BY <1>1, <1>2, <2>1 DEF SkipInv, RunKept, TurnKept, FragmentsKept
<1> QED  BY <1>3, <1>4, <1>5, <1>6, <1>7

(* The key of a turn is held by that turn alone.                           *)
LEMMA SkipAppendTurn ==
  ASSUME CursorInv, LoadInv, Growth, LedgerShape, SkipInv, AppendTurn
  PROVE  SkipInv'
<1>1. /\ pc = "turn" /\ pc' = "turnDone" /\ pc \in HoldsPage /\ Pending # {}
      /\ UNCHANGED <<file, checkpoint, snap>> /\ NextTurn' = NextTurn
      /\ file.identity = snap.identity
      /\ Accepted(NextTurn) => Record(TurnEvent(NextTurn))
      /\ ~Accepted(NextTurn) => ledger' = ledger
  BY SamePage DEF AppendTurn, HoldsPage, RangeCurrent, Goto
<1>2. ledger \subseteq ledger'
  BY <1>1 DEF Record
<1>3. /\ file \in File /\ snap \in Snapshot /\ snap.from <= PageEnd
      /\ ReadFrom(file, snap) /\ cur.generation = checkpoint.generation
      /\ checkpoint.source # None /\ snap.identity = checkpoint.source.identity
  BY <1>1, HeldPage DEF CursorInv, FileInv, SameFile, HoldsPage
<1>4. PICK t \in Turns(file.lines, 0, Len(file.lines)) : t = NextTurn
  BY <1>1, <1>3, NextTurnIsPending, PendingInPage, PageTurns
<1>5. ASSUME Accepted(NextTurn)
      PROVE  \E x \in ledger' : /\ ~x.raw /\ x.identity = snap.identity
                                /\ x.from = t.from /\ x.lines = t.lines
  <2> DEFINE x == TurnEvent(NextTurn)
  <2>1. /\ ~x.raw /\ x.identity = snap.identity /\ x.from = t.from /\ x.lines = t.lines
        /\ Key(x) = <<checkpoint.generation, t.offset>>
    BY <1>3, <1>4 DEF TurnEvent, Key
  <2>2. ledger' = IF { y \in ledger : Key(y) = Key(x) } = {} THEN ledger \cup {x}
                  ELSE ledger
    BY <1>1, <1>5 DEF Record
  <2> HIDE DEF x
  <2>3. CASE { y \in ledger : Key(y) = Key(x) } = {}
    BY <2>1, <2>2, <2>3
  <2>4. CASE { y \in ledger : Key(y) = Key(x) } # {}
    <3>1. PICK y \in ledger : Key(y) = <<checkpoint.generation, t.offset>>
      BY <2>1, <2>4
    <3>2. ~y.raw /\ y.generation = checkpoint.generation /\ y.offset = t.offset
      <4>1. CASE y.raw
        <5>1. <<y.generation, y.from, y.offset, y.lines>>
                = <<checkpoint.generation, t.offset>>
          BY <3>1, <4>1 DEF Key
        <5> QED  BY <5>1
      <4>2. CASE ~y.raw
        BY <3>1, <4>2 DEF Key
      <4> QED  BY <4>1, <4>2
    <3>3. y.identity = snap.identity
      BY <1>3, <3>2 DEF CursorInv, FileInv, LedgerOfGeneration
    <3>4. TurnOf(y) \in Turns(file.lines, 0, Len(file.lines)) /\ TurnOf(y).offset = t.offset
      BY <1>1, <3>2, <3>3 DEF LedgerShape, HoldsTurns, TurnOf
    <3>5. /\ file.lines \in Lines /\ Len(file.lines) \in Nat /\ 0 \in Nat
          /\ Len(file.lines) <= Len(file.lines)
      BY <1>3, LenProperties DEF File, Lines
    <3>6. TurnOf(y) = t
      BY <3>4, <3>5, SameEndSameTurn
    <3> QED  BY <1>2, <3>2, <3>3, <3>6 DEF TurnOf
  <2> QED  BY <2>3, <2>4
<1>6. KeptOf(ledger', file', checkpoint')
  BY <1>1, <1>2, KeptOfLedger
<1> QED  BY <1>1, <1>4, <1>5, <1>6 DEF SkipInv, RunKept, TurnKept, FragmentsKept

LEMMA SkipAppendFragment ==
  ASSUME CursorInv, LoadInv, Growth, SkipInv, AppendFragment
  PROVE  SkipInv'
<1>1. /\ pc = "raw" /\ pc' = "fragmentDone" /\ pc \in HoldsPage
      /\ UNCHANGED <<file, checkpoint, snap, cur, at>> /\ FragmentEnd' = FragmentEnd
      /\ Record(FragmentEvent) /\ at < RawThrough
  BY SamePage DEF AppendFragment, HoldsPage, Goto, local, FragmentEnd
<1>2. ledger \subseteq ledger'
  BY <1>1 DEF Record
<1>3. /\ snap \in Snapshot /\ cur.offset \in Nat /\ cur.generation = checkpoint.generation
      /\ checkpoint.source # None /\ snap.identity = checkpoint.source.identity
      /\ at \in Nat /\ FragmentEnd \in Nat /\ FragmentEnd <= PageEnd /\ at < FragmentEnd
      /\ PageEnd \in Nat
  BY <1>1, HeldPage, FragmentFacts DEF CursorInv, FileInv, SameFile, HoldsPage
<1>4. PICK a \in Nat, b \in Nat, o \in Nat, ls \in Lines, id \in {snap.identity} :
        /\ a = at /\ b = FragmentEnd /\ o = cur.offset /\ ls = snap.lines
        /\ id = snap.identity
  BY <1>3 DEF Snapshot
<1>5. PICK z \in ledger' : /\ z.raw /\ z.identity = id /\ z.from = a /\ z.offset = b
                           /\ z.lines = Slice(ls, a, b)
  <2> DEFINE x == FragmentEvent
  <2>1. /\ x.raw /\ x.identity = id /\ x.from = a /\ x.offset = b
        /\ x.lines = Slice(ls, a, b) /\ x.generation = checkpoint.generation
    BY <1>3, <1>4 DEF FragmentEvent
  <2>2. ledger' = IF { y \in ledger : Key(y) = Key(x) } = {} THEN ledger \cup {x}
                  ELSE ledger
    BY <1>1 DEF Record
  <2> HIDE DEF x
  <2>3. CASE { y \in ledger : Key(y) = Key(x) } = {}
    BY <2>1, <2>2, <2>3
  <2>4. CASE { y \in ledger : Key(y) = Key(x) } # {}
    <3>1. PICK y \in ledger : Key(y) = <<x.generation, x.from, x.offset, x.lines>>
      BY <2>1, <2>4 DEF Key
    <3>2. y.raw
      <4> SUFFICES ASSUME ~y.raw PROVE FALSE
        OBVIOUS
      <4>1. <<y.generation, y.offset>> = <<x.generation, x.from, x.offset, x.lines>>
        BY <3>1 DEF Key
      <4> QED  BY <4>1
    <3>3. /\ y.generation = x.generation /\ y.from = x.from /\ y.offset = x.offset
          /\ y.lines = x.lines
      BY <3>1, <3>2 DEF Key
    <3>4. y.identity = id
      BY <1>3, <1>4, <2>1, <3>3 DEF CursorInv, FileInv, LedgerOfGeneration
    <3> QED  BY <1>2, <2>1, <3>2, <3>3, <3>4
  <2> QED  BY <2>3, <2>4
<1>6. InPieces(ledger', id, ls, a + 1, b)
  <2>1. a < b /\ b <= Len(ls)
    BY <1>3, <1>4 DEF PageEnd
  <2>2. \A k \in 1 .. (b - a) : Slice(ls, a, b)[k] = ls[a + k]
    BY <2>1, SliceFacts
  <2>3. ASSUME NEW i \in (a + 1) .. b
        PROVE  z.from < i /\ i <= z.offset /\ z.lines[i - z.from] = ls[i]
    <3>1. i - a \in 1 .. (b - a) /\ a + (i - a) = i
      OBVIOUS
    <3> QED  BY <1>5, <2>2, <3>1
  <2> QED  BY <1>5, <2>3 DEF InPieces
<1>7. InPieces(ledger', id, ls, o + 1, a)
  <2>1. InPieces(ledger, id, ls, o + 1, a)
    BY <1>1, <1>4 DEF SkipInv, RunKept, FragmentsKept
  <2> QED  BY <1>2, <2>1 DEF InPieces
<1>8. InPieces(ledger', id, ls, o + 1, b)
  BY <1>6, <1>7, PiecesMeet
<1>9. KeptOf(ledger', file', checkpoint')
  BY <1>1, <1>2, KeptOfLedger
<1> QED  BY <1>1, <1>4, <1>8, <1>9 DEF SkipInv, RunKept, TurnKept, FragmentsKept

-----------------------------------------------------------------------------
(* The steps that move the checkpoint.                                     *)

(* The page as lines of the file.                                          *)
LEMMA PageLinesOfFile ==
  ASSUME CursorInv, LoadInv, Growth, pc \in HoldsPage \/ (pc = "page" /\ snap # None),
         snap.identity = file.identity
  PROVE  \E k \in Nat, n \in Nat, a \in Nat, ls \in Lines, fl \in Lines :
           /\ k = PageEnd /\ n = Len(file.lines) /\ a = cur.offset /\ a = snap.from
           /\ ls = snap.lines /\ fl = file.lines
           /\ k = Len(ls) /\ n = Len(fl) /\ k <= n /\ a < k
           /\ \A i \in 1 .. k : fl[i] = ls[i]
<1>1. /\ file \in File /\ snap \in Snapshot /\ ReadFrom(file, snap)
      /\ cur.offset \in Nat /\ snap.from = cur.offset /\ cur.offset < PageEnd
  BY HeldPage
<1> QED  BY <1>1, PageOfFile

(* The same proof or one of the same file at the same offset.              *)
LEMMA KeptAtOffset ==
  ASSUME CursorInv, LoadInv, Growth, SkipInv, UNCHANGED <<file, ledger>>,
         checkpoint'.offset = checkpoint.offset,
         checkpoint.source # None /\ checkpoint'.source # None =>
           checkpoint.source.identity = checkpoint'.source.identity,
         \/ checkpoint'.rawFallback = checkpoint.rawFallback
         \/ /\ checkpoint.offset < Len(file.lines)
            /\ file.lines[checkpoint.offset + 1] \in UserLines
  PROVE  KeptOf(ledger', file', checkpoint')
<1> SUFFICES ASSUME checkpoint'.source # None, checkpoint'.source.identity = file.identity
             PROVE  KeptTo(ledger, file.identity, file.lines, Len(file.lines),
                           checkpoint.offset, checkpoint'.rawFallback)
  BY DEF KeptOf
<1>1. KeptTo(ledger, file.identity, file.lines, Len(file.lines), checkpoint.offset,
             checkpoint.rawFallback)
  BY KeptBefore
<1>2. Len(file.lines) \in Nat /\ checkpoint.offset \in Nat
  BY LenProperties DEF CursorInv, FileInv, Shape, TypeOK, File, Lines, Entry
<1> QED  BY <1>1, <1>2, KeptInMode

LEMMA SkipSaveAhead ==
  ASSUME CursorInv, CursorInv', LoadInv, Growth, PageInv, SkipInv, SaveAhead \/ ClearRaw
  PROVE  SkipInv'
<1>1. /\ pc \in {"ahead", "clearRaw"} /\ pc \in HoldsPage
      /\ pc' \in {"aheadSaved", "rawCleared"} /\ pc' \in HoldsPage \ {"ahead"}
      /\ UNCHANGED <<file, ledger, snap, seen>> /\ file.identity = snap.identity
  BY DEF SaveAhead, ClearRaw, Save, Goto, HoldsPage, PageCurrent, RangeCurrent, local
<1>2. /\ checkpoint.source # None => checkpoint.source.identity = seen.identity
      /\ checkpoint'.source.identity = seen.identity
  BY <1>1 DEF CursorInv, FileInv, SameFile
<1>3. CASE SaveAhead
  <2>1. /\ pc = "ahead"
        /\ checkpoint' = EntryAt(cur.offset, cur.turnIndex, InflightPage, cur.rawFallback)
    BY <1>3 DEF SaveAhead, Save
  <2>2. /\ checkpoint'.offset = checkpoint.offset
        /\ checkpoint'.rawFallback = checkpoint.rawFallback
    BY <2>1 DEF EntryAt, CursorInv, CursorUnmoved, Unmoved
  <2>3. KeptOf(ledger', file', checkpoint')
    BY <1>1, <1>2, <2>2, KeptAtOffset
  <2> QED  BY <1>1, <2>3, RunDropped DEF SkipInv
<1>4. CASE ClearRaw
  <2>1. /\ pc = "clearRaw" /\ latest \in Entry /\ cur.offset = checkpoint.offset
        /\ checkpoint' = [latest EXCEPT !.rawFallback = None]
        /\ latest.offset = checkpoint.offset
    BY <1>4
       DEF ClearRaw, CursorInv, CursorUnmoved, Unmoved, FileInv, Shape, TypeOK, LatestSaved
  <2>2. checkpoint'.offset = checkpoint.offset
    BY <2>1 DEF Entry
  <2>3. snap.lines[cur.offset + 1] \in UserLines
    BY <2>1 DEF SkipInv, RunKept
  <2>4. PICK k \in Nat, n \in Nat, a \in Nat, ls \in Lines, fl \in Lines :
          /\ k = PageEnd /\ n = Len(file.lines) /\ a = cur.offset /\ a = snap.from
          /\ ls = snap.lines /\ fl = file.lines
          /\ k = Len(ls) /\ n = Len(fl) /\ k <= n /\ a < k
          /\ \A i \in 1 .. k : fl[i] = ls[i]
    BY <1>1, PageLinesOfFile
  <2>5. a < n /\ fl[a + 1] \in UserLines
    <3>1. a + 1 \in 1 .. k
      BY <2>4
    <3> QED  BY <2>3, <2>4, <3>1
  <2>6. KeptOf(ledger', file', checkpoint')
    BY <1>1, <1>2, <2>1, <2>2, <2>4, <2>5, KeptAtOffset
  <2> QED  BY <1>1, <2>6, RunDropped DEF SkipInv
<1> QED  BY <1>3, <1>4

LEMMA SkipSaveTurn ==
  ASSUME CursorInv, CursorInv', LoadInv, Growth, SkipInv, SaveTurn
  PROVE  SkipInv'
<1>1. /\ pc = "turnDone" /\ pc \in HoldsPage /\ pc' = "turn" /\ Pending # {}
      /\ UNCHANGED <<file, ledger, snap>> /\ file.identity = snap.identity
      /\ checkpoint' = EntryAt(NextTurn.offset, next - 1, InflightPage, None)
  BY DEF SaveTurn, Save, Goto, HoldsPage, RangeCurrent, CursorInv, FileInv, Shape,
         CursorInPage
<1>2. /\ checkpoint.offset = at /\ checkpoint.rawFallback = None /\ cur.offset <= at
      /\ checkpoint.source # None => checkpoint.source.identity = file.identity
      /\ at \in Nat /\ file \in File /\ snap \in Snapshot /\ snap.from <= PageEnd
      /\ ReadFrom(file, snap)
  BY <1>1, HeldPage
     DEF CursorInv, CursorAtTurn, InTurns, FileInv, Shape, TypeOK, CursorInPage,
         HoldsCursor, HoldsPage
<1>3. PICK k \in Nat, n \in Nat, a \in Nat, ls \in Lines, fl \in Lines :
        /\ k = PageEnd /\ n = Len(file.lines) /\ a = cur.offset /\ a = snap.from
        /\ ls = snap.lines /\ fl = file.lines
        /\ k = Len(ls) /\ n = Len(fl) /\ k <= n /\ a < k
        /\ \A i \in 1 .. k : fl[i] = ls[i]
  BY <1>1, PageLinesOfFile
<1>4. PICK o \in Nat, id \in {file.identity} : o = at /\ id = file.identity /\ a <= o
  BY <1>2, <1>3
<1>5. KeptTo(ledger, id, fl, n, o, None)
  BY <1>2, <1>3, <1>4, KeptBefore
<1>6. /\ NextTurn \in Turns(ls, a, k) /\ NextTurn \in Pending
      /\ \A t \in Pending : NextTurn.offset <= t.offset
      /\ NextTurn.offset \in Nat /\ o < NextTurn.offset /\ NextTurn.offset <= k
  BY <1>1, <1>2, <1>3, <1>4, NextTurnIsPending, PendingInPage
<1>7. NextTurn \in Turns(fl, 0, n)
  BY <1>1, <1>2, <1>3, <1>6, PageTurns
<1>8. PICK p \in Nat, d \in Nat :
        /\ p = NextTurn.from + 1 /\ d = NextTurn.offset /\ NextTurn.from = p - 1
        /\ 0 < p /\ p < d /\ d <= n /\ Closes(fl, p, d, n)
        /\ NextTurn.lines = Slice(fl, p - 1, d)
  <2>1. 0 \in Nat /\ n <= Len(fl)
    BY <1>3
  <2>2. PICK t \in Turns(fl, 0, n) : t = NextTurn
    BY <1>7
  <2>3. /\ t = [from |-> t.from, offset |-> t.offset, lines |-> Slice(fl, t.from, t.offset)]
        /\ t.from \in Nat /\ t.offset \in Nat /\ t.from + 1 < t.offset /\ t.offset <= n
        /\ Closes(fl, t.from + 1, t.offset, n)
    BY <2>1, TurnFacts
  <2>4. t.lines = Slice(fl, t.from, t.offset) /\ t.from + 1 \in Nat
        /\ (t.from + 1) - 1 = t.from
    BY <2>3
  <2> QED  BY <2>2, <2>3, <2>4
<1>9. o < d /\ d <= k
  BY <1>6, <1>8
<1>10. Kept(ledger, id, fl, p, d)
  <2> SUFFICES ASSUME Accepted([lines |-> Slice(fl, p - 1, d)])
               PROVE  Whole(ledger, id, fl, p, d)
    BY DEF Kept
  <2>1. Accepted(NextTurn)
    BY <1>8 DEF Accepted
  <2> QED  BY <1>1, <1>4, <1>8, <2>1 DEF SkipInv, RunKept, TurnKept, Whole
<1>11. ASSUME NEW q \in Nat, NEW e \in Nat, o < q, q < e, e < d, Closes(fl, q, e, n)
       PROVE  FALSE
  <2>1. Closes(ls, q, e, k)
    <3>1. 0 < q /\ e <= k /\ e < k
      BY <1>9, <1>11
    <3> QED  BY <1>3, <1>11, <3>1, ClosesWithin
  <2>2. [from |-> q - 1, offset |-> e, lines |-> Slice(ls, q - 1, e)] \in Turns(ls, a, k)
    <3>1. a < q /\ e <= k
      BY <1>4, <1>9, <1>11
    <3> QED  BY <1>11, <2>1, <3>1, IsTurn
  <2>3. PICK t \in Turns(ls, a, k) : t.offset = e
    BY <2>2
  <2>4. t \in Pending
    BY <1>3, <1>4, <1>11, <2>3 DEF Pending
  <2>5. d <= e
    BY <1>6, <1>8, <2>3, <2>4
  <2> QED  BY <1>11, <2>5
<1>12. KeptTo(ledger, id, fl, n, d, None)
  <2>1. \A q, e \in Nat : o < q /\ q < e /\ e < d => ~Closes(fl, q, e, n)
    BY <1>11
  <2> QED  BY <1>5, <1>8, <1>9, <1>10, <2>1, KeptToTurn
<1>13. checkpoint'.offset = d /\ checkpoint'.rawFallback = None
  BY <1>1, <1>8 DEF EntryAt
<1>14. KeptOf(ledger', file', checkpoint')
  BY <1>1, <1>3, <1>4, <1>12, <1>13 DEF KeptOf
<1> QED  BY <1>1, <1>14, RunDropped DEF SkipInv

(* A page of a file leaves open what the file leaves open there.           *)
LEMMA NewOffsetOfPrefix ==
  ASSUME NEW ls, NEW fl, NEW a \in Nat, NEW k \in Nat, \A i \in 1 .. k : fl[i] = ls[i]
  PROVE  NewOffset(fl, a, k) = NewOffset(ls, a, k)
<1>1. ASSUME NEW q \in (a + 1) .. k
      PROVE  q \in OpenAt(fl, a, k) <=> q \in OpenAt(ls, a, k)
  <2>1. fl[q] = ls[q] /\ \A m \in (q + 1) .. k : fl[m] = ls[m]
    BY <1>1
  <2> QED  BY <2>1 DEF OpenAt
<1>2. OpenAt(fl, a, k) = OpenAt(ls, a, k)
  BY <1>1 DEF OpenAt
<1> QED  BY <1>2 DEF NewOffset

LEMMA SkipSavePage ==
  ASSUME CursorInv, CursorInv', LoadInv, Growth, SkipInv, SavePage
  PROVE  SkipInv'
<1>1. /\ pc = "page" /\ pc' = "pageSaved" /\ checkpoint' = PageEntry
      /\ UNCHANGED <<file, ledger, snap, cur>>
  BY DEF SavePage, Save, Goto
<1>2. CASE snap = None
  <2>1. /\ checkpoint.offset = cur.offset /\ checkpoint.rawFallback = cur.rawFallback
        /\ cur \in Entry
        /\ checkpoint.source # None => checkpoint.source.identity = seen.identity
    BY <1>1, <1>2
       DEF CursorInv, CursorUnmoved, Unmoved, FileInv, Shape, TypeOK, SameFile
  <2>2. /\ checkpoint'.offset = checkpoint.offset /\ checkpoint'.source = seen
        /\ checkpoint'.rawFallback = checkpoint.rawFallback
    BY <1>1, <1>2, <2>1 DEF PageEntry, Entry
  <2>3. KeptOf(ledger', file', checkpoint')
    BY <1>1, <2>1, <2>2, KeptAtOffset
  <2> QED  BY <1>1, <2>3, RunDropped DEF SkipInv
<1>3. CASE snap # None
  <2>1. file.identity = snap.identity
    BY <1>3 DEF SavePage, PageCurrent, RangeCurrent
  <2>2. /\ checkpoint.offset = at /\ checkpoint.rawFallback = None
        /\ checkpoint.source # None => checkpoint.source.identity = file.identity
        /\ at \in Nat /\ cur.rawFallback = None
        /\ \/ at = cur.offset
           \/ \E t \in Turns(snap.lines, snap.from, PageEnd) : at = t.offset
    BY <1>1, <1>3, <2>1, HeldPage
       DEF CursorInv, CursorAtTurn, InTurns, FileInv, Shape, TypeOK
  <2>3. PICK k \in Nat, n \in Nat, a \in Nat, ls \in Lines, fl \in Lines :
          /\ k = PageEnd /\ n = Len(file.lines) /\ a = cur.offset /\ a = snap.from
          /\ ls = snap.lines /\ fl = file.lines
          /\ k = Len(ls) /\ n = Len(fl) /\ k <= n /\ a < k
          /\ \A i \in 1 .. k : fl[i] = ls[i]
    BY <1>1, <1>3, <2>1, PageLinesOfFile
  <2>4. PICK o \in Nat, id \in {file.identity} : o = at /\ id = file.identity
    BY <2>2
  <2>5. KeptTo(ledger, id, fl, n, o, None)
    BY <2>2, <2>3, <2>4, KeptBefore
  <2>6. a <= o
    <3>1. ASSUME NEW t \in Turns(ls, a, k)  PROVE a <= t.offset
      <4>1. t.from \in Nat /\ t.offset \in Nat /\ a <= t.from /\ t.from + 1 < t.offset
        BY <2>3, TurnInRange
      <4> QED  BY <4>1
    <3> QED  BY <2>2, <2>3, <2>4, <3>1
  <2>7. ASSUME NEW q \in Nat, NEW e \in Nat, o < q, q < e, e <= k, Closes(fl, q, e, k)
        PROVE  FALSE
    <3>1. Closes(ls, q, e, k)
      <4>1. 0 < q /\ k <= k /\ \A i \in 1 .. k : ls[i] = fl[i]
        BY <2>3, <2>7
      <4> QED  BY <2>7, <4>1, ClosesFurther
    <3>2. [from |-> q - 1, offset |-> e, lines |-> Slice(ls, q - 1, e)] \in Turns(ls, a, k)
      <4>1. a < q
        BY <2>6, <2>7
      <4> QED  BY <2>7, <3>1, <4>1, IsTurn
    <3>3. PICK t \in Turns(ls, a, k) : t.offset = e
      BY <3>2
    <3>4. t \in Pending
      BY <2>3, <2>4, <2>7, <3>3 DEF Pending
    <3> QED  BY <1>1, <1>3, <3>4 DEF SkipInv, RunKept
  <2>8. PICK d \in Nat : d = NewOffset(ls, a, k) /\ d <= k
    <3>1. NewOffset(ls, a, k) \in a .. k
      BY <2>3, NewOffsetInRange
    <3> QED  BY <3>1
  <2>9. /\ checkpoint'.offset = d /\ checkpoint'.rawFallback = None
    BY <1>1, <1>3, <2>2, <2>3, <2>8 DEF PageEntry, EntryAt
  <2>10. o <= d
    BY <1>1, <2>2, <2>4, <2>9, PageEntryFacts
  <2>11. KeptTo(ledger, id, fl, n, d, None)
    <3>1. d = NewOffset(fl, a, k)
      BY <2>3, <2>8, NewOffsetOfPrefix
    <3>2. \A q, e \in Nat : o < q /\ q < e /\ e <= k => ~Closes(fl, q, e, k)
      BY <2>7
    <3> QED  BY <2>3, <2>5, <2>6, <2>8, <2>10, <3>1, <3>2, KeptToPage
  <2>12. KeptOf(ledger', file', checkpoint')
    BY <1>1, <2>3, <2>4, <2>9, <2>11 DEF KeptOf
  <2> QED  BY <1>1, <2>12, RunDropped DEF SkipInv
<1> QED  BY <1>2, <1>3

(* Raw mode stops short of the page end only where a user line follows.    *)
LEMMA RawEndsAtUser ==
  ASSUME RawThrough # PageEnd
  PROVE  snap.lines[RawThrough + 1] \in UserLines
<1> DEFINE later == { o \in UserOffsets(snap.lines, snap.from, PageEnd) :
                       o > cur.offset /\ FirstUserAt(o) }
<1>1. RawThrough = (CHOOSE o \in later : TRUE) /\ later # {}
  BY DEF RawThrough
<1>2. RawThrough \in later
  BY <1>1
<1> HIDE DEF later
<1>3. RawThrough \in UserOffsets(snap.lines, snap.from, PageEnd)
  BY <1>2 DEF later
<1> QED  BY <1>3 DEF UserOffsets

LEMMA SkipSaveRaw ==
  ASSUME CursorInv, CursorInv', LoadInv, Growth, SkipInv, SaveRaw
  PROVE  SkipInv'
<1> DEFINE after == IF RawThrough < PageEnd THEN None
                    ELSE [Fallback EXCEPT !.next = next]
<1>1. /\ pc = "raw" /\ pc \in HoldsPage /\ pc' = "rawSaved" /\ at = RawThrough
      /\ UNCHANGED <<file, ledger, snap, cur>>
      /\ checkpoint' = EntryAt(RawThrough, cur.turnIndex, None, after)
  BY DEF SaveRaw, Save, Goto, HoldsPage
<1>2. /\ cur \in Entry /\ cur.offset \in Nat /\ cur.generation \in Nat /\ next \in Nat
      /\ cur.rawFallback \in RawFallback \cup {None}
      /\ checkpoint.offset = cur.offset
      /\ checkpoint.source # None => checkpoint.source.identity = snap.identity
      /\ RawThrough \in Nat /\ cur.offset < RawThrough /\ RawThrough <= PageEnd
      /\ PageEnd \in Nat
  BY <1>1, HeldPage, PageFacts, RawThroughInPage
     DEF CursorInv, CursorUnmoved, Unmoved, FileInv, Shape, CursorInPage
<1>3. RawThrough < PageEnd \/ after # None
  <2>1. Fallback \in RawFallback
    <3>1. CASE cur.rawFallback = None
      BY <1>2, <3>1 DEF Fallback, RawFallback
    <3>2. CASE cur.rawFallback # None
      BY <1>2, <3>2 DEF Fallback
    <3> QED  BY <3>1, <3>2
  <2>2. [Fallback EXCEPT !.next = next] \in RawFallback
    BY <1>2, <2>1 DEF RawFallback
  <2> QED  BY <1>2, <2>2, NoneIsNoRecord
<1>4. /\ checkpoint'.offset = RawThrough /\ checkpoint'.rawFallback = after
      /\ checkpoint'.source.identity = snap.identity
  BY <1>1 DEF EntryAt, SourceAt
<1> HIDE DEF after
<1>5. ASSUME snap.identity = file.identity
      PROVE  KeptTo(ledger, file.identity, file.lines, Len(file.lines), RawThrough, after)
  <2>1. PICK k \in Nat, n \in Nat, a \in Nat, ls \in Lines, fl \in Lines :
          /\ k = PageEnd /\ n = Len(file.lines) /\ a = cur.offset /\ a = snap.from
          /\ ls = snap.lines /\ fl = file.lines
          /\ k = Len(ls) /\ n = Len(fl) /\ k <= n /\ a < k
          /\ \A i \in 1 .. k : fl[i] = ls[i]
    BY <1>1, <1>5, PageLinesOfFile
  <2>2. PICK d \in Nat, id \in {file.identity}, raw \in {checkpoint.rawFallback} :
          d = RawThrough /\ id = file.identity /\ raw = checkpoint.rawFallback
    BY <1>2
  <2>3. KeptTo(ledger, id, fl, n, a, raw)
    BY <1>2, <1>5, <2>1, <2>2, KeptBefore
  <2>4. a < d /\ d <= k /\ d <= n
    BY <1>2, <2>1, <2>2
  <2>5. InPieces(ledger, id, fl, a + 1, d)
    <3>1. InPieces(ledger, id, ls, a + 1, d)
      BY <1>1, <1>5, <2>1, <2>2 DEF SkipInv, RunKept, FragmentsKept
    <3>2. \A i \in (a + 1) .. d : fl[i] = ls[i]
      BY <2>1, <2>4
    <3> QED  BY <3>1, <3>2 DEF InPieces
  <2>6. after # None \/ (d < n /\ fl[d + 1] \in UserLines)
    <3> SUFFICES ASSUME after = None PROVE d < n /\ fl[d + 1] \in UserLines
      OBVIOUS
    <3>1. d < k /\ ls[d + 1] \in UserLines
      BY <1>2, <1>3, <2>1, <2>2, RawEndsAtUser
    <3>2. d + 1 \in 1 .. k /\ d < n
      BY <2>1, <3>1
    <3> QED  BY <2>1, <3>1, <3>2
  <2>7. KeptTo(ledger, id, fl, n, d, after)
    BY <2>3, <2>4, <2>5, <2>6, KeptToFragments
  <2> QED  BY <2>1, <2>2, <2>7
<1>6. KeptOf(ledger', file', checkpoint')
  BY <1>1, <1>4, <1>5 DEF KeptOf
<1> QED  BY <1>1, <1>6, RunDropped DEF SkipInv

LEMMA SkipWriter ==
  ASSUME CursorInv, LoadInv, Growth, SkipInv, Writer \/ CatchUnstable,
         rewrites = 0, rewrites' = 0
  PROVE  SkipInv'
<1>1. WriterStep /\ UNCHANGED <<checkpoint, ledger>>
  BY DEF Writer, CatchUnstable, durable
<1>2. /\ file \in File /\ file' \in File /\ Grown(file, file')
      /\ file.identity \in Nat /\ file'.identity \in Nat /\ checkpoint \in Entry
      /\ checkpoint.source # None => /\ checkpoint.source.identity <= file.identity
                                     /\ checkpoint.source.identity \in Nat
  BY <1>1, GrowthFacts, WriterGrows, WriterStepType
     DEF CursorInv, FileInv, Shape, TypeOK, File, Entry, Source
<1>3. KeptOf(ledger, file', checkpoint)
  <2> SUFFICES ASSUME checkpoint.source # None,
                      checkpoint.source.identity = file'.identity
               PROVE  KeptTo(ledger, file'.identity, file'.lines, Len(file'.lines),
                             checkpoint.offset, checkpoint.rawFallback)
    BY DEF KeptOf
  <2>1. checkpoint.source.identity = file.identity /\ file'.identity = file.identity
    BY <1>2 DEF Grown
  <2>2. PICK l \in Line : file'.lines = Append(file.lines, l)
    BY <1>2, <2>1 DEF Grown
  <2>3. PICK ls \in Lines, more \in Lines : ls = file.lines /\ more = file'.lines
    BY <1>2 DEF File
  <2>4. PICK n \in Nat, m \in Nat :
          /\ n = Len(ls) /\ m = Len(more) /\ n <= m
          /\ \A i \in 1 .. n : more[i] = ls[i]
    BY <2>2, <2>3, AppendFacts
  <2>5. PICK o \in Nat, raw \in {checkpoint.rawFallback}, id \in {file.identity} :
          o = checkpoint.offset /\ raw = checkpoint.rawFallback /\ id = file.identity
    BY <1>2 DEF Entry
  <2>6. o <= n
    BY <2>1, <2>3, <2>4, <2>5 DEF Growth, EntryHolds, SourceHolds
  <2>7. KeptTo(ledger, id, ls, n, o, raw)
    BY <2>1, <2>3, <2>4, <2>5 DEF SkipInv, KeptOf
  <2>8. KeptTo(ledger, id, more, m, o, raw)
    BY <2>4, <2>6, <2>7, KeptAsFileGrows
  <2> QED  BY <2>1, <2>3, <2>4, <2>5, <2>8
<1>4. CASE CatchUnstable
  <2>1. pc' = "idle"
    BY <1>4 DEF CatchUnstable, Rest
  <2> QED  BY <1>1, <1>3, <2>1, RunDropped DEF SkipInv
<1>5. CASE Writer
  <2>1. /\ UNCHANGED <<pc, snap, at, cur>> /\ Pending' = Pending /\ NextTurn' = NextTurn
        /\ FragmentEnd' = FragmentEnd
    BY <1>5, SamePage DEF Writer, local, FragmentEnd
  <2> QED  BY <1>1, <1>3, <2>1 DEF SkipInv, RunKept, TurnKept, FragmentsKept
<1> QED  BY <1>4, <1>5

LEMMA SkipNext ==
  ASSUME CursorInv, LoadInv, PageInv, Growth, LedgerShape, SkipInv, [Next]_vars,
         rewrites' = 0
  PROVE  SkipInv'
<1>1. rewrites = 0 /\ CursorInv'
  BY RewritesCounted, CheckpointNext
<1> QED
  BY <1>1, SkipStart, SkipReadOnly, SkipAppendTurn, SkipAppendFragment, SkipSaveAhead,
     SkipSaveTurn, SkipSavePage, SkipSaveRaw, SkipWriter
     DEF Next, Handler

LEMMA KeptMeansCaptured ==
  ASSUME CursorInv, LoadInv, Growth, SkipInv, checkpoint.source # None,
         ~Replaced(checkpoint), NEW t \in Turns(file.lines, 0, checkpoint.offset),
         Accepted(t)
  PROVE  HeldWhole(t) \/ HeldInFragments(t)
<1>1. PICK n \in Nat, o \in Nat, fl \in Lines, id \in {file.identity} :
        /\ n = Len(file.lines) /\ o = checkpoint.offset /\ fl = file.lines
        /\ id = file.identity
  BY LenProperties DEF CursorInv, FileInv, Shape, TypeOK, File, Lines, Entry
<1>2. checkpoint.source.identity = file.identity
  BY DEF Replaced
<1>3. o <= n
  BY <1>1, <1>2, GrowthFacts DEF EntryHolds, SourceHolds
<1>4. PICK raw : KeptTo(ledger, id, fl, n, o, raw)
  BY <1>1, <1>2 DEF SkipInv, KeptOf
<1>5. t \in Turns(fl, 0, o)
  BY <1>1
<1>6. /\ t = [from |-> t.from, offset |-> t.offset, lines |-> Slice(fl, t.from, t.offset)]
      /\ t.from \in Nat /\ t.offset \in Nat /\ t.from + 1 < t.offset /\ t.offset <= o
      /\ Closes(fl, t.from + 1, t.offset, o)
  <2>1. 0 \in Nat /\ o <= Len(fl)
    BY <1>1, <1>3
  <2> QED  BY <1>5, <2>1, TurnFacts
<1>7. PICK q \in Nat, e \in Nat :
        /\ q = t.from + 1 /\ e = t.offset /\ t.from = q - 1 /\ 0 < q /\ q < e /\ e <= o
        /\ Closes(fl, q, e, o) /\ t.lines = Slice(fl, q - 1, e)
  <2>1. t.from + 1 \in Nat /\ (t.from + 1) - 1 = t.from
        /\ t.lines = Slice(fl, t.from, t.offset)
    BY <1>6
  <2> QED  BY <1>6, <2>1
<1>8. Closes(fl, q, e, n)
  <2>1. PICK gl : gl = fl
    OBVIOUS
  <2>2. (\A i \in 1 .. o : fl[i] = gl[i]) /\ Closes(gl, q, e, o)
    BY <1>7, <2>1
  <2> QED  BY <1>3, <1>7, <2>2, ClosesFurther
<1>9. Kept(ledger, id, fl, q, e)
  <2>1. q \in 1 .. n /\ e \in 1 .. n
    BY <1>3, <1>7
  <2> QED  BY <1>4, <1>7, <1>8, <2>1 DEF KeptTo, Passed
<1>10. Accepted([lines |-> Slice(fl, q - 1, e)])
  BY <1>7 DEF Accepted
<1>11. CASE Whole(ledger, id, fl, q, e)
  BY <1>1, <1>7, <1>11 DEF Whole, HeldWhole
<1>12. CASE InPieces(ledger, id, fl, q, e)
  BY <1>1, <1>7, <1>12 DEF InPieces, HeldInFragments
<1> QED  BY <1>9, <1>10, <1>11, <1>12 DEF Kept

(* No turn is lost: as long as the file at the path is only appended to or *)
(* replaced, every accepted turn the durable offset of handleJsonlChange   *)
(* has passed is in the ledger, whole or in raw fragments, for any page    *)
(* and fragment size and wherever runs were cut off.                       *)
THEOREM NoTurnSkipped == Spec => []NothingSkipped
<1> DEFINE I == /\ CursorInv /\ LoadInv /\ PageInv /\ Unrewritten
                /\ rewrites = 0 => SkipInv
<1>1. Init => I
  BY CheckpointInit, PageInvInit, GrowthInit, LedgerShapeInit, SkipInit DEF Unrewritten
<1>2. I /\ [Next]_vars => I'
  <2> SUFFICES ASSUME I, [Next]_vars PROVE I'
    OBVIOUS
  <2>1. (CursorInv /\ LoadInv /\ PageInv)'
    BY CheckpointNext, PageInvNext
  <2>2. ASSUME rewrites' = 0  PROVE Growth' /\ LedgerShape' /\ SkipInv'
    <3>1. Growth /\ LedgerShape /\ SkipInv
      BY <2>2, RewritesCounted DEF Unrewritten
    <3> QED  BY <2>2, <3>1, GrowthNext, LedgerShapeNext, SkipNext
  <2> QED  BY <2>1, <2>2 DEF Unrewritten
<1>3. I => NothingSkipped
  BY KeptMeansCaptured DEF Unrewritten, NothingSkipped
<1> QED  BY <1>1, <1>2, <1>3, PTL DEF Spec

-----------------------------------------------------------------------------
(* Step by step the handler is the log that JsonlCaptureLog maps it to.    *)

OnlyTurns == \A x \in ledger : ~x.raw

LEMMA DueIsAccepted ==
  Log!Due = { t \in Turns(file.lines, 0, Len(file.lines)) : Accepted(t) }
BY DEF Log!Due, Log!Turns, Turns, Log!Slice, Slice, Log!Closes, Closes, Log!Opens, Opens,
       Log!Accepted, Accepted

LEMMA LogLine == Log!Line = Line
BY DEF Log!Line, Line

LEMMA LogInit == Init => Log!Init
BY DEF Init, Log!Init, Delivered

(* The log moves on only if the file or what is delivered of it does.      *)
LEMMA LogStutters ==
  ASSUME UNCHANGED <<file, ledger>>
  PROVE  UNCHANGED <<file.lines, Delivered>>
BY DEF Delivered

(* The file that is there grows by a line, or the first of another one is  *)
(* due next.                                                               *)
LEMMA LogWriter ==
  ASSUME CursorInv, LedgerShape, AppendLine \/ Replace, UNCHANGED ledger
  PROVE  Log!Extend \/ Log!Replace
<1>1. /\ file \in File /\ ledger \subseteq Event
      /\ checkpoint.source # None =>
           checkpoint.source.identity \in Nat /\ checkpoint.source.identity <= file.identity
      /\ \A x \in ledger : /\ checkpoint.source # None
                           /\ x.identity <= checkpoint.source.identity
  BY DEF CursorInv, FileInv, Shape, IdentityOrder, TypeOK, Entry, Source, LedgerShape,
         Ordered
<1>2. CASE AppendLine
  <2>1. PICK l \in Line : file'.lines = Append(file.lines, l) /\ file'.identity = file.identity
    BY <1>2 DEF AppendLine, Write
  <2>2. Delivered' = Delivered
    BY <2>1 DEF Delivered
  <2> QED  BY <2>1, <2>2, LogLine DEF Log!Extend
<1>3. CASE Replace
  <2>1. file'.lines \in Contents /\ file'.identity = file.identity + 1
    BY <1>3 DEF Replace, Write
  <2>2. ASSUME NEW x \in ledger  PROVE x.identity # file'.identity
    <3>1. x.identity \in Nat /\ file.identity \in Nat /\ x.identity <= file.identity
      BY <1>1 DEF Event, File
    <3> QED  BY <2>1, <3>1
  <2>3. Delivered' = {}
    BY <2>2 DEF Delivered
  <2> QED  BY <2>1, <2>3 DEF Log!Replace
<1> QED  BY <1>2, <1>3

(* Every turn that ends before the next one of the page is kept.           *)
LEMMA KeptBeforeNext ==
  ASSUME CursorInv, LoadInv, Growth, SkipInv, pc = "turn", Pending # {},
         file.identity = snap.identity,
         NEW q \in Nat, NEW e \in Nat, 0 < q, q < e, e < NextTurn.offset,
         Closes(file.lines, q, e, Len(file.lines))
  PROVE  Kept(ledger, file.identity, file.lines, q, e)
<1>1. /\ checkpoint.offset = at /\ checkpoint.rawFallback = None /\ cur.offset <= at
      /\ checkpoint.source # None => checkpoint.source.identity = file.identity
      /\ at \in Nat /\ file \in File /\ snap \in Snapshot /\ snap.from <= PageEnd
      /\ ReadFrom(file, snap)
  BY HeldPage
     DEF CursorInv, CursorAtTurn, InTurns, FileInv, Shape, TypeOK, CursorInPage,
         HoldsCursor, HoldsPage, SameFile
<1>2. PICK k \in Nat, n \in Nat, a \in Nat, ls \in Lines, fl \in Lines :
        /\ k = PageEnd /\ n = Len(file.lines) /\ a = cur.offset /\ a = snap.from
        /\ ls = snap.lines /\ fl = file.lines
        /\ k = Len(ls) /\ n = Len(fl) /\ k <= n /\ a < k
        /\ \A i \in 1 .. k : fl[i] = ls[i]
  BY <1>1, PageLinesOfFile DEF HoldsPage
<1>3. PICK o \in Nat, id \in {file.identity} : o = at /\ id = file.identity /\ a <= o
  BY <1>1, <1>2
<1>4. KeptTo(ledger, id, fl, n, o, None)
  BY <1>1, <1>2, <1>3, KeptBefore
<1>5. PICK d \in Nat : /\ d = NextTurn.offset /\ d <= k /\ e < d
                       /\ \A t \in Pending : d <= t.offset
  BY <1>1, <1>2, NextTurnIsPending, PendingInPage
<1>6. Closes(fl, q, e, n) /\ e <= n /\ q \in 1 .. n /\ e \in 1 .. n
  BY <1>2, <1>5
<1>7. CASE e <= o
  BY <1>2, <1>3, <1>4, <1>6, <1>7 DEF KeptTo, Passed
<1>8. CASE o < e /\ q <= o
  <2>1. Opens(fl, q, e)
    BY <1>6 DEF Closes
  <2>2. None # None
    BY <1>4, <1>8, <2>1, OpenTurn DEF KeptTo
  <2> QED  BY <2>2
<1>9. CASE o < q
  <2>1. Closes(ls, q, e, k)
    <3>1. e < k
      BY <1>5
    <3>2. e <= k /\ k <= n /\ \A i \in 1 .. k : fl[i] = ls[i]
      BY <1>2, <3>1
    <3> QED  BY <1>6, <3>1, <3>2, ClosesWithin
  <2>2. [from |-> q - 1, offset |-> e, lines |-> Slice(ls, q - 1, e)] \in Turns(ls, a, k)
    <3>1. a < q /\ e <= k
      BY <1>3, <1>5, <1>9
    <3> QED  BY <2>1, <3>1, IsTurn
  <2>3. PICK t \in Turns(ls, a, k) : t.offset = e
    BY <2>2
  <2>4. o < e
    BY <1>9
  <2>5. t \in Pending
    BY <1>2, <1>3, <2>3, <2>4 DEF Pending
  <2> QED  BY <1>5, <2>3, <2>5
<1> QED  BY <1>7, <1>8, <1>9

(* What is captured whole of the file at the path is delivered.            *)
LEMMA KeptIsDelivered ==
  ASSUME OnlyTurns, file \in File, LedgerShape,
         NEW t \in Turns(file.lines, 0, Len(file.lines)), Accepted(t),
         NEW q, NEW e, q = t.from + 1, e = t.offset,
         Kept(ledger, file.identity, file.lines, q, e)
  PROVE  t \in Delivered
<1>1. PICK n \in Nat, fl \in Lines : n = Len(file.lines) /\ fl = file.lines
  BY LenProperties DEF File, Lines
<1>2. /\ t = [from |-> t.from, offset |-> t.offset, lines |-> Slice(fl, t.from, t.offset)]
      /\ t.from \in Nat /\ t.offset \in Nat /\ t.from + 1 < t.offset
  <2>1. t \in Turns(fl, 0, n) /\ 0 \in Nat /\ n <= Len(fl)
    BY <1>1
  <2> QED  BY <2>1, TurnFacts
<1>3. q \in Nat /\ e \in Nat /\ q - 1 = t.from /\ q < e
  BY <1>2
<1>4. t.lines = Slice(fl, q - 1, e)
  BY <1>2, <1>3
<1>5. Accepted([lines |-> Slice(fl, q - 1, e)])
  BY <1>4 DEF Accepted
<1>6. ~InPieces(ledger, file.identity, fl, q, e)
  <2>1. q \in q .. e
    BY <1>3
  <2> QED  BY <2>1 DEF InPieces, OnlyTurns
<1>7. PICK x \in ledger : /\ ~x.raw /\ x.identity = file.identity /\ x.from = t.from
                          /\ x.lines = t.lines
  BY <1>1, <1>3, <1>4, <1>5, <1>6 DEF Kept, Whole
<1>8. TurnOf(x) \in Turns(fl, 0, n)
  BY <1>1, <1>7 DEF LedgerShape, HoldsTurns
<1>9. TurnOf(x) = t
  <2>1. 0 \in Nat /\ n <= Len(fl) /\ t \in Turns(fl, 0, n)
    BY <1>1
  <2>2. /\ TurnOf(x).from = t.from /\ TurnOf(x).offset \in Nat
        /\ TurnOf(x).from + 1 < TurnOf(x).offset
    BY <1>7, <1>8, <2>1, TurnFacts DEF TurnOf
  <2>3. \/ TurnOf(x) = t
        \/ TurnOf(x).offset <= t.from \/ t.offset <= TurnOf(x).from
    BY <1>8, <2>1, TurnsDisjoint
  <2> QED  BY <1>2, <2>2, <2>3
<1> QED  BY <1>7, <1>9 DEF Delivered, TurnOf

(* A turn is appended when all that are due before it are delivered.       *)
LEMMA LogAppend ==
  ASSUME CursorInv, LoadInv, Growth, LedgerShape, SkipInv, OnlyTurns, AppendTurn
  PROVE  [Log!Deliver]_<<file.lines, Delivered>>
<1>1. /\ pc = "turn" /\ pc \in HoldsPage /\ Pending # {} /\ file' = file
      /\ file.identity = snap.identity
      /\ Accepted(NextTurn) => Record(TurnEvent(NextTurn))
      /\ ~Accepted(NextTurn) => ledger' = ledger
  BY DEF AppendTurn, HoldsPage, RangeCurrent
<1>2. /\ file \in File /\ snap \in Snapshot /\ snap.from <= PageEnd
      /\ ReadFrom(file, snap)
  BY <1>1, HeldPage DEF CursorInv, FileInv
<1>3. PICK t \in Turns(file.lines, 0, Len(file.lines)) : t = NextTurn
  BY <1>1, <1>2, NextTurnIsPending, PendingInPage, PageTurns
<1>4. CASE ledger' = ledger
  BY <1>1, <1>4, LogStutters
<1>5. CASE ledger' # ledger
  <2> DEFINE x == TurnEvent(NextTurn)
  <2>1. ledger' = ledger \cup {x} /\ Accepted(t)
    BY <1>1, <1>3, <1>5 DEF Record
  <2>2. ~x.raw /\ x.identity = file.identity /\ TurnOf(x) = t
    <3>1. t = [from |-> t.from, offset |-> t.offset, lines |-> t.lines]
      BY DEF Turns
    <3> QED  BY <1>1, <1>3, <3>1 DEF TurnEvent, TurnOf
  <2> HIDE DEF x
  <2>3. Delivered' = Delivered \cup {t}
    BY <1>1, <2>1, <2>2 DEF Delivered, TurnOf
  <2>4. t \in Log!Due
    BY <2>1, DueIsAccepted
  <2>5. ASSUME NEW s \in Log!Due, s.offset < t.offset
        PROVE  s \in Delivered
    <3>1. s \in Turns(file.lines, 0, Len(file.lines)) /\ Accepted(s)
      BY DueIsAccepted
    <3>2. /\ s.from \in Nat /\ s.offset \in Nat /\ s.from + 1 < s.offset
          /\ Closes(file.lines, s.from + 1, s.offset, Len(file.lines))
      <4>1. PICK n \in Nat, fl \in Lines : n = Len(file.lines) /\ fl = file.lines
        BY <1>2, LenProperties DEF File, Lines
      <4>2. s \in Turns(fl, 0, n) /\ 0 \in Nat /\ n <= Len(fl)
        BY <3>1, <4>1
      <4> QED  BY <4>1, <4>2, TurnFacts
    <3>3. PICK q \in Nat, e \in Nat :
            q = s.from + 1 /\ e = s.offset /\ 0 < q /\ q < e /\ e < NextTurn.offset
      BY <1>3, <2>5, <3>2
    <3>4. Kept(ledger, file.identity, file.lines, q, e)
      BY <1>1, <3>2, <3>3, KeptBeforeNext
    <3> QED  BY <1>2, <3>1, <3>3, <3>4, KeptIsDelivered
  <2>6. CASE t \in Delivered
    BY <1>1, <2>3, <2>6
  <2>7. CASE t \notin Delivered
    BY <1>1, <2>3, <2>4, <2>5, <2>7 DEF Log!Deliver
  <2> QED  BY <2>6, <2>7
<1> QED  BY <1>4, <1>5

LEMMA LogStep ==
  ASSUME CursorInv, LoadInv, Growth, LedgerShape, SkipInv, OnlyTurns, [Next]_vars,
         rewrites = 0, rewrites' = 0, pc # "raw"
  PROVE  [Log!Next]_<<file.lines, Delivered>>
<1>1. CASE AppendTurn
  BY <1>1, LogAppend DEF Log!Next
<1>2. CASE Writer \/ CatchUnstable
  <2>1. UNCHANGED ledger /\ WriterStep
    BY <1>2 DEF Writer, CatchUnstable, durable
  <2>2. AppendLine \/ Replace
    BY <2>1 DEF WriterStep, RewriteLine, Truncate
  <2> QED  BY <2>1, <2>2, LogWriter DEF Log!Next
<1>3. CASE UNCHANGED vars \/ Abort \/ (Handler /\ ~AppendTurn)
  <2>1. UNCHANGED <<file, ledger>>
    BY <1>3
       DEF Handler, Resume, Reset, ReadTail, CheckBoundary, SaveAhead, VerifyAhead, ClearRaw,
           VerifyClear, SaveTurn, CheckBoundaryAgain, SavePage, Finish, AppendFragment,
           VerifyFragment, SaveRaw, FinishRaw, ProofFails, Caught, CatchTransient,
           CatchAtDurable, CatchChanged, Rewind, Abort, Save, durable, vars
  <2> QED  BY <2>1, LogStutters
<1> QED  BY <1>1, <1>2, <1>3 DEF Next

LEMMA OnlyTurnsKept ==
  ASSUME OnlyTurns, [Next]_vars, pc # "raw"
  PROVE  OnlyTurns'
<1>1. \A x \in ledger' : x \in ledger \/ ~x.raw
  <2>1. CASE AppendTurn
    BY <2>1 DEF AppendTurn, Record, TurnEvent
  <2>2. CASE ~AppendTurn
    <3>1. UNCHANGED ledger
      BY <2>2
         DEF Next, Handler, Resume, Reset, ReadTail, CheckBoundary, SaveAhead, VerifyAhead,
             ClearRaw, VerifyClear, SaveTurn, CheckBoundaryAgain, SavePage, Finish,
             AppendFragment, VerifyFragment, SaveRaw, FinishRaw, ProofFails, Caught,
             CatchTransient, CatchAtDurable, CatchChanged, Rewind, Abort, Save, Writer,
             CatchUnstable, durable, vars
    <3> QED  BY <3>1
  <2> QED  BY <2>1, <2>2
<1> QED  BY <1>1 DEF OnlyTurns

(* Nothing is rewritten, and no cluster outgrows a page.                   *)
Orderly == rewrites = 0 /\ pc # "raw"

(* Durable capture keeps the order of the file: as long as the transcript  *)
(* is only appended to or replaced and no cluster goes into raw mode,      *)
(* every step of handleJsonlChange either is invisible in the ledger or    *)
(* delivers the first turn of the file that is due and not yet delivered,  *)
(* for any page size and wherever runs are cut off.                        *)
THEOREM DeliversInOrder ==
  Spec /\ []Orderly => Log!Init /\ [][Log!Next]_<<file.lines, Delivered>>
<1> DEFINE I == /\ CursorInv /\ LoadInv /\ PageInv /\ Unrewritten
                /\ rewrites = 0 => SkipInv
                /\ OnlyTurns
<1>1. Init => I /\ Log!Init
  BY CheckpointInit, PageInvInit, GrowthInit, LedgerShapeInit, SkipInit, LogInit
     DEF Unrewritten, OnlyTurns, Init
<1>2. I /\ Orderly /\ Orderly' /\ [Next]_vars
        => I' /\ [Log!Next]_<<file.lines, Delivered>>
  <2> SUFFICES ASSUME I, Orderly, Orderly', [Next]_vars
               PROVE  I' /\ [Log!Next]_<<file.lines, Delivered>>
    OBVIOUS
  <2>1. rewrites = 0 /\ rewrites' = 0 /\ pc # "raw"
    BY DEF Orderly
  <2>2. Growth /\ LedgerShape /\ SkipInv
    BY <2>1 DEF Unrewritten
  <2>3. (CursorInv /\ LoadInv /\ PageInv)'
    BY CheckpointNext, PageInvNext
  <2>4. Growth' /\ LedgerShape' /\ SkipInv'
    BY <2>1, <2>2, GrowthNext, LedgerShapeNext, SkipNext
  <2>5. OnlyTurns'
    BY <2>1, OnlyTurnsKept
  <2>6. [Log!Next]_<<file.lines, Delivered>>
    BY <2>1, <2>2, LogStep
  <2> QED  BY <2>3, <2>4, <2>5, <2>6 DEF Unrewritten
<1> QED  BY <1>1, <1>2, PTL DEF Spec

=============================================================================
