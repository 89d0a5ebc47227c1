----------------------------- MODULE CodexCapture -----------------------------
(* The handler of the Codex extractor (startCodexExtractor): reads of at    *)
(* most a page that start where the last checkpoint ended, while the        *)
(* rollout grows, is rewritten in its last page or replaced, and a read may *)
(* end after any append or save. What the proofs of a page detect is        *)
(* modelled step by step in JsonlCapture; here a change is found by the     *)
(* next run, and the question is what the parser has to know to go on.     *)
EXTENDS CodexRollout

CONSTANTS
  Headers,     \* first lines of a rollout
  Lines,       \* the lines that follow
  PageSizes,   \* MAX_JSONL_READ_BYTES, in lines: what fits depends on their length
  MaxLines,    \* bound: lines of a rollout, one less for every fault
  MaxRewrites, \* bound: changes of what was written
  MaxAborts    \* bound: reads that fail

ASSUME CodexAssumption ==
  /\ PageSizes \subseteq Nat \ {0} /\ MaxLines \in Nat
  /\ MaxRewrites \in Nat /\ MaxAborts \in Nat

ASSUME NoneAssumption == None \notin {"unknown", "root", "subagent"}

(* What parseLine makes of a line.                                          *)
LineKinds == {"malformed", "header", "marker", "context", "call", "output",
              "complete", "other", "assistant", "user", "agent"}

ASSUME LinesAssumption == \A l \in Headers \cup Lines : l.line \in LineKinds

VARIABLES
  file,      \* the rollout
  cp,        \* the checkpoint: the offset and what is in force there (cwd,
             \* thread), the start of a raw group, the start of the last page
             \* and the source generation
  captured,  \* the turns appended in this generation
  fragments, \* lines captured as raw fragments in this generation
  start,     \* where this generation began
  seen,      \* lines of the file that have been read in this generation
  change,    \* what has become of the lines that were read: "none", rewritten
             \* behind the cursor ("page"), gone beyond it ("tail"), "replaced"
  rewrites, aborts,
  pageLines  \* lines of a page

vars == <<file, cp, captured, fragments, start, seen, change, rewrites, aborts, pageLines>>

Known(at, cwd, thread, raw) == [at |-> at, cwd |-> cwd, thread |-> thread, raw |-> raw]

(* codexPageStart                                                           *)
PageStart == Known(cp.at, cp.cwd, cp.thread, cp.raw)

Checkpoint(known, page, generation) ==
  [at |-> known.at, cwd |-> known.cwd, thread |-> known.thread, raw |-> known.raw,
   page |-> page, generation |-> generation]

Fresh == Checkpoint(Known(0, None, NoThread, None), None, 0)

(* A checkpoint of an older extractor knows no lineage, and its cwd may be  *)
(* that of a copied header.                                                 *)
Legacy(cwd) == Checkpoint(Known(1, cwd, NoThread, None), None, 0)

Init ==
  /\ file \in {<<h>> : h \in Headers}
  /\ cp \in {Fresh, Legacy("old")}
  /\ captured = {} /\ fragments = {} /\ start = 0 /\ seen = cp.at
  /\ change = "none" /\ rewrites = 0 /\ aborts = 0
  /\ pageLines \in PageSizes

--------------------------------------------------------------------------------
(* The writer of the rollout. Headers come before all other lines, those    *)
(* that are copied from an ancestor too.                                    *)

HeaderMayBe(i) == \A j \in 1..(i - 1) : file[j].line = "header"

Room == Len(file) + rewrites + aborts < MaxLines

Write ==
  /\ Room
  /\ \E l \in Lines :
       /\ l.line = "header" => HeaderMayBe(Len(file) + 1)
       /\ file' = Append(file, l)
  /\ UNCHANGED <<cp, captured, fragments, start, seen, change, rewrites, aborts, pageLines>>

MayChange == rewrites < MaxRewrites /\ Room

Rewrite ==
  /\ change = "none" /\ cp.page # None /\ MayChange
  /\ \E i \in (cp.page.at + 1)..cp.at, l \in Lines :
       /\ file[i] # l /\ file[i].line # "header"
       /\ l.line = "header" => HeaderMayBe(i)
       /\ file' = [file EXCEPT ![i] = l]
  /\ change' = "page" /\ rewrites' = rewrites + 1
  /\ UNCHANGED <<cp, captured, fragments, start, seen, aborts, pageLines>>

(* The lines that were read beyond the cursor go.                           *)
Shrink ==
  /\ change = "none" /\ MayChange
  /\ \E n \in cp.at..(seen - 1) : n > 0 /\ file' = SubSeq(file, 1, n)
  /\ change' = "tail" /\ rewrites' = rewrites + 1
  /\ UNCHANGED <<cp, captured, fragments, start, seen, aborts, pageLines>>

Replace ==
  /\ change = "none" /\ cp.at > 0 /\ MayChange
  /\ \E h \in Headers : file' = <<h>>
  /\ change' = "replaced" /\ rewrites' = rewrites + 1
  /\ UNCHANGED <<cp, captured, fragments, start, seen, aborts, pageLines>>

--------------------------------------------------------------------------------
(* One run of the handler.                                                  *)

(* backfillLegacyCodexLineage: what the first line says, and nothing if it  *)
(* is not a header.                                                         *)
HeaderKnown(first) ==
  IF first.line = "header" THEN [cwd |-> first.cwd, thread |-> Reconciled(Lineage(first))]
                           ELSE [cwd |-> None, thread |-> Unknown]

(* Mutant: an old checkpoint is taken as it is.                             *)
BackfilledNever == cp

Backfilled ==
  IF cp.at = 0 \/ cp.thread.kind # None THEN cp
  ELSE [cp EXCEPT !.cwd = HeaderKnown(file[1]).cwd, !.thread = HeaderKnown(file[1]).thread]

(* rewindChangedRead: the cursor, the start of the page or the beginning,   *)
(* each with what was in force there.                                       *)
RewindPoint ==
  CASE change = "tail" -> Known(cp.at, cp.cwd, cp.thread, cp.raw)
    [] change = "page" -> cp.page
    [] OTHER -> Known(0, None, NoThread, None)

Rewind ==
  /\ change # "none"
  /\ cp' = Checkpoint(RewindPoint, None, cp.generation + 1)
  /\ captured' = {} /\ fragments' = {}
  /\ start' = RewindPoint.at /\ seen' = RewindPoint.at
  /\ change' = "none"
  /\ UNCHANGED <<file, rewrites, aborts, pageLines>>

Through == IF Len(file) < cp.at + pageLines THEN Len(file) ELSE cp.at + pageLines

Result == Extract(file, cp.at, Through, Backfilled.cwd, Backfilled.thread)

(* A group of raw fragments ends where a turn begins the page.              *)
Raw(r) == IF r.first = None THEN cp.raw
          ELSE IF r.first.at = cp.at THEN None ELSE cp.raw

StartsRaw(r) ==
  Raw(r) = None /\ r.confirmed = cp.at /\ Len(file) - cp.at > pageLines

ResumesAtInput(r) == Raw(r) # None /\ r.first # None

(* The write-ahead checkpoint of a page.                                    *)
Ahead == Checkpoint(Known(cp.at, Backfilled.cwd, Backfilled.thread, cp.raw),
                    [PageStart EXCEPT !.cwd = Backfilled.cwd, !.thread = Backfilled.thread],
                    cp.generation)

(* Raw mode: the page, or the part of it before the next input, becomes     *)
(* fragments.                                                               *)
AfterFragments(r) ==
  IF ResumesAtInput(r)
  THEN Known(r.first.at, OrElse(r.first.cwd, Ahead.cwd), r.first.thread, None)
  ELSE Known(Through, OrElse(r.cwd, Ahead.cwd), r.thread, OrElse(Raw(r), cp.at))

(* appendRawFallbackFragments                                               *)
Fragments(r) == (cp.at + 1)..AfterFragments(r).at

CaptureRaw ==
  /\ change = "none" /\ Through > cp.at
  /\ LET r == Result IN
       /\ Raw(r) # None \/ StartsRaw(r)
       /\ fragments' = fragments \cup Fragments(r)
       /\ cp' = Checkpoint(AfterFragments(r), Ahead.page, cp.generation)
       /\ seen' = AfterFragments(r).at
  /\ UNCHANGED <<file, captured, start, change, rewrites, aborts, pageLines>>

(* What a turn's own checkpoint remembers.                                  *)
AfterTurn(t) == Known(t.end, OrElse(t.cwd, Ahead.cwd), t.thread, None)

AfterPage(r) == Known(r.confirmed, OrElse(r.cwd, Ahead.cwd), r.thread, Raw(r))

CaptureTurns ==
  /\ change = "none" /\ Through > cp.at
  /\ LET r == Result IN
       /\ Raw(r) = None /\ ~StartsRaw(r)
       /\ captured' = captured \cup ToSet(r.turns)
       /\ cp' = Checkpoint(AfterPage(r), Ahead.page, cp.generation)
  /\ seen' = Through
  /\ UNCHANGED <<file, fragments, start, change, rewrites, aborts, pageLines>>

(* A run that ends after n turns of its page: the last one may have been    *)
(* appended and not saved, and is then appended again under the same key.   *)
ReadFails ==
  /\ change = "none" /\ Through > cp.at /\ aborts < MaxAborts /\ Room
  /\ LET r == Result IN
       /\ Raw(r) = None /\ ~StartsRaw(r)
       /\ \E n \in 0..Len(r.turns) : \E saved \in {n, n - 1} \cap Nat :
            /\ captured' = captured \cup {r.turns[k] : k \in 1..n}
            /\ cp' = IF saved = 0 THEN Ahead
                     ELSE Checkpoint(AfterTurn(r.turns[saved]), Ahead.page, cp.generation)
  /\ aborts' = aborts + 1
  /\ UNCHANGED <<file, fragments, start, seen, change, rewrites, pageLines>>

Read == Rewind \/ CaptureRaw \/ CaptureTurns

Next == Write \/ Rewrite \/ Shrink \/ Replace \/ Read \/ ReadFails

Spec == Init /\ [][Next]_vars

--------------------------------------------------------------------------------
(* What identifies a turn, without what was in force when it began.         *)
Identity(t) ==
  [user |-> t.user, replies |-> t.replies, end |-> t.end, logical |-> t.logical,
   initiator |-> t.initiator, observation |-> t.observation, calls |-> t.calls]

(* One read from the beginning of this generation, with the thread that the *)
(* lines before it establish.                                               *)
OneRead(upTo) ==
  Extract(file, start, upTo, None, Extract(file, 0, start, None, NoThread).thread)

Due(upTo) == {t \in ToSet(OneRead(upTo).turns) : t.user \notin fragments}

(* A configuration line that names the turn that has been answered last.    *)
Repeats(i) ==
  /\ file[i].line = "context" /\ (file[i].turn # None \/ file[i].bad)
  /\ LET p == OneRead(i - 1).pending
     IN  p # None /\ (IF p = None THEN FALSE ELSE p.replies # <<>> /\ BelongsToOpen(p, file[i]))

(* Wherever the reads of a rollout were cut or failed, every turn that one  *)
(* read from where the generation began finds is there once a read has      *)
(* passed it; and as long as no configuration line repeats the turn that    *)
(* was just answered, and nothing was captured raw, none is there that one  *)
(* read of the rollout would not find with the same identity, initiator and *)
(* origin. (A repeated line belongs to the answered turn if one read sees   *)
(* both, and to the next one if a read begins between them.)                *)
SameTurns ==
  change = "none" =>
    /\ {t.user : t \in Due(seen)} \subseteq {t.user : t \in captured}
    /\ fragments = {} /\ (\A i \in (start + 1)..Len(file) : ~Repeats(i)) =>
         {Identity(t) : t \in captured} \subseteq {Identity(t) : t \in Due(Len(file))}

(* The lineage of a turn is that of the first header of its file, or        *)
(* unknown, and never that of a header copied from an ancestor.             *)
OwnLineage ==
  change = "none" =>
    \A t \in captured :
      t.thread.kind \notin {None, "unknown"} =>
        /\ file[1].line = "header"
        /\ t.thread.id = Reconciled(Lineage(file[1])).id

(* A turn that is taken for the work of another agent begins with a message *)
(* to the path that a header gives this thread, and has a trigger before it *)
(* with nothing but configuration in between.                               *)
TriggeredByMarker ==
  change = "none" =>
    \A t \in captured :
      t.local => \E m \in 1..(t.user - 1) :
                   /\ file[m].line = "marker" /\ file[m].on
                   /\ \E h \in 1..(m - 1) :
                        /\ file[h].line = "header" /\ file[h].path = file[t.user].to
                        /\ Lineage(file[h]).id = t.thread.id
                   /\ \A i \in (m + 1)..(t.user - 1) : file[i].line = "context"

(* codex.ts: the next pass re-reads the lines of an open cluster and        *)
(* rebuilds it from scratch.                                                *)
SameSettings ==
  change = "none" =>
    \A t \in captured, u \in Due(Len(file)) :
      t.end = u.end => t.cwd = u.cwd /\ t.thread = u.thread
================================================================================
