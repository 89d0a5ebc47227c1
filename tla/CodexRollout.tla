----------------------------- MODULE CodexRollout -----------------------------
(* How the lines of a Codex rollout become turns                            *)
(* (capture/extractors/codex.ts, parseLine, mergeCodexSessionMeta and       *)
(* extractCodexTurns). A line is a record of the evidence it carries; the   *)
(* offset of a line is the number of lines before it. One value stands for  *)
(* what is in force for the turns that follow: cwd, git and configuration.  *)
EXTENDS Integers, SequencesExt

CONSTANTS
  None,        \* absent
  FileThread,  \* the thread in the name of the rollout, None if it has none
  EarlyTurns,  \* turn ids that were made before the thread was started
  MaxCalls     \* MAX_TOOL_CALLS_PER_TURN

OrElse(a, b) == IF a # None THEN a ELSE b
Least(S) == CHOOSE x \in S : \A y \in S : x <= y
Given(S) == S \ {None}

--------------------------------------------------------------------------------
(* Lineage: one unit of trust, never a mixture of two sources.              *)

NoThread == [kind |-> None, id |-> None, root |-> None, parent |-> None,
             fork |-> None, path |-> None]
Unknown == [NoThread EXCEPT !.kind = "unknown"]

(* A header declares a thread, perhaps a parent in two places (parents), a  *)
(* fork, a source and the path of an agent; malformed stands for a field    *)
(* that is present and not a name. What is incomplete or contradictory is   *)
(* not promoted.                                                            *)
Contradicts(h) ==
  \/ h.malformed \/ Cardinality(h.parents) > 1
  \/ h.fork # None /\ h.parents \ {h.fork} # {}

SubagentEvidence(h) ==
  h.source = "subagent" \/ h.parents # {} \/ h.fork # None \/ h.path # None

Lineage(h) ==
  IF Contradicts(h) \/ h.id = None THEN Unknown
  ELSE IF SubagentEvidence(h)
       THEN IF h.source \in {None, "subagent"} /\ h.root \notin {None, h.id}
            THEN [kind |-> "subagent", id |-> h.id, root |-> h.root, fork |-> h.fork,
                  parent |-> IF h.parents = {} THEN None ELSE CHOOSE t \in h.parents : TRUE,
                  path |-> h.path]
            ELSE Unknown
       ELSE IF h.source \in {None, "root", "user"} /\ h.root \in {None, h.id}
            THEN [NoThread EXCEPT !.kind = "root", !.id = h.id, !.root = h.id]
            ELSE Unknown

(* reconcileCodexPhysicalSession: the name of the file has the last word.   *)
Reconciled(t) ==
  IF FileThread = None \/ t.kind \in {None, "unknown"} \/ t.id = FileThread
  THEN t ELSE Unknown

(* The threads that may be named by the next copied header.                 *)
Frontier(t) == IF t.kind = "subagent" THEN Given({t.parent, t.fork}) ELSE {}

(* advanceCopiedCodexAncestor: only the exact next hop, or the root, is a   *)
(* copy of an ancestor's header.                                            *)
CopiedAncestor(current, incoming, frontier) ==
  /\ current.kind = "subagent" /\ incoming.id # None
  /\ incoming.root = current.root
  /\ \/ incoming.kind = "root" /\ incoming.id = current.root
     \/ /\ incoming.kind = "subagent" /\ incoming.id \in frontier
        /\ Frontier(incoming) # {}
        /\ Frontier(incoming) \cap {incoming.id, current.id} = {}

SamePhysical(current, incoming) ==
  /\ current.kind \in {"root", "subagent"}
  /\ \A f \in {"kind", "id", "root"} : incoming[f] = current[f]
  /\ \A f \in DOMAIN NoThread : None \in {current[f], incoming[f]}
                                  \/ current[f] = incoming[f]

Joined(current, incoming) ==
  [f \in DOMAIN NoThread |-> OrElse(incoming[f], current[f])]

--------------------------------------------------------------------------------
(* The state of one read: the turns that are closed, the open cluster, an   *)
(* identity (queued) and a trigger that wait for the input they belong to,  *)
(* and the offset up to which nothing has to be read again (confirmed).     *)

ReadFrom(at, cwd, thread) ==
  [turns |-> <<>>, pending |-> None, queued |-> None, ofAgent |-> FALSE,
   trigger |-> None, cwd |-> cwd, thread |-> Reconciled(thread), chain |-> TRUE,
   frontier |-> Frontier(Reconciled(thread)), confirmed |-> at, first |-> None]

(* Mutant: an identity does not keep its line unread.                       *)
MarkSafeIgnoringQueued(s, i) ==
  IF s.pending = None /\ s.trigger = None
  THEN [s EXCEPT !.confirmed = IF i > @ THEN i ELSE @] ELSE s

MarkSafe(s, i) ==
  IF s.pending = None /\ s.queued = None /\ s.trigger = None
  THEN [s EXCEPT !.confirmed = IF i > @ THEN i ELSE @] ELSE s

Invalidate(s, unassociated) ==
  IF unassociated \/ s.ofAgent
  THEN [s EXCEPT !.trigger = None, !.queued = None, !.ofAgent = FALSE]
  ELSE [s EXCEPT !.trigger = None]

Queue(queued, start, turn, bad) ==
  IF queued = None THEN [start |-> start, turn |-> turn, bad |-> bad]
  ELSE [start |-> Least({queued.start, start}), turn |-> OrElse(queued.turn, turn),
        bad |-> \/ queued.bad \/ bad
                \/ queued.turn # None /\ turn \notin {None, queued.turn}]

(* classifyCodexObservation                                                 *)
Observation(p, conflict, logical) ==
  CASE conflict -> "unknown"
    [] p.thread.kind = "root" -> "original"
    [] p.thread.kind # "subagent" -> "unknown"
    [] p.local -> "original"
    [] OTHER -> IF p.userTurn # None /\ p.userTurn = p.replyTurn /\ logical \in EarlyTurns
                THEN "inherited" ELSE "unknown"

TurnOf(p) ==
  LET ids == Given({p.context, p.userTurn, p.replyTurn})
      conflict == p.bad \/ Cardinality(ids) > 1
      logical == IF conflict \/ ids = {} THEN None ELSE CHOOSE t \in ids : TRUE
  IN  [user |-> p.user, replies |-> p.replies, end |-> p.end, logical |-> logical,
       initiator |-> p.initiator, local |-> p.local, calls |-> p.calls,
       observation |-> Observation(p, conflict, logical),
       cwd |-> p.cwd, thread |-> p.thread]

Emit(s) ==
  IF s.pending = None THEN s
  ELSE IF s.pending.replies = <<>> THEN s
       ELSE [s EXCEPT !.turns = Append(@, TurnOf(s.pending)), !.confirmed = s.pending.end]

--------------------------------------------------------------------------------
(* What each kind of line does.                                             *)

OnHeader(s, h, i) ==
  LET t == Lineage(h)
      adopt(thread) == [s EXCEPT !.thread = thread, !.frontier = Frontier(thread),
                                 !.cwd = OrElse(h.cwd, @)]
  IN  CASE s.thread.kind = None -> MarkSafe(adopt(Reconciled(t)), i)
        [] /\ s.thread.kind # None /\ "unknown" \notin {s.thread.kind, t.kind}
           /\ s.chain /\ CopiedAncestor(s.thread, t, s.frontier) ->
             LET f == IF t.kind = "root" THEN {} ELSE Frontier(t)
             IN  [s EXCEPT !.frontier = f, !.chain = f # {}]
        [] /\ s.thread.kind # None /\ "unknown" \notin {s.thread.kind, t.kind}
           /\ ~(s.chain /\ CopiedAncestor(s.thread, t, s.frontier))
           /\ SamePhysical(s.thread, t) -> MarkSafe(adopt(Joined(s.thread, t)), i)
        [] OTHER -> MarkSafe([s EXCEPT !.thread = Unknown, !.frontier = {}], i)

OnMarker(s, l, i) ==
  IF l.on THEN [s EXCEPT !.trigger = i - 1, !.ofAgent = @ \/ s.queued # None]
          ELSE MarkSafe(Invalidate(s, FALSE), i)

(* A context line belongs to the open turn it repeats or that has no reply  *)
(* yet, and else waits for the next input.                                  *)
BelongsToOpen(p, l) ==
  p.replies = <<>> \/ (l.turn # None /\ l.turn \in {p.context, p.userTurn, p.replyTurn})

OnContext(s, l, i) ==
  LET c == [s EXCEPT !.cwd = OrElse(l.cwd, @)]
      mine == IF s.pending = None THEN FALSE ELSE BelongsToOpen(s.pending, l)
  IN  MarkSafe(
        IF l.turn = None /\ ~l.bad THEN c
        ELSE IF mine
             THEN [c EXCEPT !.pending.bad =
                              @ \/ l.bad \/ (s.pending.context # None
                                             /\ l.turn \notin {None, s.pending.context}),
                            !.pending.context = OrElse(@, l.turn)]
             ELSE [c EXCEPT !.queued = Queue(@, i - 1, l.turn, l.bad),
                            !.ofAgent = @ \/ s.trigger # None], i)

OnCall(s, l, i) ==
  IF s.pending = None \/ Len(s.pending.calls) >= MaxCalls THEN s
  ELSE [s EXCEPT !.pending.calls = Append(@, [id |-> l.id, output |-> None])]

(* An output goes to the latest call without one that has its id.           *)
OnOutput(s, l, i) ==
  LET open == IF s.pending = None THEN {}
              ELSE {c \in DOMAIN s.pending.calls :
                      /\ s.pending.calls[c].output = None
                      /\ l.id \in {None, s.pending.calls[c].id}}
  IN  IF open = {} THEN s
      ELSE [s EXCEPT !.pending.calls[Max(open)].output = i]

OnComplete(s, i) ==
  IF s.pending = None THEN s
  ELSE IF s.pending.replies = <<>> THEN s
       ELSE [Emit([s EXCEPT !.pending.end = i]) EXCEPT !.pending = None]

OnReply(s, l, i) ==
  IF s.pending = None THEN MarkSafe(s, i)
  ELSE IF l.text = "empty" THEN s
  ELSE [s EXCEPT !.pending.replies = Append(@, i), !.pending.end = i,
                 !.pending.bad = @ \/ l.bad \/ (s.pending.replyTurn # None
                                       /\ l.turn \notin {None, s.pending.replyTurn}),
                 !.pending.replyTurn = OrElse(l.turn, @)]

(* Mutant: a trigger holds for a message to any agent.                      *)
TriggeredByAny(s, l) ==
  l.line = "agent" /\ s.trigger # None /\ s.thread.kind = "subagent"

(* A message of another agent is the input of a turn if a trigger precedes  *)
(* it and it is for this agent.                                             *)
Triggered(s, l) ==
  /\ l.line = "agent" /\ s.trigger # None /\ s.thread.kind = "subagent"
  /\ l.to # None /\ l.to = s.thread.path

InputStart(s, l, i) ==
  Least({i - 1} \cup (IF Triggered(s, l) THEN {s.trigger} ELSE {})
                \cup (IF s.queued = None THEN {} ELSE {s.queued.start}))

(* classifyContextInitiator                                                 *)
Initiator(s, l) ==
  CASE l.text = "system" -> "system"
    [] l.text = "teammate" -> "agent"
    [] OTHER -> IF Triggered(s, l) THEN "agent"
                ELSE IF s.thread.kind = "subagent" THEN "unknown" ELSE "human"

NewCluster(s, l, i, queued, start, initiator, local) ==
  [start |-> start, user |-> i, replies |-> <<>>, end |-> i, cwd |-> s.cwd,
   thread |-> s.thread, calls |-> <<>>, userTurn |-> l.turn, replyTurn |-> None,
   context |-> IF queued = None THEN None ELSE queued.turn,
   bad |-> \/ l.bad
           \/ IF queued = None THEN FALSE
              ELSE \/ queued.bad
                   \/ Cardinality(Given({queued.turn, l.turn})) > 1,
   initiator |-> initiator, local |-> local]

(* A prompt without a reply gives way to the next one; the identity of an   *)
(* injected one goes on to it.                                              *)
Inherited(s) ==
  IF s.pending = None THEN s.queued
  ELSE IF s.pending.replies = <<>> /\ s.pending.initiator = "system"
       THEN Queue(s.queued, s.pending.start, s.pending.context, s.pending.bad)
       ELSE s.queued

OpenCluster(s, l, i, start, initiator, local) ==
  LET queued == Inherited(s)
      from == IF queued = None THEN start ELSE Least({start, queued.start})
      e == Emit(s)
  IN  [e EXCEPT !.queued = None, !.ofAgent = FALSE,
                !.confirmed = IF from > @ THEN from ELSE @,
                !.pending = NewCluster(s, l, i, queued, from, initiator, local)]

(* Something injected does not replace the prompt that is about to be       *)
(* answered.                                                                *)
KeepsPrompt(s, initiator) ==
  IF s.pending = None THEN FALSE
  ELSE s.pending.replies = <<>> /\ s.pending.initiator # "system" /\ initiator = "system"

OnInput(s, l, i) ==
  LET start == InputStart(s, l, i)
      local == Triggered(s, l)
      initiator == Initiator(s, l)
      f == [s EXCEPT !.first = OrElse(@, [at |-> start, cwd |-> s.cwd, thread |-> s.thread]),
                     !.trigger = IF l.line = "agent" THEN None ELSE @]
  IN  IF KeepsPrompt(s, initiator) THEN f ELSE OpenCluster(f, l, i, start, initiator, local)

(* A message between agents that starts no turn takes what waited for it.   *)
OnRejectedInput(s, i) ==
  MarkSafe([s EXCEPT !.trigger = None, !.queued = None, !.ofAgent = FALSE], i)

CloseChain(s) == [s EXCEPT !.chain = FALSE, !.frontier = {}]

ReadLine(s, l, i) ==
  LET c == CloseChain(s)
      v == Invalidate(c, l.line # "user")
  IN  CASE l.line = "malformed" -> MarkSafe(v, i)
        [] l.line = "header"    -> OnHeader(s, l, i)
        [] l.line = "marker"    -> OnMarker(c, l, i)
        [] l.line = "context"   -> OnContext(c, l, i)
        [] l.line = "call"      -> MarkSafe(OnCall(v, l, i), i)
        [] l.line = "output"    -> MarkSafe(OnOutput(v, l, i), i)
        [] l.line = "complete"  -> MarkSafe(OnComplete(v, i), i)
        [] l.line = "other"     -> MarkSafe(v, i)
        [] l.line = "assistant" -> OnReply(v, l, i)
        [] l.line = "user"      -> OnInput(v, l, i)
        [] l.line = "agent"     -> IF Triggered(c, l) THEN OnInput(c, l, i)
                                                      ELSE OnRejectedInput(c, i)

(* extractCodexTurns: the states of a read, line after line.                *)
Reading(file, at, cwd, thread) ==
  LET state[n \in Nat] == IF n = 0 THEN ReadFrom(at, cwd, thread)
                          ELSE ReadLine(state[n - 1], file[at + n], at + n)
  IN  state

Extract(file, at, through, cwd, thread) == Reading(file, at, cwd, thread)[through - at]

(* The file read in one go.                                                 *)
Batch(file) == Extract(file, 0, Len(file), None, NoThread).turns
================================================================================
