---------------------------- MODULE WorkClusters ----------------------------
(***************************************************************************)
(* How observations become clusters of work, and which clusters            *)
(* getRecentWorkContext returns.                                           *)
(*                                                                         *)
(* An atom is a row that normalises.  Beside the fields the ledger knows,  *)
(* its row says: its `project`; the `owner` of its thread lineage and the  *)
(* `conv`ersation it belongs to, none or one each; the artifacts that      *)
(* `strong`ly and the `files` that weakly shape membership, numbers from 1;*)
(* its `app`; the open `loops` in its text; whether its own output         *)
(* `answered`, whether it `asks`, and whether a `user` speaks in it; the   *)
(* files it `changes`.  An agent or the system opens no loops.             *)
(*                                                                         *)
(* Everything below works on ids.                                          *)
(***************************************************************************)
EXTENDS ClusterInput

CONSTANTS
  EdgeArtifacts,   \* GRAPH_MAX_SHARED_ARTIFACTS_PER_EDGE
  RecentTime,      \* RECENT_HOURS
  NoiseTime,       \* SINGLE_SOURCE_RECENT_THRESHOLD_MS
  NarrowWindow,    \* DEFAULT_WINDOW_HOURS, of a call without arguments
  WideWindow,      \* NO_ARGS_AUTO_EXPAND_WINDOW_HOURS
  Overfetch        \* STORAGE_OVERFETCH

\* Artifacts, threads and projects are numbered, and a row is of one thread at
\* most.
WorkBounds ==
  /\ {EdgeArtifacts, Overfetch, NarrowWindow, WideWindow} \subseteq Nat \ {0}
  /\ \A r \in Rows :
       /\ r.occ \in Nat /\ r.project \in Nat
       /\ \A keys \in {r.strong, r.files, r.owner} : IsFiniteSet(keys) /\ keys \subseteq Nat
       /\ Cardinality(r.owner) <= 1
       /\ r.loops \subseteq {"question", "reply", "todo", "followup"}

Ids == {r.id : r \in Rows}

Row == [i \in Ids |-> CHOOSE r \in Rows : r.id = i]

EarlierWork(i, j) == Row[i].occ < Row[j].occ \/ (Row[i].occ = Row[j].occ /\ i < j)

WorkOrder == Sorted(Ids, EarlierWork)

ByWork(S) == Among(WorkOrder, S)

----------------------------------------------------------------------------
(* Logical turns: copies of one turn are collapsed onto one of them.       *)

TurnKey(i) == IF Row[i].kind \in {"original", "inherited"} THEN Row[i].turn ELSE {}

Priority(i) ==
  CASE Row[i].kind = "original" -> 0 [] Row[i].kind = "unknown" -> 1 [] OTHER -> 2

Preferred(i, j) ==
  Priority(i) < Priority(j) \/ (Priority(i) = Priority(j) /\ Older(Row[i], Row[j]))

Representative(S) == CHOOSE i \in S : \A j \in S \ {i} : Preferred(i, j)

Copies(i, S) == IF TurnKey(i) = {} THEN {i} ELSE {j \in S : TurnKey(j) = TurnKey(i)}

LogicalTurns(S) == {Representative(Copies(i, S)) : i \in S}

----------------------------------------------------------------------------
(* Links: neighbours in time that share an artifact or a thread.  Strong   *)
(* artifacts link first, then weak ones, then threads; within a kind the   *)
(* closest neighbours link first.                                          *)

Adjacent(s, gap) ==
  {<<s[n], s[n + 1]>> : n \in {m \in 1..(Len(s) - 1) :
                                 Row[s[m + 1]].occ - Row[s[m]].occ <= gap}}

Neighbours(S, gap) == Adjacent(ByWork(S), gap)

Link(p, key, how) ==
  [from |-> p[1], to |-> p[2], key |-> key, how |-> how,
   gap |-> Row[p[2]].occ - Row[p[1]].occ]

LexLess(s, t) == \E n \in DOMAIN s : s[n] < t[n] /\ \A m \in 1..(n - 1) : s[m] = t[m]

LinkBefore(l, m) == LexLess(<<l.gap, l.key, l.from, l.to>>, <<m.gap, m.key, m.from, m.to>>)

Strong(i) == Row[i].strong
Weak(i)   == Row[i].files
Owner(i)  == Row[i].owner

Keys(i, how) == IF how = "strong" THEN Strong(i) ELSE Weak(i)

LinksOver(P, how, gap) ==
  Sorted(
    UNION {{Link(p, k, how) : p \in Neighbours({i \in P : k \in Keys(i, how)}, gap)} :
             k \in UNION {Keys(i, how) : i \in P}},
    LinkBefore)

\* A link of a thread carries no artifact, only the thread itself: key 0.
ThreadBefore(l, m) ==
  LET at(i) == <<CHOOSE o \in Owner(i) : TRUE, Row[i].occ, i>>
  IN  LexLess(at(l.from), at(m.from))

ThreadLinks(P, gap) ==
  Sorted(
    UNION {{Link(p, 0, "lineage") : p \in Neighbours({i \in P : o \in Owner(i)}, gap)} :
             o \in UNION {Owner(i) : i \in P}},
    ThreadBefore)

\* Mutant: files link before tasks, issues and commits do.
ProjectLinksWeakFirst(P, gap) ==
  LinksOver(P, "weak", gap) \o LinksOver(P, "strong", gap)
    \o ThreadLinks(P, gap)

ProjectLinks(P, gap) ==
  LinksOver(P, "strong", gap) \o LinksOver(P, "weak", gap)
    \o ThreadLinks(P, gap)

Less(m, n) == m < n

Projects(S) == {Row[i].project : i \in S}

LinksOf(S, gap, projects) ==
  LET upTo[n \in 0..Len(projects)] ==
        IF n = 0 THEN <<>>
        ELSE upTo[n - 1] \o ProjectLinks({i \in S : Row[i].project = projects[n]}, gap)
  IN  upTo[Len(projects)]

Links(S, gap) == LinksOf(S, gap, Sorted(Projects(S), Less))

----------------------------------------------------------------------------
(* The forest.  A weak link does not join the work of different threads.   *)

TreeOf(f, i) == CHOOSE t \in f.trees : i \in t

Owners(t) == UNION {Owner(i) : i \in t}

CanWeaklyJoin(s, t) ==
  Owners(s) = {} \/ Owners(t) = {} \/ Owners(s) \cap Owners(t) # {}

AddArtifact(f, l) ==
  IF l.how = "lineage" \/ Cardinality(f.edges[{l.from, l.to}]) >= EdgeArtifacts
    THEN f
    ELSE [f EXCEPT !.edges[{l.from, l.to}] = @ \cup {l.key}]

Join(f, l, s, t) ==
  IF s = t THEN f
  ELSE [trees |-> (f.trees \ {s, t}) \cup {s \cup t},
        edges |-> [e \in DOMAIN f.edges \cup {{l.from, l.to}} |->
                     IF e = {l.from, l.to} THEN {l.key} ELSE f.edges[e]]]

ApplyBetween(f, l, s, t) ==
  IF l.how = "weak" /\ ~CanWeaklyJoin(s, t) THEN f
  ELSE IF {l.from, l.to} \in DOMAIN f.edges THEN AddArtifact(f, l)
  ELSE Join(f, l, s, t)

ApplyCandidate(f, l) == ApplyBetween(f, l, TreeOf(f, l.from), TreeOf(f, l.to))

GraphOver(S, links) ==
  LET upTo[n \in 0..Len(links)] ==
        IF n = 0 THEN [trees |-> {{i} : i \in S}, edges |-> <<>>]
        ELSE ApplyCandidate(upTo[n - 1], links[n])
  IN  upTo[Len(links)]

BuildGraph(S, gap) == GraphOver(S, Links(S, gap))

\* connectedComponents: what the pairs tie together, the least sets that no
\* pair leads out of.
ClosedIn(S, pairs) ==
  {D \in (SUBSET S) \ {{}} : \A p \in pairs : p \cap D = {} \/ p \subseteq D}

LeastOf(sets) == {C \in sets : \A D \in sets : D \subseteq C => D = C}

Components(S, pairs) == LeastOf(ClosedIn(S, pairs))

----------------------------------------------------------------------------
(* Open loops, and the later atom of the cluster that closes one.          *)

Soonest(S) == LET s == ByWork(S) IN IF s = <<>> THEN {} ELSE {Head(s)}

LaterTalk(S, i) ==
  {j \in S : EarlierWork(i, j) /\ Row[i].conv # {} /\ Row[j].conv = Row[i].conv}

ResolvedBy(S, i, kind) ==
  CASE kind = "question" -> IF Row[i].answered THEN {i}
                            ELSE Soonest({j \in LaterTalk(S, i) : ~Row[j].asks})
    [] kind = "reply"    -> Soonest({j \in LaterTalk(S, i) : Row[j].user})
    [] kind = "todo"     -> Soonest({j \in S : EarlierWork(i, j) /\ Row[j].changes \cap Weak(i) # {}})
    [] kind = "followup" -> {}

EnrichHints(S) ==
  UNION {{[atom |-> i, kind |-> k, by |-> ResolvedBy(S, i, k)] : k \in Row[i].loops} : i \in S}

----------------------------------------------------------------------------
(* Clusters and their rank.                                                *)

EdgesWithin(edges, S) ==
  {p \in DOMAIN edges : p \subseteq S /\ edges[p] # {0}}

DeriveCluster(S, edges) ==
  [ids |-> S, edges |-> EdgesWithin(edges, S), hints |-> EnrichHints(S),
   apps |-> {Row[i].app : i \in S}]

\* Edges are given on by their artifacts until the cluster is final.
DeriveClusters(trees, edges) == {DeriveCluster(t, edges) : t \in trees}

Mentions(S, hint) == \E i \in S : hint \subseteq Strong(i) \cup Weak(i)

RecentActivity(S, until) ==
  \E i \in S : until - RecentTime <= Row[i].occ /\ Row[i].occ <= until

OpenLoop(c) == \E h \in c.hints : h.by = {}

\* Twice the median age.
MedianAge(s, until) ==
  2 * until - Row[s[(Len(s) + 1) \div 2]].occ - Row[s[(Len(s) \div 2) + 1]].occ

\* isSingleSourceRecent: most likely the calling session itself.
Noise(c, now) ==
  /\ Cardinality(c.apps) = 1
  /\ \E i \in c.ids : now - Row[i].occ <= NoiseTime

Flag(b) == IF b THEN 0 ELSE 1

\* The id of a cluster is a digest of its members; their least id stands for it.
RankKey(c, q, demoted) ==
  <<Flag(c \notin demoted), Flag(q.hint # {} /\ Mentions(c.ids, q.hint)),
    Flag(RecentActivity(c.ids, q.until)), Flag(OpenLoop(c)), -Cardinality(c.ids),
    MedianAge(ByWork(c.ids), q.until), CHOOSE i \in c.ids : \A j \in c.ids : i <= j>>

RankClusters(clusters, q, demoted) ==
  Sorted(clusters, LAMBDA c, d : LexLess(RankKey(c, q, demoted), RankKey(d, q, demoted)))

----------------------------------------------------------------------------
(* The limit drops atoms of the lowest ranks first, and of a cluster the   *)
(* oldest first.                                                           *)

SizeOf(clusters) ==
  LET upTo[n \in 0..Len(clusters)] ==
        IF n = 0 THEN 0 ELSE upTo[n - 1] + Cardinality(clusters[n].ids)
  IN  upTo[Len(clusters)]

Drop(clusters, n, limit) ==
  Largest(0, Smallest(Cardinality(clusters[n].ids), SizeOf(First(clusters, n)) - limit))

\* Mutant: the newest atoms go first.
OldestLeft(S, drop) == ToSet(First(ByWork(S), Cardinality(S) - drop))

NewestLeft(S, drop) == S \ ToSet(First(ByWork(S), drop))

Truncate(clusters, limit) ==
  {NewestLeft(clusters[n].ids, Drop(clusters, n, limit)) : n \in DOMAIN clusters} \ {{}}

Response(seen, turns, all, clusters, q, cut) ==
  [seen |-> seen, turns |-> turns, clusters |-> clusters, total |-> Len(all),
   since |-> q.since, until |-> q.until, truncated |-> cut, all |-> all]

Cut(seen, turns, graph, ranked, q) ==
  IF SizeOf(ranked) <= q.limit
    THEN Response(seen, turns, ranked, ranked, q, FALSE)
    ELSE Response(seen, turns, ranked,
                  RankClusters(DeriveClusters(Truncate(ranked, q.limit), graph.edges), q, {}),
                  q, TRUE)

Ranked(graph, q) ==
  RankClusters({c \in DeriveClusters(graph.trees, graph.edges) : Mentions(c.ids, q.hint)}, q, {})

CutGraph(seen, turns, graph, q) == Cut(seen, turns, graph, Ranked(graph, q), q)

BuildOver(seen, turns, q) == CutGraph(seen, turns, BuildGraph(turns, q.gap), q)

BuildFrom(seen, q) == BuildOver(seen, LogicalTurns(seen), q)

AtomsOf(events, q) ==
  {r.id : r \in {e \in events : e.kind # "malformed" /\ q.since <= e.occ /\ e.occ < q.until}}

BuildRecentWorkContext(events, q) == BuildFrom(AtomsOf(events, q), q)

----------------------------------------------------------------------------
(* One pass over the ledger, and the second of a call without arguments.   *)

FilterOf(q) ==
  [scans |-> q.scans, keeps |-> q.keeps, post |-> TRUE, since |-> q.since, until |-> q.until]

\* What a pass could not read it says.
WarnedWith(response, input, cap) ==
  [response EXCEPT !.truncated = @ \/ Enough(input, cap) \/ input.reason # "none"]

PassOver(input, q) ==
  WarnedWith(BuildRecentWorkContext(input.events, q), input, q.limit * Overfetch)

RunPass(rows, q) == PassOver(QueryClusterEvents(rows, FilterOf(q), q.limit * Overfetch), q)

NoUsefulCluster(r, now) == \A n \in DOMAIN r.clusters : Noise(r.clusters[n], now)

\* Mutant: the wider answer keeps its ranking.
KeepRank(wide, q, now) == wide

Demote(wide, q, now) ==
  [wide EXCEPT !.clusters =
     RankClusters(ToSet(@), q, {c \in ToSet(@) : Noise(c, now)})]

\* The wider pass: after an empty one it stays as it is.
Wider(empty, wide, q, now) == IF empty THEN wide ELSE Demote(wide, q, now)

Widen(rows, q, narrow, now) ==
  IF ~NoUsefulCluster(narrow, now) THEN narrow
  ELSE Wider(narrow.clusters = <<>>, RunPass(rows, [q EXCEPT !.since = q.until - WideWindow]),
             q, now)

\* p.window is the explicit window <<since, until>>, or none; the query of a pass
\* says its window in `since` and `until`.
WindowOf(p, now) == IF p.window = <<>> THEN <<now - NarrowWindow, now>> ELSE p.window

Within(p, w) == [p EXCEPT !.window = <<>>, !.since = w[1], !.until = w[2]]

AutoExpand(rows, p, q, first, now) ==
  IF p.window = <<>> THEN Widen(rows, q, first, now) ELSE first

PassesOver(rows, p, q, now) == AutoExpand(rows, p, q, RunPass(rows, q), now)

GetRecentWorkContext(rows, p, now) == PassesOver(rows, p, Within(p, WindowOf(p, now)), now)

----------------------------------------------------------------------------
(* What the clusters promise, independently of how they are computed.      *)

PairsBy(hows, links) == {{l.from, l.to} : l \in {m \in ToSet(links) : m.how \in hows}}

\* The threads of a cluster hang together by strongly tied atoms.
ThreadsTied(t, tied) ==
  Cardinality(Components(Owners(t),
    UNION {{{o, p} : o, p \in Owners(s)} : s \in {x \in tied : x \subseteq t}})) <= 1

OneThreadEach(trees, links, tied) ==
  /\ \A t \in trees : Cardinality(Projects(t)) = 1 /\ ThreadsTied(t, tied)
  /\ \A p \in PairsBy({"strong", "lineage"}, links) : \E t \in trees : p \subseteq t

\* The edges tie together each cluster and no more.
EdgesExplain(graph, S) == Components(S, DOMAIN graph.edges) = graph.trees

ClustersAreThreadsOf(graph, S, links) ==
  /\ OneThreadEach(graph.trees, links, Components(S, PairsBy({"strong"}, links)))
  /\ EdgesExplain(graph, S)

\* After the limit: the clusters left are the first of the ranking, the last of
\* them perhaps in part; what is left of an atom's loops reads as before; and
\* nothing left points at an atom that was dropped.
KeptOf(r) == UNION {c.ids : c \in ToSet(r.clusters)}

HintsOf(clusters, kept) ==
  {h \in UNION {c.hints : c \in ToSet(clusters)} : h.atom \in kept}

LimitHonest(r, limit, kept) ==
  /\ Cardinality(kept) = Smallest(limit, SizeOf(r.all))
  /\ \A n \in DOMAIN r.all :
       r.all[n].ids \cap kept # {} => \A m \in 1..(n - 1) : r.all[m].ids \subseteq kept
  /\ HintsOf(r.clusters, kept) = HintsOf(r.all, kept)
  /\ UNION {h.by : h \in HintsOf(r.clusters, kept)} \subseteq kept
  /\ \A c \in ToSet(r.clusters) : UNION c.edges \subseteq c.ids

\* A call without arguments that read everything starts with work other than
\* the caller's own, if the last day holds any and the last hours do not.
FindsWork(r, wide, now) ==
  ~r.truncated /\ ~wide.truncated /\ ~NoUsefulCluster(wide, now) =>
    \/ r.since # wide.since /\ ~NoUsefulCluster(r, now)
    \/ r.since = wide.since /\ ~Noise(Head(r.clusters), now)
=============================================================================
