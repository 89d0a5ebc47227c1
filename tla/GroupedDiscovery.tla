-------------------------- MODULE GroupedDiscovery --------------------------
(***************************************************************************)
(* Grouped find_clusters: the clusters of a window as projects or threads, *)
(* listed in pages of group headers, each header with a cursor into the    *)
(* rest of its members.                                                    *)
(*                                                                         *)
(* The server keeps nothing between two calls: every call computes the     *)
(* groups anew from the ledger, which keeps growing, and a cursor carries  *)
(* the window, the page sizes, an offset and a digest of what it counts in.*)
(* A call does not give way to the event loop between reading and answering*)
(* and is one step.  The digest stands for the value it is computed from.  *)
(***************************************************************************)
EXTENDS WorkClusters

CONSTANTS
  Jobs,         \* the first calls: [at, window, by, size, reps] and what the ledger is asked
  MemberSize,   \* FIND_CLUSTERS_MEMBER_PAGE_MAX
  MaxOffset,    \* the largest offset a cursor may carry
  MinBacklog,   \* bound: how many events are captured before a listing begins
  MaxLate,      \* bound: how many are captured while it lasts
  LastTime,     \* bound: the clock stops here
  None

VARIABLES
  ledger,     \* the events captured so far
  now,        \* the server's clock
  job,        \* the listing in progress, or None
  next,       \* the cursor for the next page of groups: none or one
  listed,     \* the headers received so far
  opened,     \* the header whose members are being read: none or one
  rest,       \* the cursor for its next members: none or one
  members,    \* its members received so far, after the representatives
  refused,    \* the code of the refusal that ended the listing, or None
  late,       \* events captured since the listing began
  expected    \* history: the window, the rows read and the groups of the first call,
              \* and the rows read by the last

vars == <<ledger, now, job, next, listed, opened, rest, members, refused, late,
          expected>>

\* A call asks for no more atoms than a cursor can count.
JobBounds ==
  /\ MemberSize \in Nat \ {0} /\ MaxOffset \in Nat
  /\ None \notin Jobs /\ None \notin {"STALE", "INVALID"}
  /\ Jobs \subseteq
       [at : Nat, window : {<<>>} \cup Int \X Int, since : Int, until : Int,
        by : {"thread", "project"}, size : Nat \ {0}, reps : Nat \ {0},
        limit : 1..MaxOffset, gap : Nat, hint : SUBSET Nat,
        scans : SUBSET {r.class : r \in Rows}, keeps : SUBSET {r.class : r \in Rows}]
  /\ \A j \in Jobs : j.window # <<>> => j.window[1] < j.window[2]

----------------------------------------------------------------------------
(* Groups.  A thread is known by its owner; an atom without one belongs to *)
(* the only thread of its cluster, or else to the cluster.  Project 0 is no*)
(* project: then the cluster is the widest boundary that is true.          *)

Key(kind, i, c, owner) ==
  [kind |-> kind, project |-> Row[i].project, owner |-> owner,
   cluster |-> IF kind = "fallback" \/ Row[i].project = 0 THEN c.ids ELSE {}]

ExplicitThreads(c) == {Key("thread", i, c, Owner(i)) : i \in {j \in c.ids : Owner(j) # {}}}

ThreadOf(i, c) ==
  IF Owner(i) # {} THEN Key("thread", i, c, Owner(i))
  ELSE IF Cardinality(ExplicitThreads(c)) = 1 THEN CHOOSE k \in ExplicitThreads(c) : TRUE
  ELSE Key("fallback", i, c, {})

ProjectOf(i, c) == Key("project", i, c, {})

Placed(r, by) ==
  UNION {{[id |-> i, thread |-> ThreadOf(i, c),
           key |-> IF by = "project" THEN ProjectOf(i, c) ELSE ThreadOf(i, c)] : i \in c.ids} :
           c \in ToSet(r.clusters)}

Newer(i, j) == Row[i].occ > Row[j].occ \/ (Row[i].occ = Row[j].occ /\ i < j)

NewestIn(S) == CHOOSE i \in S : \A j \in S \ {i} : Newer(i, j)

NewestPerSource(S) == {NewestIn({i \in S : Row[i].app = a}) : a \in {Row[i].app : i \in S}}

Representatives(S, n) ==
  First(Sorted(NewestPerSource(S), Newer) \o Sorted(S \ NewestPerSource(S), Newer), n)

\* Representatives first, then everything else, newest first.
MemberOrder(S, reps) == reps \o Sorted(S \ ToSet(reps), Newer)

RawCount(r, S) == Cardinality(UNION {Copies(i, r.seen) : i \in S})

Model(r, k, S, threads, reps) ==
  [key |-> k, reps |-> reps, order |-> MemberOrder(S, reps), raw |-> RawCount(r, S),
   threads |-> threads, to |-> Row[NewestIn(S)].occ]

GroupOf(r, k, placed, reps) ==
  LET S == {x.id : x \in placed}
  IN  Model(r, k, S, {x.thread : x \in placed}, Representatives(S, reps))

\* The id of a group is a digest of its key; its least member stands for it.
GroupBefore(g, h) ==
  LET least(x) == CHOOSE i \in ToSet(x.order) : \A j \in ToSet(x.order) : i <= j
  IN  g.to > h.to \/ (g.to = h.to /\ least(g) < least(h))

GroupsOver(r, placed, reps) ==
  Sorted({GroupOf(r, k, {x \in placed : x.key = k}, reps) : k \in {x.key : x \in placed}},
         GroupBefore)

BuildDiscoveryGroups(r, by, reps) == GroupsOver(r, Placed(r, by), reps)

\* Mutant: the digest does not cover the members.
DigestOfKeys(g) == [key |-> g.key, order |-> <<>>, raw |-> 0]

Digest(g) == [key |-> g.key, order |-> g.order, raw |-> g.raw]

SetDigest(groups) == [n \in DOMAIN groups |-> Digest(groups[n])]

----------------------------------------------------------------------------
(* Cursors.  What one carries replaces every argument of the call.         *)

Cursor(kind, r, j, offset, size, digest, key) ==
  [kind |-> kind, window |-> <<r.since, r.until>>, by |-> j.by, offset |-> offset,
   size |-> size, reps |-> j.reps, digest |-> digest, key |-> key]

GroupCursor(r, j, groups, offset) ==
  Cursor("groups", r, j, offset, j.size, SetDigest(groups), {})

MemberCursor(r, j, g, offset) ==
  Cursor("members", r, j, offset, MemberSize, <<Digest(g)>>, {g.key})

\* decodeDiscoveryCursor refuses a cursor the server would not have written.
Decodes(c) ==
  /\ c.window[1] < c.window[2]
  /\ c.offset \in (IF c.kind = "groups" THEN 1 ELSE c.reps)..MaxOffset

Header(r, j, g) ==
  [group |-> g,
   more |-> IF Len(g.order) > Len(g.reps) THEN {MemberCursor(r, j, g, Len(g.reps))} ELSE {}]

\* Mutant: the next page begins after what was asked for, not what was sent.
AfterAsked(offset, sent, asked) == offset + asked

AfterPage(offset, sent, asked) == offset + sent

Slice(s, offset, n) == SubSeq(s, offset + 1, offset + n)

Refusal(code) == [code |-> code, page |-> <<>>, next |-> {}]

\* At least one entry is sent when there is one; how many more fit is a matter
\* of their rendered size.
Sent(s, offset, size) ==
  LET most == Smallest(size, Len(s) - offset)
  IN  (IF most = 0 THEN 0 ELSE 1)..most

GroupPage(r, j, groups, offset, n) ==
  [code |-> None,
   page |-> [m \in 1..n |-> Header(r, j, Slice(groups, offset, n)[m])],
   next |-> IF AfterPage(offset, n, j.size) < Len(groups)
              THEN {GroupCursor(r, j, groups, AfterPage(offset, n, j.size))} ELSE {}]

MemberPage(r, j, g, offset, n) ==
  [code |-> None, page |-> Slice(g.order, offset, n),
   next |-> IF AfterPage(offset, n, MemberSize) < Len(g.order)
              THEN {MemberCursor(r, j, g, AfterPage(offset, n, MemberSize))} ELSE {}]

GroupPages(r, j, groups, offset) ==
  {GroupPage(r, j, groups, offset, n) : n \in Sent(groups, offset, j.size)}

MemberPages(r, j, g, offset) ==
  {MemberPage(r, j, g, offset, n) : n \in Sent(g.order, offset, MemberSize)}

----------------------------------------------------------------------------
(* findGroupedClusters: the possible answers of a call.                    *)

FirstAnswers(r, j) == GroupPages(r, j, BuildDiscoveryGroups(r, j.by, j.reps), 0)

\* Mutant: the page is cut from whatever the groups are now.
NextGroupsUnchecked(r, j, groups, c) ==
  IF c.offset > Len(groups) THEN {Refusal("STALE")}
                            ELSE GroupPages(r, j, groups, c.offset)

NextGroups(r, j, groups, c) ==
  IF SetDigest(groups) # c.digest \/ c.offset > Len(groups)
    THEN {Refusal("STALE")}
    ELSE GroupPages(r, j, groups, c.offset)

MembersOf(r, j, g, c) ==
  IF <<Digest(g)>> # c.digest \/ c.offset >= Len(g.order) THEN {Refusal("STALE")}
                                                         ELSE MemberPages(r, j, g, c.offset)

NextMembers(r, j, groups, c) ==
  IF \E n \in DOMAIN groups : groups[n].key \in c.key
    THEN UNION {MembersOf(r, j, g, c) : g \in {x \in ToSet(groups) : x.key \in c.key}}
    ELSE {Refusal("STALE")}

Continue(r, j, groups, c) ==
  IF c.kind = "groups" THEN NextGroups(r, j, groups, c) ELSE NextMembers(r, j, groups, c)

ContinueOver(r, j, c) == Continue(r, j, BuildDiscoveryGroups(r, c.by, c.reps), c)

\* The request a cursor stands for: its window is explicit.
Frozen(c) == [job EXCEPT !.window = c.window, !.by = c.by, !.reps = c.reps]

Answers(c) ==
  IF ~Decodes(c) THEN {Refusal("INVALID")}
  ELSE ContinueOver(GetRecentWorkContext(ledger, Frozen(c), now), Frozen(c), c)

----------------------------------------------------------------------------

Nothing == [window |-> <<0, 0>>, input |-> {}, groups |-> <<>>, last |-> {}]

Init ==
  /\ ledger = {} /\ now = 1 /\ job = None /\ next = {} /\ listed = <<>>
  /\ opened = {} /\ rest = {} /\ members = <<>> /\ refused = None /\ late = 0
  /\ expected = Nothing

Capture ==
  /\ \E r \in Rows \ ledger : ledger' = AppendEvent(ledger, r)
  /\ IF job = None THEN late' = 0 ELSE late < MaxLate /\ late' = late + 1
  /\ UNCHANGED <<now, job, next, listed, opened, rest, members, refused, expected>>

Tick ==
  /\ job # None /\ now < LastTime /\ now' = now + 1
  /\ UNCHANGED <<ledger, job, next, listed, opened, rest, members, refused, late,
                 expected>>

\* Everything a call in this window reads to compute its groups.
InputOf(j, w) ==
  QueryClusterEvents(ledger, FilterOf(Within(j, w)), j.limit * Overfetch).events

BeginWith(r, j) ==
  /\ \E a \in FirstAnswers(r, j) : listed' = a.page /\ next' = a.next
  /\ expected' = [window |-> <<r.since, r.until>>, input |-> InputOf(j, <<r.since, r.until>>),
                  groups |-> BuildDiscoveryGroups(r, j.by, j.reps),
                  last |-> InputOf(j, <<r.since, r.until>>)]

ReadAgain == expected' = [expected EXCEPT !.last = InputOf(job, expected.window)]

Begin ==
  /\ job = None /\ Cardinality(ledger) >= MinBacklog
  /\ \E j \in Jobs : /\ job' = j
                     /\ now' = j.at
                     /\ BeginWith(GetRecentWorkContext(ledger, j, j.at), j)
  /\ UNCHANGED <<ledger, opened, rest, members, refused, late>>

MoreGroups ==
  /\ refused = None
  /\ \E c \in next : \E a \in Answers(c) :
       listed' = listed \o a.page /\ next' = a.next /\ refused' = a.code
  /\ ReadAgain
  /\ UNCHANGED <<ledger, now, job, opened, rest, members, late>>

\* The client turns to the members of a group it has been told of.
Open ==
  /\ refused = None /\ opened = {}
  /\ \E h \in ToSet(listed) : h.more # {} /\ opened' = {h.group} /\ rest' = h.more
  /\ members' = <<>>
  /\ UNCHANGED <<ledger, now, job, next, listed, refused, late, expected>>

MoreMembers ==
  /\ refused = None
  /\ \E c \in rest : \E a \in Answers(c) :
       members' = members \o a.page /\ rest' = a.next /\ refused' = a.code
  /\ ReadAgain
  /\ UNCHANGED <<ledger, now, job, next, listed, opened, late>>

Next == Capture \/ Tick \/ Begin \/ MoreGroups \/ Open \/ MoreMembers

Spec == Init /\ [][Next]_vars

----------------------------------------------------------------------------

\* A header but for the number of its threads.  No digest covers it, and an atom
\* that joins two clusters changes it even when the limit drops the atom itself.
Told(groups) == [n \in DOMAIN groups |-> [groups[n] EXCEPT !.threads = {}]]

HeadersOf(headers) == Told([n \in DOMAIN headers |-> headers[n].group])

\* Every atom that was found is in one group.
GroupsPartition(groups, kept) ==
  /\ UNION {ToSet(groups[n].order) : n \in DOMAIN groups} = kept
  /\ \A n, m \in DOMAIN groups :
       n # m => ToSet(groups[n].order) \cap ToSet(groups[m].order) = {}
  /\ \A n \in DOMAIN groups : Len(groups[n].order) = Cardinality(ToSet(groups[n].order))

\* However the ledger grows and the pages are cut, the headers received are the
\* first groups of the first call, all of them when there is no next cursor,
\* and a group's representatives and member pages are its members, each once.
PagesAddUp ==
  job # None =>
    /\ IsPrefix(HeadersOf(listed), Told(expected.groups))
    /\ refused = None /\ next = {} => HeadersOf(listed) = Told(expected.groups)
    /\ \A g \in opened :
         /\ IsPrefix(g.reps \o members, g.order)
         /\ refused = None /\ rest = {} => g.reps \o members = g.order

\* The server takes its own cursors, and calls one stale only when the rows that
\* were read for it have changed: passing time alone makes nothing stale.
RefusedForCause ==
  refused # None => refused = "STALE" /\ expected.last # expected.input
=============================================================================
