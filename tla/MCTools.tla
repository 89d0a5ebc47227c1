------------------------------ MODULE MCTools ------------------------------
(* The tools that read the ledger, one client and one tool at a time, over *)
(* a small universe of events captured in any order: grouped discovery, a  *)
(* search, a read of atoms, a client that waits for new turns, and the log *)
(* of the calls.  What the others answer in one call is checked on every   *)
(* ledger.                                                                 *)
EXTENDS GroupedDiscovery, FindClusters, MruResolve, TLC

CONSTANTS
  Requests, Limit, ScanPageRows, ScanPages, ScanRows, ScanBytes,   \* the search
  Asked, Oversize, MaxIndex,                                       \* the atoms
  TailEvents, Queries, Cap, ScanWindows, Timeout, Backlog,         \* the wait
  Starts, Skew, MaxTime, MaxAborts,
  MaxCalls, Used, Calls, LastMs                                    \* the log of calls

VARIABLES
  tool,                                      \* the tool the client uses
  search, cursor, more, found, present,      \* the search; cursor: also the atoms
  request, received, missing, stuck, order,  \* the atoms
  tail, clock, since, pc, deadline, wake,    \* the wait, on a ledger of its own
  answer, aborts, polled, delivered, early,
  calls, nextCallId, calling, fates, ms      \* the log of calls

S == INSTANCE SearchMemories

G == INSTANCE AtomReads

W == INSTANCE WaitForNewTurns
       WITH ledger <- tail, now <- clock, Events <- TailEvents, MaxPages <- 3, QueryBytes <- 4

L == INSTANCE RequestLog

(* The cluster reader again, with budgets that every window exceeds.       *)
C == INSTANCE ClusterInput
       WITH ClusterWindows <- 2, MaxObservations <- 4, MaxObservationBytes <- 6

ASSUME ToolBounds ==
  ClusterBounds /\ WorkBounds /\ ListingBounds /\ JobBounds
  /\ S!SearchBounds /\ G!AtomBounds /\ L!LogBounds
  /\ W!EventBounds /\ W!StorageBounds /\ W!WaitBounds

searchVars == <<search, more, found, present>>
atomVars   == <<request, received, missing, stuck, order>>
groupVars  == <<now, job, next, listed, opened, rest, members, late, expected>>
tailVars   == <<tail, clock, since, pc, deadline, wake, answer, aborts, polled, delivered,
                early>>
logVars    == <<calls, nextCallId, calling, fates, ms>>
shared     == <<ledger, cursor, refused>>

toolVars == <<tool, shared, searchVars, atomVars, groupVars, tailVars, logVars>>

ToolInit ==
  /\ tool \in {"groups", "search", "atoms", "wait", "log"}
  /\ Init /\ S!Init /\ G!Init /\ W!Init /\ L!Init
  /\ tool # "wait" => since = 0

Groups ==
  /\ tool = "groups" /\ Next
  /\ UNCHANGED <<tool, cursor, searchVars, atomVars, tailVars, logVars>>

Search ==
  /\ tool = "search" /\ S!Next
  /\ UNCHANGED <<tool, refused, groupVars, atomVars, tailVars, logVars>>

Atoms ==
  /\ tool = "atoms" /\ G!Next
  /\ UNCHANGED <<tool, groupVars, searchVars, tailVars, logVars>>

Waits(A) ==
  /\ tool = "wait" /\ A
  /\ UNCHANGED <<tool, shared, groupVars, searchVars, atomVars, logVars>>

Logs ==
  /\ tool = "log" /\ L!Next
  /\ UNCHANGED <<tool, shared, groupVars, searchVars, atomVars, tailVars>>

ToolNext == Groups \/ Search \/ Atoms \/ Waits(W!Next) \/ Logs

(* Only the client that waits is owed an answer: the fairness is W's.      *)
ToolSpec ==
  /\ ToolInit /\ [][ToolNext]_toolVars
  /\ WF_toolVars(Waits(W!Tick)) /\ WF_toolVars(Waits(W!Call))
  /\ WF_toolVars(Waits(W!Wake)) /\ WF_toolVars(Waits(W!Receive))
  /\ []<>(pc # "due")

----------------------------------------------------------------------------
(* The universe.                                                           *)

Event(id, ts, class, bytes, kind, turn, occ) ==
  [id |-> id, ts |-> ts, class |-> class, bytes |-> bytes, kind |-> kind, turn |-> turn,
   occ |-> occ, project |-> 1, owner |-> {}, conv |-> {}, strong |-> {}, files |-> {},
   app |-> "A", loops |-> {}, answered |-> FALSE, asks |-> FALSE, user |-> FALSE,
   changes |-> {}]

(* "a" is what the searches look for, "b" passes the storage filter only,  *)
(* "n" is a candidate of the index that the filter drops.                  *)
(* 3 ties to 4 by a task and to 1 by a file of another thread; 5 is a copy *)
(* of 2; 7 is work of the past that is captured late.                      *)
MCEvents ==
  << [owner |-> {1}, conv |-> {1}, files |-> {1}, loops |-> {"todo"}]
       @@ Event(1, 1, "n", 1, "original", {}, 1),
     [owner |-> {2}, conv |-> {2}, loops |-> {"question"}, asks |-> TRUE]
       @@ Event(2, 1, "a", 1, "original", {1}, 1),
     [strong |-> {1}, files |-> {1}, app |-> "B"]
       @@ Event(3, 2, "b", 1, "unknown", {2}, 2),
     [owner |-> {2}, conv |-> {2}, strong |-> {1}, user |-> TRUE, loops |-> {"reply"}]
       @@ Event(4, 2, "a", 2, "original", {2}, 2),
     [owner |-> {2}, conv |-> {2}, loops |-> {"question"}, asks |-> TRUE]
       @@ Event(5, 3, "a", 1, "inherited", {1}, 1),
     [project |-> 0, owner |-> {3}, conv |-> {3}, files |-> {1}]
       @@ Event(6, 3, "n", 1, "original", {}, 3),
     [files |-> {1, 2}, app |-> "B", loops |-> {"followup"}, changes |-> {1}]
       @@ Event(7, 4, "a", 2, "original", {3}, 2),
     Event(8, 4, "b", 1, "malformed", {}, 4) >>

MCIdCaps == <<3, 2, 1>>

(* Two selectors over three kinds of rows, and a millisecond with more     *)
(* turns of one source than a page, cut by the window when others precede. *)
MCTailEvents ==
  << Event(1, 1, "a", 1, "original", {}, 1),
     Event(2, 2, "a", 1, "original", {}, 2), Event(3, 2, "a", 1, "original", {}, 2),
     Event(4, 2, "a", 1, "inherited", {}, 2), Event(5, 2, "a", 1, "original", {}, 2),
     Event(7, 2, "a", 1, "original", {}, 2),
     Event(8, 2, "b", 1, "original", {}, 2),
     Event(9, 3, "a", 1, "original", {}, 3), Event(10, 3, "n", 1, "original", {}, 3),
     Event(11, 4, "b", 1, "original", {}, 4) >>

(* One source by name, and a prefix that only the scan itself can test.    *)
MCWaitQueries ==
  {[scans |-> {"a"}, keeps |-> {"a"}], [scans |-> {"a", "b", "n"}, keeps |-> {"b"}]}

MCBacklog == {1, 2, 3, 4, 5, 10}

Everything == {"a", "b", "n"}

Job(at, window, by, size, reps, limit) ==
  [at |-> at, window |-> window, since |-> 0, until |-> 0, by |-> by, size |-> size,
   reps |-> reps, limit |-> limit, gap |-> 1, hint |-> {}, scans |-> Everything,
   keeps |-> Everything]

MCJobs ==
  { Job(4, <<>>, "thread", 2, 1, 6), Job(4, <<1, 4>>, "project", 1, 2, 6),
    Job(5, <<0, 4>>, "thread", 1, 1, 3) }

Request(scans, keeps, from, to, filtered, hits) ==
  [scans |-> scans, keeps |-> keeps, post |-> TRUE, since |-> from, until |-> to,
   filtered |-> filtered, hits |-> hits]

MCRequests ==
  { Request(Everything, {"a"}, 0, 9, FALSE, {}),
    Request({"a", "b"}, {"a", "b"}, 0, 4, FALSE, {}),
    Request(Everything, {"a", "b"}, 0, 9, TRUE, {"a"}),
    Request({"a", "n"}, {"a"}, 2, 9, TRUE, {"a"}) }

MCAsked ==
  [ids : {<<2, 7, 2, 4>>, <<5, 3, 8, 1>>}, prefer : {"as_requested", "recent_first"},
   view : {"full"}]

----------------------------------------------------------------------------
(* What the tools promise.                                                 *)

\* A search pages exactly: whatever it has passed was received, newest first and
\* once, and every call takes it further back.
SearchIsExact ==
  tool = "search" => S!NothingMissed /\ S!NewestFirst /\ S!CursorAdvances

\* The pages of a read of atoms add up to what was asked for, each atom once.
AtomsArriveOnce == tool = "atoms" => G!AtomsArriveOnce

\* Chaining next_since loses no turn without a warning and repeats none.
ChainingIsLossless == tool = "wait" => W!ChainingIsLossless /\ W!DeliveredOnce

\* A turn ahead of the watermark reaches the client.
TurnsArrive == tool = "wait" => W!TurnsArrive

\* Grouped discovery hands out what its first call found, each member once, and
\* refuses to go on only when what it read has changed.
GroupsAddUp == tool = "groups" => PagesAddUp /\ RefusedForCause

(* What follows depends on the ledger alone; it is evaluated where no      *)
(* listing has begun, once for each ledger.                                *)
OnEachLedger(P) == tool = "groups" /\ job = None => P

MCQueries ==
  [scans : {Everything, {"a", "b"}}, keeps : {{"a"}, {"a", "b"}}, post : {TRUE},
   since : {0, 2}, until : {9}, order : {"asc", "desc"},
   cursor : {{}, {[ts |-> 2, id |-> 3]}, {[ts |-> 3, id |-> 6]}}, limit : {1, 3}]

\* STORAGE_MAX_ROW_LIMIT is less than STORAGE_MAX_SCANNED_ROWS.
ASSUME QueriesFit == \A q \in MCQueries : q.limit <= PageRows * MaxPages

MCNewest == {q \in MCQueries : q.order = "desc" /\ q.limit = 1}

MCWindows ==
  [scans : {Everything, {"a", "b"}}, keeps : {{"a"}, {"a", "b"}}, post : {TRUE},
   since : {1, 2}, until : {3, 4}]

\* SQLite with its page, scan and byte budgets answers as the memory adapter
\* does, and loses or repeats nothing where it asks the reader to resume.
AdaptersAgree == \A q \in MCQueries : AdaptersAgreeOn(ledger, q)

\* The MRU resolver skips inherited copies, however many come first, and never
\* returns an older row, or none, while a newer one is within its windows.
MruIsNewest ==
  \A q \in MCNewest :
    /\ MruIsNewestOn(ledger, q)
    /\ GitIsNewestOn(ledger, q, <<[q EXCEPT !.keeps = {"b"}], [q EXCEPT !.keeps = {"n"}]>>)

\* A query answered in bounded pages, on its own or again and again by the MRU
\* resolver, is answered as if nothing were bounded.
QueriesAreExact == OnEachLedger(AdaptersAgree /\ MruIsNewest)

\* Without a warning and short of what was asked for, the cluster reader has
\* every observation of the window, the late ones included; and late ones never
\* take the place of timely ones, of which the newest are read first.
ClusterReadsAll ==
  OnEachLedger(
    \A f \in MCWindows, n \in {2, 4} :
      C!ClusterInputComplete(ledger, f, n) /\ C!OnTimeFirst(ledger, f, n))

Turns(rows) == LogicalTurns({r.id : r \in {x \in rows : x.kind # "malformed"}})

\* Clusters are connected work of one project: whatever shares a task, an issue or
\* a thread is in one, files alone never join two threads, and the edges shown
\* are enough to explain each cluster.
ClustersAreThreads ==
  OnEachLedger(
    \A gap \in {0, 1}, turns \in {Turns(ledger)} :
      ClustersAreThreadsOf(BuildGraph(turns, gap), turns, Links(turns, gap)))

MCRecent ==
  {[Job(4, w, "thread", 1, 1, n) EXCEPT !.hint = h] :
     w \in {<<>>, <<1, 4>>, <<0, 3>>}, n \in {1, 2, 4}, h \in {{}, {1}}}

HonestAbout(r, q) ==
  /\ LimitHonest(r, q.limit, KeptOf(r))
  /\ GroupsPartition(BuildDiscoveryGroups(r, q.by, q.reps), KeptOf(r))
  /\ q.hint = {} => \A a \in FindClustersAnswers(r) : ListingHonest(r, a)

\* The limit drops the lowest ranks first and within a cluster the oldest atoms,
\* and nothing that is shown - hint, edge, group or listing - refers to an atom
\* that was dropped.
LimitIsHonest ==
  \A q \in MCRecent : HonestAbout(GetRecentWorkContext(ledger, q, 4), q)

WideOf(q, at) == [q EXCEPT !.window = <<at - WideWindow, at>>]

\* A call without arguments does not stop at the caller's own session.
NoArgsFindsWork ==
  \A q \in {x \in MCRecent : x.window = <<>> /\ x.hint = {}}, at \in {4, 5} :
    FindsWork(GetRecentWorkContext(ledger, q, at),
              GetRecentWorkContext(ledger, WideOf(q, at), at), at)

\* What find_clusters and get_recent_work_context show of the work in a window
\* hangs together, whatever the limit, and is work where there is some.
DiscoveryIsHonest == OnEachLedger(LimitIsHonest /\ NoArgsFindsWork)

\* The log of calls tells, of the newest calls, what each was and how it ended, and
\* nothing of what was asked.
LogTellsTheTruth == tool = "log" => L!LogTellsTheTruth
=============================================================================
