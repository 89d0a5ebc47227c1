# Verification of echo-context

TLA+ models of the echo-context daemon, TLC configurations that check them on
small instances, and TLAPS proofs of what matters most for every instance.
Everything is translated from the code at this commit; paths below are
relative to the root of the repository.

The daemon reads the transcripts that coding agents write (`~/.claude`,
`~/.codex`), keeps their turns as events in a SQLite ledger, and serves them to
agents over MCP. Three things have to be right. A turn that an agent wrote is in
the ledger once, whole and under the file it came from, although the transcripts
are written by somebody else while they are read, the daemon may end at any
moment, and the watcher that announces changes is unreliable. A reader that pages
this ledger gets exactly what its question asks for, although every scan, window
and answer is bounded and the ledger grows between two pages. And an
installation that replaces an older service hands its port and its ledger over
without a moment in which both, or none for good, are in charge.

## 1. The system

| Component | State it keeps | Operations | Who it talks to |
|---|---|---|---|
| Claude Code extractor (`capture/extractors/claude-code.ts`, proofs in `_shared.ts`) | durable checkpoint per path: offset, turn index, generation, source proof, page start, in-flight page, raw fallback; a bounded cache of it | one handler run per change: load, prove, read a page, write-ahead, append and checkpoint turn by turn, recheck, catch and rewind | called by the queue; appends through the pipeline; saves checkpoints in storage |
| Codex extractor (`codex.ts`) | the same checkpoint, plus what is in force at its offset: thread, settings, the start of a raw group | the same run over rollout records, with backfill of checkpoints older extractors wrote | the same |
| Capture queue (`wireJsonlExtractor` in `_shared.ts`) | `pendingPaths`, `activePath`, `activePathDirty`, the reconciliation request, its scan and two epochs, the boot scan, `healthState`, `lastError` | queue a path, run the worker, reconcile in batches, boot, watch, probe every 60 s, stop | starts handler runs; is driven by `fs.watch`, timers and the runtime |
| Pipeline and gate (`pipeline-core.ts`, `gate.ts`, `git-state.ts`, `logical-identity.ts`) | a cache of git states | accept or refuse a candidate, enrich it, append it | between extractors and storage |
| Storage (`storage/sqlite.ts`, `memory.ts`, `checkpoint.ts`, `budgets.ts`, `migrate.ts`) | events with unique dedupe keys, checkpoints, one writer row | append (first write wins), checkpoint upsert, bounded keyset pages, migration | everybody |
| Daemon lifecycle (`runtime/context-runtime.ts`, `capture-adapter-runner.ts`, `health.ts`, `pid-lock.ts`, `database-authority.ts`) | PID file, writer row, the phase of start or stop, what each adapter reports | start in order, catch up adapter by adapter, release in reverse order, refuse a second daemon, answer `/healthz` | all of the above |
| launchd authority (`runtime/launchd.ts`, `authority-receipt.ts`, `promotion-receipt.ts`) | two launchd jobs, a receipt on disk | cutover, rollback, recover | launchd, the old and the new daemon |
| Migration copy (`migration/*`) | a staged copy of the old database, its lineage record | snapshot, copy, migrate, compare, publish by link | cutover |
| Atomic file writes (`echo-home/adapters/atomic-write.ts`) | a file and a temporary beside it | inspect, resolve, open, write, chmod, rename | receipts, plists, configuration |
| `wait_for_new_turns` (`mcp/tools/wait-for-new-turns.ts`) | nothing; the client holds a watermark | poll, merge, cut a page, hand out the next watermark | reads storage |
| Discovery and retrieval tools (`mcp/tools/*`, `mcp/internal/*`) | nothing; clients hold cursors with digests | search, list groups and members, read atoms, resolve the most recent work | read storage, trace |
| Trace expansion and normalisation (`trace/**`, `normalize/**`) | nothing | collapse copies, link, cluster, rank, truncate, widen | between storage and the tools |
| MCP server and request log (`mcp/server.ts`, `request-log.ts`) | a ring of recent calls | dispatch, log, report | clients |
| Registry and utilities (`context-adapters`, `util`, `logging`) | an LRU map | – | – |

How they interact: an agent appends to a transcript; `fs.watch` (or the timer,
or a scan) names the path; the queue runs at most one handler at a time; the
handler proves that the file is the one its checkpoint came from, reads a page
and hands closed turns to the pipeline, which appends them; the checkpoint
follows each append. Readers see the ledger only. The runtime guards the
database with a PID file and a writer row so that there is one such queue, and
starts one adapter after another behind `/healthz`. A cutover copies the legacy
ledger, stops the legacy job, compares, starts the daemon, waits for the port,
and keeps a receipt of how far it has come, which rollback and recover act on.

What is hard to test in it, in short (the list with lines is in
`PROJECT.json`):

- *interleaving with the writer of the file*: every `await` of a handler run is
  a place where the file can grow, be rewritten, cut or replaced;
- *crash between an append and its checkpoint*: the append is repeated and only
  its dedupe key, rebuilt from generation and byte offset, makes it harmless;
- *where a read of a rollout ends*: what a later turn needs from an earlier line
  has to be in the checkpoint, or the read may not end there;
- *a bounded queue that may drop paths*, repaired by scans that can themselves
  be overtaken by new requests;
- *waits on waits*: stop awaits boot, boot awaits the queue, the queue is served
  by a worker that may just have ended;
- *lost notices and failed batches*, left to a timer;
- *two daemons*, and *a transaction over launchd jobs cut off anywhere*, whose
  compensations fail too;
- *readers that page a ledger which grows behind their watermark*, with budgets
  that can end any of their scans;
- *answers that are cut to a size* after what they refer to has been computed.

What makes each component correct: the extractors never lose, repeat or mix
turns and never stop for good, wherever their reads are cut; the queue never
forgets a path, is honest about its health and stops; storage returns each row
exactly once over its pages; the lifecycle admits one writer, and its health
promises nothing that is not so; an authority transaction ends with at most one
authority and a receipt that says so; a client that follows its watermarks or
cursors sees everything once; a cluster is work that belongs together, and a
limit never leaves a reference to what it dropped.

## 2. The modules

Capture:

`Transcript` – what a transcript is: lines of a few kinds, the turns that
`extractClaudeCodeTurns` reads out of a page, the offset it consumes up to, and
the gate as a set of refused lines.

`JsonlCapture` – one handler against the writer of the file. Offsets count
lines instead of bytes, and a SHA-256 proof is the slice of lines it digests.
Each action is a stretch between two awaits whose order against the writer
matters: `Resume` (`loadCheckpoint`, `inspectJsonlCheckpointProof`), `Reset`,
`ReadTail`, `CheckBoundary`, `SaveAhead`, `VerifyAhead`, `AppendTurn`,
`SaveTurn`, `SavePage`, `Finish`, the raw fallback (`AppendFragment`, `SaveRaw`,
`FinishRaw`) and the catch block (`CatchTransient`, `CatchAtDurable`,
`CatchChanged`, `Rewind`). The writer appends, rewrites a line, truncates or
replaces the file at any point; `Abort` ends the run at any point and leaves
only what was persisted. The page start is fixed with the read (`snap.start`), as the
code's `pageStart` (`claude-code.ts:1272`): the later saves of a page name the raw mode it was
read in, also after `ClearRaw`, and a bounded rewind goes back into that mode.

`TranscriptLog` and `JsonlCaptureLog` – the abstract promise (turns of the
current file are delivered whole, in order, once, and all of them) and the
refinement mapping onto it.

`CodexRollout` – the parser of a rollout as a recursive function of the lines read
(`Reading`, one line a step): `ReadLine` with
one operator per kind of line (`OnHeader`, `OnMarker`, `OnContext`, `OnCall`,
`OnOutput`, `OnReply`, `OnComplete`, `OnInput`), the lineage that headers
establish (`Lineage`, `Joined`, `CopiedAncestor`), the turn in progress, the queued
trigger and where a read may safely end (`MarkSafe`).

`CodexCapture` – the handler that carries this parser from read to read:
`Backfilled` for checkpoints of older extractors, `Rewind`, `CaptureTurns`,
`CaptureRaw` with its fragments. A read is one step here, cut anywhere by
`pageLines` or a failure; its awaits are those of `JsonlCapture`, since both
extractors run the same functions of `_shared.ts`.

`CaptureQueue` – `wireJsonlExtractor`. A file is a number of pages and a handler
run captures at most one; what happens inside a run is `JsonlCapture`'s. The
worker (`Take`, `Capture`, `ReturnDirty`, `Return`, `Check`, `StartBatch`,
`NextPath`, `Inspect`, `EndScan`, `ExitLoop`), the boot scan (`BootReady`,
`BootPath`, `BootScanned`, `BootDone`), the watcher and the timer (`Deliver`,
`DeliverNameless`, `Drop`, `Probe`), stop, and the failures of each are
separate actions; the steps that other code triggers through callbacks
(`notifyWaiters`, `kickWorker`, the tail of `handleSafely`) are operators that
every action which runs them includes.

Readers:

`EventLedger` – how events are read back: the order by time and id, keyset
cursors, and `query` of both adapters. `MemoryQuery` filters, sorts and cuts;
`SqliteQuery` inspects `PageRows * MaxPages` candidates, admits `QueryBytes`
bytes and refuses or stops with a resume cursor. `AdaptivePage` is the retry at
half the rows that every reader has. A row is its time, id, size and a class
that stands for everything a filter tests. `Selection` has the filter of a list
(`Among`), which most modules use, and what they need of sequences (`ToSet`, `Last`,
`Reverse`, `IsPrefix`).

`SearchMemories` – `search_memories` and its client: `Begin`, then `Call` with the
cursor of the last answer, between captures. `RecentPage` is the path that
overfetches one row, `FilteredPage` the bounded scan (`Consumed`, `AfterPage`),
`Responses` the byte ceiling of the answer.

`AtomReads` – `get_atoms` and its client: `Ask`, then `AskOn` with the continuation
of the last page. `GetByIds` halves what is too large, `BuildProcessOrder` orders,
`Pages` is every page the byte ceiling may make, `Continue` the checks of a
cursor's digests.

`WorkClusters` – from observations to work: `LogicalTurns` collapses copies,
`Links` and `BuildGraph` are the edges and the union-find forest with its owner
rule, `DeriveClusters` and `EnrichHints` what is said of a cluster, `RankClusters`
and `Truncate` what is left of it under a limit, `GetRecentWorkContext` the call
with its widened second pass (`AutoExpand`). All of it is a function of the
ledger and the clock.

`FindClusters` and `GroupedDiscovery` – `find_clusters` ungrouped under its byte
ceiling (`Listings`), and grouped by project or thread with two cursors: `Begin`,
`MoreGroups`, `Open`, `MoreMembers` of a client between captures; the server
computes the groups anew for each (`Continue`, `Frozen`).

`MruResolve` and `ClusterInput` – `newestMatching` with the choice between the two
ways of asking about a repository, and `queryClusterEvents` with its two lanes.
They are functions of the ledger and have no state of their own.

`WaitForNewTurns` – `wait_for_new_turns` and its client: `Call`, `Poll`, `Wake`,
`Receive` and `Abort`, between `Capture` and `Tick`. `PollSource` scans one
source, `Fresh`, `PageEnd`, `HoldBack` make the page, `ClampNextSince` the
watermark.

`RequestLog` – the ring of recent calls: `Begin`, `Finish` and `Fail` of calls that
run at once, `Read` with its filters, and `projectArgs`, which decides what an
entry keeps of the arguments.

Lifecycle and authority:

`DaemonLock` – the daemons that compete for one database. A daemon is a way of
being launched (a job, a command) with a home and the ports it may be given; its
process has a PID and a start time, which is what `ps` shows. `Create`,
`WritePid`, `ReadOwner`, `JudgeOwner` and `UnlinkStale` are the system calls of
`acquirePidLock`, `Acquire` the IMMEDIATE transaction of
`acquireDatabaseAuthority`, `Bind` the MCP server; `StartFails` is the catch block,
`Stop`, `CloseStorage`, `DropRow`, `CheckOwnFile` and `UnlinkOwn` the release in
reverse order. `Launch`, `Crash`, `StrangerStarts` and `StrangerEnds` are the
system.

`ContextRuntime` – the inside of one daemon between those locks: `OpenStorage`,
`Listen`, then the runner's `StartAdapter` and `CaughtUp` for one registration
after another, `Stop`, `StopAdapter`, `AdapterStopped`, `CloseMcp`, `CloseStorage`,
and `StartFails` on the way. An adapter is what the runner sees of an extractor:
its health, whether it has caught up and whether a handler writes.

`AuthorityTransfer` – cutover, rollback and recover. Two jobs are the environment
(`Binds`, `Relaunches`, `Dies`, `ClosesPort`, `Exits`, `Records`). A command goes
through operations (`op`), each a request to launchd (`RequestStop`, `Start`,
`LeftRunning`), a wait for three good samples in a row (`Sample`, `TimesOut`) and
what follows (`AfterLegacyStopped`, `AfterNextStopped`, `AfterInstallStopped`) or a
write of the receipt (`WriteReceipt`); `OnSuccess` and `OnFailure` are the nested try
and catch blocks of `executeAuthorityTransfer`, `executeAuthorityRollback` and
`executeAuthorityRecovery` as two tables. `CallFails` and `CheckFails` are calls that
throw, `Crash` a kill between any two steps.

`DatabaseCopy` – `migrate` step by step (`Start`, `Pin`, `Backup`, `MigrateCopy`,
`WriteLineage`, `Publish`, `Clean`) with several commands at once, sources that go
on recording, and a chain of copies. `AuthorityTransfer`'s `Migrate` and
`AfterLegacyStopped` are its use: `Vouched` is what the latter asks.

`AtomicWrite` – `atomicWrite` call by call (`Inspect`, `Resolve`, `OpenTemp`,
`WriteTemp`, `ChmodTemp`, `Rename`) with two writers of one path, links,
directories, modes, and calls that fail or write short.

`JsonlCaptureProofs`, `CodexCaptureProofs`, `CaptureQueueProofs`, `DaemonLockProofs`,
`AuthorityTransferProofs`, `LedgerProofs`, `WaitProofs`, `ToolsProofs` – theorems. `MCJsonlCapture`, `MCCaptureQueue`,
`MCCodexCapture`, `MCTools`, `MCWaitForNewTurns`, `MCDaemonLock`,
`MCAuthorityTransfer` – instances for TLC. Two of them put several modules side by
side: in `MCTools` a client uses one tool at a time, in `MCAuthorityTransfer` one
task is under way (a transfer, copies, file writes, a daemon's life). The
variables of the others stay at rest, which is how the code uses them: tools
share nothing but the ledger, and a cutover that samples a daemon sees its port
only.

How the modules fit together. `DaemonLock` gives the other models their premise,
one daemon that writes. The models of capture meet at one interface:
`CaptureQueue` assumes that a run started on a path that is behind captures a page
of it or fails, and that a run may be repeated at any time; `JsonlCapture` assumes
that runs of one path do not overlap and that another is started while the proof
is not current or the file is longer than the offset. The first is
`EventuallyCaughtUp`; the second is what the queue's single worker and its
properties give. `ContextRuntime` assumes of an adapter what `HealthyIsCaughtUp` and
`Settles` say of the queue: that its health is honest and its stop returns. The
tools all stand on `EventLedger`, whose query they call as the code does, and the
clustering tools on `WorkClusters` over `ClusterInput`.

## 3. The runs

| Run | What it asks | Bounds |
|---|---|---|
| `jsonl` | what is persisted loads again, never vouches for a turn that is not in the ledger, never mixes files in a generation; the cursor moves back only with a new generation; until a line is rewritten in place, nothing behind the cursor is missing, no line is captured twice and the in-flight proof covers what is ahead of the cursor; after the writer stops, capture comes to the end of the file | 4 lines, page of 2, boundary of 1, 3 writes of which one in place and one replacement, 1 crash |
| `jsonl_implements_log` | the handler implements `TranscriptLog`, safety and liveness, one turn refused by the gate | 6 lines, page of 4, 3 writes, none in place, 1 crash |
| `jsonl_rewrite_race` | expected violation, see section 6 | page of 3, 1 rewrite, 1 crash |
| `codex` | wherever the reads of a rollout are cut, no turn of it is lost, and their identity, initiator and origin are those of one read while no configuration line repeats the answered turn and nothing is captured raw (section 6); lineage is the file's own; a turn of another agent has its trigger | 5 lines, pages of 2 or 4, 1 change of what was written, 1 failed read, fresh checkpoints and those of older extractors |
| `codex_settings` | expected violation, see section 6 | 5 lines, page of 4, no fault |
| `queue` | a full queue loses nothing, health is honest, work has a worker; every transcript is captured to its end, with the timer also after a fault; stop returns | files of 2 and 1 pages, queue of 1, batches of 1, 1 fault |
| `tools` | a search, a read of atoms and a grouped listing hand out all they found, once, while events arrive; chaining `next_since` loses and repeats nothing and turns arrive; the adapters agree and the MRU resolver finds the newest; the cluster reader reads its window; clusters are connected threads, limits and widening honest; the log tells what happened | 8 events in 4 milliseconds, scans of 2 rows by 2 pages, 3 bytes a query, limit of 2; waiting: 10 events, page of 2, window of 5, clock of 4, 1 cancelled call; log: ring of 2, 3 calls |
| `wait_tie_gap` | expected violation, see section 6 | 7 events, 4 of them in one millisecond |
| `daemon_lock` | the row names the live writer, so that there is one; dead rows refuse nobody; exits clean up; somebody captures | 2 daemons in a home, 2 ports, 3 PIDs with 2 start times, 1 stranger, 1 crash, 1 fault |
| `pid_file_race` | expected violation, see section 6 | 2 daemons, no crash and no fault |
| `authority` | the services are never loaded together; a cutover loses no event; what a receipt says of the candidate, of legacy and of the watermark is true; commands end and recover settles an interrupted preparation; copies are faithful; files are replaced whole; a daemon starts and stops in order | 3 samples, 2 events, 1 crash, 2 faults; 2 copies over 3 paths; 2 writers; 2 adapters and 2 failures |
| `authority_recover_stuck` | expected violation, see section 6 | 2 samples, no events, 1 crash, no fault |

Why these bounds are enough to matter. A page of two lines holds exactly one
turn or half of one, so turns that end a page, span pages, or outgrow one (raw
fallback) all occur with four lines; a boundary of one line is shorter than a
page, as 4 KiB is to the read limit. One in-place write is enough to invalidate
any proof between any two steps; the second write of another kind makes the
retry meet a changed file again. Three writes also suffice to end raw mode with a
closed turn, rewrite that turn and rewind into raw mode. A rollout of five lines has room for a header, a
copied header, a trigger, a turn and the beginning of the next, and a page of two
cuts it at every line of these. A queue of one overflows at the second path while
one is active, and a file of two pages needs a second run that nobody announces.
Each configuration was enlarged until every action fired; nothing is constrained
but the counters named `Max...`, which bound the writer's and the environment's
moves and appear in the guards of those moves only.

For the readers, the budgets are so small that each of them stops a page on some
ledger: a scan of four candidates ends among rows the filter drops, two rows of
two bytes do not fit a query of three, a scan page of three rows is cut by the
byte budget of two as the code's 16 MiB scan is by 32 MiB queries, and a lane
runs out of windows (the cluster reader is checked with a generous budget inside
the clustering and with one that every window exceeds on its own). Events come in
every order and every subset of them is a ledger, so late rows are the rule. The
eight events of the clustering have each kind of link: a thread, a task two
threads share, files across threads and projects, an inherited and a malformed
copy, a question that is answered and one that is not. What fits an answer is any
prefix the ceiling may leave, since it depends on rendered sizes. The wait model
keeps the code's ratio of window to page (`2 * Cap + 1`), has ties of up to four
rows in one source and of two sources, and starts from watermarks behind, among
and ahead of the events. Questions about one call are asked on every ledger
(`OnEachLedger`); those about chains of calls while the ledger grows.

For the lock, two daemons in one home and three PIDs give every interleaving of the
system calls on the PID file, the takeover of each other's and of a stranger's
number, and a race for one port; daemons of two homes meet at the row and the port
only, which these two also do once the PID file has let both through. Two start
times are enough because only the row remembers one.

For the transfer, two faults let a step and its compensation fail in one command,
a crash leaves every receipt at every placement of the two jobs, and the following
commands run on that. Two events tell a copy before the stop from one after it.
Three paths are enough for a chain of copies and for a race to one destination, two
versions of the schema for a migration.

`CHECK_DEADLOCK FALSE` is set everywhere because the bounded environment stops: a
captured transcript, an idle queue, a finished listing and a settled receipt are
states in which nothing has to happen.

`NothingSkipped`, `CapturedOnce` and `WriteAheadCovers` speak of behaviours until
the first in-place rewrite, and `ImplementsLog` is checked with `MaxRewrites = 0`,
since a line that is rewritten in place is another turn and may be captured again.
The properties of `CodexCapture` hold of a generation until its file is changed
behind the cursor, where a new one begins.

### Fairness

`JsonlCapture!FairSpec` has weak fairness of the handler's steps together. A run
that is under way goes on because the event loop runs what is ready; a new run
starts because the queue asks for one while the proof is not current or the file
is longer than the cursor (`pathNeedsCatchUp`), on watcher events, after
`JsonlSourceChangedError`, and every 60 seconds. The writer and the crashes are
never fair.

`CaptureQueue!FairSpec` has weak fairness of the worker, of boot and of the end
of stop (ready continuations run), and of `Deliver` (an event that `fs.watch`
did not drop is reported in the end). `Settles` asks for the timer
(`TimerFires`, weak fairness of `Probe`: the interval keeps firing and its scan goes
round the directory) only in behaviours in which a notice is lost or something
fails for good. No failure, growth, loss or restart is fair.

`MCTools!ToolSpec` has, for the client that waits, weak fairness of the clock, of
the timer that wakes a sleeping call, and of the client, which keeps calling:
`TurnsArrive` is a promise to a client that does. `[]<>(pc # "due")` is the weak
fairness of `Poll`, which is enabled exactly while a poll is due; it is written
this way because TLC would otherwise evaluate whole scans to decide whether the
action is enabled. Captures and cancellations are not fair. The other tools are
their client's to continue, so they have no fairness and state termination as
progress of each call (`CursorAdvances`, the end of a listing).

`DaemonLock!FairSpec` has weak fairness of each daemon's own steps (a process that
runs goes on) and of `Relaunch`: the job is `RunAtLoad` and `KeepAlive` unless it
exited with success (`launchd.ts:973-981`). Commands are not launched fairly,
nothing is stopped, killed or failing fairly, and strangers need not end:
`SomeoneCaptures` excuses a home whose PID file has a stranger's number.

`AuthorityTransfer!FairSpec` has weak fairness of launchd's and the services' own
steps (`Binds`, `Relaunches`, `Exits`: launchd kills a job that does not end), of the command's
steps (each has a deadline), and of `Recover` and `Repairs`: the errors tell the
operator to run recover, and it refuses until what the receipt binds is as it was.
Commands that begin something, failures, kills and replaced files are not fair.
`PreparingConverges` and `RecoverConverges` need the operator, `CommandsEnd` does not
rely on it.

## 4. What is proved

All proofs are for arbitrary constants under the named assumptions of the
modules (sizes and limits are positive, line kinds are disjoint, adapters are
distinct, the null value differs from every record it stands in for, events have
ids of their own and a place in time, a storage query asks for no more rows than
its scan budget). None of them
bounds the number of writes, crashes, lines, paths or faults: the `Max...` constants
are any naturals.

`JsonlCaptureProofs`

- `TypeCorrect == Spec => []TypeOK`. By itself `TypeOK` is not inductive: a step
  that slices the snapshot needs to know that there is one and that the cursor
  lies inside it. `Shape` adds which of the run's locals are set at which `pc`,
  and that offsets stay within the page.
- `OneFilePerGeneration == Spec => []GenerationIsOneFile`. The invariant `FileInv`
  relates the ledger, the checkpoint and the run: the run's entry, its latest
  durable entry and the checkpoint have one generation (`SameGeneration`,
  `LatestSaved`); identities only grow (`IdentityOrder`); a run that is past its
  boundary check works on the file its source proof names (`SameFile`); events of
  the checkpoint's generation come from that file (`LedgerOfGeneration`), and a
  generation is opened only above all that the ledger holds. The only step that
  could break it is an append, and it is guarded by `RangeCurrent`, whose
  identity test is what the argument uses.
- `CheckpointAlwaysLoads == Spec => []CheckpointLoads`. `LoadInv` says it of the three
  entries a run holds (`checkpoint`, `cur`, `latest`) and of the point a rewind in
  progress returns to; `CursorInv` ties the run's cursor to them: between its read and
  its first turn the run has not moved from the durable entry (`CursorUnmoved`), in its
  loop the cursor is the durable offset and the end of a turn (`CursorAtTurn`), and the
  turn index and fragment number follow it (`CursorNext`). Without that a page start
  could be saved beside an offset before it. `StartIsOwn` says that the start of the page is
  where the run's entry stands and may itself be rewound to, although the run may have
  dropped since then the raw fallback that the start still has.
- `CursorOnlyForward == Spec => CursorMonotone`, an action property of the same
  invariant, with one lemma for what each kind of save writes.

The second half of the module is about what the handler leaves in the
ledger. The first theorem there holds for every behaviour. The others speak of files that
are only appended to or replaced; each of their invariants is kept as long as
`rewrites` stays 0, in-place rewrites being what a proof of bytes cannot always see.

- `VouchesForCaptured == Spec => []CheckpointVouches`. `VouchInv` follows the turns of
  the page that a checkpoint proves from the read on: those up to the cursor are in the
  ledger or were swallowed by a key (`CapturedGrows`), and a closed turn of the page is
  a turn of every longer prefix of it. The checkpoint is written only when no turn of
  what its proof covers is pending.
- `EveryTurnOnce == Spec => []CapturedOnce`. `Growth` says that what a run has read, and
  what a checkpoint proves, still is what the file has: a file grows behind all of them,
  or another one took its place, which is the only reason for a rewind to 0
  (`RewindToStart`). `LedgerShape` says that events are turns of their file (`HoldsTurns`), in
  the generation of their file (`Ordered`), under keys of their own (`KeysApart`), none swallowed. Two turns of one
  transcript are equal or disjoint (`TurnsDisjoint`), and a turn of a page is one of the
  file however far it grows (`TurnsOfPrefix`).
- `AheadIsCovered == Spec => []WriteAheadCovers`. `PageInv` says how far the page in
  flight reaches and that the checkpoint holds it while turns are appended; `CoverInv`
  that whatever is ahead of the durable offset lies in it, also for the run that
  comes after a crash, whose page is the same or a longer one.
- `NoTurnSkipped == Spec => []NothingSkipped`. The invariant is about the offset alone
  (`KeptTo`): the turns that end before it are in the ledger, whole or in fragments, and
  a cluster that is open at it either is followed by a user line, so that it is no
  turn, or is held in fragments so far and raw mode goes on. The second half is what
  makes it inductive: a line appended later may close the cluster. `KeptToTurn`,
  `KeptToPage` and `KeptToFragments` say that the three ways to move the offset keep it,
  `RunKept` what the run has appended and not yet saved.
- `DeliversInOrder == Spec /\ []Orderly => Log!Init /\ [][Log!Next]_...`: the safety half
  of `ImplementsLog`, step by step. `Orderly` is that nothing is rewritten in place and no
  cluster goes into raw mode, in which turns are kept as fragments that the log does not
  know; the configuration of `jsonl_implements_log` has no other behaviours. Every step of the
  handler is a stutter of the log except `AppendTurn`, and there `KeptBeforeNext` says
  that all turns before the next one of the page are kept, those of earlier pages by
  `NoTurnSkipped`'s invariant and those of this page because the cursor has passed them.

`CaptureQueueProofs`

- `QueueTypeCorrect == Spec => []TypeOK`, from `Shape`: the worker's path is set
  where the worker uses it, the active path is the worker's, nothing is captured
  past the end of a file. It includes the bound on `pendingPaths`.
- `NothingIsForgotten == Spec => []NothingForgotten`. Not inductive alone: `Check`
  does not queue a path again if its run did not move the cursor. `RunIsBooked`
  says why it need not: when such a run is over, whatever grew meanwhile has left
  a notice, a dirty mark or a queue entry.
- `WorkHasWorker == Spec => []WorkerForWork`, inductive with `Shape`: every step
  that makes work possible also kicks the worker or leaves one running.
- `HealthyMeansCaughtUp == Spec => []HealthyIsCaughtUp`. `GoalKept` follows each
  path that was behind when boot began through the states of the boot scan: not
  visited yet, or asked of the reconciliation, or (while boot waits) queued or
  worked on. `notifyWaiters` lets boot go on only when none of these is left. It
  needs `RunIsListed`, the counterpart of `RunIsBooked` that does not rely on
  notices, and that no reconciliation scan exists before the boot scan is over.

`DaemonLockProofs`

- `DaemonTypeCorrect == Spec => []TypeOK`.
- `RowIsKept == Spec => []RowNamesWriter`, `WritersExclude == Spec => []OneWriter`.
  `OneWriter` follows from `RowNamesWriter` and from live processes having different
  numbers (`PidsDiffer`): two writers would both be the one the row names. That the
  row is kept rests on the transaction: `StartTimeOfDaemon` says that `ps`, if it
  answers, tells the start time in the row, and if it does not, the owner counts as
  live (`KnownRowIsLive`).
- `StaleRowsDoNotBlock == Spec => RefusalIsDue` and
  `ExitReleases == Spec => ExitsClean`, action properties of the same invariant
  `IInv`. `RowOfAcquirer` says that a daemon before its transaction or after its
  release is not the one in the row, for which a PID must come round at another time
  than the row remembers; `OwnFileWritten` that a PID file a daemon still owns has its
  number in it.

`AuthorityTransferProofs`

- `TransferTypes == Spec => []TypeOK`.
- `NeverBoth == Spec => []NeverBothLoaded`, `CandidateIsAbsent`, `WatermarkFinal`,
  `StateKept` and the action property `CutoverComplete == Spec =>
  CutoverLosesNothing`, for any number of samples, events, faults and kills. None of
  them is inductive: that starting a job is safe depends on which operation starts
  it, and that on what was proven before. The invariant `IInv` has three parts.
  `Control` ties the operation in hand to its steps (`Shape`), its command
  (`Belongs`) and the status the receipt has meanwhile (`Reads`). `Placement` says
  where the jobs are then: a job that was asked to end does not come back
  (`Ends`), next is absent while legacy may be started (`NextAbsent`), and legacy is
  absent from the moment it was proven stopped until it is restored (`LegacyDown`,
  `LegacyAbsent`). `Bookkeeping` says what does not change under a job that is
  absent: the copy is still complete, the watermark final, a stopped legacy still
  stopped. The tables `OnSuccess` and `OnFailure` are used through two lemmas that list
  them (`Successes`, `Failures`).
- `CopiesFaithfulBeside`, `FilesAtomicBeside`, `DaemonOrderlyBeside`: the three properties
  that the run of `MCAuthorityTransfer` checks of the copies, the files and the daemon, as
  theorems of its composed specification `TaskSpec`. A behaviour of it does one task and
  leaves the others as they began (`OneTask`, `NothingBegun`), so the theorems that follow
  carry over; the `Same...` lemmas say that the modules those are about and
  the instances of the composition are the same definitions. Adapters are a constant of
  the composition (`Adapters`), so that the theorem is about any number of them.
- `DaemonRunsInOrder == ASSUME RuntimeBounds PROVE Spec => []RunsInOrder`, for any
  number of adapters and failures, from the registrations being distinct
  (`RuntimeBounds`, what `validateContextAdapterDefinitions` enforces). The invariant
  relates the runner's turn to the adapters: those before it have caught up
  (`Behind`), those it has been through while stopping are stopped and do not write,
  or their stop has thrown (`Rested`). `Handles` says what is known of an adapter
  without a handle, `NeverOpened` that a start which failed before the ledger was
  opened had no adapters, and `Order` which phases have an open ledger.
- `CopyIsFaithful == ASSUME CopyBounds PROVE Spec => []CopiesAreFaithful`, for any
  number of commands, files, kills and faults. A database only grows (`Grew`), so
  what was once the beginning of it stays so: `Sound` says that a ledger has the
  first rows of the source its lineage names, as many as the lineage counts, for
  the published databases, the snapshots and the staged copies alike. `Vouched`
  compares that count with the source's, and completeness follows. That the
  comparison is by count and tail is enough because of this; the proof does not use
  the tail. `Command` adds what a command knows at each stage.
- `ReplacesAtomically == ASSUME FileBounds PROVE Spec => []AtomicReplace`, for any
  number of writers. `Temporary` and `Content` say what a writer's temporary file is
  between `openSync` and `renameSync`, `Placed` that only who has renamed has a file
  in place.

`CodexCaptureProofs`

- `CodexOwnLineage == Spec => []OwnLineage` and
  `CodexTriggeredByMarker == Spec => []TriggeredByMarker`, for any lines, page sizes, cuts,
  failed reads and changes of the rollout, from `CodexInvariant`. A read is a recursive
  function of the number of lines it has passed (`Reading`). `ReadingLaw` derives its
  equations and induction over that number is first-order: a set of naturals that has 0
  and is closed under successor has all of them (`SetInduction`, from the well-foundedness
  of `<`). `ReadInv` is the invariant of the loop over lines, one lemma for each kind of
  line (`HeaderKeeps`, `MarkerKeeps`, `ContextKeeps`, ..., `LineKeeps`): the thread in force
  is that of the file's first header (`Own`), an open turn and everything emitted is
  stamped with a thread and settings in force where it began (`OpenTurn`, `GoodTurn`), a
  queued trigger has its marker in front of it (`Marked`) and an open input its place in
  the file (`InputStarts`). `CodexInv` says of the handler that the checkpoint and the start
  of its page agree with the file up to their offsets (`KnownOk`), which is what makes
  it legal to start `ReadInv` in the middle, and that every captured turn is a `GoodTurn`. A change of
  the file keeps it for what lies before the change, hence the premise `change = "none"`
  of the two properties. That headers come first (`HeadersFirst`) is the writer's part.

`LedgerProofs` – what the readers rest on.

- `QueriesAgree`: the SQLite adapter answers like the memory adapter on every ledger, for
  every query that fits its scan budget (`Fitting`) and every budget. `Begins` says that a
  sequence is the first rows of a set in the query's order; filtering, cutting, joining
  and reversing keep that (`AmongBegins`, `BeginsShorter`, `BeginsJoin`, `InOrderBegins`),
  and two sequences of one length that begin one set are equal (`BeginsAgree`). So it is enough
  that a page admits the first matches and stops at a row behind which the rest lies
  (`AdmittedExact`, `SqliteExact`, `Resumed`). `HalvingEnds` says that halving the limit ends at one
  that fits, which holds because any row fits on its own, and `PageIsExact` what a reader may rely on.
- The module also has the lemmas that the theorems about the tools cite: `Among` row by
  row (`AmongOneByOne`), and the sequence of places it picks (`AmongPlaces`); what was
  kept so far (`SoFarIs`), and that kept and dropped add up (`SoFarCounts`); that every rank
  of a finite order is taken (`RanksTaken`); and what the graph of the clustering is
  (`GraphIsThreads`), what its ranking and its limit leave.

`WaitProofs`

- `ChainedWaits == Spec => [](ChainingIsLossless /\ DeliveredOnce)`. `SourceKeeps` is the
  invariant of the scan of one source: what it has are the first eligible rows behind
  `since`, and what it has not lies behind its cursor. `PageBehindHorizon` is why a window
  has `2 * Cap + 1` rows: unless `since` is crowded, a source whose window is full offers
  more than `Cap` fresh rows, so that the page is full and ends before the window does.
  `NothingLost` follows: with the held-back ties and the clamp, every turn that is not
  on the page is ahead of `next_since` unless the answer warns. `WaitInv` carries
  this from poll to answer while captures go on, with `CrowdedGrows`: a crowded
  millisecond stays crowded. That nothing is delivered twice follows from watermarks
  that only move on, except for turns ahead of the server's clock.

`ToolsProofs` – the properties of the run `tools`, as theorems of `ToolSpec`. One tool is
in use at a time, so each has an invariant of its own.

- `SearchesAreExact == ToolSpec => []SearchIsExact`. `SearchInv` says that what was found are
  the first rows, newest first, of what the search wants among the rows present when it
  began, and that the rest lies behind the cursor. `ScanInv` is the same inside one call,
  over the loop of pages with its three budgets (`ScanKeeps`), `FilteredContinues` and `RecentContinues` what
  the two paths answer, `CutContinues` that the byte ceiling may drop any tail of it. Each of the answers has a
  row or a cursor that is older than the one before (`CursorAdvances`).
- `AtomsAddUp == ToolSpec => []AtomsArriveOnce`. The server keeps nothing between pages and
  recomputes the order of the entries from the ledger as it has become. `AtomInv`
  therefore names what the first page had fetched, `F` (`Answered`): what was received are
  the entries of `F` among the first `n` of the order, and a cursor stands for `n`, `F` and
  that order. If the digest of a cursor agrees with the ledger of the next call, the order
  is the same and the entries that exist are those of `F` (`AtomGoesOn`); if not, an atom
  that was missing has appeared, since events are never changed. `ProcessOrderIs` needs that newest
  first is a total order of the distinct ids, `FetchedIs` that fetching by halves fetches all.
- `WaitIsLossless == ToolSpec => []ChainingIsLossless`: `ChainedWaits` carried over to the
  composition.
- `QueriesExact == ToolSpec => []QueriesAreExact`: `QueriesAgree` on every ledger, and for
  the MRU resolver `MruInv`: while it goes on, every eligible row lies behind the cursor its
  windows have reached (`OpenAt`). `ExactRowIs` and `GitNewest` compare the ways of asking about a
  repository.
- `WindowsAreRead == ToolSpec => []ClusterReadsAll`. `LaneHolds` is the invariant of a lane:
  what it has consumed of its matches is a beginning of them in its order (`Down`), the
  observations it holds are those of them inside the window, and its cursor leaves
  exactly the rest (`LaneMoves`, by `PageIsExact`); a lane is over with a reason, with enough or with
  all. A row that a budget refuses ends the lane, so a beginning it stays
  (`RowsConsumed`). The second lane cannot meet a row of the first, as their times are apart.
- `LogIsTrue == ToolSpec => []LogTellsTheTruth`. `Ring` says that the log is the last
  `MaxCalls` calls, each with what became of it, a pending one without a result. What a read filters out
  of it is then what it would filter out of the fates (`ReadsAreFates`).
- `ClustersConnected == ToolSpec => []ClustersAreThreads`. `Components` is declarative, the least
  sets that no pair leads out of, so a component is recognised rather than computed
  (`ComponentsAre`). `Bound` is the invariant of the loop over the links: the edges hold each
  tree together (`Whole`), the strong links hold its threads together (`Tied`), and a tree lies in one
  component of the strong links unless it is `Late`, past the strong links of its project.
  The last part is why the order counts: the links of a project come strong ones first
  (`Phased`), so that a weak link meets trees that already have all owners they will get by strong
  ones, and `canWeaklyJoin` does not depend on what comes later.
- `AnswersAreHonest == ToolSpec => []OnEachLedger(LimitIsHonest)`, the first half of
  `DiscoveryIsHonest`: every answer of the two passes, widened or not, is a ranking that the
  limit has cut (`IsAnswer`), and the groups and listings made of it speak of nothing else.
- `GroupedPagesAddUp == ToolSpec => []GroupsAddUp`. As in `AtomsAddUp`, the server
  recomputes the groups on each page. `GroupInv` says that what was listed are the headers of
  the first call up to the cursor, that what was opened is a beginning of its group, and that the
  groups are a function of the rows read (`FoundIn`), which the digest of a cursor covers. The
  exception is the number of threads in a header: the digest leaves it out
  (`discovery-groups.ts:366-372`), and an atom beyond the limit may change it between two
  pages, so `Told` compares headers without it.

The theorems about the tools assume of the constants what `MCTools` states in `ToolBounds`
and TLC evaluates on every run: rows in order with positive sizes and known kinds of open
loops, budgets and windows that are positive, jobs with pages of at least one, and a
limit between 1 and `MaxOffset`, the largest offset a cursor may carry.

The parts of every inductive invariant were also checked with TLC, on the instances
above or smaller ones. `TypeOK` of `CaptureQueue` and `DaemonLock` is a
theorem and no longer part of a run.

Only model-checked:

- everything temporal beyond invariants, action properties and the
  steps of a refinement (`EventuallyCaughtUp`, `Settles`, `SomeoneCaptures`,
  `CommandsEnd`, `PreparingConverges`, `TurnsArrive`, the fairness in `ImplementsLog`),
  since liveness under fairness and ENABLED are out of the prover's reach;
- `SameTurns`, which compares two ways of cutting a rollout: a proof is a simulation
  between two reads with different starts, for every pair of line kinds;
- `NoArgsFindsWork`, the second half of `DiscoveryIsHonest`: that an empty narrow pass beside
  a wide pass which read everything has read everything too is a simulation between two
  scans of a lane with different windows.

Where a loop mattered to a proof it is written as a recursive function or declaratively,
not as a fold: the laws of folds are theorems with operator parameters, which the installed
provers cannot instantiate. The equations of a recursive function follow from `Recursion`, and
`SetInduction` can be used on it.

## 5. What is left out of the models, and why

`JsonlCapture`

- A verification in front of an operation and the operation are one step when
  nothing in between can tell the difference; the verifications after an
  operation are kept where a checkpoint or an append follows.
- The parser knows user lines, replies and final replies. Tool calls, reminders,
  metadata and side effects do not move turn boundaries and are data.
- An unterminated last record is invisible to the reader. A deleted file ends
  the run like a failed call (`Abort`).
- A failing storage call is a crash: both leave what was persisted. The
  in-memory cache of checkpoints holds what was persisted, so it is not a
  variable.
- The comparison of change tokens only saves a digest: every write moves the
  token.

`CodexRollout` and `CodexCapture`

- Texts are one of few classes (what a system prompt, a reminder or a rejected
  input is). Working directory, git state and configuration are one value, what
  is in force. Times, token counts and usage are left out.
- A read is one step; a change of the file is found by the next run. What the
  proofs of a page detect inside a run is `JsonlCapture`'s.

`CaptureQueue`

- Files are not deleted (ENOENT is treated by the code as "nothing to do").
- The durable offset is read exactly; the code reads it from a cache that falls
  back to storage.
- A scan's candidates are the files that exist when it starts. A file that
  appears during a directory iteration may be seen or not; its notice covers it.
- The two scan epochs are one boolean: no request came since the scan began.
- Offsets only grow. Rewinds are `JsonlCapture`'s.
- An exception of `pathNeedsCatchUp` outside a batch is an unhandled rejection
  and ends the process: it is a `Restart`.

The readers

- A poll and a call of a read tool are one step. The storage adapter is
  synchronous behind its promises, so a chain of awaits on it settles in one
  drain of the microtask queue and no append can come in between.
- Checks of arguments, projections, texts and warnings that only describe are
  data; warnings on which a property depends (`flagged`, `truncated`) are kept.
- A stored row fits a payload page, as `append` makes sure, so that
  `event_too_large` does not occur and `getByIds` of scan matches, split until it
  fits, returns them all in the order given.
- Digests in cursors stand for the values they are computed from. Labels, roles
  and summaries of clusters are wording.
- The Granola manifest window of `search_memories` is a predicate like others.
- `MaxTime` ends the clock, and with it every wait.

`DaemonLock` and `ContextRuntime`

- One database: its identity (`dev:ino`) is always the one in the row. A copy of the
  database brings its row along, and the identity then keeps it from blocking.
- A process gets a number again only at another start time than the row has; `ps`
  prints seconds, and numbers are handed out in turn.
- In `DaemonLock`, opening and migrating the storage is part of the step to
  `authority`; a failure there is `StartFails`. A port that another program has is a
  `StartFails` too. A signal during the start is a `Crash`, since handlers are
  installed after it.
- Configuration, command-line parsing and the promotion receipt that is checked at
  start decide whether a daemon runs, not how.

`AuthorityTransfer`

- What a receipt binds (paths, digests, plists, labels) is one flag, `intact`, that may
  be broken and repaired at any time; which check fails first does not matter to
  what follows.
- A sample of launchctl, lsof and the endpoint is one step. A wait's deadline may
  pass whenever a sample is not accepted; if nothing but time was missing, this is a
  fault.
- One command at a time: the operation lock is `DaemonLock`'s PID file, with the
  weakness that section 6 shows.
- The stand-alone install and uninstall, the promotion receipt, the rendering of
  plists and the audit output are left out: install's calls are those of `startNext`.

Not modelled at all: HTTP transport and sessions, JSON of `service-api.ts`,
configuration and CLI, labels and roles of `trace/`, the adapters of `normalize/`
(pure mappings of one event), and everything under `tools/` (release gates,
verifiers, smoke tests: sequential scripts that drive the product from outside).
Functions of storage without a caller (`iterateAtomsByAppendOrder`,
`listCaptureCheckpoints`, `canonicalizeTimestamps`) are left out too.

Behaviours seen on the way that are modelled as they are: a failed batch clears
the reconciliation request, so that only the timer finds its paths again;
`lastError` is never cleared, and a start-up that ends unhealthy stays so: 503 until
a restart; the window in which `activePath` is null while the
finished path is still being inspected is harmless for health only because boot
waits after every path it queues (a mutant of `BootPath` shows it); the
`notifyWaiters` of `stop` is redundant with the worker's own; a PID file whose number
another process has got refuses every daemon of that home until that process ends
(`SomeoneCaptures` excuses it), and refuses also a daemon that is given the number of
its predecessor; a daemon whose own `ps` failed writes `pid:N` into the row, which the
next daemon takes for stale (`OneWriter` excuses it); `atomicWrite` ignores the count
that `writeSync` returns, so that a short write can be published
(`ReadersSeeWhole` excuses it); closing the HTTP server cuts sockets under handlers,
which may then find the storage closed (they only read); a weak link that is
refused is not tried again when a later link would have given both sides one owner;
the limit is applied by the ranking without the demotion, so that recent work of a
single source, which the second pass sorts last (`rank.ts:14-24`), may have taken the
place of older work by then; "head and tail" of a long id list
(`find-clusters.ts:195`) are those of the ids in order of id, not of time;
`flushRecentMcpCallLog` has no caller.

## 6. Where the code and its comments differ

`_shared.ts:305-307` says that the recheck before a candidate crosses the storage
boundary makes a truncate-and-regrow race retry under a new generation. The
recheck compares the identity of the file and the bytes *before* the durable
offset. `jsonl_rewrite_race` shows the remaining case: a run is lost after an
append and before its checkpoint; the unread lines are rewritten in place after
the next run's resume proof and before its read; the rewritten turn keeps the
generation and the offset, so its dedupe key finds the event of the old one and
the turn is dropped. The write-ahead proof catches the same rewrite at any other
time.

`wait-for-new-turns.ts:401-404` says that the only answer that may lose turns is a
group of one millisecond which alone exceeds the fetch window, and that it is
flagged; the test at `tests/mcp/wait-for-new-turns.test.ts:757` calls it the only
remaining lossy case. Lines 53-57 of the source are more careful: the window
"absorbs a full cap-sized stale boundary group plus cap+1 fresh rows", and a group
of more than 20 could be split. `wait_tie_gap` shows what lies between. After a
group of 22 to 40 turns of source A was delivered whole, the next call reads it
again before anything new, because storage is asked from `since` on; fewer than
20 fresh rows of A are left in its window. A later turn of source B makes a page
below the cap that ends at B's time. That is not where A's window ended, so
nothing is held back, and `next_since` passes the turns of A that were not read.
No warning is given. `ChainingIsLossless` and `TurnsArrive` therefore exclude a
watermark whose millisecond holds more than a page of one source (`Crowded`).

`pid-lock.ts:28` calls `acquirePidLock` a single-process daemon lock. The file is
created and filled by two calls, and an empty file counts as stale. `pid_file_race`
shows a second daemon that meets the file in between, unlinks it and makes its own;
both return a lock. The daemon is protected all the same by the writer row, which is
what `daemon_lock` and `WritersExclude` show. `acquireAuthorityOperationLock`
(`launchd.ts:82`) relies on this lock alone.

The repository's `README.md:454` says that recover will "idempotently converge an interrupted cutover
or rollback on legacy authority", and the errors at `launchd.ts:1617` and `1822` send
the operator to it after "legacy was accepted". In every status but `preparing`,
recover stops next with a wait that accepts only a port nobody owns
(`launchd.ts:1745`, `815-839`). `authority_recover_stuck` kills a rollback between
the acceptance of legacy and the receipt that says so: legacy itself owns the port,
the wait runs into its deadline, and every retry ends in the same ambiguous receipt
until somebody boots legacy out by hand. Safety is not touched: `NeverBothLoaded` and
`CandidateAbsent` hold throughout. `PreparingConverges` shows that the rule the code has
for `preparing` (`launchd.ts:1717`) does what it is for.

`codex.ts:1139` says that the lines of an open turn are read again by the next pass,
which rebuilds the turn from scratch. The settings saved with the offset are those
of the end of the read, though, not those at the offset (`codex.ts:2475-2485`).
`codex_settings` shows a turn that is open at the end of a read which has already
passed the `turn_context` of the next one: rebuilt, it is recorded with the other
turn's working directory, and with it repository and project. `SameTurns` shows that
no turn depends on where the read ended, and that their identity and initiator do not
either, with one exception that it excludes: a configuration line that names the turn which has just
been answered belongs to that turn if one read sees both (`codex.ts:1348-1357`), and
to the next turn if a read begins between them. The comment at `codex.ts:1550`, that a
restart "can rebuild the same logical identity", is about the next turn's earliest line and
not about such a repetition; whether Codex writes one is not known from the code.
The raw-fragment path keeps the right value (`codex.ts:2330`).

## 7. Plan

In order of what matters to users of the ledger:

1. **Done**: `JsonlCapture` with its abstract log, `CaptureQueue`, `CodexRollout` and
   `CodexCapture`; `EventLedger` and the tools that read it, down to the clustering;
   `DaemonLock`, `ContextRuntime`, `AuthorityTransfer`, `DatabaseCopy`, `AtomicWrite`,
   `RequestLog`; the proofs of section 4.
2. Proofs: **done** for all safety of `JsonlCapture` and the steps of its refinement,
   the queue, the locks, the authority transactions, the lineage and triggers of
   `CodexCapture`, and the readers with the clustering and its grouped pages; next,
   `NoArgsFindsWork`.
3. `ClaudeTurns`: the line-by-line parser of `claude-code.ts` with tool calls,
   reminders and side effects, in the form of `CodexRollout`, checked against the
   declarative `Turns` of `Transcript`.
4. Stand-alone install and uninstall beside `AuthorityTransfer`, with the promotion
   receipt, and an abstract transaction (one authority, or a receipt that says
   ambiguous) that the three commands refine.
5. Deleted transcripts in `CaptureQueue`, and events the ledger refuses for their
   size in `JsonlCapture`.
