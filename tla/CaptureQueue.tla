---------------------------- MODULE CaptureQueue ----------------------------
(***************************************************************************)
(* The capture queue that wireJsonlExtractor                               *)
(* (src/capture/extractors/_shared.ts) puts between the watcher of a       *)
(* directory of transcripts and the one handler that captures them: a      *)
(* bounded set of pending paths, a single worker, a reconciliation scan    *)
(* for what the queue could not hold, a boot scan, and stop.               *)
(*                                                                         *)
(* A file is a number of pages (MAX_JSONL_READ_BYTES) and a handler run    *)
(* captures at most one: what a run does to one transcript is the subject  *)
(* of JsonlCapture.  Transcripts grow and are not deleted here, and the    *)
(* durable offset of a path is known exactly (offsetMap, or the store when *)
(* the cache has evicted it).                                              *)
(***************************************************************************)
EXTENDS Integers, Sequences, FiniteSets, Functions

CONSTANTS
  Paths,       \* the transcripts under the prefix
  MaxPending,  \* maxPendingPaths
  BatchSize,   \* reconciliationBatchSize
  MaxSize,     \* bound: pages in each file
  MaxFaults,   \* bound: dropped notices, failures, changed reads and restarts
  None         \* null

ASSUME LimitsArePositive ==
  /\ MaxPending \in Nat \ {0}
  /\ BatchSize \in Nat \ {0}
  /\ MaxSize \in [Paths -> Nat] /\ MaxFaults \in Nat

ASSUME NoneIsNoPath ==
  None \notin Paths /\ \A S \in SUBSET Paths : None # S

VARIABLES
  size,       \* pages in each file, 0 while there is no file
  offset,     \* pages captured of each file, durable
  notice,     \* the watcher's notice of the last growth: sent, lost or none
  pending,    \* pendingPaths, in insertion order
  active,     \* activePath
  dirty,      \* activePathDirty
  pc,         \* where the worker is; "none" when there is no worker
  path,       \* the path it works on
  before,     \* offsetBefore
  batch,      \* which path of a reconciliation batch, 0 outside a batch
  requested,  \* reconciliationRequested
  fresh,      \* no request since the scan under way began (the two epochs agree)
  scan,       \* reconciliationIterator: paths to visit, or None
  boot,       \* where initialCatchUp is
  found,      \* paths the boot scan has yet to visit
  goal,       \* history: the sizes when the boot scan began
  health,     \* healthState
  failed,     \* lastError is set
  stop,       \* no, draining or done
  faults      \* faults so far

files   == <<size, offset>>
queue   == <<pending, dirty, requested, fresh>>
worker  == <<pc, path, before, batch>>
booting == <<boot, found, goal>>
vars    == <<files, notice, queue, active, worker, scan, booting, health,
             failed, stop, faults>>

Stopped == stop # "no"

Existing == { p \in Paths : size[p] > 0 }

(* pathNeedsCatchUp.                                                       *)
NeedsCatchUp(p) == offset[p] # size[p]

InitialScanRunning == boot \in {"ready", "scan", "drain"}

-----------------------------------------------------------------------------
(* What every handler, event and timer calls.                              *)

(* requestReconciliation: a scan under way may be past the path already.   *)
RequestReconciliation == requested' = TRUE /\ fresh' = (scan = None)

Enqueue(p) ==
  \/ /\ Stopped \/ p \in Range(pending)
     /\ UNCHANGED <<pending, requested, fresh>>
  \/ /\ ~Stopped /\ p \notin Range(pending) /\ Len(pending) < MaxPending
     /\ pending' = Append(pending, p)
     /\ UNCHANGED <<requested, fresh>>
  \/ /\ ~Stopped /\ p \notin Range(pending) /\ Len(pending) >= MaxPending
     /\ RequestReconciliation
     /\ UNCHANGED pending

QueuePath(p) ==
  \/ /\ ~Stopped /\ active = p
     /\ dirty' = TRUE
     /\ UNCHANGED <<pending, requested, fresh>>
  \/ /\ Stopped \/ active # p
     /\ Enqueue(p)
     /\ UNCHANGED dirty

(* kickWorker.                                                             *)
Kick ==
  /\ pc' = IF ~Stopped /\ pc = "none" THEN "loop" ELSE pc
  /\ UNCHANGED <<path, before, batch>>

PendingDrained == Stopped \/ (active = None /\ pending = <<>>)

(* Mutant: the reconciliation that boot caused is not waited for.          *)
FullyIdleAfterDrain == PendingDrained

FullyIdle == PendingDrained /\ (Stopped \/ ~requested)

(* notifyWaiters, at the end of a step: releases the boot scan.            *)
Notify ==
  /\ boot' = IF boot = "drain" /\ PendingDrained' THEN "scan"
             ELSE IF boot = "idle" /\ FullyIdle' THEN "finish" ELSE boot
  /\ UNCHANGED <<found, goal>>

Fails == failed' = TRUE /\ health' = "unhealthy"

Faulty == faults < MaxFaults /\ faults' = faults + 1

-----------------------------------------------------------------------------
(* A directory of transcripts and a daemon that has just been started.     *)

Init ==
  /\ size \in [Paths -> UNION {0 .. MaxSize[p] : p \in Paths}]
  /\ \A p \in Paths : size[p] <= MaxSize[p]
  /\ offset = [p \in Paths |-> 0]
  /\ notice = [p \in Paths |-> "none"]
  /\ goal = offset
  /\ faults = 0
  /\ pending = <<>> /\ active = None /\ dirty = FALSE
  /\ pc = "none" /\ path = None /\ before = 0 /\ batch = 0
  /\ requested = FALSE /\ fresh = TRUE /\ scan = None
  /\ boot = "ready" /\ found = {}
  /\ health = "starting" /\ failed = FALSE /\ stop = "no"

-----------------------------------------------------------------------------
(* The worker.                                                             *)

(* handleSafely up to its first await.                                     *)
StartHandler(p) ==
  /\ active' = p /\ dirty' = FALSE
  /\ path' = p /\ before' = offset[p]
  /\ pc' = "handle"
  /\ notice' = [notice EXCEPT ![p] = IF @ = "lost" THEN "none" ELSE @]

Take ==
  /\ pc = "loop" /\ ~Stopped
  /\ pending # <<>>
  /\ pending' = Tail(pending)
  /\ StartHandler(Head(pending))
  /\ UNCHANGED <<files, batch, requested, fresh, scan, booting, health, failed,
                 stop, faults>>

StartBatch ==
  /\ pc = "loop" /\ ~Stopped
  /\ pending = <<>>
  /\ ~InitialScanRunning /\ requested
  /\ scan' = IF scan = None THEN Existing ELSE scan
  /\ batch' = 1
  /\ pc' = "next"
  /\ UNCHANGED <<files, notice, pending, active, dirty, path, before, requested,
                 fresh, booting, health, failed, stop, faults>>

(* The worker ends: nothing is left that it could do now.                  *)
ExitLoop ==
  /\ pc = "loop"
  /\ Stopped \/ (pending = <<>> /\ (InitialScanRunning \/ ~requested))
  /\ pc' = "none"
  /\ UNCHANGED <<path, before, batch, files, notice, queue, active, scan, health,
                 failed, stop, faults>>
  /\ Notify

(* One transcript is captured, a page at most, and checkpointed.           *)
Capture ==
  /\ pc = "handle"
  /\ offset' = [offset EXCEPT ![path] = IF @ < size[path] THEN @ + 1 ELSE @]
  /\ pc' = "return"
  /\ UNCHANGED <<size, notice, queue, active, path, before, batch, scan, booting,
                 health, failed, stop, faults>>

(* The next path of the batch, or back to the worker's loop.               *)
AfterPath ==
  /\ pc' = IF batch = 0 \/ batch = BatchSize THEN "loop" ELSE "next"
  /\ batch' = IF batch = 0 \/ batch = BatchSize THEN 0 ELSE batch + 1
  /\ path' = None /\ before' = 0

(* The end of handleSafely's finally block: the path is no longer active   *)
(* and is queued again when it has to be.                                  *)
Settle(rerun) ==
  /\ dirty' = FALSE
  /\ IF rerun THEN Enqueue(path) ELSE UNCHANGED <<pending, requested, fresh>>
  /\ AfterPath
  /\ UNCHANGED <<files, notice, scan, stop>>
  /\ Notify

(* The handler returned: the path is rerun if a notice came meanwhile,     *)
(* otherwise after an asynchronous look at the file.                       *)
ReturnDirty ==
  /\ pc = "return" /\ dirty
  /\ active' = None
  /\ Settle(TRUE)
  /\ UNCHANGED <<health, failed, faults>>

Unsettled ==
  /\ active' = None /\ pc' = "check"
  /\ UNCHANGED <<files, notice, queue, path, before, batch, scan, booting, stop>>

Return ==
  /\ pc = "return" /\ ~dirty
  /\ Unsettled
  /\ UNCHANGED <<health, failed, faults>>

(* The handler throws JsonlSourceChangedError, or anything else, before or *)
(* after its page is durable.                                              *)
SourceChanged ==
  /\ pc \in {"handle", "return"} /\ Faulty
  /\ active' = None
  /\ Settle(TRUE)
  /\ UNCHANGED <<health, failed>>

HandlerFails ==
  /\ pc \in {"handle", "return"} /\ Faulty /\ Fails
  /\ \/ dirty /\ active' = None /\ Settle(TRUE)
     \/ ~dirty /\ Unsettled

(* Mutant: progress is taken for completion.                               *)
CheckStalledOnly ==
  /\ pc = "check"
  /\ UNCHANGED <<active, health, failed, faults>>
  /\ Settle(FALSE)

(* A run that moved the cursor is followed by another while the file is    *)
(* ahead of it; one that left a page and more unread is a failure.         *)
Check ==
  /\ pc = "check"
  /\ UNCHANGED <<active, faults>>
  /\ \/ /\ offset[path] # before
        /\ Settle(NeedsCatchUp(path))
        /\ UNCHANGED <<health, failed>>
     \/ /\ offset[path] = before
        /\ Settle(FALSE)
        /\ IF size[path] - offset[path] > 1 THEN Fails
           ELSE UNCHANGED <<health, failed>>

-----------------------------------------------------------------------------
(* Reconciliation: runReconciliationBatch.                                 *)

LeaveBatch == pc' = "loop" /\ path' = None /\ before' = 0 /\ batch' = 0

(* Mutant: a finished scan answers every request, also those made after it *)
(* had passed the path.                                                    *)
EndScanAnswersAll ==
  /\ pc = "next" /\ scan = {} /\ ~Stopped
  /\ scan' = None /\ fresh' = TRUE
  /\ requested' = FALSE
  /\ LeaveBatch
  /\ UNCHANGED <<files, notice, pending, active, dirty, health, failed, stop,
                 faults>>
  /\ Notify

EndScan ==
  /\ pc = "next" /\ scan = {} /\ ~Stopped
  /\ scan' = None /\ fresh' = TRUE
  /\ requested' = (requested /\ ~fresh)
  /\ LeaveBatch
  /\ UNCHANGED <<files, notice, pending, active, dirty, health, failed, stop,
                 faults>>
  /\ Notify

NextPath ==
  /\ pc = "next" /\ ~Stopped
  /\ \E p \in scan : path' = p /\ scan' = scan \ {p}
  /\ pc' = "inspect"
  /\ UNCHANGED <<files, notice, queue, active, before, batch, booting, health,
                 failed, stop, faults>>

StopBatch ==
  /\ pc = "next" /\ Stopped
  /\ LeaveBatch
  /\ UNCHANGED <<files, notice, queue, active, scan, booting, health, failed,
                 stop, faults>>

Inspect ==
  /\ pc = "inspect"
  /\ \/ /\ NeedsCatchUp(path)
        /\ StartHandler(path)
        /\ UNCHANGED batch
     \/ /\ ~NeedsCatchUp(path)
        /\ AfterPath
        /\ UNCHANGED <<active, dirty, notice>>
  /\ UNCHANGED <<files, pending, requested, fresh, scan, booting, health, failed,
                 stop, faults>>

(* Discovery or pathNeedsCatchUp throws inside a batch.                    *)
BatchFails ==
  /\ pc \in {"next", "inspect"} \/ (pc = "check" /\ batch > 0)
  /\ Faulty /\ Fails
  /\ scan' = None /\ fresh' = TRUE /\ requested' = FALSE
  /\ LeaveBatch
  /\ UNCHANGED <<files, notice, pending, active, dirty, stop>>
  /\ Notify

-----------------------------------------------------------------------------
(* initialCatchUp.                                                         *)

(* Mutant: the end of the boot scan does not kick the worker.              *)
FinishScanUnkicked ==
  /\ boot' = IF FullyIdle THEN "finish" ELSE "idle"
  /\ UNCHANGED <<worker, found, files, notice, queue, active, scan, stop>>

(* Its finally block: reconciliation may run from now on, and is waited    *)
(* for.                                                                    *)
FinishScan ==
  /\ boot' = IF FullyIdle THEN "finish" ELSE "idle"
  /\ pc' = IF ~Stopped /\ pc = "none" THEN "loop" ELSE pc
  /\ UNCHANGED <<path, before, batch, found, files, notice, queue, active, scan,
                 stop>>

BootReady ==
  /\ boot = "ready" /\ ~Stopped
  /\ boot' = "scan" /\ found' = Existing /\ goal' = size
  /\ health' = IF failed THEN health ELSE "catching_up"
  /\ UNCHANGED <<files, notice, queue, active, worker, scan, failed, stop, faults>>

(* Mutant: the boot scan leaves what it queued to the wait at its end.     *)
BootPathWithoutWait ==
  /\ boot = "scan" /\ ~Stopped
  /\ UNCHANGED <<files, notice, active, scan, boot, goal, health, failed, stop,
                 faults>>
  /\ \E p \in found :
       /\ found' = found \ {p}
       /\ IF NeedsCatchUp(p) THEN QueuePath(p) /\ Kick
                             ELSE UNCHANGED <<queue, worker>>

BootPath ==
  /\ boot = "scan" /\ ~Stopped
  /\ UNCHANGED <<files, notice, active, scan, goal, health, failed, stop, faults>>
  /\ \E p \in found :
       /\ found' = found \ {p}
       /\ IF NeedsCatchUp(p) THEN QueuePath(p) /\ Kick
                             ELSE UNCHANGED <<queue, worker>>
       /\ boot' = IF NeedsCatchUp(p) /\ ~PendingDrained' THEN "drain" ELSE "scan"

(* Mutant: stop leaves a boot scan waiting that the watcher has not        *)
(* released yet.                                                           *)
BootScannedAwaitingWatcher ==
  /\ boot = "scan" /\ (found = {} \/ Stopped)
  /\ FinishScan
  /\ UNCHANGED <<goal, health, failed, faults>>

(* The scan is over, or stop has ended it or the wait for the watcher.     *)
BootScanned ==
  /\ \/ boot = "scan" /\ (found = {} \/ Stopped)
     \/ boot = "ready" /\ Stopped
  /\ FinishScan
  /\ UNCHANGED <<goal, health, failed, faults>>

BootFails ==
  /\ boot = "scan" /\ Faulty /\ Fails
  /\ FinishScan
  /\ UNCHANGED goal

BootDone ==
  /\ boot = "finish"
  /\ boot' = "done"
  /\ health' = IF Stopped \/ failed THEN health ELSE "healthy"
  /\ UNCHANGED <<files, notice, queue, active, worker, scan, found, goal, failed,
                 stop, faults>>

-----------------------------------------------------------------------------
(* The watcher and the 60 s timer.  Once stopped, the daemon answers       *)
(* neither, and what grows when it is gone is left to the next one.        *)

Grow(p) ==
  /\ size[p] < MaxSize[p] /\ stop # "done"
  /\ size' = [size EXCEPT ![p] = @ + 1]
  /\ notice' = [notice EXCEPT ![p] = "sent"]
  /\ UNCHANGED <<offset, queue, active, worker, scan, booting, health, failed,
                 stop, faults>>

Deliver(p) ==
  /\ notice[p] = "sent" /\ ~Stopped
  /\ notice' = [notice EXCEPT ![p] = "none"]
  /\ QueuePath(p) /\ Kick
  /\ UNCHANGED <<files, active, scan, booting, health, failed, stop, faults>>

(* The notice arrives without a file name: a "raw" event.                  *)
DeliverNameless(p) ==
  /\ notice[p] = "sent" /\ ~Stopped
  /\ notice' = [notice EXCEPT ![p] = "none"]
  /\ RequestReconciliation
  /\ Kick
  /\ UNCHANGED <<files, pending, dirty, active, scan, booting, health, failed,
                 stop, faults>>

(* fs.watch drops the notice, or reports an error instead.                 *)
Drop(p) ==
  /\ notice[p] = "sent" /\ Faulty
  /\ notice' = [notice EXCEPT ![p] = "lost"]
  /\ Fails \/ UNCHANGED <<health, failed>>
  /\ UNCHANGED <<files, queue, active, worker, scan, booting, stop>>

(* Mutant: the timer gives up once anything has failed.                    *)
ProbeWhileHealthy(p) ==
  /\ ~Stopped /\ ~failed /\ size[p] > 0 /\ NeedsCatchUp(p)
  /\ QueuePath(p) /\ Kick
  /\ UNCHANGED <<files, notice, active, scan, booting, health, failed, stop, faults>>

(* The timer looks at the paths it knows and goes through the directory in *)
(* turn, so it comes to every path again and again.                        *)
Probe(p) ==
  /\ ~Stopped /\ size[p] > 0 /\ NeedsCatchUp(p)
  /\ QueuePath(p) /\ Kick
  /\ UNCHANGED <<files, notice, active, scan, booting, health, failed, stop, faults>>

-----------------------------------------------------------------------------
(* stop, and the end of the process.                                       *)

Stop ==
  /\ ~Stopped
  /\ stop' = "draining" /\ health' = "stopped"
  /\ pending' = <<>> /\ dirty' = FALSE /\ requested' = FALSE
  /\ UNCHANGED <<files, notice, fresh, active, worker, scan, failed, faults>>
  /\ Notify

StopDone ==
  /\ stop = "draining" /\ boot = "done" /\ pc = "none"
  /\ stop' = "done" /\ scan' = None /\ fresh' = TRUE
  /\ UNCHANGED <<files, notice, pending, dirty, requested, active, worker,
                 booting, health, failed, faults>>

(* The process ends at any moment, also because pathNeedsCatchUp threw     *)
(* outside a batch and nothing caught it, and is started again: what the   *)
(* boot scan finds on disk is all it knows.                                *)
Restart ==
  /\ Faulty
  /\ notice' = [p \in Paths |-> "none"]
  /\ pending' = <<>> /\ active' = None /\ dirty' = FALSE
  /\ pc' = "none" /\ path' = None /\ before' = 0 /\ batch' = 0
  /\ requested' = FALSE /\ fresh' = TRUE /\ scan' = None
  /\ boot' = "ready" /\ found' = {}
  /\ health' = "starting" /\ failed' = FALSE /\ stop' = "no"
  /\ UNCHANGED <<files, goal>>

Worker ==
  \/ Take \/ StartBatch \/ ExitLoop \/ Capture \/ ReturnDirty \/ Return \/ Check
  \/ EndScan \/ NextPath \/ StopBatch \/ Inspect

Boot == BootReady \/ BootPath \/ BootScanned \/ BootDone

Failure == SourceChanged \/ HandlerFails \/ BatchFails \/ BootFails \/ Restart

Next ==
  \/ Worker \/ Boot \/ Failure \/ Stop \/ StopDone
  \/ \E p \in Paths :
       Grow(p) \/ Deliver(p) \/ DeliverNameless(p) \/ Drop(p) \/ Probe(p)

Spec == Init /\ [][Next]_vars

(* The event loop runs what is ready, and fs.watch reports in the end.     *)
FairSpec ==
  /\ Spec
  /\ WF_vars(Worker) /\ WF_vars(Boot) /\ WF_vars(StopDone)
  /\ \A p \in Paths : WF_vars(Deliver(p))

(* The timer keeps firing.                                                 *)
TimerFires == \A p \in Paths : WF_vars(Probe(p))

-----------------------------------------------------------------------------
(* Every variable keeps its type, and the queue its bound.                 *)
TypeOK ==
  /\ size \in [Paths -> Nat] /\ offset \in [Paths -> Nat]
  /\ notice \in [Paths -> {"none", "sent", "lost"}]
  /\ pending \in Seq(Paths) /\ Len(pending) <= MaxPending
  /\ active \in Paths \cup {None} /\ dirty \in BOOLEAN
  /\ pc \in {"none", "loop", "handle", "return", "check", "next", "inspect"}
  /\ path \in Paths \cup {None} /\ before \in Nat /\ batch \in 0 .. BatchSize
  /\ requested \in BOOLEAN /\ fresh \in BOOLEAN
  /\ scan \in (SUBSET Paths) \cup {None}
  /\ boot \in {"ready", "scan", "drain", "idle", "finish", "done"}
  /\ found \in SUBSET Paths /\ goal \in [Paths -> Nat]
  /\ health \in {"starting", "catching_up", "healthy", "unhealthy", "stopped"}
  /\ failed \in BOOLEAN /\ stop \in {"no", "draining", "done"}
  /\ faults \in Nat

(* A path whose file is ahead of its cursor will be looked at: a notice is *)
(* out (or was lost by the watcher), the path is queued or being worked    *)
(* on, the boot scan or a requested reconciliation has yet to come to it.  *)
Covered(p) ==
  \/ notice[p] # "none"
  \/ p \in Range(pending)
  \/ path = p /\ pc \in {"inspect", "handle", "return", "check"}
  \/ boot = "ready" \/ p \in found
  \/ requested /\ (scan = None \/ ~fresh \/ p \in scan)

(* Growth is never forgotten: neither the bound on the queue, nor notices  *)
(* without a name, nor those that come while their path is being handled   *)
(* or after a scan has passed it, lose a path as long as nothing fails.    *)
NothingForgotten ==
  ~Stopped /\ ~failed =>
    \A p \in Paths : NeedsCatchUp(p) => Covered(p)

(* Whoever reads "healthy" may rely on it: all that was on disk when the   *)
(* boot scan began is captured and nothing has failed (README.md:15).      *)
HealthyIsCaughtUp ==
  health = "healthy" => ~failed /\ \A p \in Paths : offset[p] >= goal[p]

(* There is work only while there is a worker for it, and when stop has    *)
(* returned nobody works any more.                                         *)
WorkerForWork ==
  /\ ~Stopped /\ (pending # <<>> \/ (requested /\ ~InitialScanRunning))
       => pc # "none"
  /\ stop = "done" => pc = "none" /\ active = None /\ boot = "done"

Captured == \A p \in Paths : offset[p] = size[p]

Undisturbed == ~failed /\ \A p \in Paths : notice[p] # "lost"

(* Every transcript is captured to its end: without the timer as long as   *)
(* no notice is lost and nothing fails, and with it also after lost notices*)
(* and failed batches.  And stop returns: nobody waits for a wake-up that  *)
(* does not come.                                                          *)
Settles ==
  (<>[]Undisturbed \/ TimerFires)
    => <>[](stop = "done" \/ (~Stopped /\ Captured))

=============================================================================
