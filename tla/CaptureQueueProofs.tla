------------------------- MODULE CaptureQueueProofs -------------------------
(***************************************************************************)
(* Theorems about CaptureQueue for any number of transcripts of any size,  *)
(* any bound on the queue and on the batches, and any number of faults.    *)
(***************************************************************************)
EXTENDS CaptureQueue, SequenceTheorems, TLAPS

-----------------------------------------------------------------------------
(* What the worker's locals are at each of its steps.                      *)

Working == pc \in {"inspect", "handle", "return", "check"}

WorkerShape ==
  /\ Working => path \in Paths
  /\ active # None => active = path /\ pc \in {"handle", "return"}
  /\ pc = "handle" => before = offset[path]
  /\ pc \in {"none", "loop"} => batch = 0
  /\ pc \in {"next", "inspect"} => batch > 0
  /\ batch > 0 => scan \in SUBSET Paths

NotPastTheEnd == \A p \in Paths : offset[p] <= size[p]

Shape == TypeOK /\ WorkerShape /\ NotPastTheEnd

-----------------------------------------------------------------------------
(* What putting a path into the queue does to the queue.                   *)

LEMMA RangeOfEmpty == Range(<<>>) = {}
  BY DEF Range

LEMMA RangeOfAppend ==
  ASSUME NEW S, NEW s \in Seq(S), NEW x \in S
  PROVE  Range(Append(s, x)) = Range(s) \cup {x}
  <1>1. /\ DOMAIN s = 1 .. Len(s) /\ Len(s) \in Nat
        /\ DOMAIN Append(s, x) = 1 .. (Len(s) + 1)
    BY AppendProperties, LenProperties
  <1>2. /\ \A i \in 1 .. Len(s) : Append(s, x)[i] = s[i]
        /\ Append(s, x)[Len(s) + 1] = x
    BY AppendProperties
  <1>3. ASSUME NEW y PROVE y \in Range(Append(s, x)) <=> y \in Range(s) \cup {x}
    <2>1. ASSUME y \in Range(Append(s, x)) PROVE y \in Range(s) \cup {x}
      <3>1. PICK i \in 1 .. (Len(s) + 1) : y = Append(s, x)[i]
        BY <1>1, <2>1 DEF Range
      <3>2. CASE i = Len(s) + 1
        BY <3>1, <3>2, <1>2
      <3>3. CASE i \in 1 .. Len(s)
        BY <3>1, <3>3, <1>1, <1>2 DEF Range
      <3> QED BY <1>1, <3>2, <3>3
    <2>2. ASSUME y \in Range(s) PROVE y \in Range(Append(s, x))
      <3>1. PICK i \in 1 .. Len(s) : y = s[i]
        BY <1>1, <2>2 DEF Range
      <3>2. i \in 1 .. (Len(s) + 1)
        BY <1>1, <3>1
      <3> QED BY <1>1, <1>2, <3>1, <3>2 DEF Range
    <2>3. x \in Range(Append(s, x))
      <3>1. Len(s) + 1 \in 1 .. (Len(s) + 1)
        BY <1>1
      <3> QED BY <1>1, <1>2, <3>1 DEF Range
    <2> QED BY <2>1, <2>2, <2>3
  <1> QED BY <1>3

LEMMA RangeOfTail ==
  ASSUME NEW S, NEW s \in Seq(S), s # <<>>
  PROVE  /\ Head(s) \in S /\ Tail(s) \in Seq(S) /\ Len(Tail(s)) <= Len(s)
         /\ \A y \in Range(s) : y = Head(s) \/ y \in Range(Tail(s))
  <1>1. /\ Head(s) \in S /\ Tail(s) \in Seq(S)
        /\ Len(Tail(s)) = Len(s) - 1 /\ Len(s) \in Nat \ {0}
        /\ \A i \in 1 .. Len(Tail(s)) : Tail(s)[i] = s[i + 1]
    BY HeadTailProperties, EmptySeq
  <1>2. DOMAIN s = 1 .. Len(s) /\ DOMAIN Tail(s) = 1 .. (Len(s) - 1)
    BY <1>1, LenProperties
  <1>3. ASSUME NEW y \in Range(s) PROVE y = Head(s) \/ y \in Range(Tail(s))
    <2>1. PICK i \in 1 .. Len(s) : y = s[i]
      BY <1>2, <1>3 DEF Range
    <2>2. CASE i = 1
      BY <2>1, <2>2
    <2>3. CASE i # 1
      <3>1. i - 1 \in 1 .. (Len(s) - 1) /\ (i - 1) + 1 = i
        BY <1>1, <2>1, <2>3
      <3>2. Tail(s)[i - 1] = y
        BY <1>1, <2>1, <3>1
      <3> QED BY <1>2, <3>1, <3>2 DEF Range
    <2> QED BY <2>2, <2>3
  <1> QED BY <1>1, <1>3

(* The queue after a path was put into it, and what it still knows.        *)
QueueTyped ==
  /\ pending' \in Seq(Paths) /\ Len(pending') <= MaxPending
  /\ requested' \in BOOLEAN /\ fresh' \in BOOLEAN

QueueKept ==
  /\ \A q \in Range(pending) : q \in Range(pending')
  /\ requested => requested'
  /\ ~fresh => ~fresh' \/ scan = None

Queued(p) == p \in Range(pending') \/ (requested' /\ (~fresh' \/ scan = None))

LEMMA EnqueueQueues ==
  ASSUME TypeOK, NEW p \in Paths, Enqueue(p)
  PROVE  QueueTyped /\ QueueKept /\ (~Stopped => Queued(p))
  <1> USE LimitsArePositive DEF QueueTyped, QueueKept, Queued, TypeOK
  <1>1. CASE UNCHANGED <<pending, requested, fresh>>
    BY <1>1 DEF Enqueue, RequestReconciliation
  <1>2. CASE /\ p \notin Range(pending) /\ Len(pending) < MaxPending
             /\ pending' = Append(pending, p)
             /\ UNCHANGED <<requested, fresh>>
    <2>1. Range(pending') = Range(pending) \cup {p}
      BY <1>2, RangeOfAppend
    <2>2. pending' \in Seq(Paths) /\ Len(pending') = Len(pending) + 1
      BY <1>2, AppendProperties
    <2>3. Len(pending) \in Nat
      BY LenProperties
    <2> QED BY <1>2, <2>1, <2>2, <2>3
  <1>3. CASE RequestReconciliation /\ UNCHANGED pending
    BY <1>3 DEF RequestReconciliation
  <1> QED BY <1>1, <1>2, <1>3 DEF Enqueue

LEMMA QueuePathQueues ==
  ASSUME Shape, NEW p \in Paths, QueuePath(p)
  PROVE  /\ QueueTyped /\ QueueKept /\ dirty' \in BOOLEAN
         /\ dirty => dirty'
         /\ ~Stopped => \/ Queued(p) /\ dirty' = dirty
                        \/ active = p /\ dirty'
  <1>1. CASE active = p /\ dirty' /\ UNCHANGED <<pending, requested, fresh>>
    BY <1>1 DEF QueueTyped, QueueKept, Shape, TypeOK
  <1>2. CASE Enqueue(p) /\ UNCHANGED dirty
    BY <1>2, EnqueueQueues DEF Shape, TypeOK
  <1> QED BY <1>1, <1>2 DEF QueuePath, Enqueue

(* What the end of a handler run leaves behind.                            *)
Settled ==
  /\ pc' \in {"loop", "next"} /\ path' = None /\ before' = 0
  /\ batch' \in 0 .. BatchSize
  /\ pc' = "loop" => batch' = 0
  /\ pc' = "next" => batch' > 0
  /\ batch' > 0 => batch > 0

Booted ==
  /\ boot' \in {"ready", "scan", "drain", "idle", "finish", "done"}
  /\ boot' = "ready" <=> boot = "ready"
  /\ UNCHANGED <<found, goal>>

LEMMA NotifyBoots ==
  ASSUME TypeOK, Notify
  PROVE  Booted /\ (InitialScanRunning' <=> InitialScanRunning)
  BY DEF TypeOK, Notify, Booted, InitialScanRunning

LEMMA SettleSettles ==
  ASSUME Shape, path \in Paths, NEW rerun \in BOOLEAN, Settle(rerun),
         active' = None, pc # "inspect" \/ batch > 0
  PROVE  /\ Settled /\ Booted /\ QueueTyped /\ QueueKept /\ dirty' = FALSE
         /\ UNCHANGED <<files, notice, scan, stop>>
         /\ rerun /\ ~Stopped => Queued(path)
         /\ ~rerun => UNCHANGED <<pending, requested, fresh>>
  <1>1. Settled
    BY LimitsArePositive DEF Settle, AfterPath, Settled, Shape, TypeOK
  <1>2. Booted
    BY NotifyBoots DEF Settle, Shape
  <1>3. QueueTyped /\ QueueKept /\ (rerun /\ ~Stopped => Queued(path))
    <2>1. CASE rerun
      BY <2>1, EnqueueQueues DEF Settle, Shape
    <2>2. CASE ~rerun
      BY <2>2 DEF Settle, QueueTyped, QueueKept, Shape, TypeOK
    <2> QED BY <2>1, <2>2
  <1> QED BY <1>1, <1>2, <1>3 DEF Settle

LEMMA SettleKeepsShape ==
  ASSUME Shape, path \in Paths, NEW rerun \in BOOLEAN, Settle(rerun),
         active' = None, pc # "inspect" \/ batch > 0,
         health' \in {"starting", "catching_up", "healthy", "unhealthy", "stopped"},
         failed' \in BOOLEAN, faults' \in Nat
  PROVE  Shape'
  <1>1. /\ Settled /\ Booted /\ QueueTyped /\ dirty' = FALSE
        /\ UNCHANGED <<files, notice, scan, stop>>
    BY SettleSettles
  <1>2. TypeOK'
    BY <1>1 DEF Shape, TypeOK, Settled, Booted, QueueTyped, files
  <1>3. WorkerShape'
    BY <1>1 DEF Shape, WorkerShape, Working, Settled, TypeOK
  <1>4. NotPastTheEnd'
    BY <1>1 DEF Shape, NotPastTheEnd, files
  <1> QED BY <1>2, <1>3, <1>4 DEF Shape

LEMMA StartHandlerTyped ==
  ASSUME Shape, NEW p \in Paths, StartHandler(p), UNCHANGED files
  PROVE  /\ notice' \in [Paths -> {"none", "sent", "lost"}]
         /\ active' \in Paths /\ dirty' \in BOOLEAN /\ pc' = "handle"
         /\ path' = p /\ active' = p /\ before' \in Nat /\ before' = offset'[p]
  BY DEF StartHandler, Shape, TypeOK, files

LEMMA FaultyCounts ==
  ASSUME TypeOK, Faulty PROVE faults' \in Nat
  BY LimitsArePositive DEF TypeOK, Faulty

(* Every step keeps the shape.                                             *)
LEMMA ShapeStep ==
  ASSUME Shape, [Next]_vars
  PROVE  Shape'
  <1> USE LimitsArePositive, NoneIsNoPath
  <1>1. CASE Take
    <2>1. Head(pending) \in Paths /\ Tail(pending) \in Seq(Paths)
          /\ Len(Tail(pending)) <= Len(pending) /\ Len(pending) \in Nat
          /\ Len(Tail(pending)) \in Nat
      BY <1>1, RangeOfTail, LenProperties DEF Take, Shape, TypeOK
    <2>2. /\ notice' \in [Paths -> {"none", "sent", "lost"}]
          /\ active' \in Paths /\ dirty' \in BOOLEAN /\ pc' = "handle"
          /\ path' = Head(pending) /\ active' = path'
          /\ before' \in Nat /\ before' = offset'[path']
      BY <1>1, <2>1, StartHandlerTyped DEF Take
    <2>3. pending' \in Seq(Paths) /\ Len(pending') <= MaxPending
      BY <1>1, <2>1 DEF Take, Shape, TypeOK
    <2>4. path' \in Paths
      BY <2>1, <2>2
    <2>5. TypeOK'
      BY <1>1, <2>2, <2>3, <2>4 DEF Take, Shape, TypeOK, files, booting
    <2>6. WorkerShape' /\ NotPastTheEnd'
      BY <1>1, <2>1, <2>2 DEF Take, Shape, TypeOK, WorkerShape, Working, NotPastTheEnd, files
    <2> QED BY <2>5, <2>6 DEF Shape
  <1>2. CASE StartBatch
    BY <1>2 DEF StartBatch, Shape, TypeOK, WorkerShape, Working, NotPastTheEnd,
                files, booting, Existing
  <1>3. CASE ExitLoop
    <2>1. Booted
      BY <1>3, NotifyBoots DEF ExitLoop, Shape
    <2> QED BY <1>3, <2>1, SMTT(30) DEF ExitLoop, Booted, Shape, TypeOK, WorkerShape, Working,
                              NotPastTheEnd, files, queue
  <1>4. CASE Capture
    <2>1. path \in Paths
      BY <1>4 DEF Capture, Shape, WorkerShape, Working
    <2>2. offset' \in [Paths -> Nat] /\ NotPastTheEnd'
      BY <1>4, <2>1 DEF Capture, Shape, TypeOK, NotPastTheEnd
    <2> QED BY <1>4, <2>1, <2>2 DEF Capture, Shape, TypeOK, WorkerShape, Working,
                                    queue, booting
  <1>5. CASE ReturnDirty
    BY <1>5, SettleKeepsShape DEF ReturnDirty, Shape, TypeOK, WorkerShape, Working
  <1>6. CASE Return
    BY <1>6 DEF Return, Unsettled, Shape, TypeOK, WorkerShape, Working, NotPastTheEnd,
                files, queue, booting
  <1>7. CASE SourceChanged
    <2>1. /\ path \in Paths /\ active' = None /\ pc # "inspect"
          /\ Settle(TRUE) /\ UNCHANGED <<health, failed>> /\ faults' \in Nat
      BY <1>7, FaultyCounts DEF SourceChanged, Shape, TypeOK, WorkerShape, Working
    <2>2. /\ health' \in {"starting", "catching_up", "healthy", "unhealthy", "stopped"}
          /\ failed' \in BOOLEAN
      BY <2>1 DEF Shape, TypeOK
    <2> QED BY <2>1, <2>2, SettleKeepsShape
  <1>8. CASE HandlerFails
    <2>1. /\ path \in Paths /\ pc \in {"handle", "return"}
          /\ health' = "unhealthy" /\ failed' = TRUE /\ faults' \in Nat
      BY <1>8, FaultyCounts DEF HandlerFails, Fails, Shape, TypeOK, WorkerShape, Working
    <2>2. CASE active' = None /\ Settle(TRUE)
      <3>1. /\ health' \in {"starting", "catching_up", "healthy", "unhealthy", "stopped"}
            /\ failed' \in BOOLEAN /\ pc # "inspect"
        BY <2>1
      <3> QED BY <2>1, <2>2, <3>1, SettleKeepsShape
    <2>3. CASE Unsettled
      <3>1. TypeOK'
        BY <2>1, <2>3 DEF Unsettled, Shape, TypeOK, files, queue, booting
      <3>2. WorkerShape' /\ NotPastTheEnd'
        BY <2>1, <2>3 DEF Unsettled, Shape, TypeOK, WorkerShape, Working, NotPastTheEnd,
                          files
      <3> QED BY <3>1, <3>2 DEF Shape
    <2> QED BY <1>8, <2>2, <2>3 DEF HandlerFails
  <1>9. CASE Check
    <2>1. path \in Paths /\ active' = None /\ NeedsCatchUp(path) \in BOOLEAN
      BY <1>9 DEF Check, Shape, WorkerShape, Working, NeedsCatchUp
    <2>2. /\ health' \in {"starting", "catching_up", "healthy", "unhealthy", "stopped"}
          /\ failed' \in BOOLEAN /\ faults' \in Nat /\ pc = "check"
      BY <1>9 DEF Check, Fails, Shape, TypeOK
    <2>3. Settle(NeedsCatchUp(path)) \/ Settle(FALSE)
      BY <1>9 DEF Check
    <2> QED BY <2>1, <2>2, <2>3, SettleKeepsShape
  <1>10. CASE EndScan
    <2>1. Booted
      BY <1>10, NotifyBoots DEF EndScan, Shape
    <2> QED BY <1>10, <2>1 DEF EndScan, LeaveBatch, Booted, Shape, TypeOK, WorkerShape,
                               Working, NotPastTheEnd, files
  <1>11. CASE NextPath
    BY <1>11 DEF NextPath, Shape, TypeOK, WorkerShape, Working, NotPastTheEnd, files,
                 queue, booting
  <1>12. CASE StopBatch
    BY <1>12 DEF StopBatch, LeaveBatch, Shape, TypeOK, WorkerShape, Working,
                 NotPastTheEnd, files, queue, booting
  <1>13. CASE Inspect
    <2>1. path \in Paths
      BY <1>13 DEF Inspect, Shape, WorkerShape, Working
    <2>2. CASE StartHandler(path) /\ UNCHANGED batch
      <3>1. /\ notice' \in [Paths -> {"none", "sent", "lost"}]
            /\ active' \in Paths /\ dirty' \in BOOLEAN /\ pc' = "handle"
            /\ path' = path /\ active' = path
            /\ before' \in Nat /\ before' = offset'[path]
        BY <1>13, <2>1, <2>2, StartHandlerTyped DEF Inspect
      <3> QED BY <1>13, <2>1, <2>2, <3>1 DEF Inspect, Shape, TypeOK, WorkerShape, Working,
                                             NotPastTheEnd, files, booting
    <2>3. CASE AfterPath /\ UNCHANGED <<active, dirty, notice>>
      BY <1>13, <2>3 DEF Inspect, AfterPath, Shape, TypeOK, WorkerShape, Working,
                         NotPastTheEnd, files, booting
    <2> QED BY <1>13, <2>2, <2>3 DEF Inspect
  <1>14. CASE BatchFails
    <2>1. Booted
      BY <1>14, NotifyBoots DEF BatchFails, Shape
    <2>7. faults' \in Nat
      BY <1>14, FaultyCounts DEF BatchFails, Shape
    <2>2. /\ before' \in Nat /\ batch' \in 0 .. BatchSize /\ path' = None
          /\ pc' = "loop" /\ scan' = None /\ fresh' = TRUE /\ requested' = FALSE
          /\ failed' = TRUE /\ health' = "unhealthy"
          /\ UNCHANGED <<files, notice, pending, active, dirty, stop>>
      BY <1>14 DEF BatchFails, LeaveBatch, Fails
    <2>8. TypeOK'
      BY <2>1, <2>2, <2>7 DEF Booted, Shape, TypeOK, files
    <2>9. WorkerShape' /\ NotPastTheEnd'
      BY <1>14, <2>1, <2>7 DEF BatchFails, LeaveBatch, Fails, Booted, Shape, TypeOK, WorkerShape, Working, NotPastTheEnd,
         files, queue, worker
    <2> QED BY <2>8, <2>9 DEF Shape
  <1>15. CASE BootReady
    BY <1>15 DEF BootReady, Existing, Shape, TypeOK, WorkerShape, Working, NotPastTheEnd,
                 files, queue, worker
  <1>16. CASE BootPath
    <2>1. PICK p \in found :
            /\ found' = found \ {p}
            /\ IF NeedsCatchUp(p) THEN QueuePath(p) /\ Kick
                                  ELSE UNCHANGED <<queue, worker>>
            /\ boot' = IF NeedsCatchUp(p) /\ ~PendingDrained' THEN "drain" ELSE "scan"
      BY <1>16 DEF BootPath
    <2>2. p \in Paths
      BY <2>1 DEF Shape, TypeOK
    <2>3. QueueTyped /\ dirty' \in BOOLEAN
      BY <2>1, <2>2, QueuePathQueues DEF QueueTyped, Shape, TypeOK, queue
    <2>4. UNCHANGED <<path, before, batch>> /\ (pc' = pc \/ (pc = "none" /\ pc' = "loop"))
      BY <2>1 DEF Kick, worker
    <2> QED BY <1>16, <2>1, <2>3, <2>4, SMTT(30) DEF BootPath, QueueTyped, Shape, TypeOK,
              WorkerShape, Working, NotPastTheEnd, files
  <1>17. CASE BootScanned \/ BootFails
    <2>7. faults' \in Nat
      <3>1. CASE BootScanned
        BY <3>1 DEF BootScanned, Shape, TypeOK
      <3>2. CASE BootFails
        BY <3>2, FaultyCounts DEF BootFails, Shape
      <3> QED BY <1>17, <3>1, <3>2
    <2>1. /\ boot' \in {"finish", "idle"} /\ (pc' = pc \/ pc' = "loop")
          /\ UNCHANGED <<path, before, batch, found, goal, files, notice, queue, active,
                         scan, stop>>
      BY <1>17 DEF BootScanned, BootFails, FinishScan
    <2>2. /\ health' \in {"starting", "catching_up", "healthy", "unhealthy", "stopped"}
          /\ failed' \in BOOLEAN
      BY <1>17 DEF BootScanned, BootFails, Fails, Shape, TypeOK
    <2>3. /\ before' \in Nat /\ batch' \in 0 .. BatchSize
          /\ path' \in Paths \cup {None} /\ scan' \in (SUBSET Paths) \cup {None}
      BY <2>1 DEF Shape, TypeOK, worker
    <2>4. /\ pending' \in Seq(Paths) /\ Len(pending') <= MaxPending
          /\ dirty' \in BOOLEAN /\ requested' \in BOOLEAN /\ fresh' \in BOOLEAN
      BY <2>1 DEF Shape, TypeOK, queue
    <2>8. TypeOK'
      BY <2>1, <2>2, <2>3, <2>4, <2>7 DEF Shape, TypeOK, files
    <2>9. WorkerShape' /\ NotPastTheEnd'
      BY <1>17, <2>7 DEF BootScanned, BootFails, FinishScan, Fails, Shape, TypeOK, WorkerShape, Working, NotPastTheEnd,
         files, queue, worker
    <2> QED BY <2>8, <2>9 DEF Shape
  <1>18. CASE BootDone
    BY <1>18 DEF BootDone, Shape, TypeOK, WorkerShape, Working, NotPastTheEnd, files,
                 queue, worker
  <1>19. ASSUME NEW p \in Paths, Grow(p) PROVE Shape'
    BY <1>19 DEF Grow, Shape, TypeOK, WorkerShape, Working, NotPastTheEnd, queue, worker,
                 booting
  <1>20. ASSUME NEW p \in Paths, Deliver(p) \/ DeliverNameless(p) \/ Probe(p)
         PROVE  Shape'
    <2>1. QueueTyped /\ dirty' \in BOOLEAN
      BY <1>20, QueuePathQueues DEF Deliver, DeliverNameless, Probe, RequestReconciliation,
         QueueTyped, Shape, TypeOK
    <2>2. UNCHANGED <<path, before, batch>> /\ (pc' = pc \/ (pc = "none" /\ pc' = "loop"))
      BY <1>20 DEF Deliver, DeliverNameless, Probe, Kick
    <2>3. /\ notice' \in [Paths -> {"none", "sent", "lost"}]
          /\ UNCHANGED <<files, active, scan, booting, health, failed, stop, faults>>
      BY <1>20 DEF Deliver, DeliverNameless, Probe, Shape, TypeOK
    <2>4. pc' \in {"none", "loop", "handle", "return", "check", "next", "inspect"}
      BY <2>2 DEF Shape, TypeOK
    <2>5. path' \in Paths \cup {None} /\ before' \in Nat /\ batch' \in 0 .. BatchSize
      BY <2>2 DEF Shape, TypeOK
    <2>8. TypeOK'
      BY <2>1, <2>3, <2>4, <2>5 DEF QueueTyped, Shape, TypeOK, files, booting
    <2>9. WorkerShape' /\ NotPastTheEnd'
      BY <2>2, <2>3 DEF Shape, TypeOK, WorkerShape, Working, NotPastTheEnd, files
    <2> QED BY <2>8, <2>9 DEF Shape
  <1>21. ASSUME NEW p \in Paths, Drop(p) PROVE Shape'
    <2>7. faults' \in Nat
      BY <1>21, FaultyCounts DEF Drop, Shape
    <2>1. notice' \in [Paths -> {"none", "sent", "lost"}]
      BY <1>21 DEF Drop, Shape, TypeOK
    <2>2. /\ health' \in {"starting", "catching_up", "healthy", "unhealthy", "stopped"}
          /\ failed' \in BOOLEAN
      BY <1>21 DEF Drop, Fails, Shape, TypeOK
    <2>3. UNCHANGED <<files, queue, active, worker, scan, booting, stop>>
      BY <1>21 DEF Drop
    <2>4. /\ before' \in Nat /\ batch' \in 0 .. BatchSize
          /\ path' \in Paths \cup {None} /\ scan' \in (SUBSET Paths) \cup {None}
      BY <2>3 DEF Shape, TypeOK, worker
    <2>5. /\ pending' \in Seq(Paths) /\ Len(pending') <= MaxPending
          /\ dirty' \in BOOLEAN /\ requested' \in BOOLEAN /\ fresh' \in BOOLEAN
      BY <2>3 DEF Shape, TypeOK, queue
    <2>6. pc' = pc
      BY <2>3 DEF worker
    <2>8. TypeOK'
      BY <2>1, <2>2, <2>3, <2>4, <2>5, <2>6, <2>7 DEF Shape, TypeOK, files, booting
    <2>9. WorkerShape' /\ NotPastTheEnd'
      BY <1>21, <2>7 DEF Drop, Fails, Shape, TypeOK, WorkerShape, Working, NotPastTheEnd,
         files, queue, worker
    <2> QED BY <2>8, <2>9 DEF Shape
  <1>22. CASE Stop
    <2>1. Booted
      BY <1>22, NotifyBoots DEF Stop, Shape
    <2>2. pending' \in Seq(Paths) /\ Len(pending') <= MaxPending
      BY <1>22, EmptySeq DEF Stop
    <2>8. TypeOK'
      BY <1>22, <2>1, <2>2 DEF Stop, Booted, Shape, TypeOK, files, queue, worker, booting
    <2>9. WorkerShape' /\ NotPastTheEnd'
      BY <1>22, <2>1, <2>2 DEF Stop, Booted, Shape, TypeOK, WorkerShape, Working, NotPastTheEnd,
         files, queue, worker
    <2> QED BY <2>8, <2>9 DEF Shape
  <1>23. CASE StopDone
    BY <1>23 DEF StopDone, Shape, TypeOK, WorkerShape, Working, NotPastTheEnd, files,
                 worker, booting
  <1>24. CASE Restart
    <2>1. faults' \in Nat
      BY <1>24, FaultyCounts DEF Restart, Shape
    <2>2. /\ pending' \in Seq(Paths) /\ Len(pending') <= MaxPending
          /\ before' \in Nat /\ batch' \in 0 .. BatchSize
      BY <1>24, EmptySeq DEF Restart
    <2>8. TypeOK'
      BY <1>24, <2>1, <2>2 DEF Restart, Shape, TypeOK, files, queue, worker, booting
    <2>9. WorkerShape' /\ NotPastTheEnd'
      BY <1>24, <2>2 DEF Restart, Shape, TypeOK, WorkerShape, Working, NotPastTheEnd,
         files, queue, worker
    <2> QED BY <2>8, <2>9 DEF Shape
  <1>25. CASE UNCHANGED vars
    BY <1>25 DEF vars, Shape, TypeOK, WorkerShape, Working, NotPastTheEnd, files, queue,
                 worker, booting
  <1> QED BY <1>1, <1>2, <1>3, <1>4, <1>5, <1>6, <1>7, <1>8, <1>9, <1>10, <1>11, <1>12,
             <1>13, <1>14, <1>15, <1>16, <1>17, <1>18, <1>19, <1>20, <1>21, <1>22, <1>23,
             <1>24, <1>25 DEF Next, Worker, Boot, Failure

LEMMA InitShape == Init => Shape
  <1> SUFFICES ASSUME Init PROVE Shape
    OBVIOUS
  <1>1. size \in [Paths -> Nat]
    BY LimitsArePositive DEF Init
  <1>2. pending \in Seq(Paths) /\ Len(pending) <= MaxPending /\ batch \in 0 .. BatchSize
    BY LimitsArePositive, EmptySeq DEF Init
  <1>3. TypeOK
    BY <1>1, <1>2, NoneIsNoPath DEF Init, TypeOK
  <1>4. WorkerShape /\ NotPastTheEnd
    BY <1>1 DEF Init, WorkerShape, Working, NotPastTheEnd
  <1> QED BY <1>3, <1>4 DEF Shape

(* The type theorem: TypeOK holds in every state, so pendingPaths never    *)
(* holds more than maxPendingPaths paths, whatever the watcher, the timer, *)
(* the boot scan and failing handlers put into it.                         *)
THEOREM QueueTypeCorrect == Spec => []TypeOK
  <1>1. Shape => TypeOK
    BY DEF Shape
  <1> QED BY <1>1, InitShape, ShapeStep, PTL DEF Spec

-----------------------------------------------------------------------------
(* Nothing is forgotten.  A path that is behind is booked, or it is the    *)
(* one the worker is on.  That is inductive only together with what the    *)
(* worker knows when a run is over: a run that did not move the cursor is  *)
(* not repeated, so what grew meanwhile must have been booked.             *)

InBatch(p) == requested /\ (scan = None \/ ~fresh \/ p \in scan)

Booked(p) ==
  notice[p] # "none" \/ p \in Range(pending) \/ boot = "ready" \/ p \in found \/ InBatch(p)

RunIsBooked ==
  ~Stopped /\ ~failed /\ pc \in {"return", "check"} =>
    (offset[path] = before /\ NeedsCatchUp(path)
       => (pc = "return" /\ dirty) \/ Booked(path))

BookInv == Shape /\ NothingForgotten /\ RunIsBooked

LEMMA CoveredMeans ==
  ASSUME NEW p PROVE Covered(p) <=> Booked(p) \/ (path = p /\ Working)
  BY DEF Covered, Booked, InBatch, Working

(* A booking outlives a step that only adds to the queue.                  *)
LEMMA BookedStays ==
  ASSUME NEW p, Booked(p), QueueKept, UNCHANGED scan,
         notice[p] # "none" => notice'[p] # "none",
         boot = "ready" => boot' = "ready",
         p \in found => p \in found'
  PROVE  Booked(p)'
  BY DEF Booked, InBatch, QueueKept

LEMMA QueueUnchanged ==
  ASSUME UNCHANGED <<pending, requested, fresh>> PROVE QueueKept
  BY DEF QueueKept

LEMMA QueuedIsBooked ==
  ASSUME NEW p, Queued(p), UNCHANGED scan PROVE Booked(p)'
  BY DEF Queued, Booked, InBatch

(* After a run its path is queued again, or it is up to date, or booked.   *)
LEMMA SettleBooks ==
  ASSUME BookInv, path \in Paths, NEW rerun \in BOOLEAN, Settle(rerun),
         active' = None, pc # "inspect",
         ~rerun => ~NeedsCatchUp(path) \/ Booked(path), ~Stopped, ~failed
  PROVE  NothingForgotten' /\ RunIsBooked'
  <1>1. /\ Settled /\ Booted /\ QueueKept
        /\ UNCHANGED <<files, notice, scan, stop>>
        /\ rerun => Queued(path)
    BY SettleSettles DEF BookInv
  <1>2. RunIsBooked'
    BY <1>1 DEF RunIsBooked, Settled
  <1>3. ASSUME NEW p \in Paths, NeedsCatchUp(p)' PROVE Booked(p)'
    <2>1. NeedsCatchUp(p)
      BY <1>1, <1>3 DEF NeedsCatchUp, files
    <2>2. CASE Booked(p)
      BY <1>1, <2>2, BookedStays DEF Booted
    <2>3. CASE ~Booked(p)
      <3>1. Covered(p)
        BY <2>1 DEF BookInv, NothingForgotten
      <3>2. path = p
        BY <2>3, <3>1, CoveredMeans
      <3> QED BY <1>1, <2>1, <2>3, <3>2, QueuedIsBooked
    <2> QED BY <2>2, <2>3
  <1>4. ASSUME NEW p \in Paths, NeedsCatchUp(p)' PROVE Covered(p)'
    BY <1>3, <1>4 DEF Covered, Booked, InBatch
  <1> QED BY <1>2, <1>4 DEF NothingForgotten

(* A step beside the worker keeps every booking, or leaves it to the run   *)
(* under way.                                                              *)
LEMMA OthersBook ==
  ASSUME BookInv, ~Stopped, ~failed,
         UNCHANGED <<files, scan, path, before>>,
         pc' = pc \/ (pc = "none" /\ pc' = "loop"), dirty => dirty',
         \A p \in Paths : Booked(p) /\ NeedsCatchUp(p) => Booked(p)' \/ (active = p /\ dirty')
  PROVE  /\ \A p \in Paths : NeedsCatchUp(p)' => Booked(p)' \/ (path' = p /\ Working')
         /\ RunIsBooked'
  <1>1. \A p \in Paths : active = p => path = p /\ pc \in {"handle", "return"}
    BY NoneIsNoPath DEF BookInv, Shape, WorkerShape
  <1>2. \A p \in Paths : NeedsCatchUp(p) => Booked(p) \/ (path = p /\ Working)
    BY CoveredMeans DEF BookInv, NothingForgotten
  <1>3. /\ \A p \in Paths : NeedsCatchUp(p)' <=> NeedsCatchUp(p)
        /\ Working' <=> Working
    BY DEF NeedsCatchUp, files, Working
  <1>4. \A p \in Paths : NeedsCatchUp(p)' => Booked(p)' \/ (path' = p /\ Working')
    BY <1>1, <1>2, <1>3 DEF Working
  <1>5. ASSUME pc' \in {"return", "check"}, offset'[path'] = before', NeedsCatchUp(path)'
        PROVE  (pc' = "return" /\ dirty') \/ Booked(path)'
    <2>1. pc' = pc /\ path \in Paths /\ NeedsCatchUp(path) /\ offset[path] = before
      BY <1>5 DEF BookInv, Shape, WorkerShape, Working, NeedsCatchUp, files
    <2>2. (pc = "return" /\ dirty) \/ Booked(path)
      BY <1>5, <2>1 DEF BookInv, RunIsBooked
    <2>3. ASSUME Booked(path) PROVE Booked(path)' \/ (pc = "return" /\ dirty')
      <3>1. Booked(path)' \/ (active = path /\ dirty')
        BY <2>1, <2>3 DEF Booked, InBatch
      <3> QED BY <1>1, <1>5, <2>1, <3>1
    <2> QED BY <2>1, <2>2, <2>3
  <1> QED BY <1>4, <1>5 DEF RunIsBooked

LEMMA BookStep ==
  ASSUME BookInv, [Next]_vars
  PROVE  BookInv'
  <1> SUFFICES ASSUME ~Stopped', ~failed'
               PROVE  /\ \A p \in Paths : NeedsCatchUp(p)' => Covered(p)'
                      /\ RunIsBooked'
    BY ShapeStep DEF BookInv, NothingForgotten, RunIsBooked
  <1> DEFINE Goal == /\ \A p \in Paths : NeedsCatchUp(p)' => Booked(p)' \/ (path' = p /\ Working')
                     /\ RunIsBooked'
  <1>a. SUFFICES Goal
    BY DEF Covered, Booked, InBatch, Working
  <1>b. CASE Restart
    BY <1>b DEF Restart, Booked, RunIsBooked
  <1>c. ASSUME ~Restart PROVE ~Stopped /\ ~failed
    BY <1>c DEF Next, Worker, Boot, Failure, Take, StartBatch, ExitLoop, Capture, ReturnDirty,
       Return, Check, EndScan, NextPath, StopBatch, Inspect, BootReady, BootPath, BootScanned,
       BootDone, SourceChanged, HandlerFails, BatchFails, BootFails, Stop, StopDone, Grow,
       Deliver, DeliverNameless, Drop, Probe, Settle, Unsettled, FinishScan, Fails, Stopped,
       vars, StartHandler
  <1>d. ASSUME ~Stopped, ~failed, NEW p \in Paths, NeedsCatchUp(p)
        PROVE  Booked(p) \/ (path = p /\ Working)
    BY <1>d, CoveredMeans DEF BookInv, NothingForgotten
  <1>e. ASSUME ~Stopped, ~failed, pc \in {"return", "check"}, offset[path] = before,
               NeedsCatchUp(path)
        PROVE  (pc = "return" /\ dirty) \/ Booked(path)
    BY <1>e DEF BookInv, RunIsBooked
  <1>f. ASSUME NEW p \in Paths, NeedsCatchUp(p) PROVE p \in Existing
    BY <1>f DEF BookInv, Shape, TypeOK, NotPastTheEnd, NeedsCatchUp, Existing
  <1>g. CASE ~Restart
    <2> USE <1>g, <1>c
    <2>1. CASE Take
      <3>1. pending \in Seq(Paths) /\ pending # <<>>
        BY <2>1 DEF Take, BookInv, Shape, TypeOK
      <3>2. \A y \in Range(pending) : y = Head(pending) \/ y \in Range(pending')
        BY <2>1, <3>1, RangeOfTail DEF Take
      <3>3. ASSUME NEW p \in Paths, NeedsCatchUp(p)'
            PROVE  Booked(p)' \/ (path' = p /\ Working')
        <4>1. CASE p = Head(pending)
          BY <2>1, <4>1 DEF Take, StartHandler, Working
        <4>2. CASE p # Head(pending)
          <5>1. Booked(p)
            BY <1>d, <2>1, <3>3 DEF Take, NeedsCatchUp, files, Working
          <5>2. notice'[p] = notice[p]
            BY <2>1, <4>2 DEF Take, StartHandler, BookInv, Shape, TypeOK
          <5> QED BY <2>1, <3>2, <4>2, <5>1, <5>2 DEF Take, Booked, InBatch, booting
        <4> QED BY <4>1, <4>2
      <3>4. RunIsBooked'
        BY <2>1 DEF Take, StartHandler, RunIsBooked
      <3> QED BY <3>3, <3>4
    <2>2. CASE StartBatch
      BY <1>d, <1>f, <2>2 DEF StartBatch, NeedsCatchUp, files, booting, Working, Booked,
         InBatch, RunIsBooked
    <2>3. CASE ExitLoop
      <3>1. Booted
        BY <2>3, NotifyBoots DEF ExitLoop, BookInv, Shape
      <3>2. UNCHANGED <<pending, requested, fresh, scan, notice, files>>
        BY <2>3 DEF ExitLoop, queue
      <3>3. ASSUME NEW p \in Paths, NeedsCatchUp(p)' PROVE Booked(p)'
        <4>1. NeedsCatchUp(p) /\ ~Working
          BY <2>3, <3>2, <3>3 DEF NeedsCatchUp, files, Working, ExitLoop
        <4> QED BY <1>d, <3>1, <3>2, <4>1, BookedStays, QueueUnchanged DEF Booted
      <3> QED BY <2>3, <3>3 DEF ExitLoop, RunIsBooked
    <2>4. CASE Capture
      <3>1. path \in Paths /\ before = offset[path]
        BY <2>4 DEF Capture, BookInv, Shape, WorkerShape, Working
      <3>2. offset'[path'] = before' => ~NeedsCatchUp(path)'
        BY <2>4, <3>1 DEF Capture, BookInv, Shape, TypeOK, NotPastTheEnd, NeedsCatchUp
      <3>3. RunIsBooked'
        BY <2>4, <3>2 DEF Capture, RunIsBooked
      <3>4. ASSUME NEW p \in Paths, NeedsCatchUp(p)'
            PROVE  Booked(p)' \/ (path' = p /\ Working')
        <4>1. CASE p = path
          BY <2>4, <4>1 DEF Capture, Working
        <4>2. CASE p # path
          <5>1. NeedsCatchUp(p)
            BY <2>4, <3>4, <4>2 DEF Capture, NeedsCatchUp, BookInv, Shape, TypeOK
          <5> QED BY <1>d, <2>4, <4>2, <5>1 DEF Capture, Booked, InBatch, queue, booting
        <4> QED BY <4>1, <4>2
      <3> QED BY <3>3, <3>4
    <2>5. CASE ReturnDirty \/ SourceChanged
      <3>1. path \in Paths /\ active' = None /\ pc # "inspect" /\ Settle(TRUE)
        BY <2>5 DEF ReturnDirty, SourceChanged, BookInv, Shape, WorkerShape, Working
      <3> QED BY <3>1, SettleBooks DEF NothingForgotten, Covered, Booked, InBatch, Working
    <2>6. CASE Return
      <3>1. ASSUME NEW p \in Paths, NeedsCatchUp(p)'
            PROVE  Booked(p)' \/ (path' = p /\ Working')
        BY <1>d, <2>6, <3>1 DEF Return, Unsettled, NeedsCatchUp, files, Booked, InBatch,
           queue, booting, Working
      <3>2. RunIsBooked'
        BY <1>e, <2>6 DEF Return, Unsettled, NeedsCatchUp, files, Booked, InBatch,
           queue, booting, RunIsBooked
      <3> QED BY <3>1, <3>2
    <2>7. CASE HandlerFails \/ BatchFails \/ BootFails
      BY <2>7 DEF HandlerFails, BatchFails, BootFails, Fails
    <2>8. CASE Check
      <3>1. path \in Paths /\ active' = None /\ pc = "check"
        BY <2>8 DEF Check, BookInv, Shape, WorkerShape, Working
      <3>2. PICK rerun \in BOOLEAN :
              Settle(rerun) /\ (~rerun => ~NeedsCatchUp(path) \/ Booked(path))
        <4>1. CASE offset[path] # before
          BY <2>8, <4>1 DEF Check, NeedsCatchUp
        <4>2. CASE offset[path] = before
          BY <1>e, <2>8, <3>1, <4>2 DEF Check
        <4> QED BY <4>1, <4>2
      <3> QED BY <3>1, <3>2, SettleBooks DEF NothingForgotten, Covered, Booked, InBatch,
                 Working
    <2>9. CASE EndScan
      <3>1. Booted
        BY <2>9, NotifyBoots DEF EndScan, BookInv, Shape
      <3>2. ASSUME NEW p \in Paths, NeedsCatchUp(p)' PROVE Booked(p)'
        <4>1. Booked(p)
          BY <1>d, <2>9, <3>2 DEF EndScan, NeedsCatchUp, files, Working
        <4> QED BY <2>9, <3>1, <4>1, NoneIsNoPath DEF EndScan, Booked, InBatch, Booted
      <3>3. RunIsBooked'
        BY <2>9 DEF EndScan, LeaveBatch, RunIsBooked
      <3> QED BY <3>2, <3>3
    <2>10. CASE NextPath
      <3>1. scan \in SUBSET Paths /\ pc = "next"
        BY <2>10 DEF NextPath, BookInv, Shape, WorkerShape, TypeOK
      <3>2. PICK q \in scan : path' = q /\ scan' = scan \ {q}
        BY <2>10 DEF NextPath
      <3>3. scan # None /\ scan' # None
        BY <3>1, <3>2, NoneIsNoPath
      <3>4. ASSUME NEW p \in Paths, NeedsCatchUp(p)'
            PROVE  Booked(p)' \/ (path' = p /\ Working')
        <4>1. Booked(p)
          BY <1>d, <2>10, <3>1, <3>4 DEF NextPath, NeedsCatchUp, files, Working
        <4> QED BY <2>10, <3>2, <3>3, <4>1 DEF NextPath, Booked, InBatch, queue, booting,
                   Working
      <3>5. RunIsBooked'
        BY <2>10 DEF NextPath, RunIsBooked
      <3> QED BY <3>4, <3>5
    <2>11. CASE StopBatch \/ Stop \/ StopDone
      BY <2>11 DEF StopBatch, Stop, StopDone, Stopped
    <2>12. CASE Inspect
      <3>1. path \in Paths
        BY <2>12 DEF Inspect, BookInv, Shape, WorkerShape, Working
      <3>2. ASSUME NEW p \in Paths, NeedsCatchUp(p)'
            PROVE  Booked(p)' \/ (path' = p /\ Working')
        <4>1. NeedsCatchUp(p) /\ UNCHANGED <<pending, requested, fresh, scan, boot, found>>
          BY <2>12, <3>2 DEF Inspect, NeedsCatchUp, files, booting
        <4>2. CASE p = path
          BY <2>12, <4>1, <4>2 DEF Inspect, StartHandler, Working
        <4>3. CASE p # path
          <5>1. Booked(p)
            BY <1>d, <4>1, <4>3
          <5>2. notice'[p] = notice[p]
            BY <2>12, <4>3 DEF Inspect, StartHandler, BookInv, Shape, TypeOK
          <5> QED BY <4>1, <5>1, <5>2 DEF Booked, InBatch
        <4> QED BY <4>2, <4>3
      <3>3. RunIsBooked'
        BY <2>12 DEF Inspect, StartHandler, AfterPath, RunIsBooked
      <3> QED BY <3>2, <3>3
    <2>13. CASE BootReady
      <3>1. boot = "ready" /\ found' = Existing
            /\ UNCHANGED <<files, notice, queue, active, worker, scan>>
        BY <2>13 DEF BootReady
      <3>2. ASSUME NEW p \in Paths, NeedsCatchUp(p)' PROVE Booked(p)'
        BY <1>f, <3>1, <3>2 DEF NeedsCatchUp, files, Booked
      <3>3. RunIsBooked'
        <4> SUFFICES ASSUME pc \in {"return", "check"}, NeedsCatchUp(path)
                     PROVE  Booked(path)'
          BY <3>1 DEF RunIsBooked, files, worker, NeedsCatchUp
        <4>1. path \in Paths
          BY DEF BookInv, Shape, WorkerShape, Working
        <4> QED BY <1>f, <3>1, <4>1 DEF Booked, worker
      <3> QED BY <3>2, <3>3
    <2>14. CASE BootPath
      <3>1. PICK q \in found :
              /\ found' = found \ {q}
              /\ IF NeedsCatchUp(q) THEN QueuePath(q) /\ Kick
                                    ELSE UNCHANGED <<queue, worker>>
        BY <2>14 DEF BootPath
      <3>2. q \in Paths /\ boot = "scan" /\ boot' # "ready"
            /\ UNCHANGED <<files, notice, active, scan>>
        BY <2>14, <3>1 DEF BootPath, BookInv, Shape, TypeOK
      <3>3. QueueKept /\ (dirty => dirty')
            /\ (NeedsCatchUp(q) => Queued(q) \/ (active = q /\ dirty'))
        BY <3>1, <3>2, QueuePathQueues, QueueUnchanged DEF BookInv, queue
      <3>4. UNCHANGED <<path, before>> /\ (pc' = pc \/ (pc = "none" /\ pc' = "loop"))
        BY <3>1 DEF Kick, worker
      <3>5. ASSUME NEW p \in Paths, Booked(p), NeedsCatchUp(p)
            PROVE  Booked(p)' \/ (active = p /\ dirty')
        <4>1. CASE p = q
          BY <3>2, <3>3, <3>5, <4>1, QueuedIsBooked
        <4>2. CASE p # q
          BY <3>1, <3>2, <3>3, <3>5, <4>2, BookedStays
        <4> QED BY <4>1, <4>2
      <3> QED BY <3>2, <3>3, <3>4, <3>5, OthersBook
    <2>15. CASE BootScanned \/ BootDone \/ UNCHANGED vars
      <3>1. /\ boot = "ready" => boot' = "ready"
            /\ UNCHANGED <<files, notice, queue, scan, path, before, found>>
            /\ pc' = pc \/ (pc = "none" /\ pc' = "loop")
        BY <2>15 DEF BootScanned, FinishScan, BootDone, vars, worker, booting
      <3>2. \A p \in Paths : Booked(p) => Booked(p)'
        BY <3>1, BookedStays, QueueUnchanged DEF queue
      <3> QED BY <3>1, <3>2, OthersBook DEF queue
    <2>16. ASSUME NEW q \in Paths, Grow(q) PROVE Goal
      <3>1. /\ notice' = [notice EXCEPT ![q] = "sent"] /\ size' = [size EXCEPT ![q] = @ + 1]
            /\ UNCHANGED <<offset, queue, worker, scan, booting>>
        BY <2>16 DEF Grow
      <3>2. notice \in [Paths -> {"none", "sent", "lost"}] /\ size \in [Paths -> Nat]
        BY DEF BookInv, Shape, TypeOK
      <3>3. ASSUME NEW p \in Paths, p # q
            PROVE  /\ NeedsCatchUp(p)' <=> NeedsCatchUp(p)
                   /\ Booked(p)' <=> Booked(p)
        BY <3>1, <3>2, <3>3 DEF NeedsCatchUp, Booked, InBatch, queue, booting
      <3>4. Booked(q)'
        BY <3>1, <3>2 DEF Booked
      <3>5. /\ Working' <=> Working
            /\ UNCHANGED <<path, pc, before, offset, dirty>>
        BY <3>1 DEF Working, worker, queue
      <3>6. ASSUME NEW p \in Paths, NeedsCatchUp(p)'
            PROVE  Booked(p)' \/ (path' = p /\ Working')
        BY <1>d, <3>3, <3>4, <3>5, <3>6
      <3>7. ASSUME pc \in {"return", "check"}, offset[path] = before, NeedsCatchUp(path)'
            PROVE  (pc = "return" /\ dirty) \/ Booked(path)'
        <4>1. path \in Paths
          BY <3>7 DEF BookInv, Shape, WorkerShape, Working
        <4>2. path' = path
          BY <3>5
        <4>3. CASE path = q
          BY <3>4, <4>2, <4>3
        <4>4. CASE path # q
          <5>1. NeedsCatchUp(path)' <=> NeedsCatchUp(path)
            BY <3>1, <3>2, <4>1, <4>2, <4>4 DEF NeedsCatchUp
          <5>2. Booked(path)' <=> Booked(path)
            BY <3>1, <3>2, <4>1, <4>2, <4>4 DEF Booked, InBatch, queue, booting
          <5> QED BY <1>e, <3>7, <5>1, <5>2
        <4> QED BY <4>3, <4>4
      <3>8. RunIsBooked'
        BY <3>5, <3>7 DEF RunIsBooked
      <3> QED BY <3>6, <3>8
    <2>17. ASSUME NEW q \in Paths, Deliver(q) \/ Probe(q) PROVE Goal
      <3>1. /\ notice' = [notice EXCEPT ![q] = "none"] \/ notice' = notice
            /\ QueuePath(q) /\ Kick /\ UNCHANGED <<files, scan, booting>>
        BY <2>17 DEF Deliver, Probe
      <3>2. /\ QueueKept /\ (dirty => dirty')
            /\ Queued(q) \/ (active = q /\ dirty')
        BY <3>1, QueuePathQueues DEF BookInv
      <3>3. ASSUME NEW p \in Paths, Booked(p) PROVE Booked(p)' \/ (active = p /\ dirty')
        <4>1. CASE p = q
          BY <3>1, <3>2, <4>1, QueuedIsBooked
        <4>2. CASE p # q
          <5>1. notice'[p] = notice[p]
            BY <3>1, <4>2 DEF BookInv, Shape, TypeOK
          <5> QED BY <3>1, <3>2, <3>3, <5>1, BookedStays DEF booting
        <4> QED BY <4>1, <4>2
      <3>4. UNCHANGED <<path, before>> /\ (pc' = pc \/ (pc = "none" /\ pc' = "loop"))
        BY <3>1 DEF Kick
      <3> QED BY <3>1, <3>2, <3>3, <3>4, OthersBook
    <2>18. ASSUME NEW q \in Paths, DeliverNameless(q) PROVE Goal
      <3>1. \A p \in Paths : Booked(p)'
        BY <2>18 DEF DeliverNameless, RequestReconciliation, Booked, InBatch
      <3>2. UNCHANGED <<path, before>> /\ (pc' = pc \/ (pc = "none" /\ pc' = "loop"))
        BY <2>18 DEF DeliverNameless, Kick
      <3> QED BY <2>18, <3>1, <3>2, OthersBook DEF DeliverNameless
    <2>19. ASSUME NEW q \in Paths, Drop(q) PROVE Goal
      <3>1. /\ notice' = [notice EXCEPT ![q] = "lost"]
            /\ UNCHANGED <<files, queue, worker, scan, booting>>
        BY <2>19 DEF Drop
      <3>2. ASSUME NEW p \in Paths, Booked(p) PROVE Booked(p)'
        <4>1. notice[p] # "none" => notice'[p] # "none"
          BY <3>1 DEF BookInv, Shape, TypeOK
        <4> QED BY <3>1, <3>2, <4>1, BookedStays, QueueUnchanged DEF queue, booting
      <3>3. UNCHANGED <<files, scan, path, before, pc, dirty>>
        BY <3>1 DEF worker, queue
      <3> QED BY <3>2, <3>3, OthersBook
    <2> QED BY <2>1, <2>2, <2>3, <2>4, <2>5, <2>6, <2>7, <2>8, <2>9, <2>10, <2>11, <2>12,
               <2>13, <2>14, <2>15, <2>16, <2>17, <2>18, <2>19
            DEF Next, Worker, Boot, Failure
  <1> QED BY <1>b, <1>g

(* Growth is never forgotten: neither the bound of the queue, nor notices  *)
(* without a name, nor those that come while their path is being handled   *)
(* or after a scan has passed it, lose a path while nothing fails.         *)
THEOREM NothingIsForgotten == Spec => []NothingForgotten
  <1>1. Init => BookInv
    <2> SUFFICES ASSUME Init PROVE BookInv
      OBVIOUS
    <2>1. NothingForgotten /\ RunIsBooked
      BY DEF Init, NothingForgotten, Covered, RunIsBooked
    <2> QED BY <2>1, InitShape DEF BookInv
  <1>2. BookInv => NothingForgotten
    BY DEF BookInv
  <1> QED BY <1>1, <1>2, BookStep, PTL DEF Spec

-----------------------------------------------------------------------------
(* There is a worker for the work.                                         *)

WorkerInv == Shape /\ WorkerForWork

LEMMA WorkerStep ==
  ASSUME WorkerInv, [Next]_vars
  PROVE  WorkerInv'
  <1> DEFINE Work == pending # <<>> \/ (requested /\ ~InitialScanRunning)
             Goal == /\ ~Stopped' /\ Work' => pc' # "none"
                     /\ stop' = "done" => pc' = "none" /\ active' = None /\ boot' = "done"
  <1> SUFFICES Goal
    BY ShapeStep DEF WorkerInv, WorkerForWork
  <1>1. /\ ~Stopped /\ Work => pc # "none"
        /\ stop = "done" => pc = "none" /\ active = None /\ boot = "done"
        /\ Shape /\ (stop = "done" => Stopped)
    BY DEF WorkerInv, WorkerForWork, Stopped
  <1> HIDE DEF Work
  <1>2. CASE Take
    BY <1>1, <1>2 DEF Take, StartHandler, Stopped
  <1>3. CASE StartBatch
    BY <1>1, <1>3 DEF StartBatch, Stopped
  <1>4. CASE ExitLoop
    <2>1. InitialScanRunning' <=> InitialScanRunning
      BY <1>1, <1>4, NotifyBoots DEF ExitLoop, Shape
    <2> QED BY <1>1, <1>4, <2>1 DEF ExitLoop, Stopped, Work, queue
  <1>5. CASE Capture \/ Return \/ NextPath \/ Inspect \/ StopBatch
    BY <1>1, <1>5 DEF Capture, Return, Unsettled, NextPath, Inspect, StartHandler, AfterPath,
       StopBatch, LeaveBatch, Stopped
  <1>6. CASE ReturnDirty \/ SourceChanged \/ Check
    <2>1. pc' \in {"loop", "next"} /\ stop' = stop /\ pc # "none"
      BY <1>6 DEF ReturnDirty, SourceChanged, Check, Settle, AfterPath
    <2> QED BY <1>1, <2>1
  <1>7. CASE HandlerFails \/ BatchFails \/ EndScan
    <2>1. pc' \in {"loop", "next", "check"} /\ stop' = stop /\ pc # "none"
      BY <1>7 DEF HandlerFails, BatchFails, EndScan, LeaveBatch, Settle, AfterPath, Unsettled
    <2> QED BY <1>1, <2>1
  <1>8. CASE BootReady \/ BootDone
    BY <1>1, <1>8 DEF BootReady, BootDone, Stopped, Work, InitialScanRunning, queue, worker
  <1>9. CASE BootPath
    <2>1. ~Stopped /\ stop' = stop /\ boot = "scan" /\ boot' \in {"scan", "drain"}
      BY <1>9 DEF BootPath
    <2>2. pc' # "none" \/ UNCHANGED <<queue, worker>>
      BY <1>9 DEF BootPath, Kick
    <2> QED BY <1>1, <2>1, <2>2 DEF Work, InitialScanRunning, queue, worker, Stopped
  <1>10. CASE BootScanned \/ BootFails
    BY <1>1, <1>10 DEF BootScanned, BootFails, FinishScan, Stopped
  <1>11. CASE Stop
    BY <1>11 DEF Stop, Stopped
  <1>12. CASE StopDone
    BY <1>1, <1>12 DEF StopDone, Shape, WorkerShape, Stopped, worker, booting
  <1>13. CASE Restart
    BY <1>13 DEF Restart, Work
  <1>14. ASSUME NEW p \in Paths, Grow(p) \/ Drop(p) PROVE Goal
    BY <1>1, <1>14 DEF Grow, Drop, Stopped, Work, InitialScanRunning, queue, worker, booting
  <1>15. ASSUME NEW p \in Paths, Deliver(p) \/ DeliverNameless(p) \/ Probe(p) PROVE Goal
    BY <1>1, <1>15 DEF Deliver, DeliverNameless, Probe, Kick, Stopped
  <1>16. CASE UNCHANGED vars
    BY <1>1, <1>16 DEF vars, Stopped, Work, InitialScanRunning, queue, worker, booting
  <1> QED BY <1>2, <1>3, <1>4, <1>5, <1>6, <1>7, <1>8, <1>9, <1>10, <1>11, <1>12, <1>13,
             <1>14, <1>15, <1>16 DEF Next, Worker, Boot, Failure

(* Nobody waits for a worker that is not there, and when stop has returned *)
(* nobody works any more.                                                  *)
THEOREM WorkHasWorker == Spec => []WorkerForWork
  <1>1. Init => WorkerInv
    <2> SUFFICES ASSUME Init PROVE WorkerInv
      OBVIOUS
    <2>1. WorkerForWork
      BY DEF Init, WorkerForWork
    <2> QED BY <2>1, InitShape DEF WorkerInv
  <1>2. WorkerInv => WorkerForWork
    BY DEF WorkerInv
  <1> QED BY <1>1, <1>2, WorkerStep, PTL DEF Spec

-----------------------------------------------------------------------------
(* Healthy means caught up.  What was on disk when the boot scan began and *)
(* is not captured yet has not been visited by the scan, is among what the *)
(* reconciliation will visit, or (unless the scan is free to go on) is     *)
(* queued or being worked on, so that boot cannot come to its end.         *)

Behind(p) == offset[p] < goal[p]

Owed(p) ==
  /\ boot \in {"scan", "drain", "idle"}
  /\ \/ p \in found \/ InBatch(p)
     \/ boot # "scan" /\ (p \in Range(pending) \/ (path = p /\ Working))

GoalKept ==
  ~Stopped /\ ~failed => \A p \in Paths : Behind(p) => boot = "ready" \/ Owed(p)

Listed(p) == p \in Range(pending) \/ boot = "ready" \/ p \in found \/ InBatch(p)

RunIsListed ==
  ~Stopped /\ ~failed /\ pc \in {"return", "check"} =>
    (offset[path] = before /\ Behind(path) => (pc = "return" /\ dirty) \/ Listed(path))

GoalBelow == \A p \in Paths : goal[p] <= size[p]

NoScanYet == InitialScanRunning => batch = 0 /\ scan = None

FoundVisited ==
  ~Stopped /\ ~failed /\ boot \in {"idle", "finish", "done"} => found = {}

HealthyDone == health = "healthy" => boot = "done" /\ ~failed /\ ~Stopped

BootShape == GoalBelow /\ NoScanYet /\ FoundVisited /\ HealthyDone

GoalInv == Shape /\ BootShape /\ GoalKept /\ RunIsListed

LEMMA NotifyReleases ==
  ASSUME Notify
  PROVE  /\ \/ boot' = boot
            \/ boot = "drain" /\ boot' = "scan" /\ PendingDrained'
            \/ boot = "idle" /\ boot' = "finish" /\ FullyIdle'
         /\ UNCHANGED <<found, goal>>
  BY DEF Notify

(* The goal is what was on disk, nothing is scanned before the boot scan   *)
(* is over, and only the end of boot turns the health to healthy.          *)
LEMMA BootShapeStep ==
  ASSUME Shape, BootShape, [Next]_vars
  PROVE  BootShape'
  <1> DEFINE Goal == GoalBelow' /\ NoScanYet' /\ FoundVisited' /\ HealthyDone'
  <1> SUFFICES Goal
    BY DEF BootShape
  <1>0. GoalBelow /\ NoScanYet /\ FoundVisited /\ HealthyDone
    BY DEF BootShape
  <1>1. CASE Take \/ Capture \/ Return \/ NextPath \/ Inspect
    <2>1. /\ UNCHANGED <<size, booting, health, failed, stop>>
          /\ batch = 0 => batch' = 0 /\ scan' = scan
      BY <1>1 DEF Take, Capture, Return, Unsettled, NextPath, Inspect, StartHandler, AfterPath,
         files, Shape, WorkerShape
    <2>2. GoalBelow' /\ NoScanYet'
      BY <1>0, <2>1 DEF booting, GoalBelow, NoScanYet, InitialScanRunning
    <2>3. FoundVisited' /\ HealthyDone'
      BY <1>0, <2>1 DEF booting, FoundVisited, HealthyDone, Stopped
    <2> QED BY <2>2, <2>3
  <1>2. CASE StartBatch
    BY <1>0, <1>2 DEF StartBatch, files, booting, GoalBelow, NoScanYet, InitialScanRunning,
       FoundVisited, HealthyDone, Stopped
  <1>3. CASE ExitLoop \/ ReturnDirty \/ SourceChanged \/ Check \/ EndScan
    <2>1. /\ Notify /\ UNCHANGED <<size, stop>>
          /\ batch = 0 => batch' = 0 /\ scan' = scan
          /\ \/ UNCHANGED <<health, failed>>
             \/ health' = "unhealthy" /\ failed' = TRUE
      <3>1. CASE ExitLoop \/ EndScan
        BY <1>3, <3>1 DEF ExitLoop, EndScan, LeaveBatch, files, Shape, WorkerShape
      <3>2. CASE ReturnDirty \/ SourceChanged \/ Check
        <4>1. UNCHANGED <<health, failed>> \/ Fails
          BY <3>2 DEF ReturnDirty, SourceChanged, Check
        <4>2. Settle(TRUE) \/ Settle(FALSE) \/ Settle(NeedsCatchUp(path))
          BY <3>2 DEF ReturnDirty, SourceChanged, Check
        <4>3. Notify /\ UNCHANGED <<files, scan, stop>> /\ (batch = 0 => batch' = 0)
          BY <4>2 DEF Settle, AfterPath
        <4> QED BY <4>1, <4>3 DEF Fails, files
      <3> QED BY <1>3, <3>1, <3>2
    <2>2. /\ InitialScanRunning' <=> InitialScanRunning
          /\ boot' \in {"idle", "finish", "done"} => boot \in {"idle", "finish", "done"}
          /\ boot = "done" => boot' = "done"
          /\ UNCHANGED <<found, goal>>
      BY <2>1, NotifyReleases DEF InitialScanRunning
    <2>3. GoalBelow' /\ NoScanYet'
      BY <1>0, <2>1, <2>2 DEF GoalBelow, NoScanYet
    <2>4. FoundVisited' /\ HealthyDone'
      BY <1>0, <2>1, <2>2 DEF FoundVisited, HealthyDone, Stopped
    <2> QED BY <2>3, <2>4
  <1>4. CASE StopBatch \/ BootDone
    BY <1>0, <1>4 DEF StopBatch, LeaveBatch, BootDone, files, worker, booting, GoalBelow,
       NoScanYet, InitialScanRunning, FoundVisited, HealthyDone, Stopped
  <1>5. CASE HandlerFails \/ BatchFails
    <2>1. /\ failed' = TRUE /\ health' = "unhealthy" /\ size' = size
          /\ batch = 0 => batch' = 0 /\ scan' = scan
          /\ Notify \/ UNCHANGED booting
      <3>1. CASE BatchFails
        BY <3>1 DEF BatchFails, LeaveBatch, Fails, files, Shape, WorkerShape, BootShape,
           NoScanYet
      <3>2. CASE HandlerFails
        BY <3>2 DEF HandlerFails, Settle, AfterPath, Unsettled, Fails, files
      <3> QED BY <1>5, <3>1, <3>2
    <2>2. (InitialScanRunning' => InitialScanRunning) /\ goal' = goal
      BY <2>1, NotifyReleases DEF InitialScanRunning, booting
    <2> QED BY <1>0, <2>1, <2>2 DEF GoalBelow, NoScanYet, FoundVisited, HealthyDone
  <1>6. CASE BootReady
    <2>1. /\ boot = "ready" /\ boot' = "scan" /\ goal' = size /\ size' = size
          /\ UNCHANGED <<batch, scan, failed>> /\ (failed \/ health' # "healthy")
          /\ failed => health' = health
      BY <1>6 DEF BootReady, files, worker
    <2>2. size \in [Paths -> Nat]
      BY DEF Shape, TypeOK
    <2>3. GoalBelow' /\ NoScanYet'
      BY <1>0, <2>1, <2>2 DEF GoalBelow, NoScanYet, InitialScanRunning
    <2>4. FoundVisited' /\ HealthyDone'
      BY <1>0, <2>1 DEF FoundVisited, HealthyDone
    <2> QED BY <2>3, <2>4
  <1>7. CASE BootPath
    <2>1. /\ boot = "scan" /\ boot' \in {"scan", "drain"} /\ batch' = batch
          /\ UNCHANGED <<files, scan, goal, health, failed, stop>>
      BY <1>7 DEF BootPath, Kick, worker
    <2> QED BY <1>0, <2>1 DEF files, GoalBelow, NoScanYet, InitialScanRunning, FoundVisited,
               HealthyDone
  <1>8. CASE BootScanned \/ BootFails
    <2>1. /\ boot \in {"scan", "ready"} /\ boot' \in {"finish", "idle"}
          /\ UNCHANGED <<files, found, goal, stop>>
          /\ failed' = TRUE \/ found = {} \/ Stopped
          /\ health' = health \/ health' = "unhealthy"
      BY <1>8 DEF BootScanned, BootFails, FinishScan, Fails
    <2> QED BY <1>0, <2>1 DEF files, GoalBelow, NoScanYet, InitialScanRunning, FoundVisited,
               HealthyDone, Stopped
  <1>9. CASE Stop
    <2>1. /\ Notify /\ stop' = "draining" /\ health' = "stopped"
          /\ UNCHANGED <<files, scan, batch>>
      BY <1>9 DEF Stop, worker
    <2>2. (InitialScanRunning' => InitialScanRunning) /\ goal' = goal
      BY <2>1, NotifyReleases DEF InitialScanRunning
    <2> QED BY <1>0, <2>1, <2>2 DEF files, GoalBelow, NoScanYet, FoundVisited, HealthyDone,
               Stopped
  <1>10. CASE StopDone \/ Restart
    BY <1>0, <1>10 DEF StopDone, Restart, files, worker, booting, GoalBelow, NoScanYet,
       InitialScanRunning, FoundVisited, HealthyDone, Stopped
  <1>11. ASSUME NEW p \in Paths, Grow(p) PROVE Goal
    BY <1>0, <1>11 DEF Grow, Shape, TypeOK, worker, booting, GoalBelow, NoScanYet,
       InitialScanRunning, FoundVisited, HealthyDone, Stopped
  <1>12. ASSUME NEW p \in Paths, Deliver(p) \/ DeliverNameless(p) \/ Drop(p) \/ Probe(p) PROVE Goal
    <2>1. /\ UNCHANGED <<files, batch, scan, booting, stop>>
          /\ \/ UNCHANGED <<health, failed>>
             \/ health' = "unhealthy" /\ failed' = TRUE
      BY <1>12 DEF Deliver, DeliverNameless, Drop, Probe, Kick, Fails, worker
    <2> QED BY <1>0, <2>1 DEF files, booting, GoalBelow, NoScanYet, InitialScanRunning,
               FoundVisited, HealthyDone, Stopped
  <1>13. CASE UNCHANGED vars
    BY <1>0, <1>13 DEF vars, files, worker, booting, GoalBelow, NoScanYet, InitialScanRunning,
       FoundVisited, HealthyDone, Stopped
  <1> QED BY <1>1, <1>2, <1>3, <1>4, <1>5, <1>6, <1>7, <1>8, <1>9, <1>10, <1>11, <1>12, <1>13
          DEF Next, Worker, Boot, Failure

LEMMA QueuedIsListed ==
  ASSUME NEW p, Queued(p), UNCHANGED scan
  PROVE  p \in Range(pending') \/ InBatch(p)'
  BY DEF Queued, InBatch

LEMMA KeptInQueue ==
  ASSUME NEW p, QueueKept, UNCHANGED scan
  PROVE  /\ p \in Range(pending) => p \in Range(pending')
         /\ InBatch(p) => InBatch(p)'
  BY DEF InBatch, QueueKept

(* Before boot has ended, notifyWaiters only lets it go on when nothing    *)
(* holds it up.                                                            *)
LEMMA ReleasedOwes ==
  ASSUME Notify, FoundVisited, ~Stopped, ~failed, stop' = stop, NEW p,
         boot \in {"scan", "drain", "idle"},
         p \in found \/ InBatch(p)' \/ (boot # "scan" /\ p \in Range(pending'))
  PROVE  Owed(p)'
  <1>1. ~Stopped' /\ found' = found
    BY NotifyReleases DEF Stopped
  <1>2. CASE boot' = boot
    BY <1>1, <1>2 DEF Owed
  <1>3. CASE boot = "drain" /\ boot' = "scan" /\ PendingDrained'
    BY <1>1, <1>3, RangeOfEmpty DEF Owed, PendingDrained
  <1>4. CASE boot = "idle" /\ boot' = "finish" /\ FullyIdle'
    BY <1>1, <1>4, RangeOfEmpty DEF FullyIdle, PendingDrained, FoundVisited, InBatch
  <1> QED BY <1>2, <1>3, <1>4, NotifyReleases

LEMMA SettleOwes ==
  ASSUME GoalInv, path \in Paths, NEW rerun \in BOOLEAN, Settle(rerun),
         active' = None, pc # "inspect",
         ~rerun => ~Behind(path) \/ Listed(path), ~Stopped, ~failed
  PROVE  GoalKept' /\ RunIsListed'
  <1>1. /\ Settled /\ QueueKept /\ Notify
        /\ UNCHANGED <<files, notice, scan, stop>>
        /\ rerun => Queued(path)
    BY SettleSettles DEF GoalInv, Settle
  <1>2. RunIsListed'
    BY <1>1 DEF RunIsListed, Settled
  <1>3. ASSUME NEW p \in Paths, Behind(p)' PROVE boot' = "ready" \/ Owed(p)'
    <2>1. Behind(p)
      BY <1>1, <1>3, NotifyReleases DEF Behind, files
    <2>2. CASE boot = "ready"
      BY <1>1, <2>2, NotifyReleases
    <2>3. CASE Owed(p)
      <3>1. boot \in {"scan", "drain", "idle"} /\ boot # "ready"
        BY <2>3 DEF Owed
      <3>2. CASE p \in found \/ InBatch(p) \/ (boot # "scan" /\ p \in Range(pending))
        <4>1. p \in found \/ InBatch(p)' \/ (boot # "scan" /\ p \in Range(pending'))
          BY <1>1, <3>2, KeptInQueue
        <4> QED BY <1>1, <3>1, <4>1, ReleasedOwes DEF GoalInv, BootShape
      <3>3. CASE boot # "scan" /\ path = p
        <4>1. p \in found \/ InBatch(p)' \/ p \in Range(pending')
          BY <1>1, <2>1, <3>1, <3>3, KeptInQueue, QueuedIsListed DEF Listed
        <4> QED BY <1>1, <3>1, <3>3, <4>1, ReleasedOwes DEF GoalInv, BootShape
      <3> QED BY <2>3, <3>2, <3>3 DEF Owed
    <2> QED BY <2>1, <2>2, <2>3 DEF GoalInv, GoalKept
  <1> QED BY <1>2, <1>3 DEF GoalKept

(* Steps beside the worker.                                                *)
LEMMA OthersList ==
  ASSUME Shape, RunIsListed, ~Stopped, ~failed,
         UNCHANGED <<offset, goal, path, before>>,
         pc' = pc \/ (pc = "none" /\ pc' = "loop"), dirty => dirty',
         \A p \in Paths : Listed(p) /\ Behind(p) => Listed(p)' \/ (active = p /\ dirty')
  PROVE  RunIsListed'
  <1>1. \A p \in Paths : active = p => path = p /\ pc \in {"handle", "return"}
    BY NoneIsNoPath DEF Shape, WorkerShape
  <1>2. SUFFICES ASSUME pc' \in {"return", "check"}, offset'[path'] = before', Behind(path)'
                 PROVE  (pc' = "return" /\ dirty') \/ Listed(path)'
    BY DEF RunIsListed
  <1>3. pc' = pc /\ path \in Paths /\ Behind(path) /\ offset[path] = before
    BY <1>2 DEF Shape, WorkerShape, Working, Behind
  <1>4. (pc = "return" /\ dirty) \/ Listed(path)
    BY <1>2, <1>3 DEF RunIsListed
  <1>5. ASSUME Listed(path) PROVE Listed(path)' \/ (pc = "return" /\ dirty')
    <2>1. Listed(path)' \/ (active = path /\ dirty')
      BY <1>3, <1>5 DEF Listed, InBatch
    <2> QED BY <1>1, <1>2, <1>3, <2>1
  <1> QED BY <1>3, <1>4, <1>5

LEMMA OthersOwe ==
  ASSUME GoalInv, ~Stopped, ~failed, QueueKept,
         UNCHANGED <<offset, goal, scan, path, before, boot, found>>,
         pc' = pc \/ (pc = "none" /\ pc' = "loop"), dirty => dirty'
  PROVE  GoalKept' /\ RunIsListed'
  <1>1. ASSUME NEW p \in Paths, Behind(p)' PROVE boot' = "ready" \/ Owed(p)'
    <2>1. boot = "ready" \/ Owed(p)
      BY <1>1 DEF Behind, GoalInv, GoalKept
    <2> QED BY <2>1, KeptInQueue DEF Owed, Working
  <1>2. \A p \in Paths : Listed(p) => Listed(p)'
    BY KeptInQueue DEF Listed
  <1>3. RunIsListed'
    BY <1>2, OthersList DEF GoalInv
  <1> QED BY <1>1, <1>3 DEF GoalKept

LEMMA GoalStep ==
  ASSUME GoalInv, [Next]_vars
  PROVE  GoalInv'
  <1>1. Shape' /\ BootShape'
    BY ShapeStep, BootShapeStep DEF GoalInv
  <1> DEFINE Goal == /\ \A p \in Paths : Behind(p)' => boot' = "ready" \/ Owed(p)'
                     /\ RunIsListed'
  <1>2. SUFFICES ASSUME ~Stopped', ~failed' PROVE Goal
    BY <1>1 DEF GoalInv, GoalKept, RunIsListed
  <1>3. CASE Restart
    BY <1>3 DEF Restart, RunIsListed
  <1>4. ASSUME ~Restart PROVE ~Stopped /\ ~failed
    BY <1>2, <1>4 DEF Next, Worker, Boot, Failure, Take, StartBatch, ExitLoop, Capture,
       ReturnDirty, Return, Check, EndScan, NextPath, StopBatch, Inspect, BootReady, BootPath,
       BootScanned, BootDone, SourceChanged, HandlerFails, BatchFails, BootFails, Stop, StopDone,
       Grow, Deliver, DeliverNameless, Drop, Probe, Settle, Unsettled, FinishScan, Fails, Stopped,
       vars, StartHandler
  <1>5. ASSUME ~Stopped, ~failed, NEW p \in Paths, Behind(p)
        PROVE  boot = "ready" \/ Owed(p)
    BY <1>5 DEF GoalInv, GoalKept
  <1>6. ASSUME ~Stopped, ~failed, pc \in {"return", "check"}, offset[path] = before, Behind(path)
        PROVE  (pc = "return" /\ dirty) \/ Listed(path)
    BY <1>6 DEF GoalInv, RunIsListed
  <1>7. ASSUME NEW p \in Paths, Behind(p) PROVE NeedsCatchUp(p) /\ p \in Existing
    BY <1>7 DEF GoalInv, BootShape, GoalBelow, Shape, TypeOK, Behind, NeedsCatchUp, Existing
  <1>8. /\ batch > 0 => boot \notin {"ready", "scan", "drain"} /\ scan \in SUBSET Paths /\ scan # None
        /\ pc \in {"next", "inspect"} => batch > 0
    BY NoneIsNoPath DEF GoalInv, BootShape, NoScanYet, InitialScanRunning, Shape, TypeOK,
       WorkerShape
  <1>9. CASE ~Restart
    <2> USE <1>9, <1>4
    <2>1. CASE Take
      <3>1. pending \in Seq(Paths) /\ pending # <<>> /\ pc = "loop"
        BY <2>1 DEF Take, GoalInv, Shape, TypeOK
      <3>2. \A y \in Range(pending) : y = Head(pending) \/ y \in Range(pending')
        BY <2>1, <3>1, RangeOfTail DEF Take
      <3>3. ASSUME NEW p \in Paths, Behind(p)' PROVE boot' = "ready" \/ Owed(p)'
        <4>1. boot = "ready" \/ Owed(p)
          BY <1>5, <2>1, <3>3 DEF Take, Behind, files, booting
        <4>2. path' = Head(pending) /\ pc' = "handle"
              /\ UNCHANGED <<boot, found, requested, fresh, scan>>
          BY <2>1 DEF Take, StartHandler, booting
        <4> QED BY <3>1, <3>2, <4>1, <4>2 DEF Owed, InBatch, Working
      <3>4. RunIsListed'
        BY <2>1 DEF Take, StartHandler, RunIsListed
      <3> QED BY <3>3, <3>4
    <2>2. CASE StartBatch
      <3>1. ASSUME NEW p \in Paths, Behind(p)' PROVE boot' = "ready" \/ Owed(p)'
        <4>1. Behind(p) /\ p \in Existing
          BY <1>7, <2>2, <3>1 DEF StartBatch, Behind, files, booting
        <4>2. Owed(p) /\ boot = "idle" /\ ~Working /\ pending = <<>>
          BY <1>5, <2>2, <4>1 DEF StartBatch, InitialScanRunning, Owed, Working
        <4> QED BY <2>2, <4>1, <4>2, RangeOfEmpty DEF StartBatch, Owed, InBatch, booting
      <3>2. RunIsListed'
        BY <2>2 DEF StartBatch, RunIsListed
      <3> QED BY <3>1, <3>2
    <2>3. CASE ExitLoop
      <3>1. Notify /\ pc = "loop" /\ pc' = "none"
            /\ UNCHANGED <<files, pending, requested, fresh, scan, stop>>
        BY <2>3 DEF ExitLoop, queue
      <3>2. ASSUME NEW p \in Paths, Behind(p)' PROVE boot' = "ready" \/ Owed(p)'
        <4>1. boot = "ready" \/ Owed(p)
          BY <1>5, <3>1, <3>2, NotifyReleases DEF Behind, files
        <4>2. CASE boot = "ready"
          BY <3>1, <4>2, NotifyReleases
        <4>3. CASE Owed(p)
          <5>1. /\ boot \in {"scan", "drain", "idle"}
                /\ p \in found \/ InBatch(p)' \/ (boot # "scan" /\ p \in Range(pending'))
            BY <3>1, <4>3 DEF Owed, InBatch, Working
          <5> QED BY <3>1, <5>1, ReleasedOwes DEF GoalInv, BootShape
        <4> QED BY <4>1, <4>2, <4>3
      <3>3. RunIsListed'
        BY <3>1 DEF RunIsListed
      <3> QED BY <3>2, <3>3
    <2>4. CASE Capture
      <3>1. path \in Paths /\ before = offset[path]
        BY <2>4 DEF Capture, GoalInv, Shape, WorkerShape, Working
      <3>2. offset'[path'] = before' => ~Behind(path)'
        BY <2>4, <3>1 DEF Capture, booting, GoalInv, Shape, BootShape, TypeOK, NotPastTheEnd,
           GoalBelow, Behind
      <3>3. RunIsListed'
        BY <2>4, <3>2 DEF Capture, RunIsListed
      <3>4. ASSUME NEW p \in Paths, Behind(p)' PROVE boot' = "ready" \/ Owed(p)'
        <4>1. Behind(p)
          BY <2>4, <3>1, <3>4 DEF Capture, booting, Behind, GoalInv, Shape, TypeOK
        <4> QED BY <1>5, <2>4, <4>1 DEF Capture, booting, queue, Owed, InBatch, Working
      <3> QED BY <3>3, <3>4
    <2>5. CASE ReturnDirty \/ SourceChanged
      <3>1. path \in Paths /\ active' = None /\ pc # "inspect" /\ Settle(TRUE)
        BY <2>5 DEF ReturnDirty, SourceChanged, GoalInv, Shape, WorkerShape, Working
      <3> QED BY <1>2, <3>1, SettleOwes DEF GoalKept
    <2>6. CASE Return
      <3>1. ASSUME NEW p \in Paths, Behind(p)' PROVE boot' = "ready" \/ Owed(p)'
        BY <1>5, <2>6, <3>1 DEF Return, Unsettled, files, booting, queue, Behind, Owed, InBatch,
           Working
      <3>2. RunIsListed'
        BY <1>6, <2>6 DEF Return, Unsettled, files, booting, queue, Behind, Listed, InBatch,
           RunIsListed
      <3> QED BY <3>1, <3>2
    <2>7. CASE HandlerFails \/ BatchFails \/ BootFails
      BY <1>2, <2>7 DEF HandlerFails, BatchFails, BootFails, Fails
    <2>8. CASE Check
      <3>1. path \in Paths /\ active' = None /\ pc = "check"
        BY <2>8 DEF Check, GoalInv, Shape, WorkerShape, Working
      <3>2. PICK rerun \in BOOLEAN :
              Settle(rerun) /\ (~rerun => ~Behind(path) \/ Listed(path))
        <4>1. CASE offset[path] # before
          <5>1. Settle(NeedsCatchUp(path)) /\ NeedsCatchUp(path) \in BOOLEAN
            BY <2>8, <4>1 DEF Check, NeedsCatchUp
          <5>2. ~NeedsCatchUp(path) => ~Behind(path)
            BY <1>7, <3>1
          <5> QED BY <5>1, <5>2
        <4>2. CASE offset[path] = before
          BY <1>6, <2>8, <3>1, <4>2 DEF Check
        <4> QED BY <4>1, <4>2
      <3> QED BY <1>2, <3>1, <3>2, SettleOwes DEF GoalKept
    <2>9. CASE EndScan
      <3>1. /\ Notify /\ scan = {} /\ scan # None /\ boot \notin {"ready", "scan", "drain"}
            /\ ~Working /\ requested' = (requested /\ ~fresh) /\ scan' = None
            /\ UNCHANGED <<files, pending, stop>>
        BY <1>8, <2>9 DEF EndScan, Working
      <3>2. ASSUME NEW p \in Paths, Behind(p)' PROVE Owed(p)'
        <4>1. Owed(p) /\ boot = "idle"
          BY <1>5, <3>1, <3>2, NotifyReleases DEF Behind, files, Owed
        <4>2. p \in found \/ InBatch(p)' \/ p \in Range(pending')
          BY <3>1, <4>1 DEF Owed, InBatch
        <4> QED BY <3>1, <4>1, <4>2, ReleasedOwes DEF GoalInv, BootShape
      <3>3. RunIsListed'
        BY <2>9 DEF EndScan, LeaveBatch, RunIsListed
      <3> QED BY <3>2, <3>3
    <2>10. CASE NextPath
      <3>1. /\ scan # None /\ boot \notin {"ready", "scan", "drain"} /\ ~Working
            /\ pc' = "inspect" /\ UNCHANGED <<files, queue, booting>>
        BY <1>8, <2>10 DEF NextPath, Working
      <3>2. PICK q \in scan : path' = q /\ scan' = scan \ {q}
        BY <2>10 DEF NextPath
      <3>3. ASSUME NEW p \in Paths, Behind(p)' PROVE Owed(p)'
        <4>1. Owed(p) /\ boot = "idle"
          BY <1>5, <3>1, <3>3 DEF Behind, files, booting, Owed
        <4> QED BY <3>1, <3>2, <4>1 DEF Owed, InBatch, Working, queue, booting
      <3>4. RunIsListed'
        BY <3>1 DEF RunIsListed
      <3> QED BY <3>3, <3>4
    <2>11. CASE StopBatch \/ Stop \/ StopDone
      BY <1>2, <2>11 DEF StopBatch, Stop, StopDone, Stopped
    <2>12. CASE Inspect
      <3>1. /\ path \in Paths /\ boot \notin {"ready", "scan", "drain"}
            /\ UNCHANGED <<files, pending, requested, fresh, scan, booting>>
        BY <1>8, <2>12 DEF Inspect, GoalInv, Shape, WorkerShape, Working
      <3>2. ASSUME NEW p \in Paths, Behind(p)' PROVE Owed(p)'
        <4>1. Behind(p) /\ Owed(p) /\ boot = "idle"
          BY <1>5, <3>1, <3>2 DEF Behind, files, booting, Owed
        <4>2. CASE p = path
          <5>1. pc' = "handle" /\ path' = path
            BY <1>7, <2>12, <4>1, <4>2 DEF Inspect, StartHandler
          <5> QED BY <3>1, <4>1, <4>2, <5>1 DEF Owed, Working, booting
        <4>3. CASE p # path
          BY <3>1, <4>1, <4>3 DEF Owed, InBatch, booting
        <4> QED BY <4>2, <4>3
      <3>3. RunIsListed'
        BY <2>12 DEF Inspect, StartHandler, AfterPath, RunIsListed
      <3> QED BY <3>2, <3>3
    <2>13. CASE BootReady
      <3>1. /\ found' = Existing /\ goal' = size /\ boot' = "scan"
            /\ UNCHANGED <<files, path>>
        BY <2>13 DEF BootReady, worker
      <3>2. ASSUME NEW p \in Paths, Behind(p)' PROVE p \in found'
        BY <3>1, <3>2 DEF Behind, files, Existing, GoalInv, Shape, TypeOK
      <3>3. pc' = pc
        BY <2>13 DEF BootReady, worker
      <3>4. pc \in {"return", "check"} => path' \in Paths
        BY <3>1 DEF GoalInv, Shape, WorkerShape, Working
      <3> QED BY <3>1, <3>2, <3>3, <3>4 DEF Owed, RunIsListed, Listed
    <2>14. CASE BootPath
      <3>1. PICK q \in found :
              /\ found' = found \ {q}
              /\ IF NeedsCatchUp(q) THEN QueuePath(q) /\ Kick
                                    ELSE UNCHANGED <<queue, worker>>
              /\ boot' = IF NeedsCatchUp(q) /\ ~PendingDrained' THEN "drain" ELSE "scan"
        BY <2>14 DEF BootPath
      <3>2. q \in Paths /\ boot = "scan" /\ UNCHANGED <<files, notice, active, scan, goal>>
        BY <2>14, <3>1 DEF BootPath, GoalInv, Shape, TypeOK
      <3>3. QueueKept /\ (dirty => dirty')
            /\ (NeedsCatchUp(q) => Queued(q) \/ (active = q /\ dirty'))
        BY <3>1, <3>2, QueuePathQueues, QueueUnchanged DEF GoalInv, queue
      <3>4. UNCHANGED <<path, before>> /\ (pc' = pc \/ (pc = "none" /\ pc' = "loop"))
        BY <3>1 DEF Kick, worker
      <3>5. ASSUME NEW p \in Paths, Listed(p), Behind(p)
            PROVE  Listed(p)' \/ (active = p /\ dirty')
        <4>1. CASE p = q
          BY <1>7, <3>2, <3>3, <3>5, <4>1, QueuedIsListed DEF Listed
        <4>2. CASE p # q
          BY <3>1, <3>2, <3>3, <3>5, <4>2, KeptInQueue DEF Listed
        <4> QED BY <4>1, <4>2
      <3>6. RunIsListed'
        BY <3>2, <3>3, <3>4, <3>5, OthersList DEF GoalInv, files
      <3>7. ASSUME NEW p \in Paths, Behind(p)' PROVE Owed(p)'
        <4>1. Behind(p) /\ (p \in found \/ InBatch(p))
          BY <1>5, <3>2, <3>7 DEF Behind, files, Owed
        <4>2. CASE InBatch(p) \/ (p \in found /\ p # q)
          BY <3>1, <3>2, <3>3, <4>2, KeptInQueue DEF Owed
        <4>3. CASE p = q
          <5>1. NeedsCatchUp(q) /\ (Queued(q) \/ (active = q /\ dirty'))
            BY <1>7, <3>3, <4>1, <4>3
          <5>2. p \in Range(pending') \/ InBatch(p)' \/ active = q
            BY <3>2, <4>3, <5>1, QueuedIsListed
          <5>3. CASE PendingDrained'
            <6>1. active = None /\ pending' = <<>>
              BY <1>2, <3>2, <5>3 DEF PendingDrained
            <6>2. InBatch(p)'
              BY <3>2, <5>2, <6>1, RangeOfEmpty, NoneIsNoPath
            <6> QED BY <3>1, <6>2 DEF Owed
          <5>4. CASE ~PendingDrained'
            <6>1. boot' = "drain"
              BY <3>1, <5>1, <5>4
            <6>2. active = q => path' = p /\ Working'
              BY <3>2, <3>4, <4>3, NoneIsNoPath DEF GoalInv, Shape, WorkerShape, Working
            <6> QED BY <5>2, <6>1, <6>2 DEF Owed
          <5> QED BY <5>3, <5>4
        <4> QED BY <4>1, <4>2, <4>3
      <3> QED BY <3>6, <3>7
    <2>15. CASE BootScanned
      <3>1. /\ boot = "scan" /\ found = {} /\ boot' = (IF FullyIdle THEN "finish" ELSE "idle")
            /\ pc' = pc \/ (pc = "none" /\ pc' = "loop")
            /\ UNCHANGED <<path, before, found, goal, files, queue, scan>>
        BY <2>15 DEF BootScanned, FinishScan
      <3>2. \A p \in Paths : Listed(p) => Listed(p)'
        BY <3>1 DEF Listed, InBatch, queue
      <3>3. RunIsListed'
        BY <3>1, <3>2, OthersList DEF GoalInv, files, queue
      <3>4. ASSUME NEW p \in Paths, Behind(p)' PROVE Owed(p)'
        <4>1. InBatch(p)
          BY <1>5, <3>1, <3>4 DEF Behind, files, Owed
        <4>2. boot' = "idle"
          BY <3>1, <4>1 DEF InBatch, FullyIdle
        <4> QED BY <3>1, <4>1, <4>2 DEF Owed, InBatch, queue
      <3> QED BY <3>3, <3>4
    <2>16. CASE BootDone
      <3>1. boot = "finish" /\ UNCHANGED <<files, goal, worker>>
        BY <2>16 DEF BootDone
      <3>2. \A p \in Paths : ~Behind(p) /\ ~Behind(p)'
        BY <1>5, <3>1 DEF Owed, Behind, files
      <3>3. pc \in {"return", "check"} => path \in Paths
        BY DEF GoalInv, Shape, WorkerShape, Working
      <3>4. RunIsListed'
        <4> SUFFICES ASSUME pc' \in {"return", "check"} PROVE ~Behind(path)'
          BY DEF RunIsListed
        <4> QED BY <3>1, <3>2, <3>3 DEF worker, Behind
      <3> QED BY <3>2, <3>4
    <2>17. ASSUME NEW q \in Paths, Grow(q) \/ Drop(q) PROVE Goal
      <3>1. UNCHANGED <<offset, goal, scan, path, before, boot, found, pc, dirty, pending,
                        requested, fresh>>
        BY <2>17 DEF Grow, Drop, files, booting, worker, queue
      <3> QED BY <1>2, <3>1, OthersOwe, QueueUnchanged DEF GoalKept
    <2>18. ASSUME NEW q \in Paths, Deliver(q) \/ DeliverNameless(q) \/ Probe(q) PROVE Goal
      <3>1. QueueKept /\ (dirty => dirty')
        <4>1. CASE QueuePath(q)
          BY <4>1, QueuePathQueues DEF GoalInv
        <4>2. CASE DeliverNameless(q)
          BY <4>2 DEF DeliverNameless, RequestReconciliation, QueueKept
        <4> QED BY <2>18, <4>1, <4>2 DEF Deliver, Probe
      <3>2. /\ UNCHANGED <<offset, goal, scan, path, before, boot, found>>
            /\ pc' = pc \/ (pc = "none" /\ pc' = "loop")
        BY <2>18 DEF Deliver, DeliverNameless, Probe, Kick, files, booting
      <3> QED BY <1>2, <3>1, <3>2, OthersOwe DEF GoalKept
    <2>19. CASE UNCHANGED vars
      <3>1. UNCHANGED <<offset, goal, scan, path, before, boot, found, pc, dirty, pending,
                        requested, fresh>>
        BY <2>19 DEF vars, files, booting, worker, queue
      <3> QED BY <1>2, <3>1, OthersOwe, QueueUnchanged DEF GoalKept
    <2> QED BY <2>1, <2>2, <2>3, <2>4, <2>5, <2>6, <2>7, <2>8, <2>9, <2>10, <2>11, <2>12,
               <2>13, <2>14, <2>15, <2>16, <2>17, <2>18, <2>19
            DEF Next, Worker, Boot, Failure
  <1> QED BY <1>3, <1>9

(* Whoever reads "healthy" may rely on it: all that was on disk when the   *)
(* boot scan began is captured, and nothing has failed since.              *)
THEOREM HealthyMeansCaughtUp == Spec => []HealthyIsCaughtUp
  <1>1. Init => GoalInv
    <2> SUFFICES ASSUME Init PROVE GoalInv
      OBVIOUS
    <2>1. Shape
      BY InitShape
    <2>2. BootShape
      BY <2>1 DEF Init, BootShape, GoalBelow, NoScanYet, FoundVisited, HealthyDone,
         InitialScanRunning, Shape, NotPastTheEnd
    <2>3. GoalKept /\ RunIsListed
      BY DEF Init, GoalKept, RunIsListed
    <2> QED BY <2>1, <2>2, <2>3 DEF GoalInv
  <1>2. GoalInv => HealthyIsCaughtUp
    <2> SUFFICES ASSUME GoalInv, health = "healthy", NEW p \in Paths
                 PROVE  ~failed /\ offset[p] >= goal[p]
      BY DEF HealthyIsCaughtUp, GoalInv, BootShape, HealthyDone
    <2>1. boot = "done" /\ ~failed /\ ~Stopped
      BY DEF GoalInv, BootShape, HealthyDone
    <2>2. ~Behind(p)
      BY <2>1 DEF GoalInv, GoalKept, Owed
    <2> QED BY <2>1, <2>2 DEF Behind, GoalInv, Shape, TypeOK
  <1> QED BY <1>1, <1>2, GoalStep, PTL DEF Spec

=============================================================================
