-------------------------- MODULE DaemonLockProofs --------------------------
(* Theorems about DaemonLock, for any number of daemons, homes, ports, PIDs *)
(* and faults.                                                              *)
EXTENDS DaemonLock, TLAPS

(* A row names the start time of the process that wrote it, or nothing.     *)
RowShape == row # None => row.identity \in {row.stamp, Unknown}

(* A daemon that has not acquired the row, or has released it, is not the   *)
(* one in it.                                                               *)
RowOfAcquirer ==
  \A d \in Daemons :
    pc[d] \in Locking \cup {"authority", "check", "unlinkOwn"} => ~IsRowOf(d)

(* A daemon past acquirePidLock has its PID in the file, if the file is     *)
(* still its own.                                                           *)
OwnFileWritten ==
  \A d \in Daemons :
    pc[d] \in Holding =>
      \/ pidFile[HomeOf[d]] = None
      \/ pidFile[HomeOf[d]].by # d
      \/ pidFile[HomeOf[d]].text = pid[d]

IInv ==
  /\ TypeOK
  /\ PidsDiffer
  /\ RowShape
  /\ RowNamesWriter
  /\ RowOfAcquirer
  /\ OwnFileWritten

DaemonStep(d) ==
  Step(d) \/ Launch(d) \/ StartFails(d) \/ Stop(d) \/ Crash(d)

(* What a step does to the process of d: it ends, starts, or goes on.       *)
Ended(d) == pc'[d] \in Down

GoesOn(d) ==
  Live(d) /\ Live(d)' /\ pid'[d] = pid[d] /\ stamp'[d] = stamp[d]

(* The transaction that finds no live writer and writes the row.            *)
Acquired(d) ==
  /\ pc[d] = "authority" /\ pc'[d] = "bind"
  /\ row' = [pid |-> pid[d], stamp |-> stamp[d], identity |-> identity'[d]]
  /\ identity'[d] \in {stamp[d], Unknown}
  /\ \E answered \in BOOLEAN : ~LiveWriter(answered)

(* pc takes d into or out of the steps that own the row only by Acquire and *)
(* DropRow.                                                                 *)
KeepsRow(d) ==
  /\ row' = row
  /\ identity'[d] = identity[d]
  /\ pc'[d] \in {"bind", "writing", "stopping", "drop"} <=>
       pc[d] \in {"bind", "writing", "stopping", "drop"}

Dropped(d) ==
  /\ pc[d] = "drop" /\ pc'[d] = "check"
  /\ row' = IF IsRowOf(d) THEN None ELSE row

----------------------------------------------------------------------------
(* Types                                                                    *)

LEMMA ExitTypes ==
  ASSUME TypeOK, NEW d \in Daemons, NEW how \in Down, Exit(d, how)
  PROVE  /\ pc' \in [Daemons -> Down \cup Locking \cup Holding]
         /\ pid' \in [Daemons -> Pids \cup {None}]
         /\ stamp' \in [Daemons -> Stamps \cup {None}]
         /\ identity' \in [Daemons -> Stamps \cup {Unknown, None}]
         /\ attempt' \in [Daemons -> {0, 1}]
         /\ owner' \in [Daemons -> Pids \cup {None}]
         /\ port' \in [Daemons -> Ports \cup {None}]
         /\ clean' \in [Daemons -> BOOLEAN]
         /\ \A e \in Daemons :
              Live(e)' => pid'[e] \in Pids /\ stamp'[e] \in Stamps
  BY DEF TypeOK, Exit, Goto, Live

LEMMA DaemonTypes ==
  ASSUME TypeOK, NEW d \in Daemons, DaemonStep(d)
  PROVE  TypeOK'
  <1> USE DaemonAssumption
  <1>1. CASE Create(d)
    BY <1>1
    DEF Create, PidFiles, TypeOK, Goto, Live, locals, Down, Locking, Holding
  <1>2. CASE WritePid(d)
    <2>1. pid[d] \in Pids
      BY <1>2 DEF WritePid, TypeOK, Live, Down
    <2>2. [by |-> d, text |-> pid[d]] \in PidFiles
      BY <2>1 DEF PidFiles
    <2>3. pidFile' \in [Homes -> {None} \cup PidFiles]
      BY <1>2, <2>2 DEF WritePid, TypeOK
    <2> QED
      BY <1>2, <2>3 DEF WritePid, TypeOK, Goto, Live, Down, Locking, Holding
  <1>3. CASE ReadOwner(d)
    BY <1>3
    DEF ReadOwner, PidIn, PidFiles, TypeOK, Goto, Live, Down, Locking, Holding
  <1>4. CASE JudgeOwner(d)
    <2>1. CASE OwnerLives(d)
      BY <1>4, <2>1, ExitTypes DEF JudgeOwner, TypeOK, Down
    <2>2. CASE ~OwnerLives(d)
      BY <1>4, <2>2 DEF JudgeOwner, TypeOK, Goto, Live, Down, Locking, Holding
    <2> QED BY <2>1, <2>2
  <1>5. CASE UnlinkStale(d)
    <2>1. pidFile' \in [Homes -> {None} \cup PidFiles]
      BY <1>5 DEF UnlinkStale, TypeOK
    <2>2. CASE LastAttempt(d)
      BY <1>5, <2>1, <2>2, ExitTypes DEF UnlinkStale, TypeOK, Down
    <2>3. CASE ~LastAttempt(d)
      BY <1>5, <2>1, <2>3
      DEF UnlinkStale, LastAttempt, TypeOK, Goto, Live, Down, Locking, Holding
    <2> QED BY <2>2, <2>3
  <1>6. CASE Acquire(d)
    <2>1. PICK own \in BOOLEAN, answered \in BOOLEAN :
            AcquireSeeing(d, own, answered)
      BY <1>6 DEF Acquire
    <2> QED BY <1>6, <2>1
      DEF Acquire, AcquireSeeing, Rows, TypeOK, Goto, Live, Down, Locking,
          Holding
  <1>7. CASE Bind(d)
    BY <1>7 DEF Bind, TypeOK, Goto, Live, Down, Locking, Holding
  <1>8. CASE CloseStorage(d)
    BY <1>8 DEF CloseStorage, TypeOK, Goto, Live, Down, Locking, Holding
  <1>9. CASE DropRow(d)
    BY <1>9 DEF DropRow, TypeOK, Goto, Live, locals, Down, Locking, Holding
  <1>10. CASE CheckOwnFile(d)
    <2>1. CASE PidIn(HomeOf[d]) = pid[d]
      BY <1>10, <2>1
      DEF CheckOwnFile, TypeOK, Goto, Live, locals, Down, Locking, Holding
    <2>2. CASE PidIn(HomeOf[d]) # pid[d]
      BY <1>10, <2>2, ExitTypes DEF CheckOwnFile, Leave, TypeOK, Down
    <2> QED BY <2>1, <2>2
  <1>11. CASE UnlinkOwn(d)
    <2>1. pidFile' \in [Homes -> {None} \cup PidFiles]
      BY <1>11 DEF UnlinkOwn, TypeOK
    <2> QED BY <1>11, <2>1, ExitTypes DEF UnlinkOwn, Leave, TypeOK, Down
  <1>12. CASE Launch(d)
    BY <1>12 DEF Launch, TypeOK, Goto, Live, Down, Locking, Holding
  <1>13. CASE StartFails(d)
    BY <1>13 DEF StartFails, TypeOK, Goto, Live, locals, Down, Locking, Holding
  <1>14. CASE Stop(d)
    BY <1>14 DEF Stop, TypeOK, Goto, Live, Down, Locking, Holding
  <1>15. CASE Crash(d)
    BY <1>15, ExitTypes DEF Crash, TypeOK, Down
  <1> QED
    BY <1>1, <1>2, <1>3, <1>4, <1>5, <1>6, <1>7, <1>8, <1>9, <1>10, <1>11,
       <1>12, <1>13, <1>14, <1>15
    DEF DaemonStep, Step

LEMMA StrangerTypes ==
  ASSUME TypeOK, NEW p \in Pids, StrangerStarts(p) \/ StrangerEnds(p)
  PROVE  TypeOK'
  BY DEF StrangerStarts, StrangerEnds, TypeOK, locals, Live

LEMMA TypeStep == TypeOK /\ [Next]_vars => TypeOK'
  <1> SUFFICES ASSUME TypeOK, [Next]_vars PROVE TypeOK'
    OBVIOUS
  <1>1. CASE Next
    BY <1>1, DaemonTypes, StrangerTypes DEF Next, DaemonStep
  <1>2. CASE UNCHANGED vars
    BY <1>2 DEF vars, TypeOK, Live
  <1> QED BY <1>1, <1>2

LEMMA TypeInit == Init => TypeOK
  BY DaemonAssumption DEF Init, TypeOK, Live, Down

(* The variables keep their types: in particular acquirePidLock gives up    *)
(* after two attempts, and the process of a live daemon has a PID.          *)
THEOREM DaemonTypeCorrect == Spec => []TypeOK
  BY TypeInit, TypeStep, PTL DEF Spec

----------------------------------------------------------------------------
(* What a step of d changes.                                                *)

LEMMA ExitIsLocal ==
  ASSUME TypeOK, NEW d \in Daemons, NEW how \in Down, Exit(d, how)
  PROVE  /\ pc'[d] = how
         /\ \A e \in Daemons \ {d} :
              /\ pc'[e] = pc[e] /\ pid'[e] = pid[e]
              /\ stamp'[e] = stamp[e] /\ identity'[e] = identity[e]
  BY DEF TypeOK, Exit, Goto

LEMMA StepEffects ==
  ASSUME TypeOK, NEW d \in Daemons, DaemonStep(d)
  PROVE  /\ strangers' = strangers
         /\ \A e \in Daemons \ {d} :
              /\ pc'[e] = pc[e] /\ pid'[e] = pid[e]
              /\ stamp'[e] = stamp[e] /\ identity'[e] = identity[e]
         /\ \/ Ended(d) /\ row' = row
            \/ Launch(d)
            \/ GoesOn(d) /\ (KeepsRow(d) \/ Acquired(d) \/ Dropped(d))
  <1> DEFINE Local == \A e \in Daemons \ {d} :
                        /\ pc'[e] = pc[e] /\ pid'[e] = pid[e]
                        /\ stamp'[e] = stamp[e] /\ identity'[e] = identity[e]
             Goal == /\ strangers' = strangers
                     /\ Local
                     /\ \/ Ended(d) /\ row' = row
                        \/ Launch(d)
                        \/ /\ GoesOn(d)
                           /\ KeepsRow(d) \/ Acquired(d) \/ Dropped(d)
  <1>1. ASSUME NEW how \in Down, Exit(d, how),
               row' = row, strangers' = strangers
        PROVE  Goal
    BY <1>1, ExitIsLocal DEF Ended
  <1>2. CASE Create(d)
    BY <1>2 DEF Create, TypeOK, Goto, GoesOn, KeepsRow, Live, locals, Down
  <1>3. CASE WritePid(d)
    BY <1>3 DEF WritePid, TypeOK, Goto, GoesOn, KeepsRow, Live, Down
  <1>4. CASE ReadOwner(d)
    BY <1>4 DEF ReadOwner, TypeOK, Goto, GoesOn, KeepsRow, Live, Down
  <1>5. CASE JudgeOwner(d)
    <2>1. CASE OwnerLives(d)
      BY <1>5, <2>1, <1>1 DEF JudgeOwner, Down
    <2>2. CASE ~OwnerLives(d)
      BY <1>5, <2>2 DEF JudgeOwner, TypeOK, Goto, GoesOn, KeepsRow, Live, Down
    <2> QED BY <2>1, <2>2
  <1>6. CASE UnlinkStale(d)
    <2>1. CASE LastAttempt(d)
      BY <1>6, <2>1, <1>1 DEF UnlinkStale, Down
    <2>2. CASE ~LastAttempt(d)
      BY <1>6, <2>2 DEF UnlinkStale, TypeOK, Goto, GoesOn, KeepsRow, Live, Down
    <2> QED BY <2>1, <2>2
  <1>7. CASE Acquire(d)
    <2>1. PICK own \in BOOLEAN, answered \in BOOLEAN :
            AcquireSeeing(d, own, answered)
      BY <1>7 DEF Acquire
    <2>2. CASE LiveWriter(answered)
      BY <1>7, <2>1, <2>2
      DEF Acquire, AcquireSeeing, TypeOK, Goto, GoesOn, KeepsRow, Live, Down
    <2>3. CASE ~LiveWriter(answered)
      BY <1>7, <2>1, <2>3
      DEF Acquire, AcquireSeeing, TypeOK, Goto, GoesOn, Acquired, Live, Down
    <2> QED BY <2>2, <2>3
  <1>8. CASE Bind(d)
    BY <1>8 DEF Bind, TypeOK, Goto, GoesOn, KeepsRow, Live, Down
  <1>9. CASE CloseStorage(d)
    BY <1>9 DEF CloseStorage, TypeOK, Goto, GoesOn, KeepsRow, Live, Down
  <1>10. CASE DropRow(d)
    BY <1>10
    DEF DropRow, OwnRow, TypeOK, Goto, GoesOn, Dropped, Live, locals, Down
  <1>11. CASE CheckOwnFile(d)
    <2>1. CASE PidIn(HomeOf[d]) = pid[d]
      BY <1>11, <2>1
      DEF CheckOwnFile, TypeOK, Goto, GoesOn, KeepsRow, Live, locals, Down
    <2>2. CASE PidIn(HomeOf[d]) # pid[d]
      BY <1>11, <2>2, <1>1 DEF CheckOwnFile, Leave, Down
    <2> QED BY <2>1, <2>2
  <1>12. CASE UnlinkOwn(d)
    BY <1>12, <1>1 DEF UnlinkOwn, Leave, Down
  <1>13. CASE Launch(d)
    BY <1>13 DEF Launch, TypeOK, Goto
  <1>14. CASE StartFails(d)
    BY <1>14 DEF StartFails, TypeOK, Goto, GoesOn, KeepsRow, Live, locals, Down
  <1>15. CASE Stop(d)
    BY <1>15 DEF Stop, TypeOK, Goto, GoesOn, KeepsRow, Live, Down
  <1>16. CASE Crash(d)
    BY <1>16, <1>1 DEF Crash, Down
  <1> QED
    BY <1>2, <1>3, <1>4, <1>5, <1>6, <1>7, <1>8, <1>9, <1>10, <1>11, <1>12,
       <1>13, <1>14, <1>15, <1>16
    DEF DaemonStep, Step

(* Only Launch gives a process a number, and a free one.                    *)
LEMMA PidsStep ==
  ASSUME TypeOK, PidsDiffer, [Next]_vars
  PROVE  PidsDiffer'
  <1>1. ASSUME NEW d \in Daemons, DaemonStep(d) PROVE PidsDiffer'
    <2>1. CASE Ended(d)
      BY <1>1, <2>1, StepEffects DEF PidsDiffer, Live, Ended
    <2>2. CASE Launch(d)
      BY <1>1, <2>2, StepEffects DEF Launch, LivePids, PidsDiffer, Live, TypeOK
    <2>3. CASE GoesOn(d)
      BY <1>1, <2>3, StepEffects DEF PidsDiffer, Live, GoesOn
    <2> QED BY <1>1, <2>1, <2>2, <2>3, StepEffects
  <1>2. ASSUME NEW p \in Pids, StrangerStarts(p) PROVE PidsDiffer'
    BY <1>2 DEF StrangerStarts, LivePids, PidsDiffer, Live, locals
  <1>3. ASSUME NEW p \in Pids, StrangerEnds(p) PROVE PidsDiffer'
    BY <1>3 DEF StrangerEnds, PidsDiffer, Live, locals
  <1>4. CASE UNCHANGED vars
    BY <1>4 DEF vars, PidsDiffer, Live
  <1> QED BY <1>1, <1>2, <1>3, <1>4 DEF Next, DaemonStep

----------------------------------------------------------------------------
(* The writer row                                                           *)

(* `ps` tells the start time of a live daemon, if it answers.               *)
LEMMA StartTimeOfDaemon ==
  ASSUME PidsDiffer, NEW d \in Daemons, Live(d)
  PROVE  StartTime(pid[d]) = stamp[d]
  <1> DEFINE P(e) == Live(e) /\ pid[e] = pid[d]
  <1>1. P(d)
    OBVIOUS
  <1>2. \A e \in Daemons : P(e) => e = d
    BY DEF PidsDiffer
  <1>3. (CHOOSE e \in Daemons : P(e)) = d
    BY <1>1, <1>2
  <1> QED BY <1>1, <1>3 DEF StartTime

(* The row of a live daemon that knew its start time is a live writer's,    *)
(* whether `ps` answers or not.                                             *)
LEMMA KnownRowIsLive ==
  ASSUME PidsDiffer, NEW d \in Daemons, Live(d), NEW answered \in BOOLEAN,
         row = [pid |-> pid[d], stamp |-> stamp[d], identity |-> stamp[d]],
         row # None
  PROVE  LiveWriter(answered)
  BY StartTimeOfDaemon DEF LiveWriter, LivePids

LEMMA RowShapeStep ==
  ASSUME TypeOK, RowShape, [Next]_vars
  PROVE  RowShape'
  <1>1. ASSUME NEW d \in Daemons, DaemonStep(d) PROVE RowShape'
    <2>1. CASE row' = row
      BY <2>1 DEF RowShape
    <2>2. CASE Acquired(d)
      BY <2>2 DEF RowShape, Acquired
    <2>3. CASE Dropped(d)
      BY <2>3 DEF RowShape, Dropped
    <2> QED
      BY <1>1, <2>1, <2>2, <2>3, StepEffects DEF KeepsRow, Launch
  <1>2. ASSUME NEW p \in Pids, StrangerStarts(p) \/ StrangerEnds(p)
        PROVE  RowShape'
    BY <1>2 DEF StrangerStarts, StrangerEnds, RowShape
  <1>3. CASE UNCHANGED vars
    BY <1>3 DEF vars, RowShape
  <1> QED BY <1>1, <1>2, <1>3 DEF Next, DaemonStep

LEMMA RowOfAcquirerStep ==
  ASSUME TypeOK, PidsDiffer, RowOfAcquirer, [Next]_vars
  PROVE  RowOfAcquirer'
  <1> DEFINE Early == Locking \cup {"authority", "check", "unlinkOwn"}
             Late  == {"bind", "writing", "stopping", "drop"}
  <1>1. ASSUME NEW d \in Daemons, DaemonStep(d),
               NEW e \in Daemons, pc'[e] \in Early
        PROVE  ~IsRowOf(e)'
    <2>1. CASE e # d
      <3>1. /\ Live(e) /\ pc[e] \in Early
            /\ pid'[e] = pid[e] /\ stamp'[e] = stamp[e]
        BY <1>1, <2>1, StepEffects DEF Live, Down, Locking
      <3>2. CASE row' = row
        BY <3>1, <3>2 DEF RowOfAcquirer, IsRowOf
      <3>3. CASE Acquired(d)
        <4>1. pid[e] # pid[d]
          BY <2>1, <3>1, <3>3 DEF PidsDiffer, Acquired, Live, Down
        <4> QED BY <3>1, <3>3, <4>1 DEF IsRowOf, Acquired
      <3>4. CASE Dropped(d)
        BY <3>1, <3>4 DEF RowOfAcquirer, IsRowOf, Dropped
      <3> QED BY <1>1, <3>2, <3>3, <3>4, StepEffects DEF KeepsRow, Launch
    <2>2. CASE e = d
      <3>1. CASE Ended(d)
        BY <1>1, <2>2, <3>1 DEF Ended, Down, Locking
      <3>2. CASE Launch(d)
        <4>1. PICK p \in Pids, t \in Stamps :
                /\ ~(row # None /\ row.pid = p /\ row.stamp = t)
                /\ pid' = [pid EXCEPT ![d] = p]
                /\ stamp' = [stamp EXCEPT ![d] = t]
          BY <3>2 DEF Launch
        <4>2. pid'[d] = p /\ stamp'[d] = t /\ row' = row
          BY <3>2, <4>1 DEF Launch, TypeOK
        <4> QED BY <2>2, <4>1, <4>2 DEF IsRowOf
      <3>3. CASE GoesOn(d) /\ KeepsRow(d)
        <4>1. pc[d] \in Early
          BY <1>1, <2>2, <3>3
          DEF GoesOn, KeepsRow, Live, TypeOK, Down, Locking, Holding
        <4> QED BY <2>2, <3>3, <4>1 DEF GoesOn, KeepsRow, RowOfAcquirer, IsRowOf
      <3>4. CASE Acquired(d)
        BY <1>1, <2>2, <3>4 DEF Acquired, Locking
      <3>5. CASE GoesOn(d) /\ Dropped(d)
        BY <2>2, <3>5 DEF GoesOn, Dropped, IsRowOf
      <3> QED BY <1>1, <3>1, <3>2, <3>3, <3>4, <3>5, StepEffects
    <2> QED BY <2>1, <2>2
  <1>2. ASSUME NEW p \in Pids, StrangerStarts(p) \/ StrangerEnds(p)
        PROVE  RowOfAcquirer'
    BY <1>2 DEF StrangerStarts, StrangerEnds, locals, RowOfAcquirer, IsRowOf
  <1>3. CASE UNCHANGED vars
    BY <1>3 DEF vars, RowOfAcquirer, IsRowOf
  <1>4. ASSUME NEW d \in Daemons, DaemonStep(d) PROVE RowOfAcquirer'
    BY <1>1, <1>4 DEF RowOfAcquirer
  <1> QED BY <1>2, <1>3, <1>4 DEF Next, DaemonStep

LEMMA RowNamesWriterStep ==
  ASSUME TypeOK, TypeOK', PidsDiffer, RowNamesWriter, [Next]_vars
  PROVE  RowNamesWriter'
  <1> DEFINE Late     == {"bind", "writing", "stopping", "drop"}
             Named(e) == row = [pid |-> pid[e], stamp |-> stamp[e],
                                identity |-> stamp[e]]
  <1>1. ASSUME NEW d \in Daemons, DaemonStep(d),
               NEW e \in Daemons, pc'[e] \in Late, identity'[e] # Unknown
        PROVE  Named(e)'
    <2>1. CASE e # d
      <3>1. /\ Live(e) /\ Named(e)
            /\ pid'[e] = pid[e] /\ stamp'[e] = stamp[e]
        BY <1>1, <2>1, StepEffects DEF RowNamesWriter, Live, Down
      <3>2. CASE row' = row
        BY <3>1, <3>2
      <3>3. CASE Acquired(d)
        <4>1. row # None
          BY <3>1, DaemonAssumption DEF TypeOK, Rows, Live
        <4> QED BY <3>1, <3>3, <4>1, KnownRowIsLive DEF Acquired
      <3>4. CASE Dropped(d)
        <4>1. pid[e] # pid[d]
          BY <2>1, <3>1, <3>4 DEF PidsDiffer, Dropped, Live, Down
        <4> QED BY <3>1, <3>4, <4>1 DEF IsRowOf, Dropped
      <3> QED BY <1>1, <3>2, <3>3, <3>4, StepEffects DEF KeepsRow, Launch
    <2>2. CASE e = d
      <3>1. CASE Ended(d)
        BY <1>1, <2>2, <3>1 DEF Ended, Down
      <3>2. CASE Launch(d)
        BY <1>1, <2>2, <3>2 DEF Launch, Goto, TypeOK
      <3>3. CASE GoesOn(d) /\ KeepsRow(d)
        BY <1>1, <2>2, <3>3 DEF GoesOn, KeepsRow, RowNamesWriter
      <3>4. CASE GoesOn(d) /\ Acquired(d)
        BY <1>1, <2>2, <3>4 DEF GoesOn, Acquired
      <3>5. CASE Dropped(d)
        BY <1>1, <2>2, <3>5 DEF Dropped
      <3> QED BY <1>1, <3>1, <3>2, <3>3, <3>4, <3>5, StepEffects
    <2> QED BY <2>1, <2>2
  <1>2. ASSUME NEW d \in Daemons, DaemonStep(d) PROVE RowNamesWriter'
    BY <1>1, <1>2 DEF RowNamesWriter
  <1>3. ASSUME NEW p \in Pids, StrangerStarts(p) \/ StrangerEnds(p)
        PROVE  RowNamesWriter'
    BY <1>3 DEF StrangerStarts, StrangerEnds, locals, RowNamesWriter
  <1>4. CASE UNCHANGED vars
    BY <1>4 DEF vars, RowNamesWriter
  <1> QED BY <1>2, <1>3, <1>4 DEF Next, DaemonStep

----------------------------------------------------------------------------
(* The PID file                                                             *)

(* A step leaves the files alone, removes the one of its home, or is one of *)
(* the two that make it.                                                    *)
LEMMA FileEffects ==
  ASSUME TypeOK, NEW d \in Daemons, DaemonStep(d)
  PROVE  \/ /\ pidFile' = pidFile
            /\ pc'[d] \in Holding => pc[d] \in Holding /\ pid'[d] = pid[d]
         \/ pidFile' = [pidFile EXCEPT ![HomeOf[d]] = None]
         \/ /\ pidFile' = [pidFile EXCEPT ![HomeOf[d]] = [by |-> d, text |-> None]]
            /\ pc'[d] \notin Holding
         \/ WritePid(d)
  <1> DEFINE Goal == \/ /\ pidFile' = pidFile
                        /\ pc'[d] \in Holding =>
                             pc[d] \in Holding /\ pid'[d] = pid[d]
                     \/ pidFile' = [pidFile EXCEPT ![HomeOf[d]] = None]
                     \/ /\ pidFile' = [pidFile EXCEPT ![HomeOf[d]] =
                                         [by |-> d, text |-> None]]
                        /\ pc'[d] \notin Holding
                     \/ WritePid(d)
  <1>1. ASSUME NEW how \in Down, Exit(d, how), pidFile' = pidFile PROVE Goal
    BY <1>1, ExitIsLocal DEF Down, Holding
  <1>2. CASE Create(d)
    BY <1>2 DEF Create, TypeOK, Goto, Holding
  <1>3. CASE WritePid(d)
    BY <1>3
  <1>4. CASE ReadOwner(d)
    BY <1>4 DEF ReadOwner, TypeOK, Goto, Holding
  <1>5. CASE JudgeOwner(d)
    <2>1. CASE OwnerLives(d)
      BY <1>5, <2>1, <1>1 DEF JudgeOwner, Down
    <2>2. CASE ~OwnerLives(d)
      BY <1>5, <2>2 DEF JudgeOwner, TypeOK, Goto, Holding
    <2> QED BY <2>1, <2>2
  <1>6. CASE UnlinkStale(d)
    BY <1>6 DEF UnlinkStale
  <1>7. CASE Acquire(d)
    BY <1>7 DEF Acquire, Holding
  <1>8. CASE Bind(d)
    BY <1>8 DEF Bind, Holding
  <1>9. CASE CloseStorage(d)
    BY <1>9 DEF CloseStorage, Holding
  <1>10. CASE DropRow(d)
    BY <1>10 DEF DropRow, locals, Holding
  <1>11. CASE CheckOwnFile(d)
    <2>1. CASE PidIn(HomeOf[d]) = pid[d]
      BY <1>11, <2>1 DEF CheckOwnFile, locals, Holding
    <2>2. CASE PidIn(HomeOf[d]) # pid[d]
      BY <1>11, <2>2, <1>1 DEF CheckOwnFile, Leave, Down
    <2> QED BY <2>1, <2>2
  <1>12. CASE UnlinkOwn(d)
    BY <1>12 DEF UnlinkOwn
  <1>13. CASE Launch(d)
    BY <1>13 DEF Launch, TypeOK, Goto, Holding
  <1>14. CASE StartFails(d)
    BY <1>14 DEF StartFails, locals, Holding
  <1>15. CASE Stop(d)
    BY <1>15 DEF Stop, Holding
  <1>16. CASE Crash(d)
    BY <1>16, <1>1 DEF Crash, Down
  <1> QED
    BY <1>2, <1>3, <1>4, <1>5, <1>6, <1>7, <1>8, <1>9, <1>10, <1>11, <1>12,
       <1>13, <1>14, <1>15, <1>16
    DEF DaemonStep, Step

LEMMA OwnFileStep ==
  ASSUME TypeOK, OwnFileWritten, [Next]_vars
  PROVE  OwnFileWritten'
  <1> DEFINE File(e)    == pidFile[HomeOf[e]]
             Written(e) == File(e) = None \/ File(e).by # e \/ File(e).text = pid[e]
  <1>1. ASSUME NEW d \in Daemons, DaemonStep(d),
               NEW e \in Daemons, pc'[e] \in Holding
        PROVE  Written(e)'
    <2>1. HomeOf[d] \in Homes /\ HomeOf[e] \in Homes
      BY DaemonAssumption
    <2>2. CASE e # d
      <3>1. pid'[e] = pid[e] /\ pc[e] \in Holding
        BY <1>1, <2>2, StepEffects
      <3>2. Written(e)
        BY <3>1 DEF OwnFileWritten
      <3>3. CASE pidFile' = pidFile
        BY <3>1, <3>2, <3>3
      <3>4. CASE pidFile' = [pidFile EXCEPT ![HomeOf[d]] = None]
        BY <2>1, <3>1, <3>2, <3>4 DEF TypeOK
      <3>5. ASSUME NEW t,
                   pidFile' = [pidFile EXCEPT ![HomeOf[d]] =
                                 [by |-> d, text |-> t]]
            PROVE  Written(e)'
        <4>1. CASE HomeOf[e] = HomeOf[d]
          <5>1. File(e)'.by = d
            BY <2>1, <3>5, <4>1 DEF TypeOK
          <5> QED BY <2>2, <5>1
        <4>2. CASE HomeOf[e] # HomeOf[d]
          BY <2>1, <3>1, <3>2, <3>5, <4>2 DEF TypeOK
        <4> QED BY <4>1, <4>2
      <3>6. CASE WritePid(d)
        BY <3>3, <3>5, <3>6 DEF WritePid
      <3> QED BY <1>1, <3>3, <3>4, <3>5, <3>6, FileEffects
    <2>3. CASE e = d
      <3>1. CASE WritePid(d)
        BY <2>1, <2>3, <3>1 DEF WritePid, TypeOK
      <3>2. CASE pidFile' = pidFile /\ pc[d] \in Holding /\ pid'[d] = pid[d]
        BY <2>3, <3>2 DEF OwnFileWritten
      <3>3. CASE pidFile' = [pidFile EXCEPT ![HomeOf[d]] = None]
        BY <2>1, <2>3, <3>3 DEF TypeOK
      <3> QED BY <1>1, <2>3, <3>1, <3>2, <3>3, FileEffects
    <2> QED BY <2>2, <2>3
  <1>2. ASSUME NEW d \in Daemons, DaemonStep(d) PROVE OwnFileWritten'
    BY <1>1, <1>2 DEF OwnFileWritten
  <1>3. ASSUME NEW p \in Pids, StrangerStarts(p) \/ StrangerEnds(p)
        PROVE  OwnFileWritten'
    BY <1>3 DEF StrangerStarts, StrangerEnds, locals, OwnFileWritten
  <1>4. CASE UNCHANGED vars
    BY <1>4 DEF vars, OwnFileWritten
  <1> QED BY <1>2, <1>3, <1>4 DEF Next, DaemonStep

----------------------------------------------------------------------------
(* The theorems                                                             *)

LEMMA InvInit == Init => IInv
  <1> SUFFICES ASSUME Init PROVE IInv
    OBVIOUS
  <1> QED
    BY TypeInit
    DEF Init, IInv, PidsDiffer, RowShape, RowNamesWriter, RowOfAcquirer, IsRowOf,
        OwnFileWritten, Live, Down, Locking, Holding

LEMMA InvStep == IInv /\ [Next]_vars => IInv'
  BY TypeStep, PidsStep, RowShapeStep, RowNamesWriterStep, RowOfAcquirerStep,
     OwnFileStep
  DEF IInv

THEOREM InvHolds == Spec => []IInv
  BY InvInit, InvStep, PTL DEF Spec

(* The row names the live writer: whatever the other daemons do, however    *)
(* PIDs are reused and whichever call of `ps` fails, the row of a daemon    *)
(* that knows its start time is not taken from it while its storage is open.*)
THEOREM RowIsKept == Spec => []RowNamesWriter
  <1>1. IInv => RowNamesWriter
    BY DEF IInv
  <1> QED BY <1>1, InvHolds, PTL

(* Two daemons capture into one database only if one of them could not read *)
(* its own start time: both would be the one the row names, and two live    *)
(* processes have two numbers.                                              *)
THEOREM WritersExclude == Spec => []OneWriter
  <1>1. ASSUME IInv, NEW d \in Daemons, NEW e \in Daemons,
               Writing(d), Writing(e), d # e
        PROVE  Unknown \in {identity[d], identity[e]}
    <2> SUFFICES ASSUME identity[d] # Unknown, identity[e] # Unknown PROVE FALSE
      OBVIOUS
    <2>1. row.pid = pid[d] /\ row.pid = pid[e]
      BY <1>1 DEF IInv, RowNamesWriter, Writing
    <2>2. pid[d] # pid[e]
      BY <1>1 DEF IInv, PidsDiffer, Writing, Live, Down
    <2> QED BY <2>1, <2>2
  <1>2. IInv => OneWriter
    BY <1>1 DEF OneWriter
  <1> QED BY <1>2, InvHolds, PTL

LEMMA DueRefusalStep ==
  ASSUME IInv, NEW d \in Daemons, DaemonStep(d),
         pc[d] = "authority", pc'[d] = "check"
  PROVE  \/ \E e \in Daemons \ {d} : Live(e) /\ IsRowOf(e)
         \/ faults' > faults
  <1>1. CASE Acquire(d)
    <2>1. PICK own \in BOOLEAN, answered \in BOOLEAN :
            /\ faults' = faults + (IF own THEN 0 ELSE 1)
                                + (IF answered THEN 0 ELSE 1)
            /\ AcquireSeeing(d, own, answered)
      BY <1>1 DEF Acquire
    <2>2. LiveWriter(answered)
      BY <1>1, <2>1 DEF AcquireSeeing, Goto, IInv, TypeOK
    <2>3. CASE ~answered
      BY <2>1, <2>3 DEF IInv, TypeOK
    <2>4. CASE answered
      <3>1. /\ row # None /\ row \in Rows
            /\ StartTime(row.pid) = row.identity
            /\ row.identity \in {row.stamp, Unknown}
        BY <2>2, <2>4 DEF LiveWriter, IInv, TypeOK, RowShape
      <3>2. row.identity # None
        BY <3>1, DaemonAssumption DEF Rows
      <3>3. PICK e \in Daemons : Live(e) /\ pid[e] = row.pid
        BY <3>1, <3>2 DEF StartTime
      <3>4. StartTime(row.pid) = stamp[e]
        BY <3>3, StartTimeOfDaemon DEF IInv
      <3>5. stamp[e] # Unknown
        BY <3>3, DaemonAssumption DEF IInv, TypeOK
      <3>6. IsRowOf(e)
        BY <3>1, <3>3, <3>4, <3>5 DEF IsRowOf
      <3>7. ~IsRowOf(d)
        BY DEF IInv, RowOfAcquirer
      <3> QED BY <3>3, <3>6, <3>7
    <2> QED BY <2>3, <2>4
  <1>2. CASE StartFails(d)
    BY <1>2 DEF StartFails, IInv, TypeOK
  <1>3. CASE Crash(d)
    BY <1>3, ExitIsLocal DEF Crash, IInv, Down
  <1> QED
    BY <1>1, <1>2, <1>3
    DEF DaemonStep, Step, Create, WritePid, ReadOwner, JudgeOwner, UnlinkStale,
        Bind, CloseStorage, DropRow, CheckOwnFile, UnlinkOwn, Launch, Stop,
        Live, Down

LEMMA CleanExitStep ==
  ASSUME IInv, NEW d \in Daemons, DaemonStep(d),
         pc[d] \in Holding, pc'[d] \in {"failed", "stopped"}
  PROVE  /\ pidFile'[HomeOf[d]] = None \/ pidFile'[HomeOf[d]].by # d
         /\ row' = None \/ row'.pid # pid[d] \/ row'.stamp # stamp[d]
  <1>1. HomeOf[d] \in Homes /\ TypeOK
    BY DaemonAssumption DEF IInv
  <1>2. CASE CheckOwnFile(d)
    <2>1. PidIn(HomeOf[d]) # pid[d] /\ pidFile' = pidFile /\ row' = row
      BY <1>1, <1>2 DEF CheckOwnFile, Goto, TypeOK
    <2>2. ~IsRowOf(d)
      BY <1>2 DEF CheckOwnFile, IInv, RowOfAcquirer
    <2> QED BY <2>1, <2>2 DEF IInv, OwnFileWritten, PidIn, IsRowOf
  <1>3. CASE UnlinkOwn(d)
    <2>1. pidFile'[HomeOf[d]] = None /\ row' = row
      BY <1>1, <1>3 DEF UnlinkOwn, TypeOK
    <2>2. ~IsRowOf(d)
      BY <1>3 DEF UnlinkOwn, IInv, RowOfAcquirer
    <2> QED BY <2>1, <2>2 DEF IsRowOf
  <1>4. CASE Crash(d)
    BY <1>1, <1>4, ExitIsLocal DEF Crash, Down
  <1>5. CASE Acquire(d)
    BY <1>1, <1>5 DEF Acquire, AcquireSeeing, Goto, TypeOK
  <1>6. CASE Bind(d) \/ CloseStorage(d) \/ DropRow(d) \/ StartFails(d) \/ Stop(d)
    BY <1>1, <1>6
    DEF Bind, CloseStorage, DropRow, StartFails, Stop, Goto, TypeOK
  <1> QED
    BY <1>2, <1>3, <1>4, <1>5, <1>6
    DEF DaemonStep, Step, Create, WritePid, ReadOwner, JudgeOwner, UnlinkStale,
        Launch, Live, Holding, Down

(* The row of a dead daemon never refuses a new one unless `ps` fails.      *)
THEOREM StaleRowsDoNotBlock == Spec => RefusalIsDue
  <1>1. ASSUME IInv, Next PROVE DueRefusals
    <2>1. ASSUME NEW d \in Daemons, DaemonStep(d) PROVE DueRefusals
      <3>1. \A e \in Daemons \ {d} : pc'[e] = pc[e]
        BY <1>1, <2>1, StepEffects DEF IInv
      <3> QED BY <1>1, <2>1, <3>1, DueRefusalStep DEF DueRefusals
    <2>2. ASSUME NEW p \in Pids, StrangerStarts(p) \/ StrangerEnds(p)
          PROVE  DueRefusals
      BY <2>2 DEF StrangerStarts, StrangerEnds, DueRefusals
    <2> QED BY <1>1, <2>1, <2>2 DEF Next, DaemonStep
  <1>2. IInv /\ [Next]_vars => [DueRefusals]_vars
    BY <1>1
  <1> QED BY <1>2, InvHolds, PTL DEF Spec, RefusalIsDue

(* A daemon that is not killed leaves no PID file and no row of its own.    *)
THEOREM ExitReleases == Spec => ExitsClean
  <1>1. ASSUME IInv, Next PROVE CleanExits
    <2>1. ASSUME NEW d \in Daemons, DaemonStep(d) PROVE CleanExits
      <3>1. \A e \in Daemons \ {d} : pc'[e] = pc[e]
        BY <1>1, <2>1, StepEffects DEF IInv
      <3>2. \A e \in Daemons : pc[e] \in Holding => pc[e] \notin {"failed", "stopped"}
        BY DEF Holding
      <3> QED BY <1>1, <2>1, <3>1, <3>2, CleanExitStep DEF CleanExits
    <2>2. ASSUME NEW p \in Pids, StrangerStarts(p) \/ StrangerEnds(p)
          PROVE  CleanExits
      BY <2>2 DEF StrangerStarts, StrangerEnds, CleanExits, Holding
    <2> QED BY <1>1, <2>1, <2>2 DEF Next, DaemonStep
  <1>2. IInv /\ [Next]_vars => [CleanExits]_vars
    BY <1>1
  <1> QED BY <1>2, InvHolds, PTL DEF Spec, ExitsClean
=============================================================================
