------------------------------ MODULE DaemonLock ------------------------------
(* Daemons that compete for one database: the PID file of a home            *)
(* (runtime/pid-lock.ts), the writer row of the database                    *)
(* (runtime/database-authority.ts) and the order in which a daemon acquires *)
(* and releases them (runtime/context-runtime.ts).                          *)
(*                                                                          *)
(* A daemon is a way of being launched: a launchd job or a command, with    *)
(* its home and port. Its process has a PID and a start time, which `ps`    *)
(* prints as its identity. Each system call on the PID file is an action;   *)
(* the row is read and written in one IMMEDIATE transaction.                *)
EXTENDS Naturals, FiniteSets

CONSTANTS
  Daemons,       \* launchd jobs and commands that run a daemon
  Jobs,          \* those that launchd keeps alive
  Homes, HomeOf, \* runtime homes, and the home of each daemon
  Ports, PortsOf, \* MCP ports, and those a daemon may be configured with
  Pids,          \* process numbers, reused by the system
  Stamps,        \* start times of processes with the same number
  Unknown,       \* the identity "pid:N" of a daemon whose own `ps` failed
  None,          \* null
  MaxStrangers,  \* bound: unrelated processes at a time
  MaxCrashes,    \* bound: processes killed
  MaxFaults      \* bound: failing calls of `ps` and failing starts

(* A row of context_authority: the process that wrote it (owner_pid, and    *)
(* the start time that makes its owner_token unique), and owner_identity.   *)
Rows == [pid : Pids, stamp : Stamps, identity : Stamps \cup {Unknown}]

(* A PID file: the process that created it, and the PID it contains.        *)
PidFiles == [by : Daemons, text : Pids \cup {None}]

ASSUME DaemonAssumption ==
  /\ Jobs \subseteq Daemons
  /\ HomeOf \in [Daemons -> Homes]
  /\ PortsOf \in [Daemons -> SUBSET Ports]
  /\ None \notin Pids \cup Stamps \cup Ports \cup {Unknown}
  /\ None \notin Rows \cup PidFiles
  /\ Unknown \notin Stamps
  /\ MaxStrangers \in Nat /\ MaxCrashes \in Nat /\ MaxFaults \in Nat

VARIABLES
  pidFile,   \* per home: None, or who created it and the PID in it
  row,       \* context_authority: None, or the PID, start time and identity
  pc,        \* per daemon: the next step of its process
  pid,       \* its process number
  stamp,     \* its start time
  identity,  \* owner_identity it writes into the row
  attempt,   \* loop counter of acquirePidLock
  owner,     \* PID read from the file
  port,      \* it serves MCP there
  clean,     \* it exits with success
  strangers, \* PIDs held by unrelated processes
  crashes,
  faults

vars == <<pidFile, row, pc, pid, stamp, identity, attempt, owner, port,
          clean, strangers, crashes, faults>>

locals == <<pid, stamp, identity, attempt, owner, port, clean>>

Down    == {"off", "crashed", "failed", "stopped"}
Locking == {"create", "write", "read", "judge", "unlink"}
Holding == {"authority", "bind", "writing", "stopping", "drop", "check",
            "unlinkOwn"}

Live(d) == pc[d] \notin Down

(* Capture runs, or is being stopped: the daemon may write to the database. *)
Writing(d) == pc[d] \in {"writing", "stopping"}

LivePids == {pid[d] : d \in {e \in Daemons : Live(e)}} \cup strangers

(* The token of a row is unique to the process that wrote it.               *)
IsRowOf(d) == row # None /\ row.pid = pid[d] /\ row.stamp = stamp[d]

TypeOK ==
  /\ pidFile \in [Homes -> {None} \cup PidFiles]
  /\ row \in {None} \cup Rows
  /\ pc \in [Daemons -> Down \cup Locking \cup Holding]
  /\ pid \in [Daemons -> Pids \cup {None}]
  /\ stamp \in [Daemons -> Stamps \cup {None}]
  /\ identity \in [Daemons -> Stamps \cup {Unknown, None}]
  /\ attempt \in [Daemons -> {0, 1}]
  /\ owner \in [Daemons -> Pids \cup {None}]
  /\ port \in [Daemons -> Ports \cup {None}]
  /\ clean \in [Daemons -> BOOLEAN]
  /\ strangers \subseteq Pids
  /\ crashes \in Nat /\ faults \in Nat
  /\ \A d \in Daemons : Live(d) => pid[d] \in Pids /\ stamp[d] \in Stamps

Init ==
  /\ pidFile = [h \in Homes |-> None]
  /\ row = None
  /\ pc = [d \in Daemons |-> "off"]
  /\ pid = [d \in Daemons |-> None]
  /\ stamp = [d \in Daemons |-> None]
  /\ identity = [d \in Daemons |-> None]
  /\ attempt = [d \in Daemons |-> 0]
  /\ owner = [d \in Daemons |-> None]
  /\ port = [d \in Daemons |-> None]
  /\ clean = [d \in Daemons |-> FALSE]
  /\ strangers = {}
  /\ crashes = 0
  /\ faults = 0

Goto(d, step) == pc' = [pc EXCEPT ![d] = step]

(* The process is gone, and with it everything it knew.                     *)
Exit(d, how) ==
  /\ Goto(d, how)
  /\ pid' = [pid EXCEPT ![d] = None]
  /\ stamp' = [stamp EXCEPT ![d] = None]
  /\ identity' = [identity EXCEPT ![d] = None]
  /\ attempt' = [attempt EXCEPT ![d] = 0]
  /\ owner' = [owner EXCEPT ![d] = None]
  /\ port' = [port EXCEPT ![d] = None]
  /\ clean' = [clean EXCEPT ![d] = FALSE]

(* A process starts under a free number. The number comes round again only  *)
(* at another time than the row remembers for it.                           *)
Launch(d) ==
  /\ ~Live(d)
  /\ \E p \in Pids \ LivePids, s \in Stamps :
       /\ ~(row # None /\ row.pid = p /\ row.stamp = s)
       /\ pid' = [pid EXCEPT ![d] = p]
       /\ stamp' = [stamp EXCEPT ![d] = s]
  /\ Goto(d, "create")
  /\ UNCHANGED <<pidFile, row, identity, attempt, owner, port, clean, strangers,
                 crashes, faults>>

----------------------------------------------------------------------------
(* acquirePidLock                                                           *)

(* openSync(path, 'wx'): the file is made empty, or EEXIST.                 *)
Create(d) ==
  /\ pc[d] = "create"
  /\ \/ /\ pidFile[HomeOf[d]] = None
        /\ pidFile' = [pidFile EXCEPT ![HomeOf[d]] = [by |-> d, text |-> None]]
        /\ Goto(d, "write")
     \/ /\ pidFile[HomeOf[d]] # None
        /\ Goto(d, "read")
        /\ UNCHANGED pidFile
  /\ UNCHANGED <<row, locals, strangers, crashes, faults>>

(* writeFileSync(fd): reaches the path unless the file was unlinked. Then   *)
(* acquirePidLock returns.                                                  *)
WritePid(d) ==
  /\ pc[d] = "write"
  /\ IF pidFile[HomeOf[d]] # None /\ pidFile[HomeOf[d]].by = d
       THEN pidFile' = [pidFile EXCEPT ![HomeOf[d]] =
                          [by |-> d, text |-> pid[d]]]
       ELSE UNCHANGED pidFile
  /\ attempt' = [attempt EXCEPT ![d] = 0]
  /\ Goto(d, "authority")
  /\ UNCHANGED <<row, pid, stamp, identity, owner, port, clean, strangers,
                 crashes, faults>>

(* readPid: null for a file that is missing or empty.                       *)
PidIn(h) == IF pidFile[h] = None THEN None ELSE pidFile[h].text

ReadOwner(d) ==
  /\ pc[d] = "read"
  /\ owner' = [owner EXCEPT ![d] = PidIn(HomeOf[d])]
  /\ Goto(d, "judge")
  /\ UNCHANGED <<pidFile, row, pid, stamp, identity, attempt, port, clean,
                 strangers, crashes, faults>>

(* Mutant: a PID file without a number counts as held.                      *)
OwnerLivesOrUnread(d) == owner[d] \in LivePids \cup {None}

OwnerLives(d) == owner[d] \in LivePids

(* A live owner ends this daemon; it holds nothing yet.                     *)
JudgeOwner(d) ==
  /\ pc[d] = "judge"
  /\ \/ /\ OwnerLives(d)
        /\ Exit(d, "failed")
     \/ /\ ~OwnerLives(d)
        /\ owner' = [owner EXCEPT ![d] = None]
        /\ Goto(d, "unlink")
        /\ UNCHANGED <<pid, stamp, identity, attempt, port, clean>>
  /\ UNCHANGED <<pidFile, row, strangers, crashes, faults>>

LastAttempt(d) == attempt[d] = 1

(* unlinkSync, ENOENT ignored; the second time round gives up.              *)
UnlinkStale(d) ==
  /\ pc[d] = "unlink"
  /\ pidFile' = [pidFile EXCEPT ![HomeOf[d]] = None]
  /\ \/ /\ ~LastAttempt(d)
        /\ attempt' = [attempt EXCEPT ![d] = @ + 1]
        /\ Goto(d, "create")
        /\ UNCHANGED <<pid, stamp, identity, owner, port, clean>>
     \/ /\ LastAttempt(d)
        /\ Exit(d, "failed")
  /\ UNCHANGED <<row, strangers, crashes, faults>>

----------------------------------------------------------------------------
(* acquireDatabaseAuthority                                                 *)

(* What `ps` prints for the owner of the row: a stranger's start time is    *)
(* none that a row remembers; null if there is no such process.             *)
StartTime(p) ==
  IF \E d \in Daemons : Live(d) /\ pid[d] = p
    THEN stamp[CHOOSE d \in Daemons : Live(d) /\ pid[d] = p]
    ELSE None

(* Mutants: an identity that cannot be read is taken for another; the       *)
(* identity is not compared.                                                *)
LiveWriterIfRead(answered) ==
  /\ row # None
  /\ row.pid \in LivePids
  /\ answered
  /\ StartTime(row.pid) = row.identity

LiveWriterByPid(answered) ==
  /\ row # None
  /\ row.pid \in LivePids

(* sameLiveProcess, for an observed identity that may be null.              *)
LiveWriter(answered) ==
  /\ row # None
  /\ row.pid \in LivePids
  /\ answered => StartTime(row.pid) = row.identity

(* The transaction, when `ps` answered or not for the process itself and    *)
(* for the owner of the row: refused, or the row is written.                *)
AcquireSeeing(d, own, answered) ==
  \/ /\ LiveWriter(answered)
     /\ Goto(d, "check")
     /\ UNCHANGED <<row, identity>>
  \/ /\ ~LiveWriter(answered)
     /\ identity' = [identity EXCEPT ![d] = IF own THEN stamp[d] ELSE Unknown]
     /\ row' = [pid |-> pid[d], stamp |-> stamp[d], identity |-> identity'[d]]
     /\ Goto(d, "bind")

(* Two failures of `ps` in one acquisition are two faults.                  *)
Acquire(d) ==
  /\ pc[d] = "authority"
  /\ \E own, answered \in BOOLEAN :
       /\ ~answered => row # None /\ row.pid \in LivePids
       /\ faults' = faults + (IF own THEN 0 ELSE 1) + (IF answered THEN 0 ELSE 1)
       /\ faults' <= MaxFaults
       /\ AcquireSeeing(d, own, answered)
  /\ UNCHANGED <<pidFile, pid, stamp, attempt, owner, port, clean, strangers,
                 crashes>>

----------------------------------------------------------------------------
(* startContextRuntime after the row, and stop                              *)

(* startMcpServer; capture starts once the port is bound. EADDRINUSE fails  *)
(* the start.                                                               *)
Bind(d) ==
  /\ pc[d] = "bind"
  /\ \E p \in PortsOf[d] :
       \/ /\ \A e \in Daemons : port[e] # p
          /\ port' = [port EXCEPT ![d] = p]
          /\ Goto(d, "writing")
       \/ /\ \E e \in Daemons : port[e] = p
          /\ Goto(d, "drop")
          /\ UNCHANGED port
  /\ UNCHANGED <<pidFile, row, pid, stamp, identity, attempt, owner, clean,
                 strangers, crashes, faults>>

(* Mutant: the row is not released when the server does not start.          *)
StartFailsKeepingRow(d) ==
  /\ faults < MaxFaults
  /\ faults' = faults + 1
  /\ \/ pc[d] \in {"authority", "bind"} /\ Goto(d, "check")
     \/ pc[d] = "writing" /\ Goto(d, "stopping")
  /\ UNCHANGED <<pidFile, row, locals, strangers, crashes>>

(* The catch block: a start that fails is taken down from where it was.     *)
StartFails(d) ==
  /\ faults < MaxFaults
  /\ faults' = faults + 1
  /\ \/ pc[d] = "authority" /\ Goto(d, "check")
     \/ pc[d] = "bind" /\ Goto(d, "drop")
     \/ pc[d] = "writing" /\ Goto(d, "stopping")
  /\ UNCHANGED <<pidFile, row, locals, strangers, crashes>>

(* SIGTERM or SIGINT of a running daemon.                                   *)
Stop(d) ==
  /\ pc[d] = "writing"
  /\ clean' = [clean EXCEPT ![d] = TRUE]
  /\ Goto(d, "stopping")
  /\ UNCHANGED <<pidFile, row, pid, stamp, identity, attempt, owner, port,
                 strangers, crashes, faults>>

(* captureRunner.stop, mcp.stop and storage.close are over.                 *)
CloseStorage(d) ==
  /\ pc[d] = "stopping"
  /\ port' = [port EXCEPT ![d] = None]
  /\ Goto(d, "drop")
  /\ UNCHANGED <<pidFile, row, pid, stamp, identity, attempt, owner, clean,
                 strangers, crashes, faults>>

(* Mutant: DELETE without the token.                                        *)
AnyRow(d) == TRUE

OwnRow(d) == IsRowOf(d)

(* databaseAuthority.release: DELETE ... AND owner_token = ?                *)
DropRow(d) ==
  /\ pc[d] = "drop"
  /\ row' = IF OwnRow(d) THEN None ELSE row
  /\ Goto(d, "check")
  /\ UNCHANGED <<pidFile, locals, strangers, crashes, faults>>

Leave(d) == Exit(d, IF clean[d] THEN "stopped" ELSE "failed")

(* pidLock.release: readPid(path) === process.pid ...                       *)
CheckOwnFile(d) ==
  /\ pc[d] = "check"
  /\ \/ /\ PidIn(HomeOf[d]) = pid[d]
        /\ Goto(d, "unlinkOwn")
        /\ UNCHANGED locals
     \/ /\ PidIn(HomeOf[d]) # pid[d]
        /\ Leave(d)
  /\ UNCHANGED <<pidFile, row, strangers, crashes, faults>>

(* ... then unlinkSync(path).                                               *)
UnlinkOwn(d) ==
  /\ pc[d] = "unlinkOwn"
  /\ pidFile' = [pidFile EXCEPT ![HomeOf[d]] = None]
  /\ Leave(d)
  /\ UNCHANGED <<row, strangers, crashes, faults>>

----------------------------------------------------------------------------
(* The system                                                               *)

(* A process is killed; files and rows stay. A signal during start is one.  *)
Crash(d) ==
  /\ Live(d)
  /\ crashes < MaxCrashes
  /\ crashes' = crashes + 1
  /\ Exit(d, "crashed")
  /\ UNCHANGED <<pidFile, row, strangers, faults>>

StrangerStarts(p) ==
  /\ Cardinality(strangers) < MaxStrangers
  /\ p \notin LivePids
  /\ strangers' = strangers \cup {p}
  /\ UNCHANGED <<pidFile, row, pc, locals, crashes, faults>>

StrangerEnds(p) ==
  /\ p \in strangers
  /\ strangers' = strangers \ {p}
  /\ UNCHANGED <<pidFile, row, pc, locals, crashes, faults>>

Step(d) ==
  \/ Create(d) \/ WritePid(d) \/ ReadOwner(d) \/ JudgeOwner(d)
  \/ UnlinkStale(d) \/ Acquire(d) \/ Bind(d) \/ CloseStorage(d)
  \/ DropRow(d) \/ CheckOwnFile(d) \/ UnlinkOwn(d)

Next ==
  \/ \E d \in Daemons :
       Step(d) \/ Launch(d) \/ StartFails(d) \/ Stop(d) \/ Crash(d)
  \/ \E p \in Pids : StrangerStarts(p) \/ StrangerEnds(p)

Spec == Init /\ [][Next]_vars

(* launchd starts a job at load and again after an exit without success     *)
(* (RunAtLoad, KeepAlive with SuccessfulExit false).                        *)
Relaunch(d) == pc[d] # "stopped" /\ Launch(d)

FairSpec ==
  /\ Spec
  /\ \A d \in Daemons : WF_vars(Step(d))
  /\ \A d \in Jobs : WF_vars(Relaunch(d))

----------------------------------------------------------------------------
(* Properties                                                               *)

(* Two processes have two numbers.                                          *)
PidsDiffer ==
  \A d \in Daemons : Live(d) =>
    /\ pid[d] \notin strangers
    /\ \A e \in Daemons \ {d} : Live(e) => pid[e] # pid[d]

(* A daemon past acquireDatabaseAuthority that could read its own start     *)
(* time is the one the row names, until its storage is closed and it drops  *)
(* the row: nobody takes the row of a live writer for a stale one, however  *)
(* PIDs are reused and whichever call of `ps` fails.                        *)
RowNamesWriter ==
  \A d \in Daemons :
    pc[d] \in {"bind", "writing", "stopping", "drop"} /\ identity[d] # Unknown
      => row = [pid |-> pid[d], stamp |-> stamp[d], identity |-> stamp[d]]

(* 0004_context_authority.sql: one logical writer per database, independent *)
(* of home. Two daemons capture into it at the same time only if one of     *)
(* them could not read its own start time when it acquired the row.         *)
OneWriter ==
  \A d, e \in Daemons :
    Writing(d) /\ Writing(e) /\ d # e =>
      Unknown \in {identity[d], identity[e]}

DueRefusals ==
  \A d \in Daemons :
    pc[d] = "authority" /\ pc'[d] = "check" =>
      \/ \E e \in Daemons \ {d} : Live(e) /\ IsRowOf(e)
      \/ faults' > faults

(* A daemon is refused by the writer row only if the process that wrote it  *)
(* lives, or `ps` just failed for a process that has its number: the row    *)
(* of a dead daemon does not block, even if its PID is in use again.        *)
RefusalIsDue == [][DueRefusals]_vars

CleanExits ==
  \A d \in Daemons :
    pc[d] \in Holding /\ pc'[d] \in {"failed", "stopped"} =>
      /\ pidFile'[HomeOf[d]] = None \/ pidFile'[HomeOf[d]].by # d
      /\ row' = None \/ row'.pid # pid[d] \/ row'.stamp # stamp[d]

(* Whatever ends a daemon that held the PID file, short of a kill, leaves   *)
(* neither its PID file nor its row behind.                                 *)
ExitsClean == [][CleanExits]_vars

(* A process that never took the lock has the number in the PID file.       *)
Blocked(h) ==
  /\ PidIn(h) # None
  /\ \/ PidIn(h) \in strangers
     \/ \E d \in Daemons : pc[d] \in Locking /\ pid[d] = PidIn(h)

(* While launchd keeps a job alive the database has a writer again and      *)
(* again, after crashes, failed starts and races for the PID file; the only *)
(* thing in the way is a PID file whose number another process has got.     *)
SomeoneCaptures ==
  []<>(\/ \E d \in Daemons : Writing(d)
       \/ \A d \in Jobs : pc[d] = "stopped" \/ Blocked(HomeOf[d]))

(* pid-lock.ts:28: "Acquire a single-process daemon lock": past             *)
(* acquirePidLock and before its release, a daemon is alone in its home.    *)
OneHolder ==
  \A d, e \in Daemons :
    pc[d] \in Holding /\ pc[e] \in Holding /\ HomeOf[d] = HomeOf[e] => d = e
=============================================================================
