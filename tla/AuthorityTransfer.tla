--------------------------- MODULE AuthorityTransfer ---------------------------
(* Cutover, rollback and recovery: how the port and the capture of a        *)
(* preserved legacy launch agent are handed to the echo-context agent and   *)
(* back (runtime/launchd.ts), under a receipt that survives a crash         *)
(* (runtime/authority-receipt.ts).                                          *)
(*                                                                          *)
(* launchd and the two services are the environment: jobs are loaded,       *)
(* relaunched and booted out, a process binds or releases the port and      *)
(* records events on its own. The one command that runs at a time (its lock *)
(* is modelled in DaemonLock) goes through operations, each a request to    *)
(* launchd, a wait for RequiredSamples good samples in a row, and what      *)
(* follows; every launchctl call, wait and write may fail, and the command  *)
(* may be killed between any two steps.                                     *)
EXTENDS Naturals

CONSTANTS
  RequiredSamples, \* REQUIRED_AUTHORITY_SAMPLES
  None,            \* absent: null, undefined, no file
  MaxEvents,       \* bound: events either service records
  MaxCrashes,      \* bound: commands killed
  MaxFaults        \* bound: failing calls, late waits and dying services

Labels == {"legacy", "next"}

(* AuthorityReceiptStatus                                                   *)
Statuses == {"preparing", "legacy_stopped", "active_next", "cutover_failed",
             "cutover_ambiguous", "rolled_back", "rollback_ambiguous"}

(* The part of a receipt that decides what a command does: its status, the  *)
(* state legacy was found in, whether the plist of an accepted next is      *)
(* bound, and the watermark of the stopped next database. The other         *)
(* bindings (paths, digests, hashes) only ever hold or not: see intact.     *)
Receipts == [status : Statuses, wasRunning : BOOLEAN, bound : BOOLEAN,
             mark : Nat \cup {None}]

(* assertAuthorityReceipt, which every write and read goes through          *)
Valid(r) ==
  /\ r.status \in {"active_next", "rollback_ambiguous", "rolled_back"} => r.bound
  /\ r.status = "preparing" => ~r.bound

ASSUME AuthorityAssumption ==
  /\ RequiredSamples \in Nat \ {0}
  /\ MaxEvents \in Nat /\ MaxCrashes \in Nat /\ MaxFaults \in Nat
  /\ None \notin Nat \cup Receipts \cup Labels \cup Statuses

VARIABLES
  job,        \* per label: not loaded, loaded without a process, a process
              \* that runs, a process that was asked to end
  owner,      \* the label whose process listens on the port
  events,     \* events each service has recorded in its database
  copy,       \* legacy events the next database was copied with (its lineage)
  receipt,    \* state/cutover.json
  plist,      \* the plist of the next label exists
  intact,     \* artifact, plists and databases are those of the receipt
  cmd,        \* the command that holds the operation lock
  op,         \* its current operation
  step,       \* and the step of that operation
  streak,     \* accepted samples in a row
  wasRunning, \* legacyInitiallyRunning, before it is in a receipt
  prior,      \* the next plist existed when the install began
  mark,       \* nextAtRollback
  crashes,
  faults

world  == <<job, owner, events>>
locals == <<cmd, op, step, streak, wasRunning, prior, mark>>
vars == <<world, copy, receipt, plist, intact, locals, crashes, faults>>

Commands == {"cutover", "rollback", "recover"}

Stopping  == {"stopLegacy", "stopPrior", "stopFailed", "stopNext", "abortLegacy"}
Restoring == {"restoreLegacy", "restoreNext"}
Verifying == {"checkLegacy", "verifyLegacy", "acceptNext", "verifyNext",
              "reverifyLegacy", "reverifyNext"}
Writing   == {"prepare", "intend", "activate", "settleLegacy", "settleNext",
              "settleAmbiguous"}
Ops == Stopping \cup Restoring \cup Verifying \cup Writing \cup {"startNext"}

(* The label an operation acts on.                                          *)
LabelOf(o) ==
  IF o \in {"stopLegacy", "abortLegacy", "restoreLegacy", "checkLegacy",
            "verifyLegacy", "reverifyLegacy"}
  THEN "legacy" ELSE "next"

TypeOK ==
  /\ job \in [Labels -> {"absent", "idle", "run", "ending"}]
  /\ owner \in Labels \cup {None}
  /\ events \in [Labels -> Nat]
  /\ copy \in Nat \cup {None}
  /\ receipt \in Receipts \cup {None}
  /\ plist \in BOOLEAN /\ intact \in BOOLEAN /\ prior \in BOOLEAN /\ wasRunning \in BOOLEAN
  /\ cmd \in Commands \cup {"none"}
  /\ op \in Ops \cup {"none"}
  /\ (cmd = "none") <=> (op = "none")
  /\ step \in {"request", "wait", "after", "start", "write", "none"}
  /\ streak \in 0..RequiredSamples
  /\ mark \in Nat \cup {None}
  /\ crashes \in 0..MaxCrashes
  /\ faults \in 0..MaxFaults

Loaded(l) == job[l] # "absent"

(* The statuses after which nothing is left to do, those a command was      *)
(* interrupted in, and those that leave legacy in charge.                   *)
Terminal == {"cutover_failed", "rolled_back"}
Interrupted == Statuses \ (Terminal \cup {"active_next"})

Status == IF receipt = None THEN None ELSE receipt.status

--------------------------------------------------------------------------------
(* What one sample of launchctl, lsof and the endpoint accepts.             *)

(* Mutant: the label is gone from launchctl but its process is not waited   *)
(* for.                                                                     *)
StoppedWithProcess(l) == job[l] # "run" /\ owner = None

Stopped(l) == job[l] \in {"absent", "idle"} /\ owner = None

Up(l) == job[l] = "run" /\ owner = l

(* preparingRecoveryAuthorityAccepted: before the candidate was started,    *)
(* legacy may own the port while next is proven absent.                     *)
PreparingProof == job["next"] = "absent" /\ (owner = None \/ Up("legacy"))

PreparingWait == op = "stopNext" /\ cmd = "recover" /\ Status = "preparing"

(* Whether legacy is to be left running: as recorded, and always after a    *)
(* rollback.                                                                *)
(* Mutant: legacy is always started again.                                  *)
LegacyAlwaysRuns == Status # None

LegacyRuns ==
  \/ Status \in {"rollback_ambiguous", "rolled_back"}
  \/ Status # None /\ receipt.wasRunning

(* The state a verification asks for.                                       *)
ShouldRun ==
  /\ op = "checkLegacy" => wasRunning
  /\ op \in {"verifyLegacy", "reverifyLegacy"} => LegacyRuns

(* Mutant: an interrupted preparation waits for a free port.                *)
AcceptedIfFree ==
  LET l == LabelOf(op)
  IN  IF op \in Verifying
      THEN IF ShouldRun THEN Up(l) ELSE Stopped(l)
      ELSE Stopped(l)

Accepted ==
  LET l == LabelOf(op)
  IN  IF op \in Verifying
      THEN IF ShouldRun THEN Up(l) ELSE Stopped(l)
      ELSE IF PreparingWait THEN PreparingProof ELSE Stopped(l)

(* The wait can still end well if nothing but time is missing.              *)
Hope ==
  LET l == LabelOf(op)
  IN  /\ owner \in {None, l}
      /\ IF op \in Verifying /\ ShouldRun
         THEN job[l] \in {"idle", "run"}
         ELSE job[l] = "ending"

--------------------------------------------------------------------------------
(* The order of the operations: executeAuthorityTransfer,                   *)
(* executeAuthorityRollback, executeAuthorityRecovery, and the install that *)
(* starts the candidate.                                                    *)

OnSuccess ==
  CASE op = "checkLegacy"   -> "prepare"
    [] op = "prepare"       -> "stopLegacy"
    [] op = "stopLegacy"    -> IF plist THEN "stopPrior" ELSE "startNext"
    [] op = "stopPrior"     -> "startNext"
    [] op = "startNext"     -> "acceptNext"
    [] op = "acceptNext"    -> "activate"
    [] op = "stopFailed"    -> "stopNext"
    [] op = "intend"        -> "stopNext"
    [] op = "stopNext"      -> "restoreLegacy"
    [] op = "restoreLegacy" -> "verifyLegacy"
    [] op = "verifyLegacy"  -> "settleLegacy"
    [] op = "abortLegacy"   -> IF cmd = "rollback" THEN "restoreNext"
                                                   ELSE "settleAmbiguous"
    [] op = "restoreNext"   -> "verifyNext"
    [] op = "verifyNext"    -> "settleNext"
    [] OTHER                -> "none"

(* Mutant: legacy is restored although the stop of the candidate failed.    *)
OnFailureRestoring ==
  CASE op = "stopLegacy" -> "restoreLegacy"
    [] op \in {"stopPrior", "startNext", "acceptNext"} -> "stopFailed"
    [] op \in {"stopFailed", "activate"} -> "stopNext"
    [] op = "stopNext" -> IF cmd = "rollback" THEN "restoreNext"
                                              ELSE "restoreLegacy"
    [] op \in {"restoreLegacy", "verifyLegacy"} ->
         IF cmd = "cutover" THEN "settleAmbiguous" ELSE "abortLegacy"
    [] op \in {"abortLegacy", "restoreNext", "verifyNext"} -> "settleAmbiguous"
    [] OTHER -> "none"

OnFailure ==
  CASE op = "stopLegacy" -> "restoreLegacy"
    [] op \in {"stopPrior", "startNext", "acceptNext"} -> "stopFailed"
    [] op \in {"stopFailed", "activate"} -> "stopNext"
    [] op = "stopNext" -> IF cmd = "rollback" THEN "restoreNext"
                                              ELSE "settleAmbiguous"
    [] op \in {"restoreLegacy", "verifyLegacy"} ->
         IF cmd = "cutover" THEN "settleAmbiguous" ELSE "abortLegacy"
    [] op \in {"abortLegacy", "restoreNext", "verifyNext"} -> "settleAmbiguous"
    [] OTHER -> "none"

FirstStep(o) == CASE o \in Stopping \cup Restoring -> "request"
                  [] o \in Verifying -> "wait"
                  [] o = "startNext" -> "start"
                  [] o \in Writing -> "write"
                  [] OTHER -> "none"

(* The command goes on with operation o, or ends.                           *)
Goto(o) ==
  /\ op' = o /\ step' = FirstStep(o) /\ streak' = 0
  /\ cmd' = IF o = "none" THEN "none" ELSE cmd

StayFor(s) == op' = op /\ cmd' = cmd /\ step' = s /\ streak' = 0

Faulty == faults < MaxFaults /\ faults' = faults + 1

Init ==
  /\ job \in {[l \in Labels |-> IF l = "legacy" THEN j ELSE "absent"] :
                j \in {"absent", "run"}}
  /\ owner = IF job["legacy"] = "run" THEN "legacy" ELSE None
  /\ events = [l \in Labels |-> 0]
  /\ copy = None /\ receipt = None /\ plist = FALSE /\ intact = TRUE
  /\ cmd = "none" /\ op = "none" /\ step = "none" /\ streak = 0
  /\ wasRunning = FALSE /\ prior = FALSE /\ mark = None
  /\ crashes = 0 /\ faults = 0

--------------------------------------------------------------------------------
(* launchd and the services.                                                *)

(* A service binds the port, or finds it taken and exits with an error.     *)
Binds(l) ==
  /\ job[l] = "run" /\ owner # l
  /\ IF owner = None THEN owner' = l /\ UNCHANGED job
                     ELSE job' = [job EXCEPT ![l] = "idle"] /\ UNCHANGED owner
  /\ UNCHANGED <<events, copy, receipt, plist, intact, locals, crashes, faults>>

(* launchd relaunches a job that did not exit with success.                 *)
Relaunches(l) ==
  /\ job[l] = "idle"
  /\ job' = [job EXCEPT ![l] = "run"]
  /\ UNCHANGED <<owner, events, copy, receipt, plist, intact, locals, crashes, faults>>

(* A service fails on its own.                                              *)
Dies(l) ==
  /\ job[l] = "run" /\ Faulty
  /\ job' = [job EXCEPT ![l] = "idle"]
  /\ owner' = IF owner = l THEN None ELSE owner
  /\ UNCHANGED <<events, copy, receipt, plist, intact, locals, crashes>>

(* A service that is asked to end closes its endpoint before it exits.      *)
ClosesPort(l) ==
  /\ job[l] = "ending" /\ owner = l
  /\ owner' = None
  /\ UNCHANGED <<job, events, copy, receipt, plist, intact, locals, crashes, faults>>

Exits(l) ==
  /\ job[l] = "ending"
  /\ job' = [job EXCEPT ![l] = "absent"]
  /\ owner' = IF owner = l THEN None ELSE owner
  /\ UNCHANGED <<events, copy, receipt, plist, intact, locals, crashes, faults>>

(* A service captures as long as it has a process.                          *)
Records(l) ==
  /\ job[l] \in {"run", "ending"} /\ events[l] < MaxEvents
  /\ events' = [events EXCEPT ![l] = @ + 1]
  /\ UNCHANGED <<job, owner, copy, receipt, plist, intact, locals, crashes, faults>>

(* Something the receipt binds is replaced, and put back.                   *)
Tampers ==
  /\ intact /\ Faulty
  /\ intact' = FALSE
  /\ UNCHANGED <<world, copy, receipt, plist, locals, crashes>>

Repairs ==
  /\ ~intact
  /\ intact' = TRUE
  /\ UNCHANGED <<world, copy, receipt, plist, locals, crashes, faults>>

World(l) == Binds(l) \/ Relaunches(l) \/ Dies(l) \/ ClosesPort(l)
              \/ Exits(l) \/ Records(l)

--------------------------------------------------------------------------------
(* The operator's commands. The copy and the receipt decide what is refused *)
(* before anything changes.                                                 *)

Locals(c, o, running, exists) ==
  /\ cmd' = c /\ op' = o /\ step' = FirstStep(o) /\ streak' = 0
  /\ wasRunning' = running /\ prior' = exists /\ mark' = None

(* A fresh copy of the legacy ledger, which replaces one that was rejected. *)
Migrate ==
  /\ cmd = "none" /\ Status \in {None, "cutover_failed"}
  /\ copy' = events["legacy"]
  /\ events' = [events EXCEPT !["next"] = 0]
  /\ UNCHANGED <<job, owner, receipt, plist, intact, locals, crashes, faults>>

(* cutover, with --replace where a terminal receipt exists                  *)
Cutover ==
  /\ cmd = "none" /\ copy # None /\ intact
  /\ Status \in Terminal \cup {None}
  /\ Locals("cutover", "checkLegacy", job["legacy"] = "run", plist)
  /\ UNCHANGED <<world, copy, receipt, plist, intact, crashes, faults>>

Rollback ==
  /\ cmd = "none" /\ Status = "active_next" /\ plist /\ intact
  /\ Locals("rollback", "intend", wasRunning, plist)
  /\ UNCHANGED <<world, copy, receipt, plist, intact, crashes, faults>>

Recover ==
  /\ cmd = "none" /\ receipt # None /\ intact
  /\ Locals("recover", CASE Status = "active_next" -> "reverifyNext"
                         [] Status \in Terminal -> "reverifyLegacy"
                         [] OTHER -> "intend", wasRunning, plist)
  /\ UNCHANGED <<world, copy, receipt, plist, intact, crashes, faults>>

--------------------------------------------------------------------------------
(* Steps of a command.                                                      *)

(* assertReceiptBindings comes first when a cutover stops legacy or begins  *)
(* to install next.                                                         *)
Checked ==
  op \in {"stopLegacy", "stopPrior"} \/ (op = "startNext" /\ ~prior) => intact

(* Legacy is only accepted under the plist of the receipt.                  *)
PlistHolds ==
  op \in {"checkLegacy", "verifyLegacy", "reverifyLegacy"} \/ PreparingWait
    => intact

(* ensureLaunchdAgentStarted leaves a running service alone.                *)
LeftRunning ==
  /\ step = "request" /\ op \in Restoring /\ job[LabelOf(op)] = "run"
  /\ op = "restoreLegacy" => LegacyRuns
  /\ Goto(OnSuccess)
  /\ UNCHANGED <<world, copy, receipt, plist, intact, wasRunning, prior, mark,
                 crashes, faults>>

(* launchctl bootout: a process gets a signal, a job without one is gone.   *)
RequestStop ==
  LET l == LabelOf(op)
  IN  /\ step = "request" /\ Checked
      /\ op \in Restoring /\ (op = "restoreLegacy" => LegacyRuns)
           => job[l] # "run"
      /\ job' = [job EXCEPT ![l] = IF @ \in {"run", "ending"} THEN "ending"
                                                              ELSE "absent"]
      /\ StayFor("wait")
      /\ UNCHANGED <<owner, events, copy, receipt, plist, intact, wasRunning, prior,
                     mark, crashes, faults>>

(* What follows once the wait is over.                                      *)
Proved ==
  IF op \in Restoring /\ (op = "restoreLegacy" => LegacyRuns)
  THEN StayFor("start")
  ELSE IF op \in {"stopLegacy", "stopNext", "stopFailed"}
       THEN StayFor("after")
       ELSE Goto(OnSuccess)

(* advanceAuthorityAcceptanceWindow: a bad sample starts over.              *)
Advance(n, accepted) == IF accepted THEN n + 1 ELSE 0

Sample ==
  /\ step = "wait" /\ PlistHolds
  /\ IF Advance(streak, Accepted) < RequiredSamples
     THEN streak' = Advance(streak, Accepted) /\ UNCHANGED <<cmd, op, step>>
     ELSE Proved
  /\ UNCHANGED <<world, copy, receipt, plist, intact, wasRunning, prior, mark,
                 crashes, faults>>

(* Mutant: a wait has no deadline.                                          *)
NeverTimesOut ==
  /\ step = "wait" /\ ~PlistHolds
  /\ Goto(OnFailure)
  /\ UNCHANGED <<world, copy, receipt, plist, intact, wasRunning, prior, mark,
                 crashes, faults>>

(* The deadline passes, or a sample finds another plist.                    *)
TimesOut ==
  /\ step = "wait"
  /\ IF PlistHolds THEN ~Accepted ELSE TRUE
  /\ IF PlistHolds /\ Hope THEN Faulty ELSE UNCHANGED faults
  /\ Goto(OnFailure)
  /\ UNCHANGED <<world, copy, receipt, plist, intact, wasRunning, prior, mark, crashes>>

(* launchctl bootstrap and kickstart; the install writes the plist first.   *)
Start ==
  /\ step = "start" /\ Checked
  /\ job' = [job EXCEPT ![LabelOf(op)] = "run"]
  /\ plist' = (plist \/ op = "startNext")
  /\ Goto(OnSuccess)
  /\ UNCHANGED <<owner, events, copy, receipt, intact, wasRunning, prior, mark,
                 crashes, faults>>

(* The bindings no longer hold: nothing is called.                          *)
CheckFails ==
  /\ step \in {"request", "start"} /\ ~Checked
  /\ Goto(IF op = "stopLegacy" THEN "restoreLegacy" ELSE "stopNext")
  /\ UNCHANGED <<world, copy, receipt, plist, intact, wasRunning, prior, mark,
                 crashes, faults>>

(* A call of launchctl fails; a start that fails may have loaded the job.   *)
CallFails ==
  /\ step \in {"request", "start"} /\ Checked /\ Faulty
  /\ \/ UNCHANGED job
     \/ step = "start" /\ job' = [job EXCEPT ![LabelOf(op)] = "run"]
  /\ plist' = (plist \/ (step = "start" /\ op = "startNext"))
  /\ Goto(OnFailure)
  /\ UNCHANGED <<owner, events, copy, receipt, intact, wasRunning, prior, mark, crashes>>

(* Mutant: the copy is not compared with the stopped ledger.                *)
AfterLegacyStoppedUnread ==
  /\ op = "stopLegacy" /\ step = "after"
  /\ receipt' = [receipt EXCEPT !.status = "legacy_stopped"]
  /\ Goto(OnSuccess)
  /\ UNCHANGED <<world, copy, plist, intact, wasRunning, prior, mark, crashes,
                 faults>>

(* Mutant: the candidate is started under the receipt of the preparation.   *)
AfterLegacyStoppedUnsaid ==
  /\ op = "stopLegacy" /\ step = "after"
  /\ Goto(IF copy = events["legacy"] THEN OnSuccess ELSE OnFailure)
  /\ UNCHANGED <<world, copy, receipt, plist, intact, wasRunning, prior, mark,
                 crashes, faults>>

(* Legacy is proven stopped: the copy must contain it to the last event,    *)
(* then the receipt says so.                                                *)
AfterLegacyStopped ==
  /\ op = "stopLegacy" /\ step = "after"
  /\ \/ /\ copy = events["legacy"]
        /\ receipt' = [receipt EXCEPT !.status = "legacy_stopped"]
        /\ Goto(OnSuccess)
        /\ UNCHANGED faults
     \/ /\ copy # events["legacy"]
        /\ Goto(OnFailure)
        /\ UNCHANGED <<receipt, faults>>
     \/ Faulty /\ Goto(OnFailure) /\ UNCHANGED receipt
  /\ UNCHANGED <<world, copy, plist, intact, wasRunning, prior, mark, crashes>>

(* Next is proven stopped: a rollback, or its recovery, reads the watermark *)
(* of its database before anything else is started, or fails to.            *)
AfterNextStopped ==
  /\ op = "stopNext" /\ step = "after"
  /\ \/ /\ mark' = IF Status = "rollback_ambiguous" THEN events["next"] ELSE mark
        /\ Goto(OnSuccess) /\ UNCHANGED faults
     \/ /\ Status = "rollback_ambiguous" /\ Faulty
        /\ Goto(OnFailure) /\ UNCHANGED mark
  /\ UNCHANGED <<world, copy, receipt, plist, intact, wasRunning, prior, crashes>>

(* The rejected candidate is proven stopped: the install puts back the      *)
(* plist it found, or none.                                                 *)
AfterInstallStopped ==
  /\ op = "stopFailed" /\ step = "after"
  /\ plist' = prior
  /\ Goto(OnSuccess)
  /\ UNCHANGED <<world, copy, receipt, intact, wasRunning, prior, mark, crashes, faults>>

(* What a command intends is in the receipt before it acts: a rollback      *)
(* forgets the watermark of an earlier one ...                              *)
RollbackIntent == [receipt EXCEPT !.status = "rollback_ambiguous", !.mark = None]

(* ... and recover keeps the phase it was interrupted in, where that decides *)
(* what the next recover may accept.                                        *)
RecoverIntent ==
  [receipt EXCEPT
     !.status = IF @ \in {"preparing", "rollback_ambiguous"} THEN @ ELSE "cutover_ambiguous",
     !.mark = IF Status = "rollback_ambiguous" THEN None ELSE @]

(* Legacy was accepted.                                                     *)
SettledOnLegacy ==
  IF Status = "rollback_ambiguous"
  THEN [receipt EXCEPT !.status = "rolled_back", !.mark = mark]
  ELSE [receipt EXCEPT !.status = "cutover_failed"]

(* Neither was: recover, and the catch of a rollback, leave the status.     *)
SettledAmbiguous ==
  [receipt EXCEPT !.status = IF cmd = "cutover" THEN "cutover_ambiguous" ELSE @,
                  !.mark = IF Status = "rollback_ambiguous" THEN mark ELSE @]

(* The receipt each writing operation asks for.                             *)
NewReceipt ==
  CASE op = "prepare" ->
         [status |-> "preparing", wasRunning |-> wasRunning, bound |-> FALSE,
          mark |-> None]
    [] op = "intend" -> IF cmd = "rollback" THEN RollbackIntent ELSE RecoverIntent
    [] op = "activate" -> [receipt EXCEPT !.status = "active_next", !.bound = TRUE]
    [] op = "settleNext" -> [receipt EXCEPT !.status = "active_next", !.mark = mark]
    [] op = "settleLegacy" -> SettledOnLegacy
    [] op = "settleAmbiguous" -> SettledAmbiguous

(* The receipt replaces its file in one rename, or the write fails and the  *)
(* file is as it was.                                                       *)
WriteReceipt ==
  /\ step = "write"
  /\ \/ Valid(NewReceipt) /\ receipt' = NewReceipt /\ Goto(OnSuccess)
        /\ UNCHANGED faults
     \/ (IF Valid(NewReceipt) THEN Faulty ELSE UNCHANGED faults) /\ Goto(OnFailure) /\ UNCHANGED receipt
  /\ UNCHANGED <<world, copy, plist, intact, wasRunning, prior, mark, crashes>>

(* The command is killed; launchd and the receipt stay as they are.         *)
Crash ==
  /\ cmd # "none" /\ crashes < MaxCrashes
  /\ crashes' = crashes + 1
  /\ Goto("none")
  /\ UNCHANGED <<world, copy, receipt, plist, intact, wasRunning, prior, mark, faults>>

Step == LeftRunning \/ RequestStop \/ Sample \/ TimesOut \/ Start
          \/ AfterLegacyStopped \/ AfterNextStopped \/ AfterInstallStopped
          \/ WriteReceipt \/ CheckFails

Next ==
  \/ \E l \in Labels : World(l)
  \/ Tampers \/ Repairs \/ Migrate \/ Cutover \/ Rollback \/ Recover
  \/ Step \/ CallFails \/ Crash

Spec == Init /\ [][Next]_vars

(* launchd acts on its jobs, a command that was started goes on, and an     *)
(* operator whose command was interrupted runs recover, as the errors of    *)
(* the commands say.                                                        *)
FairSpec ==
  /\ Spec
  /\ \A l \in Labels : WF_vars(Binds(l)) /\ WF_vars(Relaunches(l))
                         /\ WF_vars(Exits(l))
  /\ WF_vars(Step)
  /\ WF_vars(Recover) /\ WF_vars(Repairs)

--------------------------------------------------------------------------------
(* The two services are never loaded at once, whatever fails and wherever a *)
(* command is killed: nothing is started before the other is proven stopped.*)
NeverBothLoaded == ~(Loaded("legacy") /\ Loaded("next"))

(* A receipt that leaves legacy in charge tells the truth about the         *)
(* candidate: it is not loaded. Recovery relies on it in the status         *)
(* "preparing", where it does not ask for a free port, and in the terminal  *)
(* ones, where it stops nothing.                                            *)
CandidateAbsent ==
  Status \in Terminal \cup {"preparing", None} => job["next"] = "absent"

(* The watermark of a finished rollback is that of the database as next     *)
(* left it: nothing is recorded after it was read.                          *)
WatermarkIsFinal == Status = "rolled_back" => receipt.mark = events["next"]

(* If legacy was stopped before the cutover, a cutover that fails leaves it *)
(* stopped, and does not start it on the way.                               *)
RecordedStateKept ==
  Status \in {"legacy_stopped", "cutover_failed"} /\ ~receipt.wasRunning
    /\ cmd # "cutover"
    => job["legacy"] # "run"

(* Next becomes the authority by a cutover only if its copy has every event *)
(* legacy recorded.                                                         *)
CutoverIsComplete ==
  op = "activate" /\ receipt' # receipt => copy = events["legacy"]
CutoverLosesNothing == [][CutoverIsComplete]_vars

(* Every command ends, with success or an error.                            *)
CommandsEnd == cmd # "none" ~> cmd = "none"

(* A cutover that was interrupted before it stopped legacy is settled by    *)
(* recover, whoever owns the port.                                          *)
PreparingConverges == Status = "preparing" ~> Status # "preparing"

(* README: recover will idempotently converge an interrupted cutover or     *)
(* rollback on legacy authority.                                            *)
RecoverConverges == Status \in Interrupted ~> Status \notin Interrupted
================================================================================
