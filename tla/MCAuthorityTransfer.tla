-------------------------- MODULE MCAuthorityTransfer --------------------------
(* How authority is handed to echo-context on a small instance: the database *)
(* is copied, receipts and plists are replaced, services are cut over, and   *)
(* the daemon that a cutover waits for starts.  Each behaviour is one of     *)
(* these, since each is done with the others at rest or in files of its own: *)
(* what AuthorityTransfer samples of a daemon is only that it owns its port. *)
EXTENDS AuthorityTransfer

CONSTANTS
  a, b, Copiers, Paths, Legacy, Latest, Torn, MaxRows, \* the copies
  Writers, Link, Directory, Allowlisted,         \* the files
  codex, claude, Adapters, MaxFailures           \* the daemon

VARIABLES
  task,                                              \* what is done
  db, stage, from, to, snapshot, partial,            \* the copies
  place, temp, phase, request, target, existing,     \* the files
  life, enabled, status, component, turn, troubled, health, caught, writing,
  unstopped, storage, mcp, failures                  \* the daemon

D == INSTANCE DatabaseCopy
A == INSTANCE AtomicWrite
R == INSTANCE ContextRuntime WITH phase <- life

(* The adapters of the run, in the order of their registration.              *)
MCAdapters == <<codex, claude>>

ASSUME TaskBounds == D!CopyBounds /\ A!FileBounds /\ R!RuntimeBounds

transferVars == <<world, copy, receipt, plist, intact, locals>>
copyVars     == <<db, stage, from, to, snapshot, partial>>
fileVars     == <<place, temp, phase, request, target, existing>>
daemonVars   == <<life, enabled, status, component, turn, troubled, health, caught,
                  writing, unstopped, storage, mcp, failures>>

taskVars == <<task, transferVars, copyVars, fileVars, daemonVars, crashes, faults>>

TaskInit ==
  /\ task \in {"transfer", "copy", "write", "run"}
  /\ Init /\ D!Init /\ A!Init /\ R!Init
  /\ task # "copy" => db[Legacy].version = 0 /\ db[Legacy].lineage = None
  /\ task # "write" =>
       /\ place = [p \in A!Places |-> None]
       /\ request = [w \in Writers |-> [secret |-> FALSE, follow |-> FALSE]]
  /\ task # "run" => enabled = {}

Transfers(Action) == 
  task = "transfer" /\ Action /\ UNCHANGED <<task, copyVars, fileVars, daemonVars>>

Copies == /\ task = "copy" /\ D!Next
          /\ UNCHANGED <<task, transferVars, fileVars, daemonVars>>

Writes == /\ task = "write" /\ A!Next
          /\ UNCHANGED <<task, transferVars, copyVars, daemonVars>>

Runs == /\ task = "run" /\ R!Next
        /\ UNCHANGED <<task, transferVars, copyVars, fileVars, crashes, faults>>

TaskNext == Transfers(Next) \/ Copies \/ Writes \/ Runs

(* The fairness of FairSpec.                                                 *)
TaskSpec ==
  /\ TaskInit /\ [][TaskNext]_taskVars
  /\ \A l \in Labels :
       /\ WF_taskVars(Transfers(Binds(l)))
       /\ WF_taskVars(Transfers(Relaunches(l)))
       /\ WF_taskVars(Transfers(Exits(l)))
  /\ WF_taskVars(Transfers(Step))
  /\ WF_taskVars(Transfers(Recover)) /\ WF_taskVars(Transfers(Repairs))

--------------------------------------------------------------------------------
(* A copy is one snapshot, published whole and once, and vouches for no event *)
(* it does not have.                                                         *)
CopiesAreFaithful == D!CopiesAreFaithful

(* A file is replaced whole or not at all, and a secret is never readable by *)
(* others.                                                                   *)
AtomicReplace == A!AtomicReplace

(* A daemon starts and stops in order, and /healthz tells the truth.         *)
RunsInOrder == R!RunsInOrder
================================================================================
