----------------------------- MODULE AtomicWrite -----------------------------
(* Replacing a file in one step (echo-home/adapters/atomic-write.ts), as    *)
(* receipts and plists are: processes that write the same path at the same  *)
(* time, each system call an action that may fail, a process that may be    *)
(* killed between two of them, and a user who moves the file behind a link. *)
EXTENDS Naturals

CONSTANTS
  Writers,      \* processes that call atomicWrite for the path, once each
  None,         \* no file
  Link,         \* a symbolic link to the real file
  Directory,
  Allowlisted,  \* places named by SECRET_SENSITIVE_ALLOWLIST
  MaxCrashes,   \* bound: processes killed
  MaxFaults     \* bound: failing calls and short writes

(* The path itself, and the file a link at the path leads to.               *)
Places == {"path", "real"}

(* A file: who wrote it (None: it was there before), how much of the        *)
(* content it has, and whether others than its owner may read it.           *)
Files == [by : Writers \cup {None}, part : {"empty", "short", "whole"}, open : BOOLEAN]

(* What is found at a place is told apart.                                  *)
FileBounds ==
  /\ {None, Link, Directory} \cap Files = {}
  /\ None \notin {Link, Directory} \cup Writers \cup {"shared", "private"}
  /\ MaxFaults \in Nat

VARIABLES
  place,    \* at each place None, a file, a link to "real" or a directory
  temp,     \* per writer: its temporary file
  phase,    \* per writer: its next step
  request,  \* per writer: secretSensitive and followSymlink
  target,   \* per writer: writePath
  existing, \* per writer: existingMode, undefined or who may read
  crashes,
  faults

vars == <<place, temp, phase, request, target, existing, crashes, faults>>
asked == <<request, target, existing>>

Requests == [secret : BOOLEAN, follow : BOOLEAN]

IsFile(x) == x \in Files

Init ==
  /\ \E old \in {None} \cup {[by |-> None, part |-> "whole", open |-> o] : o \in BOOLEAN},
        entry \in {"file", Link, Directory} :
       place = [p \in Places |-> IF entry = "file" /\ p = "path" THEN old
                                 ELSE IF p = "path" THEN entry
                                 ELSE IF entry = Link THEN old ELSE None]
  /\ temp = [w \in Writers |-> None]
  /\ phase = [w \in Writers |-> "inspect"]
  /\ request \in [Writers -> Requests]
  /\ target = [w \in Writers |-> "path"]
  /\ existing = [w \in Writers |-> None]
  /\ crashes = 0
  /\ faults = 0

Goto(w, next) == phase' = [phase EXCEPT ![w] = next]

Faulty == faults < MaxFaults /\ faults' = faults + 1

(* AtomicWriteError, after n failing calls; bestEffortUnlink of a temporary *)
(* file may fail as well.                                                   *)
FailsAfter(w, n) ==
  /\ Goto(w, "failed")
  /\ \E left \in BOOLEAN :
       /\ left => temp[w] # None
       /\ faults' = faults + n + (IF left THEN 1 ELSE 0)
       /\ temp' = IF left THEN temp ELSE [temp EXCEPT ![w] = None]
  /\ faults' <= MaxFaults
  /\ UNCHANGED <<place, asked>>

Refused(w) == FailsAfter(w, 0)
CallFails(w) == FailsAfter(w, 1)

(* What statSync tells of a file.                                           *)
ModeOf(x) == IF x = None THEN None ELSE IF x.open THEN "shared" ELSE "private"

Plan(w, p) ==
  /\ target' = [target EXCEPT ![w] = p]
  /\ existing' = [existing EXCEPT ![w] = ModeOf(place[p])]
  /\ Goto(w, "open")
  /\ UNCHANGED <<place, temp, request>>

(* lstatSync: a directory and, unless the caller follows them, a link are   *)
(* refused.                                                                 *)
Inspect(w) ==
  /\ phase[w] = "inspect"
  /\ \/ /\ place["path"] \notin {Link, Directory}
        /\ Plan(w, "path") /\ UNCHANGED faults
     \/ /\ place["path"] = Link /\ request[w].follow
        /\ Goto(w, "resolve")
        /\ UNCHANGED <<place, temp, asked, faults>>
     \/ /\ \/ place["path"] = Directory
           \/ place["path"] = Link /\ ~request[w].follow
        /\ Refused(w)
     \/ CallFails(w)
  /\ UNCHANGED crashes

(* realpathSync and statSync: a link that leads nowhere is an error. By now *)
(* another writer may have put a file in its place.                         *)
Resolve(w) ==
  /\ phase[w] = "resolve"
  /\ \/ place["path"] # Link /\ Plan(w, "path") /\ UNCHANGED faults
     \/ place["path"] = Link /\ place["real"] # None /\ Plan(w, "real") /\ UNCHANGED faults
     \/ place["path"] = Link /\ place["real"] = None /\ Refused(w)
     \/ CallFails(w)
  /\ UNCHANGED crashes

(* Mutant: a file that exists keeps the mode it has.                        *)
LockedWhenNew(w) ==
  existing[w] = None /\ (request[w].secret \/ target[w] \in Allowlisted)

(* lockTo600                                                                *)
Locked(w) ==
  IF existing[w] # None
    THEN request[w].secret /\ existing[w] = "shared"
    ELSE request[w].secret \/ target[w] \in Allowlisted

(* openSync of a unique name: the umask leaves 0666 readable.               *)
OpenTemp(w) ==
  /\ phase[w] = "open"
  /\ \/ /\ temp' = [temp EXCEPT ![w] =
                      [by |-> w, part |-> "empty",
                       open |-> ~Locked(w) /\ existing[w] # "private"]]
        /\ Goto(w, "write")
        /\ UNCHANGED <<place, asked, faults>>
     \/ CallFails(w)
  /\ UNCHANGED crashes

(* writeSync: the system may write less than it was asked to, and says so   *)
(* by a count that is not looked at.                                        *)
WriteTemp(w) ==
  /\ phase[w] = "write"
  /\ \/ /\ temp' = [temp EXCEPT ![w].part = "whole"]
        /\ Goto(w, "chmod")
        /\ UNCHANGED <<place, asked, faults>>
     \/ /\ Faulty
        /\ temp' = [temp EXCEPT ![w].part = "short"]
        /\ Goto(w, "chmod")
        /\ UNCHANGED <<place, asked>>
     \/ CallFails(w)
  /\ UNCHANGED crashes

(* fchmodSync to 0600, or to the mode of the file that is replaced.         *)
ChmodTemp(w) ==
  /\ phase[w] = "chmod"
  /\ \/ /\ temp' = [temp EXCEPT ![w].open =
                      IF Locked(w) THEN FALSE
                      ELSE IF existing[w] # None THEN existing[w] = "shared" ELSE @]
        /\ Goto(w, "rename")
        /\ UNCHANGED <<place, asked, faults>>
     \/ CallFails(w)
  /\ UNCHANGED crashes

(* renameSync replaces a file, or the link itself.                          *)
Rename(w) ==
  /\ phase[w] = "rename"
  /\ \/ /\ place' = [place EXCEPT ![target[w]] = temp[w]]
        /\ temp' = [temp EXCEPT ![w] = None]
        /\ Goto(w, "done")
        /\ UNCHANGED <<asked, faults>>
     \/ CallFails(w)
  /\ UNCHANGED crashes

(* A killed process leaves its temporary file.                              *)
Crash(w) ==
  /\ phase[w] \notin {"done", "failed", "crashed"}
  /\ crashes < MaxCrashes
  /\ crashes' = crashes + 1
  /\ Goto(w, "crashed")
  /\ UNCHANGED <<place, temp, asked, faults>>

(* The user moves the file and leaves a link to it.                         *)
Relinked ==
  /\ IsFile(place["path"]) /\ place["real"] = None
  /\ place' = [path |-> Link, real |-> place["path"]]
  /\ UNCHANGED <<temp, phase, asked, crashes, faults>>

Next ==
  \/ \E w \in Writers :
       \/ Inspect(w) \/ Resolve(w) \/ OpenTemp(w) \/ WriteTemp(w)
       \/ ChmodTemp(w) \/ Rename(w) \/ Crash(w)
  \/ Relinked

Spec == Init /\ [][Next]_vars

------------------------------------------------------------------------------
InPlace(w) == {p \in Places : IsFile(place[p]) /\ place[p].by = w}

(* A reader of either place finds one whole content, whoever writes at the  *)
(* same time and wherever they stop; only a short write, which is taken for *)
(* a full one, can be published.                                            *)
ReadersSeeWhole ==
  \A p \in Places : IsFile(place[p]) =>
    place[p].part = "whole" \/ (place[p].part = "short" /\ faults > 0)

(* A call that did not return put nothing in place, and one that failed     *)
(* left nothing beside it, unless its clean-up failed too.                  *)
FailuresLeaveNothing ==
  \A w \in Writers :
    /\ phase[w] # "done" => InPlace(w) = {}
    /\ phase[w] = "done" \/ (phase[w] = "failed" /\ faults < 2) => temp[w] = None

(* What a caller calls secret can be read by its owner only, before and     *)
(* after the rename, also where a file that others may read is replaced.    *)
SecretsArePrivate ==
  \A w \in Writers : request[w].secret =>
    /\ temp[w] # None => ~temp[w].open
    /\ \A p \in InPlace(w) : ~place[p].open

(* atomic-write.ts: a reader of the path sees one whole content or another, *)
(* calls that fail change nothing, and secrets are never readable by others.*)
AtomicReplace == ReadersSeeWhole /\ FailuresLeaveNothing /\ SecretsArePrivate
==============================================================================
