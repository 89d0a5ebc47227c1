----------------------------- MODULE DatabaseCopy -----------------------------
(* migrate: a ledger is copied for echo-context (migration/copy-database.ts),*)
(* brought to this schema (storage/migrate.ts), given the lineage a cutover  *)
(* asks about later (migration/copy-lineage.ts), and published.  Several     *)
(* commands may copy at once, to one destination or along a chain; the       *)
(* programs that own the databases go on writing, and a command may fail or  *)
(* be killed at any step.                                                    *)
EXTENDS Integers, Sequences, SequencesExt

CONSTANTS
  Copiers,    \* commands, each run once
  Paths,      \* database files
  Legacy,     \* the one that exists from the start
  Latest,     \* latest_supported_version
  None,       \* no file, no lineage, null
  Torn,       \* a lineage table without its record
  MaxRows,    \* bound: events in a database
  MaxCrashes, \* bound: commands killed
  MaxFaults   \* bound: failing calls

(* A row, the record of copy-lineage.ts, and a database file.                *)
Events == Paths \X Nat

Lineages == [source : Paths, count : Nat, tail : Events \cup {None},
             before : Paths \cup {None}]

Ledgers == [rows : Seq(Events), version : Nat, lineage : Lineages \cup {None, Torn}]

CopyBounds ==
  /\ Legacy \in Paths /\ Latest \in Nat \ {0} /\ MaxRows \in Nat
  /\ None # Torn /\ None \notin Ledgers /\ {None, Torn} \cap Lineages = {}

VARIABLES
  db,       \* per path None, or the events in rowid order, version and lineage
  stage,    \* per command: its next step
  from, to, \* per command: source and destination
  snapshot, \* per command: what its read transaction sees of the source
  partial,  \* per command: the copy in its staging directory
  crashes,
  faults

vars == <<db, stage, from, to, snapshot, partial, crashes, faults>>
plans == <<from, to, snapshot>>

Ledger(rows, version, lineage) == [rows |-> rows, version |-> version, lineage |-> lineage]

Init ==
  /\ \E version \in 0..(Latest + 1), lineage \in {None, Torn} :
       db = [p \in Paths |-> IF p = Legacy THEN Ledger(<<<<Legacy, 1>>>>, version, lineage)
                                           ELSE None]
  /\ stage = [c \in Copiers |-> "start"]
  /\ from = [c \in Copiers |-> None]
  /\ to = [c \in Copiers |-> None]
  /\ snapshot = [c \in Copiers |-> None]
  /\ partial = [c \in Copiers |-> None]
  /\ crashes = 0
  /\ faults = 0

Goto(c, next) == stage' = [stage EXCEPT ![c] = next]

(* The catch block: the staging directory goes, and with it the copy.        *)
Fails(c) ==
  /\ partial' = [partial EXCEPT ![c] = None]
  /\ Goto(c, "failed")
  /\ UNCHANGED <<db, plans>>

(* Checks of the arguments, and a staging directory of its own.              *)
Start(c) ==
  /\ stage[c] = "start"
  /\ \E s, d \in Paths :
       /\ from' = [from EXCEPT ![c] = s]
       /\ to' = [to EXCEPT ![c] = d]
       /\ Goto(c, IF s = d \/ db[d] # None THEN "failed" ELSE "pin")
  /\ UNCHANGED <<db, snapshot, partial, crashes, faults>>

(* fileMustExist, BEGIN and the first SELECT: count and tail are those of    *)
(* one snapshot ...                                                          *)
Pin(c) ==
  /\ stage[c] = "pin"
  /\ \/ /\ db[from[c]] # None
        /\ snapshot' = [snapshot EXCEPT ![c] = db[from[c]]]
        /\ Goto(c, "backup")
        /\ UNCHANGED <<db, from, to, partial>>
     \/ db[from[c]] = None /\ Fails(c)
  /\ UNCHANGED <<crashes, faults>>

(* ... and so is the backup, on the same connection.                         *)
Backup(c) ==
  /\ stage[c] = "backup"
  /\ partial' = [partial EXCEPT ![c] = snapshot[c]]
  /\ Goto(c, "migrate")
  /\ UNCHANGED <<db, plans, crashes, faults>>

(* new SqliteStorage(partial): each migration is a transaction; a schema     *)
(* from the future is refused before anything is written.                    *)
MigrateCopy(c) ==
  /\ stage[c] = "migrate"
  /\ \/ /\ partial[c].version < Latest
        /\ partial' = [partial EXCEPT ![c].version = @ + 1]
        /\ UNCHANGED <<db, stage, plans>>
     \/ /\ partial[c].version = Latest
        /\ Goto(c, "lineage")
        /\ UNCHANGED <<db, partial, plans>>
     \/ partial[c].version > Latest /\ Fails(c)
  /\ UNCHANGED <<crashes, faults>>

TailOf(l) == IF l.rows = <<>> THEN None ELSE Last(l.rows)

(* Mutant: the lineage tells of the source as it is by now.                  *)
LineageOfSource(c) ==
  [source |-> from[c], count |-> Len(db[from[c]].rows), tail |-> TailOf(db[from[c]]),
   before |-> IF partial[c].lineage = None THEN None ELSE partial[c].lineage.source]

(* The snapshot, and the source of the lineage the copy came with.           *)
LineageOf(c) ==
  [source |-> from[c], count |-> Len(snapshot[c].rows), tail |-> TailOf(snapshot[c]),
   before |-> IF partial[c].lineage = None THEN None ELSE partial[c].lineage.source]

(* writeCopyLineage, after the count check: an inherited lineage without its *)
(* record is not replaced.                                                   *)
WriteLineage(c) ==
  /\ stage[c] = "lineage"
  /\ \/ /\ Len(partial[c].rows) = Len(snapshot[c].rows) /\ partial[c].lineage # Torn
        /\ partial' = [partial EXCEPT ![c].lineage = LineageOf(c)]
        /\ Goto(c, "publish")
        /\ UNCHANGED <<db, plans>>
     \/ /\ Len(partial[c].rows) # Len(snapshot[c].rows) \/ partial[c].lineage = Torn
        /\ Fails(c)
  /\ UNCHANGED <<crashes, faults>>

(* quick_check was good: linkSync does not replace what another won.         *)
Publish(c) ==
  /\ stage[c] = "publish"
  /\ \/ /\ db[to[c]] = None
        /\ db' = [db EXCEPT ![to[c]] = partial[c]]
        /\ Goto(c, "clean")
        /\ UNCHANGED <<plans, partial>>
     \/ db[to[c]] # None /\ Fails(c)
  /\ UNCHANGED <<crashes, faults>>

(* unlinkSync and rmSync of the staging directory.                           *)
Clean(c) ==
  /\ stage[c] = "clean"
  /\ partial' = [partial EXCEPT ![c] = None]
  /\ Goto(c, "done")
  /\ UNCHANGED <<db, plans, crashes, faults>>

Running(c) == stage[c] \notin {"start", "done", "failed", "crashed"}

(* A call throws; after linkSync the copy stays published.                   *)
CallFails(c) ==
  /\ Running(c) /\ faults < MaxFaults
  /\ faults' = faults + 1
  /\ Fails(c)
  /\ UNCHANGED crashes

(* A killed command leaves its staging directory.                            *)
Crash(c) ==
  /\ Running(c) /\ crashes < MaxCrashes
  /\ crashes' = crashes + 1
  /\ Goto(c, "crashed")
  /\ UNCHANGED <<db, partial, plans, faults>>

(* The owner of a database records an event.                                 *)
Record(p) ==
  /\ db[p] # None /\ Len(db[p].rows) < MaxRows
  /\ db' = [db EXCEPT ![p].rows = Append(@, <<p, Len(@) + 1>>)]
  /\ UNCHANGED <<stage, plans, partial, crashes, faults>>

Next ==
  \/ \E c \in Copiers :
       \/ Start(c) \/ Pin(c) \/ Backup(c) \/ MigrateCopy(c) \/ WriteLineage(c)
       \/ Publish(c) \/ Clean(c) \/ CallFails(c) \/ Crash(c)
  \/ \E p \in Paths : Record(p)

Spec == Init /\ [][Next]_vars

-------------------------------------------------------------------------------
(* assertCopyContainsCurrentLegacy                                           *)
Vouched(s, d) ==
  /\ db[s] # None /\ db[d] # None /\ db[d].lineage \notin {None, Torn}
  /\ LET l == db[d].lineage
     IN  /\ l.source = s /\ l.count = Len(db[s].rows) /\ l.tail = TailOf(db[s])
         /\ Len(db[d].rows) >= l.count
         /\ l.tail \in ToSet(db[d].rows) \cup {None}

(* assertContextDatabase: what a cutover asks of the next database. Torn is  *)
(* refused by assertCopyContainsCurrentLegacy, which reads the record.       *)
Accepts(p) ==
  db[p] # None /\ db[p].version = Latest /\ db[p].lineage \notin {None, Torn}

(* What a cutover is told is a complete copy of a quiet legacy database has  *)
(* every event of it.                                                        *)
VouchedIsComplete ==
  \A s, d \in Paths : Vouched(s, d) => ToSet(db[s].rows) \subseteq ToSet(db[d].rows)

(* A published copy is one a cutover accepts, and no event of its             *)
(* snapshot is missing: no command that fails or is killed leaves half of one.*)
PublishedIsWhole ==
  \A p \in Paths \ {Legacy} : db[p] # None =>
    /\ Accepts(p)
    /\ Len(db[p].rows) >= db[p].lineage.count

(* Of the commands that race for a destination one publishes: what the owner *)
(* of the copy has recorded since is not replaced by another copy.           *)
OnePublishes ==
  \A c, e \in Copiers :
    {stage[c], stage[e]} \subseteq {"clean", "done"} /\ to[c] = to[e] => c = e

(* copy-database.ts: a copy is one snapshot of its source, published whole   *)
(* and once, and its lineage vouches for no event it does not have.          *)
CopiesAreFaithful == VouchedIsComplete /\ PublishedIsWhole /\ OnePublishes
===============================================================================
