------------------------ MODULE AuthorityTransferProofs ------------------------
(* Theorems of AuthorityTransfer. The safety of the transfer lies in the     *)
(* order of its operations, which the receipt and the operation in hand      *)
(* record: the invariant IInv says what each operation knows when it runs    *)
(* (Control), where the two jobs and the port then are (Placement), and what *)
(* the ledgers, the watermark and the receipt then agree on (Bookkeeping).   *)
(* Every action keeps all three, and the theorems of the transfer are its    *)
(* parts. Behind them come the files and the database copies it relies on,   *)
(* with an invariant of their own each, and the tasks side by side.          *)
EXTENDS MCAuthorityTransfer, Sequences, TLAPS

(* Which steps an operation has.                                            *)
Shape ==
  /\ step = "request" => op \in Stopping \cup Restoring
  /\ step = "wait" => op \in Stopping \cup Restoring \cup Verifying
  /\ step = "after" => op \in {"stopLegacy", "stopNext", "stopFailed"}
  /\ step = "start" => op \in Restoring \cup {"startNext"}
  /\ step = "write" <=> op \in Writing
  /\ step = "none" <=> op = "none"

Installing == {"stopPrior", "startNext", "acceptNext", "activate", "stopFailed"}
Returning  == {"restoreNext", "verifyNext", "settleNext"}
Settling   == {"stopNext", "restoreLegacy", "verifyLegacy", "settleLegacy",
               "settleAmbiguous"}

(* The command an operation belongs to.                                     *)
Belongs ==
  /\ op \in Installing \cup {"checkLegacy", "prepare", "stopLegacy"} => cmd = "cutover"
  /\ op \in Returning => cmd = "rollback"
  /\ op \in {"intend", "abortLegacy"} => cmd \in {"rollback", "recover"}
  /\ op \in {"reverifyLegacy", "reverifyNext"} => cmd = "recover"

(* The receipt an operation finds.                                          *)
Reads ==
  /\ op \in {"checkLegacy", "prepare"} => Status \in Terminal \cup {None}
  /\ op = "stopLegacy" => Status = "preparing"
  /\ op \in Installing => Status = "legacy_stopped"
  /\ op \in Returning => Status = "rollback_ambiguous"
  /\ op = "intend" /\ cmd = "rollback" => Status = "active_next"
  /\ op = "intend" /\ cmd = "recover" => Status \in Interrupted
  /\ op \in Settling \cup {"abortLegacy"} =>
       /\ cmd = "cutover"  => Status \in {"preparing", "legacy_stopped"}
       /\ cmd = "rollback" => Status = "rollback_ambiguous"
       /\ cmd = "recover"  =>
            Status \in {"preparing", "rollback_ambiguous", "cutover_ambiguous"}
  /\ op = "stopNext" /\ cmd = "cutover" => Status = "legacy_stopped"

(* A job that was asked to end does not come back by itself.                *)
Ends ==
  /\ op \in Stopping \cup Restoring /\ step = "wait" =>
       job[LabelOf(op)] \in {"ending", "absent"}
  /\ op \in Stopping \cup Restoring /\ step \in {"after", "start"} =>
       job[LabelOf(op)] = "absent"

NextAbsent ==
  op \in {"checkLegacy", "prepare", "stopLegacy", "stopPrior", "restoreLegacy",
          "verifyLegacy", "settleLegacy", "abortLegacy"}
    => job["next"] = "absent"

LegacyDown ==
  \/ op \in Installing \cup Returning
  \/ op = "stopNext" /\ cmd \in {"cutover", "rollback"}
  \/ Status = "active_next"

LegacyAbsent == LegacyDown => job["legacy"] = "absent"

OwnerRuns == owner # None => job[owner] \in {"run", "ending"}

CopyComplete ==
  op \in Installing \ {"stopFailed"} => copy = events["legacy"]

MarkComplete ==
  op \in {"restoreLegacy", "verifyLegacy", "settleLegacy"} /\ Status = "rollback_ambiguous"
    => mark = events["next"]

LegacyKept ==
  /\ Status \in {"legacy_stopped", "cutover_failed"} /\ ~receipt.wasRunning
       => job["legacy"] = "absent"
  /\ op = "restoreLegacy" /\ step = "start" => LegacyRuns
  /\ op \in {"verifyLegacy", "settleLegacy"} /\ ~LegacyRuns => job["legacy"] = "absent"

Control   == Shape /\ Belongs /\ Reads
Placement == Ends /\ NextAbsent /\ LegacyAbsent /\ OwnerRuns /\ NeverBothLoaded
               /\ CandidateAbsent
Bookkeeping  == CopyComplete /\ MarkComplete /\ LegacyKept /\ WatermarkIsFinal

IInv == TypeOK /\ Control /\ Placement /\ Bookkeeping

--------------------------------------------------------------------------------
(* The sets of operations are plain lists of names.                         *)
USE DEF Ops, Stopping, Restoring, Verifying, Writing, Installing, Returning, Settling

(* The order of the operations, and how each begins.                        *)

LEMMA FirstSteps ==
  ASSUME NEW o \in Ops \cup {"none"}
  PROVE  /\ o \in Stopping \cup Restoring => FirstStep(o) = "request"
         /\ o \in Verifying => FirstStep(o) = "wait"
         /\ o = "startNext" => FirstStep(o) = "start"
         /\ o \in Writing => FirstStep(o) = "write"
         /\ o = "none" => FirstStep(o) = "none"
  BY SMT DEF FirstStep

LEMMA Successes ==
  /\ OnSuccess \in Ops \cup {"none"}
  /\ op = "checkLegacy" => OnSuccess = "prepare"
  /\ op = "prepare" => OnSuccess = "stopLegacy"
  /\ op = "stopLegacy" => OnSuccess \in {"stopPrior", "startNext"}
  /\ op = "stopPrior" => OnSuccess = "startNext"
  /\ op = "startNext" => OnSuccess = "acceptNext"
  /\ op = "acceptNext" => OnSuccess = "activate"
  /\ op \in {"stopFailed", "intend"} => OnSuccess = "stopNext"
  /\ op = "stopNext" => OnSuccess = "restoreLegacy"
  /\ op = "restoreLegacy" => OnSuccess = "verifyLegacy"
  /\ op = "verifyLegacy" => OnSuccess = "settleLegacy"
  /\ op = "abortLegacy" /\ cmd = "rollback" => OnSuccess = "restoreNext"
  /\ op = "abortLegacy" /\ cmd # "rollback" => OnSuccess = "settleAmbiguous"
  /\ op = "restoreNext" => OnSuccess = "verifyNext"
  /\ op = "verifyNext" => OnSuccess = "settleNext"
  /\ op \in {"activate", "settleLegacy", "settleNext", "settleAmbiguous",
             "reverifyLegacy", "reverifyNext"} => OnSuccess = "none"
<1>1. OnSuccess \in Ops \cup {"none"}
  BY SMT DEF OnSuccess
<1>2. /\ op = "checkLegacy" => OnSuccess = "prepare"
      /\ op = "prepare" => OnSuccess = "stopLegacy"
      /\ op = "stopLegacy" => OnSuccess \in {"stopPrior", "startNext"}
      /\ op = "stopPrior" => OnSuccess = "startNext"
      /\ op = "startNext" => OnSuccess = "acceptNext"
      /\ op = "acceptNext" => OnSuccess = "activate"
  BY SMT DEF OnSuccess
<1>3. /\ op \in {"stopFailed", "intend"} => OnSuccess = "stopNext"
      /\ op = "stopNext" => OnSuccess = "restoreLegacy"
  BY SMT DEF OnSuccess
<1>4. op = "restoreLegacy" => OnSuccess = "verifyLegacy"
  BY DEF OnSuccess
<1>5. op = "verifyLegacy" => OnSuccess = "settleLegacy"
  BY DEF OnSuccess
<1>6. op = "abortLegacy" /\ cmd = "rollback" => OnSuccess = "restoreNext"
  BY DEF OnSuccess
<1>7. op = "abortLegacy" /\ cmd # "rollback" => OnSuccess = "settleAmbiguous"
  BY DEF OnSuccess
<1>8. op = "restoreNext" => OnSuccess = "verifyNext"
  BY DEF OnSuccess
<1>9. op = "verifyNext" => OnSuccess = "settleNext"
  BY DEF OnSuccess
<1>10. op \in {"activate", "settleLegacy", "settleNext", "settleAmbiguous",
             "reverifyLegacy", "reverifyNext"} => OnSuccess = "none"
  BY SMT DEF OnSuccess
<1> QED
  BY <1>1, <1>2, <1>3, <1>4, <1>5, <1>6, <1>7, <1>8, <1>9, <1>10

LEMMA Failures ==
  /\ OnFailure \in Ops \cup {"none"}
  /\ op = "stopLegacy" => OnFailure = "restoreLegacy"
  /\ op \in {"stopPrior", "startNext", "acceptNext"} => OnFailure = "stopFailed"
  /\ op \in {"stopFailed", "activate"} => OnFailure = "stopNext"
  /\ op = "stopNext" /\ cmd = "rollback" => OnFailure = "restoreNext"
  /\ op = "stopNext" /\ cmd # "rollback" => OnFailure = "settleAmbiguous"
  /\ op \in {"restoreLegacy", "verifyLegacy"} /\ cmd = "cutover" =>
       OnFailure = "settleAmbiguous"
  /\ op \in {"restoreLegacy", "verifyLegacy"} /\ cmd # "cutover" =>
       OnFailure = "abortLegacy"
  /\ op \in {"abortLegacy", "restoreNext", "verifyNext"} => OnFailure = "settleAmbiguous"
  /\ op \in {"checkLegacy", "prepare", "intend", "settleLegacy", "settleNext",
             "settleAmbiguous", "reverifyLegacy", "reverifyNext"} => OnFailure = "none"
  BY SMT DEF OnFailure

LEMMA Restated ==
  ASSUME NEW r \in Receipts, NEW s \in Statuses
  PROVE  /\ [r EXCEPT !.status = s] \in Receipts
         /\ [r EXCEPT !.status = s].status = s
         /\ [r EXCEPT !.status = s].wasRunning = r.wasRunning
         /\ [r EXCEPT !.status = s].mark = r.mark
  BY SMT DEF Receipts

LEMMA NewReceipts ==
  ASSUME TypeOK, Control, op \in Writing
  PROVE  /\ NewReceipt \in Receipts
         /\ op = "prepare" => NewReceipt.status = "preparing"
         /\ op = "intend" /\ cmd = "rollback" => NewReceipt.status = "rollback_ambiguous"
         /\ op = "intend" /\ cmd = "recover" =>
              \/ /\ NewReceipt.status = Status
                 /\ Status \in {"preparing", "rollback_ambiguous"}
              \/ NewReceipt.status = "cutover_ambiguous"
         /\ op \in {"activate", "settleNext"} => NewReceipt.status = "active_next"
         /\ op = "settleLegacy" /\ Status = "rollback_ambiguous" =>
              NewReceipt.status = "rolled_back" /\ NewReceipt.mark = mark
         /\ op = "settleLegacy" /\ Status # "rollback_ambiguous" =>
              NewReceipt.status = "cutover_failed" /\ NewReceipt.wasRunning = receipt.wasRunning
         /\ op = "settleAmbiguous" /\ cmd = "cutover" =>
              NewReceipt.status = "cutover_ambiguous"
         /\ op = "settleAmbiguous" /\ cmd # "cutover" => NewReceipt.status = Status
<1>1. CASE op = "prepare"
  <2>1. NewReceipt = [status |-> "preparing", wasRunning |-> wasRunning,
                      bound |-> FALSE, mark |-> None]
    BY <1>1 DEF NewReceipt
  <2> QED
    BY <1>1, <2>1 DEF TypeOK, Receipts, Statuses
<1>2. op # "prepare" => receipt \in Receipts /\ Status = receipt.status
  <2>1. op # "prepare" => Status \in Statuses
    BY DEF TypeOK, Control, Reads, Belongs, Interrupted, Statuses, Commands
  <2>2. None \notin Statuses
    BY AuthorityAssumption DEF Statuses
  <2> QED
    BY <2>1, <2>2 DEF TypeOK, Status
<1>3. CASE op = "intend" /\ cmd = "rollback"
  <2>1. NewReceipt = RollbackIntent
    BY <1>3 DEF NewReceipt
  <2> QED
    BY <1>2, <1>3, <2>1 DEF RollbackIntent, Receipts, Statuses
<1>4. CASE op = "intend" /\ cmd = "recover"
  <2>1. NewReceipt = RecoverIntent
    BY <1>4 DEF NewReceipt
  <2> QED
    BY <1>2, <1>4, <2>1 DEF RecoverIntent, Receipts, Statuses
<1>5. CASE op = "activate"
  <2>1. NewReceipt = [receipt EXCEPT !.status = "active_next", !.bound = TRUE]
    BY <1>5 DEF NewReceipt
  <2> QED
    BY <1>2, <1>5, <2>1 DEF Receipts, Statuses
<1>6. CASE op = "settleNext"
  <2>1. NewReceipt = [receipt EXCEPT !.status = "active_next", !.mark = mark]
    BY <1>6 DEF NewReceipt
  <2> QED
    BY <1>2, <1>6, <2>1 DEF TypeOK, Receipts, Statuses
<1>7. CASE op = "settleLegacy"
  <2>1. NewReceipt = SettledOnLegacy
    BY <1>7 DEF NewReceipt
  <2> QED
    BY <1>2, <1>7, <2>1 DEF SettledOnLegacy, TypeOK, Receipts, Statuses
<1>8. CASE op = "settleAmbiguous"
  <2>1. NewReceipt = SettledAmbiguous
    BY <1>8 DEF NewReceipt
  <2> QED
    BY <1>2, <1>8, <2>1 DEF SettledAmbiguous, TypeOK, Receipts, Statuses
<1> QED
  BY <1>1, <1>3, <1>4, <1>5, <1>6, <1>7, <1>8 DEF Control, Belongs

LEMMA LabelIsLabel ==
  ASSUME NEW o
  PROVE  LabelOf(o) \in Labels
  BY DEF LabelOf, Labels

LEMMA LeftRunningKeeps ==
  ASSUME IInv, LeftRunning
  PROVE  IInv'
<1>1. TypeOK'
  BY Successes, FirstSteps, AuthorityAssumption
     DEF IInv, TypeOK, LeftRunning, Goto, world
<1>2. Control'
  BY Successes, FirstSteps
     DEF IInv, LeftRunning, Goto, Control, Shape, Belongs, Reads, Status
<1>3. Placement'
  BY Successes
     DEF IInv, LeftRunning, Goto, Placement, Ends, NextAbsent, LegacyAbsent, LegacyDown,
         OwnerRuns, NeverBothLoaded, CandidateAbsent, Loaded, Status, world
<1>4. Bookkeeping'
  BY Successes
     DEF IInv, LeftRunning, Goto, Bookkeeping, CopyComplete, MarkComplete, LegacyKept,
         LegacyRuns, WatermarkIsFinal, Status, world
<1> QED
  BY <1>1, <1>2, <1>3, <1>4 DEF IInv

LEMMA RequestStopKeeps ==
  ASSUME IInv, RequestStop
  PROVE  IInv'
<1>1. TypeOK'
  BY LabelIsLabel, AuthorityAssumption DEF IInv, TypeOK, RequestStop, StayFor
<1>2. Control'
  BY DEF IInv, RequestStop, StayFor, Control, Shape, Belongs, Reads, Status
<1>3. Placement'
  BY LabelIsLabel
     DEF IInv, TypeOK, RequestStop, StayFor, Placement, Ends, NextAbsent, LegacyAbsent,
         LegacyDown, OwnerRuns, NeverBothLoaded, CandidateAbsent, Loaded, Status
<1>4. Bookkeeping'
  BY DEF IInv, RequestStop, StayFor, Bookkeeping, CopyComplete, MarkComplete,
         LegacyKept, LegacyRuns, WatermarkIsFinal, Status
<1> QED
  BY <1>1, <1>2, <1>3, <1>4 DEF IInv

LEMMA SampleKeeps ==
  ASSUME IInv, Sample
  PROVE  IInv'
<1>1. TypeOK'
  BY Successes, FirstSteps, AuthorityAssumption
     DEF IInv, TypeOK, Sample, Goto, StayFor, Proved, Advance, Control, Shape, world
<1>2. Control'
  BY Successes, FirstSteps
     DEF IInv, Sample, Goto, StayFor, Proved, Control, Shape, Belongs, Reads, Status
<1>3. Placement'
  BY Successes, AuthorityAssumption
     DEF IInv, Sample, Goto, StayFor, Proved, Advance, Accepted, LabelOf, Stopped,
         PreparingWait, Control, Shape, Placement, Ends, NextAbsent, LegacyAbsent,
         LegacyDown, OwnerRuns, NeverBothLoaded, CandidateAbsent, Loaded, Status, world
<1>4. Bookkeeping'
  BY Successes, AuthorityAssumption
     DEF IInv, Sample, Goto, StayFor, Proved, Advance, Accepted, LabelOf, Stopped,
         PreparingWait, Control, Shape, Placement, Ends, Bookkeeping, CopyComplete,
         MarkComplete, LegacyKept, LegacyRuns, WatermarkIsFinal, Status, world
<1> QED
  BY <1>1, <1>2, <1>3, <1>4 DEF IInv

LEMMA TimesOutKeeps ==
  ASSUME IInv, TimesOut
  PROVE  IInv'
<1>1. TypeOK'
  BY Failures, FirstSteps, AuthorityAssumption
     DEF IInv, TypeOK, TimesOut, Goto, Faulty, Control, Shape, world
<1>2. Control'
  BY Failures, FirstSteps
     DEF IInv, TypeOK, TimesOut, Goto, Commands, Control, Shape, Belongs, Reads, Status
<1>3. Placement'
  BY Failures, FirstSteps
     DEF IInv, TimesOut, Goto, Control, Shape, Placement, Ends, NextAbsent,
         LegacyAbsent, LegacyDown, OwnerRuns, NeverBothLoaded, CandidateAbsent, Loaded,
         Status, world
<1>4. Bookkeeping'
  BY Failures, FirstSteps
     DEF IInv, TimesOut, Goto, Control, Shape, Reads, Bookkeeping, CopyComplete,
         MarkComplete, LegacyKept, WatermarkIsFinal, Status, world
<1> QED
  BY <1>1, <1>2, <1>3, <1>4 DEF IInv

LEMMA Starting ==
  ASSUME IInv, step = "start", job' = [job EXCEPT ![LabelOf(op)] = "run"]
  PROVE  \/ op = "restoreLegacy" /\ job' = [job EXCEPT !["legacy"] = "run"]
              /\ job["next"] = "absent"
              /\ Status \in {"preparing", "legacy_stopped", "rollback_ambiguous",
                             "cutover_ambiguous"}
         \/ op \in {"startNext", "restoreNext"} /\ job' = [job EXCEPT !["next"] = "run"]
              /\ job["legacy"] = "absent"
              /\ Status \in {"legacy_stopped", "rollback_ambiguous"}
<1>1. op \in {"restoreLegacy", "restoreNext", "startNext"} /\ cmd \in Commands
  BY DEF IInv, TypeOK, Control, Shape
<1>2. CASE op = "restoreLegacy"
  <2>1. job["next"] = "absent"
    BY <1>2 DEF IInv, Placement, NextAbsent
  <2>2. Status \in {"preparing", "legacy_stopped", "rollback_ambiguous",
                    "cutover_ambiguous"}
    BY <1>1, <1>2 DEF IInv, Control, Reads, Commands
  <2> QED
    BY <1>2, <2>1, <2>2 DEF LabelOf
<1>3. CASE op \in {"startNext", "restoreNext"}
  <2>1. job["legacy"] = "absent"
    BY <1>3 DEF IInv, Placement, LegacyAbsent, LegacyDown
  <2>2. Status \in {"legacy_stopped", "rollback_ambiguous"}
    BY <1>3 DEF IInv, Control, Reads
  <2> QED
    BY <1>3, <2>1, <2>2 DEF LabelOf
<1> QED
  BY <1>1, <1>2, <1>3

LEMMA StartKeeps ==
  ASSUME IInv, Start
  PROVE  IInv'
<1>1. TypeOK'
  BY LabelIsLabel, Successes, FirstSteps, AuthorityAssumption
     DEF IInv, TypeOK, Start, Goto, Control, Shape
<1>2. Control'
  BY Successes, FirstSteps DEF IInv, Start, Goto, Control, Shape, Belongs, Reads, Status
<1>3. Placement'
  <2>1. CASE op = "restoreLegacy"
    <3>1. /\ job' = [job EXCEPT !["legacy"] = "run"] /\ job["next"] = "absent"
          /\ op' = "verifyLegacy" /\ step' = "wait" /\ Status' = Status /\ owner' = owner
          /\ Status # "active_next"
      BY <2>1, Starting, Successes, FirstSteps DEF Start, Goto, Status
    <3> QED
      BY <2>1, <3>1
         DEF Placement, Ends, NextAbsent, LegacyAbsent, LegacyDown, OwnerRuns,
             NeverBothLoaded, CandidateAbsent, Loaded, IInv
  <2>2. CASE op \in {"startNext", "restoreNext"}
    <3>1. /\ job' = [job EXCEPT !["next"] = "run"] /\ job["legacy"] = "absent"
          /\ op' \in {"acceptNext", "verifyNext"} /\ step' = "wait"
          /\ Status' = Status /\ owner' = owner
          /\ Status \in {"legacy_stopped", "rollback_ambiguous"}
      BY <2>2, Starting, Successes, FirstSteps DEF Start, Goto, Status
    <3> QED
      BY <2>2, <3>1, AuthorityAssumption
         DEF Placement, Ends, NextAbsent, LegacyAbsent, OwnerRuns, NeverBothLoaded,
             CandidateAbsent, Loaded, IInv, Terminal, Statuses
  <2> QED
    BY <2>1, <2>2 DEF IInv, Control, Shape, Start
<1>4. Bookkeeping'
  BY Successes
     DEF IInv, Start, Goto, LabelOf, Control, Shape, Bookkeeping, CopyComplete,
         MarkComplete, LegacyKept, LegacyRuns, WatermarkIsFinal, Status
<1> QED
  BY <1>1, <1>2, <1>3, <1>4 DEF IInv

LEMMA CheckFailsKeeps ==
  ASSUME IInv, CheckFails
  PROVE  IInv'
<1>1. TypeOK'
  BY FirstSteps, AuthorityAssumption
     DEF IInv, TypeOK, CheckFails, Goto, Control, Shape, world
<1>2. Control'
  BY FirstSteps
     DEF IInv, CheckFails, Goto, Checked, Control, Shape, Belongs, Reads, Status
<1>3. Placement'
  BY FirstSteps
     DEF IInv, CheckFails, Goto, Checked, Placement, Ends, NextAbsent, LegacyAbsent,
         LegacyDown, OwnerRuns, NeverBothLoaded, CandidateAbsent, Loaded, Status, world
<1>4. Bookkeeping'
  BY FirstSteps
     DEF IInv, CheckFails, Goto, Control, Reads, Bookkeeping, CopyComplete,
         MarkComplete, LegacyKept, WatermarkIsFinal, Status, world
<1> QED
  BY <1>1, <1>2, <1>3, <1>4 DEF IInv

LEMMA CallFailsKeeps ==
  ASSUME IInv, CallFails
  PROVE  IInv'
<1>1. TypeOK'
  BY Failures, FirstSteps, AuthorityAssumption
     DEF IInv, TypeOK, CallFails, Goto, Faulty, Control, Shape
<1>2. Control'
  BY Failures, FirstSteps
     DEF IInv, TypeOK, CallFails, Goto, Commands, Control, Shape, Belongs, Reads, Status
<1>3. Placement'
  <2>1. CASE UNCHANGED job
    BY <2>1, Failures, FirstSteps
       DEF IInv, CallFails, Goto, Control, Shape, Placement, Ends, NextAbsent,
           LegacyAbsent, LegacyDown, OwnerRuns, NeverBothLoaded, CandidateAbsent,
           Loaded, Status
  <2>2. CASE step = "start" /\ job' = [job EXCEPT ![LabelOf(op)] = "run"]
    <3>1. step' \in {"request", "write"} /\ Status' = Status /\ owner' = owner
      BY <2>2, Failures, FirstSteps DEF CallFails, Goto, Status, IInv, Control, Shape
    <3>2. CASE op = "restoreLegacy"
      <4>1. /\ job' = [job EXCEPT !["legacy"] = "run"] /\ job["next"] = "absent"
            /\ op' \in {"settleAmbiguous", "abortLegacy"}
            /\ Status # "active_next"
        BY <2>2, <3>2, Starting, Failures DEF CallFails, Goto
      <4> QED
        BY <3>1, <4>1
           DEF Placement, Ends, NextAbsent, LegacyAbsent, LegacyDown, OwnerRuns,
               NeverBothLoaded, CandidateAbsent, Loaded, IInv
    <3>3. CASE op \in {"startNext", "restoreNext"}
      <4>1. /\ job' = [job EXCEPT !["next"] = "run"] /\ job["legacy"] = "absent"
            /\ op' \in {"stopFailed", "settleAmbiguous"}
            /\ Status \in {"legacy_stopped", "rollback_ambiguous"}
        BY <2>2, <3>3, Starting, Failures DEF CallFails, Goto
      <4> QED
        BY <3>1, <4>1, AuthorityAssumption
           DEF Placement, Ends, NextAbsent, LegacyAbsent, OwnerRuns, NeverBothLoaded,
               CandidateAbsent, Loaded, IInv, Terminal, Statuses
    <3> QED
      BY <2>2, <3>2, <3>3 DEF IInv, Control, Shape
  <2> QED
    BY <2>1, <2>2 DEF CallFails
<1>4. Bookkeeping'
  BY Failures, FirstSteps
     DEF IInv, TypeOK, CallFails, Goto, LabelOf, Labels, Control, Shape, Reads,
         Bookkeeping, CopyComplete, MarkComplete, LegacyKept, LegacyRuns,
         WatermarkIsFinal, Status
<1> QED
  BY <1>1, <1>2, <1>3, <1>4 DEF IInv

LEMMA AfterLegacyStoppedKeeps ==
  ASSUME IInv, AfterLegacyStopped
  PROVE  IInv'
<1>1. CASE /\ copy = events["legacy"]
           /\ receipt' = [receipt EXCEPT !.status = "legacy_stopped"]
           /\ Goto(OnSuccess) /\ UNCHANGED faults
  <2>1. Status = "preparing" /\ receipt \in Receipts /\ op = "stopLegacy" /\ step = "after"
    BY AuthorityAssumption
       DEF AfterLegacyStopped, IInv, Control, Reads, TypeOK, Status, Statuses
  <2>2. /\ receipt' \in Receipts /\ Status' = "legacy_stopped"
        /\ receipt'.wasRunning = receipt.wasRunning
    <3>1. /\ receipt' \in Receipts /\ receipt'.status = "legacy_stopped"
          /\ receipt'.wasRunning = receipt.wasRunning
      BY <1>1, <2>1, Restated DEF Statuses
    <3>2. None \notin Receipts
      BY AuthorityAssumption
    <3> QED
      BY <3>1, <3>2 DEF Status
  <2>3. op' \in {"stopPrior", "startNext"} /\ step' = FirstStep(op')
    BY <1>1, <2>1, Successes DEF Goto
  <2>4. TypeOK'
    BY <1>1, <2>1, <2>2, Successes, FirstSteps, AuthorityAssumption
       DEF IInv, TypeOK, AfterLegacyStopped, Goto, world
  <2>5. Control'
    BY <1>1, <2>1, <2>2, <2>3, FirstSteps DEF IInv, Goto, Control, Shape, Belongs, Reads
  <2>6. Placement'
    BY <1>1, <2>1, <2>2, <2>3
       DEF IInv, AfterLegacyStopped, world, LabelOf, Placement, Ends, NextAbsent,
           LegacyAbsent, OwnerRuns, NeverBothLoaded, CandidateAbsent, Loaded
  <2>7. Bookkeeping'
    BY <1>1, <2>1, <2>2, <2>3
       DEF IInv, AfterLegacyStopped, world, LabelOf, Bookkeeping, CopyComplete,
           MarkComplete, LegacyKept, WatermarkIsFinal, Placement, Ends
  <2> QED
    BY <2>4, <2>5, <2>6, <2>7 DEF IInv
<1>2. CASE Goto(OnFailure) /\ UNCHANGED receipt /\ faults' \in 0..MaxFaults
  <2>1. TypeOK'
    BY <1>2, Failures, FirstSteps, AuthorityAssumption
       DEF IInv, TypeOK, AfterLegacyStopped, Goto, world
  <2>2. Control'
    BY <1>2, Failures, FirstSteps
       DEF IInv, AfterLegacyStopped, Goto, Control, Shape, Belongs, Reads, Status
  <2>3. Placement'
    BY <1>2, Failures, FirstSteps
       DEF IInv, AfterLegacyStopped, Goto, Placement, Ends, NextAbsent, LegacyAbsent,
           LegacyDown, OwnerRuns, NeverBothLoaded, CandidateAbsent, Loaded, Status,
           world
  <2>4. Bookkeeping'
    BY <1>2, Failures, FirstSteps
       DEF IInv, AfterLegacyStopped, Goto, Control, Reads, Bookkeeping, CopyComplete,
           MarkComplete, LegacyKept, WatermarkIsFinal, Status
  <2> QED
    BY <2>1, <2>2, <2>3, <2>4 DEF IInv
<1> QED
  BY <1>1, <1>2, AuthorityAssumption DEF AfterLegacyStopped, Faulty, IInv, TypeOK

LEMMA AfterNextStoppedKeeps ==
  ASSUME IInv, AfterNextStopped
  PROVE  IInv'
<1>1. TypeOK'
  BY Successes, Failures, FirstSteps, AuthorityAssumption
     DEF IInv, TypeOK, AfterNextStopped, Goto, Faulty, Labels, world
<1>2. Control'
  BY Successes, Failures, FirstSteps
     DEF IInv, AfterNextStopped, Goto, Control, Shape, Belongs, Reads, Status
<1>3. Placement'
  BY Successes, Failures, FirstSteps
     DEF IInv, AfterNextStopped, Goto, LabelOf, Placement, Ends, NextAbsent,
         LegacyAbsent, LegacyDown, OwnerRuns, NeverBothLoaded, CandidateAbsent, Loaded,
         Status, world
<1>4. Bookkeeping'
  BY Successes, Failures, FirstSteps
     DEF IInv, AfterNextStopped, Goto, Bookkeeping, CopyComplete, MarkComplete,
         LegacyKept, WatermarkIsFinal, Status, world
<1> QED
  BY <1>1, <1>2, <1>3, <1>4 DEF IInv

LEMMA AfterInstallStoppedKeeps ==
  ASSUME IInv, AfterInstallStopped
  PROVE  IInv'
<1>1. TypeOK'
  BY Successes, FirstSteps, AuthorityAssumption
     DEF IInv, TypeOK, AfterInstallStopped, Goto, world
<1>2. Control'
  BY Successes, FirstSteps
     DEF IInv, AfterInstallStopped, Goto, Control, Shape, Belongs, Reads, Status
<1>3. Placement'
  BY Successes, FirstSteps
     DEF IInv, AfterInstallStopped, Goto, Placement, Ends, NextAbsent, LegacyAbsent,
         LegacyDown, OwnerRuns, NeverBothLoaded, CandidateAbsent, Loaded, Status, world
<1>4. Bookkeeping'
  BY Successes
     DEF IInv, AfterInstallStopped, Goto, Bookkeeping, CopyComplete, MarkComplete,
         LegacyKept, WatermarkIsFinal, Status, world
<1> QED
  BY <1>1, <1>2, <1>3, <1>4 DEF IInv

LEMMA WriteReceiptKeeps ==
  ASSUME IInv, WriteReceipt
  PROVE  IInv'
<1>1. TypeOK'
  BY Successes, Failures, FirstSteps, NewReceipts, AuthorityAssumption
     DEF IInv, TypeOK, WriteReceipt, Goto, Faulty, Control, Shape, world
<1>2. Control'
  BY Successes, Failures, FirstSteps, NewReceipts, AuthorityAssumption
     DEF IInv, WriteReceipt, Goto, Control, Shape, Belongs, Reads, Status
<1>3. Placement'
  <2>1. Ends'
    BY FirstSteps DEF WriteReceipt, Goto, Ends
  <2>2. NextAbsent'
    BY Successes, Failures
       DEF IInv, WriteReceipt, Goto, Control, Shape, Placement, NextAbsent, world
  <2>3. LegacyAbsent'
    BY Successes, Failures, NewReceipts, AuthorityAssumption
       DEF IInv, WriteReceipt, Goto, Control, Shape, Belongs, Reads, Placement,
           LegacyAbsent, LegacyDown, Status, world
  <2>4. OwnerRuns'
    BY DEF IInv, WriteReceipt, Placement, OwnerRuns, world
  <2>5. NeverBothLoaded'
    BY DEF IInv, WriteReceipt, Placement, NeverBothLoaded, Loaded, world
  <2>6. CandidateAbsent'
    <3>1. job' = job /\ op \in Writing
      BY DEF WriteReceipt, world, IInv, Control, Shape
    <3>2. CASE UNCHANGED receipt
      BY <3>1, <3>2 DEF CandidateAbsent, Status, IInv, Placement
    <3>3. CASE receipt' = NewReceipt
      <4>1. Status' = NewReceipt.status
        <5>1. NewReceipt \in Receipts /\ None \notin Receipts
          BY <3>1, NewReceipts, AuthorityAssumption DEF IInv
        <5> QED
          BY <3>3, <5>1 DEF Status
      <4>2. CASE op \in {"prepare", "settleLegacy"}
        BY <3>1, <4>2 DEF CandidateAbsent, IInv, Placement, NextAbsent
      <4>3. CASE op = "intend"
        <5>1. cmd \in {"rollback", "recover"}
          BY <4>3 DEF IInv, Control, Belongs
        <5>2. \/ Status' \notin Terminal \cup {"preparing", None}
              \/ Status' = Status
          BY <3>1, <4>1, <4>3, <5>1, NewReceipts, AuthorityAssumption
             DEF IInv, Terminal, Statuses
        <5> QED
          BY <3>1, <5>2 DEF CandidateAbsent, IInv, Placement
      <4>4. CASE op \in {"activate", "settleNext"}
        BY <3>1, <4>1, <4>4, NewReceipts, AuthorityAssumption
           DEF CandidateAbsent, IInv, Terminal, Statuses
      <4>5. CASE op = "settleAmbiguous"
        <5>1. \/ Status' \notin Terminal \cup {"preparing", None}
              \/ Status' = Status
          BY <3>1, <4>1, <4>5, NewReceipts, AuthorityAssumption
             DEF IInv, Terminal, Statuses
        <5> QED
          BY <3>1, <5>1 DEF CandidateAbsent, IInv, Placement
      <4> QED
        BY <3>1, <4>2, <4>3, <4>4, <4>5
    <3> QED
      BY <3>2, <3>3 DEF WriteReceipt
  <2> QED
    BY <2>1, <2>2, <2>3, <2>4, <2>5, <2>6 DEF Placement
<1>4. Bookkeeping'
  BY Successes, Failures, NewReceipts, AuthorityAssumption
     DEF IInv, TypeOK, WriteReceipt, Goto, Commands, Control, Shape, Belongs, Reads,
         Bookkeeping, CopyComplete, MarkComplete, LegacyKept, LegacyRuns,
         WatermarkIsFinal, Status, world
<1> QED
  BY <1>1, <1>2, <1>3, <1>4 DEF IInv

LEMMA CrashKeeps ==
  ASSUME IInv, Crash
  PROVE  IInv'
<1>1. TypeOK'
  BY FirstSteps, AuthorityAssumption DEF IInv, TypeOK, Crash, Goto, world
<1>2. Control'
  BY FirstSteps DEF Crash, Goto, Control, Shape, Belongs, Reads
<1>3. Placement'
  BY DEF IInv, Crash, Goto, Placement, Ends, NextAbsent, LegacyAbsent, LegacyDown,
         OwnerRuns, NeverBothLoaded, CandidateAbsent, Loaded, Status, world
<1>4. Bookkeeping'
  BY DEF IInv, Crash, Goto, Bookkeeping, CopyComplete, MarkComplete, LegacyKept,
         WatermarkIsFinal, Status, world
<1> QED
  BY <1>1, <1>2, <1>3, <1>4 DEF IInv

--------------------------------------------------------------------------------
(* launchd and the services. A job that is gone does not come back, and one *)
(* that was asked to end can only go.                                       *)

LEMMA WorldMoves ==
  ASSUME IInv, NEW l \in Labels, World(l)
  PROVE  /\ job' \in [Labels -> {"absent", "idle", "run", "ending"}]
         /\ owner' \in Labels \cup {None} /\ events' \in [Labels -> Nat]
         /\ \A k \in Labels :
              /\ job[k] = "absent" => job'[k] = "absent" /\ events'[k] = events[k]
              /\ job[k] \in {"ending", "absent"} => job'[k] \in {"ending", "absent"}
         /\ owner' # None => job'[owner'] \in {"run", "ending"}
         /\ faults' \in 0..MaxFaults
         /\ UNCHANGED <<copy, receipt, plist, intact, locals, crashes>>
<1>1. CASE Binds(l)
  BY <1>1 DEF Binds, IInv, TypeOK, Placement, OwnerRuns
<1>2. CASE Relaunches(l)
  BY <1>2 DEF Relaunches, IInv, TypeOK, Placement, OwnerRuns
<1>3. CASE Dies(l)
  BY <1>3, AuthorityAssumption DEF Dies, Faulty, IInv, TypeOK, Placement, OwnerRuns
<1>4. CASE ClosesPort(l)
  BY <1>4 DEF ClosesPort, IInv, TypeOK
<1>5. CASE Exits(l)
  BY <1>5 DEF Exits, IInv, TypeOK, Placement, OwnerRuns
<1>6. CASE Records(l)
  BY <1>6 DEF Records, IInv, TypeOK, Placement, OwnerRuns
<1> QED
  BY <1>1, <1>2, <1>3, <1>4, <1>5, <1>6 DEF World

LEMMA WorldKeeps ==
  ASSUME IInv, NEW l \in Labels, World(l)
  PROVE  IInv'
<1>1. TypeOK'
  BY WorldMoves DEF IInv, TypeOK, locals
<1>2. Control'
  BY WorldMoves DEF IInv, Control, Shape, Belongs, Reads, Status, locals
<1>3. Placement'
  <2>1. "legacy" \in Labels /\ "next" \in Labels /\ LabelOf(op) \in Labels
    BY LabelIsLabel DEF Labels
  <2>2. Status' = Status /\ op' = op /\ step' = step /\ cmd' = cmd
    BY WorldMoves DEF Status, locals
  <2>3. Ends'
    <3>1. LabelOf(op') = LabelOf(op)
      BY <2>2
    <3> QED
      BY <2>1, <2>2, <3>1, WorldMoves DEF IInv, Placement, Ends
  <2>4. NextAbsent' /\ LegacyAbsent' /\ CandidateAbsent' /\ NeverBothLoaded'
    BY <2>1, <2>2, WorldMoves
       DEF IInv, Placement, NextAbsent, LegacyAbsent, LegacyDown, CandidateAbsent,
           NeverBothLoaded, Loaded
  <2>5. OwnerRuns'
    BY WorldMoves DEF OwnerRuns
  <2> QED
    BY <2>3, <2>4, <2>5 DEF Placement
<1>4. Bookkeeping'
  <2>1. "legacy" \in Labels /\ "next" \in Labels
    BY DEF Labels
  <2>2. /\ Status' = Status /\ op' = op /\ step' = step /\ mark' = mark
        /\ copy' = copy /\ receipt' = receipt /\ LegacyRuns' = LegacyRuns
    BY WorldMoves DEF Status, locals, LegacyRuns
  <2>3. CopyComplete'
    BY <2>1, <2>2, WorldMoves
       DEF IInv, Placement, LegacyAbsent, LegacyDown, Bookkeeping, CopyComplete
  <2>4. MarkComplete'
    BY <2>1, <2>2, WorldMoves DEF IInv, Placement, NextAbsent, Bookkeeping, MarkComplete
  <2>5. LegacyKept'
    BY <2>1, <2>2, WorldMoves DEF IInv, Bookkeeping, LegacyKept
  <2>6. WatermarkIsFinal'
    BY <2>1, <2>2, WorldMoves
       DEF IInv, Placement, CandidateAbsent, Terminal, Bookkeeping, WatermarkIsFinal
  <2> QED
    BY <2>3, <2>4, <2>5, <2>6 DEF Bookkeeping
<1> QED
  BY <1>1, <1>2, <1>3, <1>4 DEF IInv

LEMMA BindingsKeep ==
  ASSUME IInv, Tampers \/ Repairs
  PROVE  IInv'
<1>1. /\ intact' \in BOOLEAN /\ faults' \in 0..MaxFaults
      /\ UNCHANGED <<world, copy, receipt, plist, locals, crashes>>
  <2>1. CASE Tampers
    <3>1. faults' \in 0..MaxFaults
      BY <2>1, AuthorityAssumption DEF Tampers, Faulty, IInv, TypeOK
    <3>2. intact' \in BOOLEAN /\ UNCHANGED <<world, copy, receipt, plist, locals, crashes>>
      BY <2>1 DEF Tampers
    <3> QED
      BY <3>1, <3>2
  <2>2. CASE Repairs
    BY <2>2 DEF Repairs, IInv, TypeOK
  <2> QED
    BY <2>1, <2>2
<1>2. TypeOK' /\ Control'
  BY <1>1 DEF IInv, TypeOK, Control, Shape, Belongs, Reads, Status, world, locals
<1>3. Placement'
  BY <1>1
     DEF IInv, Placement, Ends, NextAbsent, LegacyAbsent, LegacyDown, OwnerRuns,
         NeverBothLoaded, CandidateAbsent, Loaded, Status, world, locals
<1>4. Bookkeeping'
  BY <1>1
     DEF IInv, Bookkeeping, CopyComplete, MarkComplete, LegacyKept, LegacyRuns,
         WatermarkIsFinal, Status, world, locals
<1> QED
  BY <1>2, <1>3, <1>4 DEF IInv

--------------------------------------------------------------------------------
(* The commands begin only where their first operation is safe.             *)

LEMMA MigrateKeeps ==
  ASSUME IInv, Migrate
  PROVE  IInv'
<1>1. TypeOK' /\ Control'
  BY DEF Migrate, IInv, TypeOK, Control, Shape, Belongs, Reads, locals, Labels
<1>2. Placement'
  BY DEF Migrate, IInv, Placement, Ends, NextAbsent, LegacyAbsent, LegacyDown,
         OwnerRuns, NeverBothLoaded, CandidateAbsent, Loaded, Status, locals
<1>3. op = "none" /\ Status' = Status /\ Status \in {None, "cutover_failed"}
  BY DEF Migrate, IInv, TypeOK, Status
<1>4. Bookkeeping'
  BY <1>3, AuthorityAssumption
     DEF Migrate, IInv, Bookkeeping, CopyComplete, MarkComplete, LegacyKept,
         WatermarkIsFinal, locals, Statuses
<1> QED
  BY <1>1, <1>2, <1>4 DEF IInv

LEMMA CutoverKeeps ==
  ASSUME IInv, Cutover
  PROVE  IInv'
<1>1. /\ cmd' = "cutover" /\ op' = "checkLegacy" /\ step' = "wait" /\ streak' = 0
      /\ mark' = None /\ wasRunning' \in BOOLEAN /\ prior' \in BOOLEAN
      /\ Status' = Status /\ Status \in Terminal \cup {None}
      /\ UNCHANGED <<world, copy, receipt, plist, intact, crashes, faults>>
  <2>1. /\ cmd' = "cutover" /\ op' = "checkLegacy" /\ step' = "wait" /\ streak' = 0
        /\ mark' = None /\ Status' = Status /\ Status \in Terminal \cup {None}
        /\ UNCHANGED <<world, copy, receipt, plist, intact, crashes, faults>>
    BY FirstSteps DEF Cutover, Locals, Status
  <2>2. wasRunning' \in BOOLEAN /\ prior' \in BOOLEAN
    BY Zenon DEF Cutover, Locals, IInv, TypeOK
  <2> QED
    BY <2>1, <2>2
<1>2. TypeOK' /\ Control'
  BY <1>1, AuthorityAssumption
     DEF IInv, TypeOK, Control, Shape, Belongs, Reads, world, Commands
<1>3. Placement'
  BY <1>1
     DEF IInv, Placement, Ends, NextAbsent, LegacyAbsent, LegacyDown, OwnerRuns,
         NeverBothLoaded, CandidateAbsent, Loaded, world
<1>4. Bookkeeping'
  BY <1>1
     DEF IInv, Bookkeeping, CopyComplete, MarkComplete, LegacyKept, WatermarkIsFinal,
         world
<1> QED
  BY <1>2, <1>3, <1>4 DEF IInv

LEMMA RollbackKeeps ==
  ASSUME IInv, Rollback
  PROVE  IInv'
<1>1. /\ cmd' = "rollback" /\ op' = "intend" /\ step' = "write" /\ streak' = 0
      /\ mark' = None /\ wasRunning' \in BOOLEAN /\ prior' \in BOOLEAN
      /\ Status' = Status /\ Status = "active_next"
      /\ UNCHANGED <<world, copy, receipt, plist, intact, crashes, faults>>
  BY FirstSteps DEF Rollback, Locals, Status, IInv, TypeOK
<1>2. TypeOK' /\ Control'
  BY <1>1, AuthorityAssumption
     DEF IInv, TypeOK, Control, Shape, Belongs, Reads, world, Commands
<1>3. Placement'
  BY <1>1
     DEF IInv, Placement, Ends, NextAbsent, LegacyAbsent, LegacyDown, OwnerRuns,
         NeverBothLoaded, CandidateAbsent, Loaded, world
<1>4. Bookkeeping'
  BY <1>1 DEF Bookkeeping, CopyComplete, MarkComplete, LegacyKept, WatermarkIsFinal
<1> QED
  BY <1>2, <1>3, <1>4 DEF IInv

LEMMA RecoverKeeps ==
  ASSUME IInv, Recover
  PROVE  IInv'
<1>1. /\ cmd' = "recover" /\ streak' = 0 /\ step' = FirstStep(op')
      /\ mark' = None /\ wasRunning' \in BOOLEAN /\ prior' \in BOOLEAN
      /\ Status' = Status /\ Status \in Statuses
      /\ UNCHANGED <<world, copy, receipt, plist, intact, crashes, faults>>
  BY DEF Recover, Locals, Status, IInv, TypeOK, Receipts
<1>2. \/ op' = "reverifyNext" /\ Status = "active_next"
      \/ op' = "reverifyLegacy" /\ Status \in Terminal
      \/ op' = "intend" /\ Status \in Interrupted
  BY <1>1 DEF Recover, Locals, Terminal, Interrupted
<1>3. /\ op' \in {"reverifyNext", "reverifyLegacy"} => step' = "wait"
      /\ op' = "intend" => step' = "write"
  BY <1>1, FirstSteps
<1>4. TypeOK' /\ Control'
  BY <1>1, <1>2, <1>3, AuthorityAssumption
     DEF IInv, TypeOK, Control, Shape, Belongs, Reads, world, Commands
<1>5. Placement'
  BY <1>1, <1>2, <1>3
     DEF IInv, Placement, Ends, NextAbsent, LegacyAbsent, LegacyDown, OwnerRuns,
         NeverBothLoaded, CandidateAbsent, Loaded, world
<1>6. Bookkeeping'
  BY <1>1, <1>2
     DEF IInv, Bookkeeping, CopyComplete, MarkComplete, LegacyKept, WatermarkIsFinal,
         world
<1> QED
  BY <1>4, <1>5, <1>6 DEF IInv

--------------------------------------------------------------------------------

LEMMA Inductive == IInv /\ [Next]_vars => IInv'
<1> SUFFICES ASSUME IInv, [Next]_vars PROVE IInv'
  OBVIOUS
<1>1. CASE \E l \in Labels : World(l)
  BY <1>1, WorldKeeps
<1>2. CASE Tampers \/ Repairs
  BY <1>2, BindingsKeep
<1>3. CASE Migrate \/ Cutover \/ Rollback \/ Recover
  BY <1>3, MigrateKeeps, CutoverKeeps, RollbackKeeps, RecoverKeeps
<1>4. CASE Step
  BY <1>4, LeftRunningKeeps, RequestStopKeeps, SampleKeeps, TimesOutKeeps, StartKeeps,
     AfterLegacyStoppedKeeps, AfterNextStoppedKeeps, AfterInstallStoppedKeeps,
     WriteReceiptKeeps, CheckFailsKeeps
     DEF Step
<1>5. CASE CallFails \/ Crash
  BY <1>5, CallFailsKeeps, CrashKeeps
<1>6. CASE UNCHANGED vars
  BY <1>6
     DEF vars, world, locals, IInv, TypeOK, Control, Shape, Belongs, Reads, Placement,
         Ends, NextAbsent, LegacyAbsent, LegacyDown, OwnerRuns, NeverBothLoaded,
         CandidateAbsent, Loaded, Bookkeeping, CopyComplete, MarkComplete, LegacyKept,
         LegacyRuns, WatermarkIsFinal, Status
<1> QED
  BY <1>1, <1>2, <1>3, <1>4, <1>5, <1>6 DEF Next

LEMMA Initial == Init => IInv
<1> SUFFICES ASSUME Init PROVE IInv
  OBVIOUS
<1>1. /\ job \in [Labels -> {"absent", "run"}] /\ job["next"] = "absent"
      /\ job["legacy"] \in {"absent", "run"}
      /\ owner = IF job["legacy"] = "run" THEN "legacy" ELSE None
  BY DEF Init, Labels
<1>2. TypeOK /\ Status = None
  <2>1. /\ job \in [Labels -> {"absent", "idle", "run", "ending"}]
        /\ owner \in Labels \cup {None} /\ events \in [Labels -> Nat]
    BY <1>1 DEF Init, Labels
  <2>2. /\ copy = None /\ receipt = None /\ mark = None
        /\ plist = FALSE /\ intact = TRUE /\ prior = FALSE /\ wasRunning = FALSE
        /\ cmd = "none" /\ op = "none" /\ step = "none"
        /\ streak = 0 /\ crashes = 0 /\ faults = 0
    BY DEF Init
  <2>3. 0 \in 0..RequiredSamples /\ 0 \in 0..MaxCrashes /\ 0 \in 0..MaxFaults
    BY AuthorityAssumption
  <2> QED
    BY <2>1, <2>2, <2>3 DEF TypeOK, Status
<1>3. None \notin Statuses
  BY AuthorityAssumption
<1>4. Control
  BY <1>2 DEF Init, Control, Shape, Belongs, Reads
<1>5. Placement
  BY <1>1, <1>2, <1>3
     DEF Init, Placement, Ends, NextAbsent, LegacyAbsent, LegacyDown, OwnerRuns,
         NeverBothLoaded, CandidateAbsent, Loaded, Statuses
<1>6. Bookkeeping
  BY <1>2, <1>3
     DEF Init, Bookkeeping, CopyComplete, MarkComplete, LegacyKept, WatermarkIsFinal,
         Statuses
<1> QED
  BY <1>2, <1>4, <1>5, <1>6 DEF IInv

LEMMA Invariant == Spec => []IInv
  BY Initial, Inductive, PTL DEF Spec

--------------------------------------------------------------------------------
(* Every variable of the transfer keeps its type: the operation in hand is  *)
(* one the command knows, and the receipt a well-formed one (launchd.ts,    *)
(* authority-receipt.ts).                                                   *)
THEOREM TransferTypes == Spec => []TypeOK
  BY Invariant, PTL DEF IInv

(* launchd never has both services loaded, whatever fails and wherever a    *)
(* command is killed: a service is only started after the other was proven  *)
(* stopped (LaunchdAuthorityTransfer, launchd.ts).                          *)
THEOREM NeverBoth == Spec => []NeverBothLoaded
  BY Invariant, PTL DEF IInv, Placement

(* A receipt that leaves legacy in charge is only written, and only stays,  *)
(* while the candidate is not loaded (executeAuthorityTransfer and the      *)
(* recovery, launchd.ts).                                                   *)
THEOREM CandidateIsAbsent == Spec => []CandidateAbsent
  BY Invariant, PTL DEF IInv, Placement

(* The watermark in the receipt of a finished rollback is that of the       *)
(* candidate's ledger as it was left (executeAuthorityRollback).            *)
THEOREM WatermarkFinal == Spec => []WatermarkIsFinal
  BY Invariant, PTL DEF IInv, Bookkeeping

(* A legacy service the cutover found stopped is stopped after it failed    *)
(* (restoreLegacyAuthority, launchd.ts).                                    *)
THEOREM StateKept == Spec => []RecordedStateKept
<1>1. IInv => RecordedStateKept
  <2> SUFFICES ASSUME IInv, Status \in {"legacy_stopped", "cutover_failed"},
                      ~receipt.wasRunning
               PROVE  job["legacy"] # "run"
    BY DEF RecordedStateKept
  <2> QED
    BY DEF IInv, Bookkeeping, LegacyKept
<1> QED
  BY <1>1, Invariant, PTL

(* A cutover only makes the candidate the authority when its copy holds     *)
(* every event legacy recorded: the ledger is compared once legacy is       *)
(* stopped, and legacy stays stopped until the receipt says so.             *)
THEOREM CutoverComplete == Spec => CutoverLosesNothing
<1>1. IInv => CutoverIsComplete
  BY DEF IInv, Bookkeeping, CopyComplete, CutoverIsComplete
<1> QED
  BY <1>1, Invariant, PTL DEF CutoverLosesNothing, Spec

--------------------------------------------------------------------------------
(* Files that are replaced (AtomicWrite), for any number of writers, kills   *)
(* and faults: the invariant says what a writer's temporary file is at each  *)
(* of its steps.                                                             *)

FileModes == {None, "shared", "private"}

WriterPhases == {"inspect", "resolve", "open", "write", "chmod", "rename", "done", "failed",
           "crashed"}

FileTypeOK ==
  /\ place \in [A!Places -> A!Files \cup {None, Link, Directory}]
  /\ temp \in [Writers -> A!Files \cup {None}]
  /\ phase \in [Writers -> WriterPhases]
  /\ request \in [Writers -> A!Requests]
  /\ target \in [Writers -> A!Places]
  /\ existing \in [Writers -> FileModes]
  /\ faults \in Nat

(* A writer has its temporary file from openSync to renameSync.              *)
TemporaryFiles ==
  \A w \in Writers :
    /\ phase[w] \in {"inspect", "resolve", "open", "done"} => temp[w] = None
    /\ phase[w] \in {"write", "chmod", "rename"} => temp[w] # None
    /\ phase[w] = "failed" /\ faults < 2 => temp[w] = None
    /\ temp[w] # None => temp[w].by = w

(* What it has of the content when it may be renamed.                        *)
FileContent ==
  \A w \in Writers : phase[w] \in {"chmod", "rename"} =>
    temp[w].part = "whole" \/ (temp[w].part = "short" /\ faults > 0)

(* Only who has renamed its file has one in place.                           *)
FilesPlaced == \A w \in Writers : phase[w] # "done" => A!InPlace(w) = {}

FileInv ==
  FileTypeOK /\ TemporaryFiles /\ FileContent /\ FilesPlaced
    /\ A!ReadersSeeWhole /\ A!SecretsArePrivate

------------------------------------------------------------------------------

LEMMA FileInit ==
  ASSUME A!FileBounds, A!Init
  PROVE  FileInv
<1>1. PICK old \in {None}
                    \cup {[by |-> None, part |-> "whole", open |-> o] : o \in BOOLEAN},
           entry \in {"file", Link, Directory} :
        place = [p \in A!Places |-> IF entry = "file" /\ p = "path" THEN old
                                  ELSE IF p = "path" THEN entry
                                  ELSE IF entry = Link THEN old ELSE None]
  BY DEF A!Init
<1>2. /\ old = None \/ (old \in A!Files /\ old.by = None /\ old.part = "whole")
      /\ entry # "file" => entry \in {Link, Directory}
  BY DEF A!Files
<1>3. \A p \in A!Places : place[p] \in {old, None, Link, Directory}
  BY <1>1, <1>2 DEF A!Places
<1>4. \A p \in A!Places : A!IsFile(place[p]) => place[p] = old /\ old # None
  BY <1>3 DEF A!FileBounds, A!IsFile
<1>5. FileTypeOK
  BY <1>1, <1>2 DEF A!Init, FileTypeOK, A!Places, FileModes, WriterPhases
<1>6. TemporaryFiles /\ FileContent
  BY DEF A!Init, TemporaryFiles, FileContent
<1>7. \A w \in Writers : A!InPlace(w) = {}
  BY <1>2, <1>4 DEF A!InPlace, A!FileBounds
<1>8. A!ReadersSeeWhole
  BY <1>2, <1>4 DEF A!ReadersSeeWhole
<1>9. A!SecretsArePrivate
  BY <1>7 DEF A!SecretsArePrivate, A!Init
<1> QED
  BY <1>5, <1>6, <1>7, <1>8, <1>9 DEF FileInv, FilesPlaced

(* A step of one writer that leaves the places and the requests alone has to *)
(* keep what is said of its own temporary file.                              *)
LEMMA OwnFileKeeps ==
  ASSUME A!FileBounds, FileInv, NEW w \in Writers, FileTypeOK',
         UNCHANGED <<place, request>>, faults' >= faults,
         \A v \in Writers \ {w} : temp'[v] = temp[v] /\ phase'[v] = phase[v],
         phase[w] # "done",
         phase'[w] \in {"inspect", "resolve", "open"} => temp'[w] = None,
         phase'[w] \in {"write", "chmod", "rename"} => temp'[w] # None,
         phase'[w] = "failed" /\ faults' < 2 => temp'[w] = None,
         temp'[w] # None => temp'[w].by = w,
         temp'[w] # None /\ request[w].secret => ~temp'[w].open,
         phase'[w] # "done",
         phase'[w] \in {"chmod", "rename"} =>
           temp'[w].part = "whole" \/ (temp'[w].part = "short" /\ faults' > 0)
  PROVE  FileInv'
<1>1. faults \in Nat /\ faults' \in Nat
  BY DEF FileInv, FileTypeOK
<1>2. TemporaryFiles'
  BY <1>1 DEF FileInv, TemporaryFiles
<1>3. FileContent'
  BY <1>1 DEF FileInv, FileContent
<1>4. \A v \in Writers : A!InPlace(v)' = A!InPlace(v)
  BY DEF A!InPlace
<1>5. FilesPlaced'
  BY <1>4 DEF FileInv, FilesPlaced
<1>6. A!ReadersSeeWhole'
  BY <1>1 DEF FileInv, A!ReadersSeeWhole
<1>7. A!SecretsArePrivate'
  BY <1>4 DEF FileInv, A!SecretsArePrivate
<1> QED
  BY <1>2, <1>3, <1>5, <1>6, <1>7 DEF FileInv

LEMMA WriterFailureKeeps ==
  ASSUME A!FileBounds, FileInv, NEW w \in Writers, NEW n \in {0, 1}, A!FailsAfter(w, n),
         phase[w] \in WriterPhases \ {"done", "failed", "crashed"},
         n = 0 => temp[w] = None
  PROVE  FileInv'
<1>1. FileTypeOK'
  BY DEF A!FailsAfter, A!Goto, A!asked, FileInv, FileTypeOK, WriterPhases
<1>2. /\ phase'[w] = "failed" /\ faults' >= faults
      /\ faults' < 2 => temp'[w] = None
      /\ temp'[w] \in {None, temp[w]}
      /\ \A v \in Writers \ {w} : temp'[v] = temp[v] /\ phase'[v] = phase[v]
  BY DEF A!FailsAfter, A!Goto, FileInv, FileTypeOK
<1>3. UNCHANGED <<place, request>>
  BY DEF A!FailsAfter, A!asked
<1> QED
  BY <1>1, <1>2, <1>3, OwnFileKeeps DEF FileInv, TemporaryFiles, A!SecretsArePrivate

LEMMA WriterKeeps ==
  ASSUME A!FileBounds, FileInv, NEW w \in Writers,
         A!Inspect(w) \/ A!Resolve(w) \/ A!OpenTemp(w) \/ A!WriteTemp(w) \/ A!ChmodTemp(w)
           \/ A!Rename(w) \/ A!Crash(w)
  PROVE  FileInv'
<1>1. ASSUME phase[w] \in WriterPhases \ {"done", "failed", "crashed"}, A!CallFails(w)
      PROVE  FileInv'
  BY <1>1, WriterFailureKeeps DEF A!CallFails
<1>2. ASSUME phase[w] \in {"inspect", "resolve"}, A!Refused(w)
      PROVE  FileInv'
  BY <1>2, WriterFailureKeeps DEF A!Refused, FileInv, TemporaryFiles, WriterPhases
<1>3. ASSUME NEW p \in A!Places, phase[w] \in {"inspect", "resolve"}, A!Plan(w, p),
             UNCHANGED faults, place[p] \notin {Link, Directory}
      PROVE  FileInv'
  <2>1. FileTypeOK'
    BY <1>3 DEF A!Plan, A!Goto, A!ModeOf, FileInv, FileTypeOK, WriterPhases, FileModes
  <2>2. phase'[w] = "open" /\ \A v \in Writers \ {w} : phase'[v] = phase[v]
    BY <1>3 DEF A!Plan, A!Goto, FileInv, FileTypeOK
  <2> QED
    BY <1>3, <2>1, <2>2, OwnFileKeeps DEF A!Plan, FileInv, FileTypeOK, TemporaryFiles
<1>4. CASE A!Inspect(w)
  <2>1. CASE /\ phase[w] = "inspect" /\ A!Goto(w, "resolve")
             /\ UNCHANGED <<place, temp, A!asked, faults>>
    <3>1. FileTypeOK'
      BY <2>1 DEF A!Goto, A!asked, FileInv, FileTypeOK, WriterPhases
    <3>2. phase'[w] = "resolve" /\ \A v \in Writers \ {w} : phase'[v] = phase[v]
      BY <2>1 DEF A!Goto, FileInv, FileTypeOK
    <3> QED
      BY <2>1, <3>1, <3>2, OwnFileKeeps DEF A!asked, FileInv, FileTypeOK, TemporaryFiles
  <2> QED
    BY <1>1, <1>2, <1>3, <1>4, <2>1 DEF A!Inspect, A!Places, WriterPhases
<1>5. CASE A!Resolve(w)
  <2>1. CASE place["path"] # Link /\ A!Plan(w, "path") /\ UNCHANGED faults
    <3>1. FileTypeOK'
      BY <2>1 DEF A!Plan, A!Goto, A!ModeOf, FileInv, FileTypeOK, WriterPhases,
         FileModes, A!Places
    <3>2. phase'[w] = "open" /\ \A v \in Writers \ {w} : phase'[v] = phase[v]
      BY <2>1 DEF A!Plan, A!Goto, FileInv, FileTypeOK
    <3> QED
      BY <1>5, <2>1, <3>1, <3>2, OwnFileKeeps DEF A!Resolve, A!Plan, FileInv,
         FileTypeOK, TemporaryFiles
  <2>2. CASE A!Plan(w, "real") /\ UNCHANGED faults
    <3>1. FileTypeOK'
      BY <2>2 DEF A!Plan, A!Goto, A!ModeOf, FileInv, FileTypeOK, WriterPhases,
         FileModes, A!Places
    <3>2. phase'[w] = "open" /\ \A v \in Writers \ {w} : phase'[v] = phase[v]
      BY <2>2 DEF A!Plan, A!Goto, FileInv, FileTypeOK
    <3> QED
      BY <1>5, <2>2, <3>1, <3>2, OwnFileKeeps DEF A!Resolve, A!Plan, FileInv,
         FileTypeOK, TemporaryFiles
  <2> QED
    BY <1>1, <1>2, <1>5, <2>1, <2>2 DEF A!Resolve, WriterPhases
<1>6. CASE A!OpenTemp(w)
  <2>1. CASE /\ temp' = [temp EXCEPT ![w] =
                           [by |-> w, part |-> "empty",
                            open |-> ~A!Locked(w) /\ existing[w] # "private"]]
             /\ A!Goto(w, "write") /\ UNCHANGED <<place, A!asked, faults>>
    <3> DEFINE who == ~A!Locked(w) /\ existing[w] # "private"
    <3>0. who \in BOOLEAN /\ (request[w].secret => ~who)
      BY DEF A!Locked, FileInv, FileTypeOK, FileModes
    <3> temp'[w] = [by |-> w, part |-> "empty", open |-> who]
      BY <2>1 DEF FileInv, FileTypeOK
    <3> HIDE DEF who
    <3>1. temp'[w] \in A!Files /\ temp'[w] # None /\ temp'[w].by = w
      BY <3>0 DEF A!Files, A!FileBounds
    <3>2. request[w].secret => ~temp'[w].open
      BY <3>0
    <3>3. FileTypeOK'
      BY <2>1, <3>1 DEF A!Goto, A!asked, FileInv, FileTypeOK, WriterPhases
    <3>4. phase'[w] = "write"
          /\ \A v \in Writers \ {w} : temp'[v] = temp[v] /\ phase'[v] = phase[v]
      BY <2>1 DEF A!Goto, FileInv, FileTypeOK
    <3> QED
      BY <1>6, <2>1, <3>1, <3>2, <3>3, <3>4, OwnFileKeeps DEF A!OpenTemp, A!asked,
         FileInv, FileTypeOK
  <2> QED
    BY <1>1, <1>6, <2>1 DEF A!OpenTemp, WriterPhases
<1>7. CASE A!WriteTemp(w)
  <2>1. ASSUME NEW much \in {"whole", "short"},
               temp' = [temp EXCEPT ![w].part = much], A!Goto(w, "chmod"),
               UNCHANGED <<place, A!asked>>, faults' \in {faults, faults + 1},
               much = "short" => faults' > 0, phase[w] = "write"
        PROVE  FileInv'
    <3>1. /\ temp[w] \in A!Files /\ temp'[w] = [temp[w] EXCEPT !.part = much]
          /\ faults \in Nat
      BY <2>1 DEF FileInv, FileTypeOK, TemporaryFiles
    <3>2. /\ temp'[w] \in A!Files /\ temp'[w] # None /\ temp'[w].part = much
          /\ temp'[w].by = temp[w].by /\ temp'[w].open = temp[w].open
      BY <3>1 DEF A!Files, A!FileBounds
    <3>3. FileTypeOK'
      BY <2>1, <3>1, <3>2 DEF A!Goto, A!asked, FileInv, FileTypeOK, WriterPhases
    <3>4. phase'[w] = "chmod"
          /\ \A v \in Writers \ {w} : temp'[v] = temp[v] /\ phase'[v] = phase[v]
      BY <2>1 DEF A!Goto, FileInv, FileTypeOK
    <3>5. temp[w] # None /\ temp[w].by = w /\ (request[w].secret => ~temp[w].open)
      BY <2>1 DEF FileInv, TemporaryFiles, A!SecretsArePrivate
    <3> QED
      BY <2>1, <3>1, <3>2, <3>3, <3>4, <3>5, OwnFileKeeps DEF A!asked
  <2> QED
    BY <1>1, <1>7, <2>1 DEF A!WriteTemp, A!Faulty, FileInv, FileTypeOK, WriterPhases
<1>8. CASE A!ChmodTemp(w)
  <2>1. ASSUME NEW who \in BOOLEAN, temp' = [temp EXCEPT ![w].open = who],
               request[w].secret => ~who, A!Goto(w, "rename"),
               UNCHANGED <<place, A!asked, faults>>, phase[w] = "chmod"
        PROVE  FileInv'
    <3>1. /\ temp[w] \in A!Files /\ temp'[w] = [temp[w] EXCEPT !.open = who]
          /\ faults \in Nat
      BY <2>1 DEF FileInv, FileTypeOK, TemporaryFiles
    <3>2. /\ temp'[w] \in A!Files /\ temp'[w] # None /\ temp'[w].open = who
          /\ temp'[w].by = temp[w].by /\ temp'[w].part = temp[w].part
      BY <3>1 DEF A!Files, A!FileBounds
    <3>3. FileTypeOK'
      BY <2>1, <3>1, <3>2 DEF A!Goto, A!asked, FileInv, FileTypeOK, WriterPhases
    <3>4. phase'[w] = "rename"
          /\ \A v \in Writers \ {w} : temp'[v] = temp[v] /\ phase'[v] = phase[v]
      BY <2>1 DEF A!Goto, FileInv, FileTypeOK
    <3>5. /\ temp[w].by = w
          /\ temp[w].part = "whole" \/ (temp[w].part = "short" /\ faults > 0)
      BY <2>1 DEF FileInv, TemporaryFiles, FileContent
    <3> QED
      BY <2>1, <3>1, <3>2, <3>3, <3>4, <3>5, OwnFileKeeps DEF A!asked
  <2>2. ASSUME temp' = [temp EXCEPT ![w].open =
                          IF A!Locked(w) THEN FALSE
                          ELSE IF existing[w] # None THEN existing[w] = "shared" ELSE @],
               phase[w] = "chmod"
        PROVE  \E who \in BOOLEAN : /\ temp' = [temp EXCEPT ![w].open = who]
                                    /\ request[w].secret => ~who
    <3>1. temp[w] \in A!Files /\ temp[w].open \in BOOLEAN
      BY <2>2 DEF FileInv, FileTypeOK, TemporaryFiles, A!Files
    <3>2. CASE A!Locked(w)
      BY <2>2, <3>2
    <3>3. CASE ~A!Locked(w) /\ existing[w] # None
      BY <2>2, <3>3 DEF A!Locked
    <3>4. CASE ~A!Locked(w) /\ existing[w] = None
      BY <2>2, <3>1, <3>4 DEF A!Locked
    <3> QED
      BY <3>2, <3>3, <3>4
  <2> QED
    BY <1>1, <1>8, <2>1, <2>2 DEF A!ChmodTemp, WriterPhases
<1>9. CASE A!Rename(w)
  <2>1. CASE /\ place' = [place EXCEPT ![target[w]] = temp[w]]
             /\ temp' = [temp EXCEPT ![w] = None] /\ phase[w] = "rename"
             /\ A!Goto(w, "done") /\ UNCHANGED <<A!asked, faults>>
    <3>1. /\ temp[w] \in A!Files /\ temp[w].by = w
          /\ temp[w].part = "whole" \/ (temp[w].part = "short" /\ faults > 0)
          /\ request[w].secret => ~temp[w].open
      BY <2>1 DEF FileInv, FileTypeOK, TemporaryFiles, FileContent, A!SecretsArePrivate
    <3>2. \A p \in A!Places : place'[p] = place[p] \/ place'[p] = temp[w]
      BY <2>1 DEF FileInv, FileTypeOK
    <3>3. /\ temp'[w] = None /\ phase'[w] = "done"
          /\ \A v \in Writers \ {w} : temp'[v] = temp[v] /\ phase'[v] = phase[v]
          /\ UNCHANGED <<request, faults>>
      BY <2>1 DEF A!Goto, A!asked, FileInv, FileTypeOK
    <3>4. FileTypeOK'
      BY <2>1, <3>1 DEF A!Goto, A!asked, FileInv, FileTypeOK, WriterPhases
    <3>5. \A v \in Writers \ {w} : A!InPlace(v)' \subseteq A!InPlace(v)
      BY <3>1, <3>2 DEF A!InPlace
    <3>6. TemporaryFiles' /\ FileContent'
      BY <3>3 DEF FileInv, TemporaryFiles, FileContent
    <3>7. FilesPlaced'
      BY <3>3, <3>5 DEF FileInv, FilesPlaced
    <3>8. A!ReadersSeeWhole'
      BY <3>1, <3>2, <3>3 DEF FileInv, A!ReadersSeeWhole, A!IsFile
    <3>9. A!SecretsArePrivate'
      <4> SUFFICES ASSUME NEW v \in Writers, request[v].secret
                   PROVE  /\ temp'[v] # None => ~temp'[v].open
                          /\ \A p \in A!InPlace(v)' : ~place'[p].open
        BY <3>3 DEF A!SecretsArePrivate
      <4> QED
        BY <3>1, <3>2, <3>3, <3>5 DEF FileInv, A!SecretsArePrivate, A!InPlace
    <3> QED
      BY <3>4, <3>6, <3>7, <3>8, <3>9 DEF FileInv
  <2> QED
    BY <1>1, <1>9, <2>1 DEF A!Rename, WriterPhases
<1>10. CASE A!Crash(w)
  <2>1. FileTypeOK'
    BY <1>10 DEF A!Crash, A!Goto, A!asked, FileInv, FileTypeOK, WriterPhases
  <2>2. phase'[w] = "crashed" /\ \A v \in Writers \ {w} : phase'[v] = phase[v]
    BY <1>10 DEF A!Crash, A!Goto, FileInv, FileTypeOK
  <2> QED
    BY <1>10, <2>1, <2>2, OwnFileKeeps
       DEF A!Crash, A!asked, FileInv, FileTypeOK, TemporaryFiles, A!SecretsArePrivate
<1> QED
  BY <1>4, <1>5, <1>6, <1>7, <1>8, <1>9, <1>10

(* The file that is moved keeps its writer and its content.                  *)
LEMMA RelinkedKeeps ==
  ASSUME A!FileBounds, FileInv, A!Relinked
  PROVE  FileInv'
<1>1. /\ place'["path"] = Link /\ place'["real"] = place["path"]
      /\ UNCHANGED <<temp, phase, request, faults>>
  BY DEF A!Relinked, A!asked
<1>2. FileTypeOK'
  BY DEF A!Relinked, A!asked, FileInv, FileTypeOK, A!Places
<1>3. TemporaryFiles' /\ FileContent'
  BY <1>1 DEF FileInv, TemporaryFiles, FileContent
<1>4. \A p \in A!Places : A!IsFile(place'[p]) => p = "real" /\ place'[p] = place["path"]
  BY <1>1 DEF A!Places, A!IsFile, A!FileBounds
<1>5. \A v \in Writers : A!InPlace(v)' # {} => "path" \in A!InPlace(v)
  BY <1>4 DEF A!InPlace, A!Places
<1>6. FilesPlaced'
  BY <1>1, <1>5 DEF FileInv, FilesPlaced
<1>7. A!ReadersSeeWhole'
  BY <1>1, <1>4 DEF FileInv, A!ReadersSeeWhole, A!Places
<1>8. A!SecretsArePrivate'
  BY <1>1, <1>4, <1>5 DEF FileInv, A!SecretsArePrivate, A!InPlace
<1> QED
  BY <1>2, <1>3, <1>6, <1>7, <1>8 DEF FileInv

LEMMA FileInvariant ==
  ASSUME A!FileBounds
  PROVE  A!Spec => []FileInv
<1>1. A!Init => FileInv
  BY FileInit
<1>2. FileInv /\ [A!Next]_(A!vars) => FileInv'
  <2>1. CASE A!Next
    BY <2>1, WriterKeeps, RelinkedKeeps DEF A!Next
  <2>2. CASE UNCHANGED A!vars
    BY <2>2 DEF A!vars, A!asked, FileInv, FileTypeOK, TemporaryFiles, FileContent,
       FilesPlaced, A!ReadersSeeWhole,
                A!SecretsArePrivate, A!InPlace
  <2> QED
    BY <2>1, <2>2
<1> QED
  BY <1>1, <1>2, PTL DEF A!Spec

(* atomic-write.ts, for any number of writers of a path, killed anywhere and  *)
(* with any calls failing: a reader finds one whole content, a failed call    *)
(* leaves nothing behind and what is secret is never readable by others.      *)
THEOREM ReplacesAtomically ==
  ASSUME A!FileBounds
  PROVE  A!Spec => []A!AtomicReplace
<1>1. FileInv => A!AtomicReplace
  BY DEF FileInv, TemporaryFiles, FilesPlaced, A!AtomicReplace, A!FailuresLeaveNothing
<1> QED
  BY <1>1, FileInvariant, PTL

--------------------------------------------------------------------------------
(* Copies of a database (DatabaseCopy), for any number of commands, files,   *)
(* kills and faults. The argument is that databases only grow, so what a     *)
(* snapshot or a lineage says of the beginning of its source stays true.     *)

CopyStages == {"start", "pin", "backup", "migrate", "lineage", "publish", "clean", "done",
           "failed", "crashed"}

CopyTypeOK ==
  /\ db \in [Paths -> D!Ledgers \cup {None}]
  /\ stage \in [Copiers -> CopyStages]
  /\ from \in [Copiers -> Paths \cup {None}]
  /\ to \in [Copiers -> Paths \cup {None}]
  /\ snapshot \in [Copiers -> D!Ledgers \cup {None}]
  /\ partial \in [Copiers -> D!Ledgers \cup {None}]

Begins(s, t) == Len(s) <= Len(t) /\ \A i \in 1..Len(s) : s[i] = t[i]

(* A ledger has the first rows of the source its lineage names, as many as   *)
(* the lineage counts.                                                       *)
SoundLineage(d, x) ==
  x.lineage \in D!Lineages =>
    /\ d[x.lineage.source] # None
    /\ x.lineage.count <= Len(x.rows)
    /\ x.lineage.count <= Len(d[x.lineage.source].rows)
    /\ \A i \in 1..x.lineage.count : x.rows[i] = d[x.lineage.source].rows[i]

(* A command's snapshot is how its source began, and its copy has the rows of *)
(* the snapshot.                                                              *)
CopyCommand(d, at, f, t, s, p) ==
  /\ at = "start" => s = None
  /\ at = "pin" => f \in Paths
  /\ s # None => SoundLineage(d, s) /\ f \in Paths /\ d[f] # None /\ Begins(s.rows, d[f].rows)
  /\ p # None => SoundLineage(d, p)
  /\ at \in {"pin", "backup", "migrate", "lineage", "publish", "clean", "done"}
       => t \in Paths
  /\ at \in {"backup", "migrate", "lineage", "publish"} => s # None
  /\ at \in {"migrate", "lineage", "publish"} => p # None /\ p.rows = s.rows
  /\ at \in {"lineage", "publish"} => p.version = Latest
  /\ at = "publish" => p.lineage \in D!Lineages
  /\ at \in {"clean", "done"} => d[t] # None

CopyCommands ==
  \A c \in Copiers : CopyCommand(db, stage[c], from[c], to[c], snapshot[c], partial[c])

CopyDatabases ==
  \A p \in Paths : db[p] # None =>
    /\ SoundLineage(db, db[p])
    /\ p # Legacy => db[p].version = Latest /\ db[p].lineage \in D!Lineages

CopyInv == CopyTypeOK /\ CopyCommands /\ CopyDatabases /\ D!OnePublishes

-------------------------------------------------------------------------------

LEMMA CopyInit ==
  ASSUME D!CopyBounds, D!Init
  PROVE  CopyInv
<1>1. PICK version \in 0..(Latest + 1), lineage \in {None, Torn} :
        db = [p \in Paths |-> IF p = Legacy THEN D!Ledger(<<<<Legacy, 1>>>>, version, lineage)
                                            ELSE None]
  BY DEF D!Init
<1>2. D!Ledger(<<<<Legacy, 1>>>>, version, lineage) \in D!Ledgers
  <2>1. <<<<Legacy, 1>>>> \in Seq(D!Events)
    BY DEF D!CopyBounds, D!Events
  <2> QED
    BY <1>1, <2>1 DEF D!CopyBounds, D!Ledger, D!Ledgers
<1>3. CopyTypeOK
  BY <1>1, <1>2 DEF D!Init, CopyTypeOK, CopyStages
<1>4. CopyCommands
  BY DEF D!Init, CopyCommands, CopyCommand
<1>5. \A p \in Paths : db[p] # None => p = Legacy /\ db[p].lineage \notin D!Lineages
  BY <1>1 DEF D!CopyBounds, D!Ledger
<1>6. CopyDatabases
  BY <1>5 DEF CopyDatabases, SoundLineage
<1>7. D!OnePublishes
  BY DEF D!Init, D!OnePublishes
<1> QED
  BY <1>3, <1>4, <1>6, <1>7 DEF CopyInv

(* Databases only grow.                                                      *)
Grew(d, e) ==
  \A p \in Paths : d[p] # None => e[p] # None /\ Begins(d[p].rows, e[p].rows)

LEMMA Chained ==
  ASSUME NEW r \in Seq(D!Events), NEW s \in Seq(D!Events), NEW t \in Seq(D!Events),
         Begins(r, s), Begins(s, t)
  PROVE  Begins(r, t)
<1>1. Len(r) \in Nat /\ Len(s) \in Nat /\ Len(t) \in Nat
  OBVIOUS
<1>2. \A i \in 1..Len(r) : i \in 1..Len(s) /\ r[i] = s[i]
  BY <1>1 DEF Begins
<1>3. \A i \in 1..Len(s) : s[i] = t[i]
  BY DEF Begins
<1>4. Len(r) <= Len(t)
  BY <1>1 DEF Begins
<1> QED
  BY <1>2, <1>3, <1>4 DEF Begins

LEMMA BeginsItself ==
  ASSUME NEW s \in Seq(D!Events)
  PROVE  Begins(s, s)
  BY DEF Begins

LEMMA LedgerParts ==
  ASSUME NEW x \in D!Ledgers
  PROVE  /\ x.rows \in Seq(D!Events) /\ Len(x.rows) \in Nat /\ x.version \in Nat
         /\ x.lineage \in D!Lineages \cup {None, Torn}
         /\ x.lineage \in D!Lineages => x.lineage.source \in Paths /\ x.lineage.count \in Nat
  BY DEF D!Ledgers, D!Lineages

LEMMA SoundGrows ==
  ASSUME NEW d \in [Paths -> D!Ledgers \cup {None}], NEW e \in [Paths -> D!Ledgers \cup {None}],
         Grew(d, e), NEW x \in D!Ledgers, SoundLineage(d, x)
  PROVE  SoundLineage(e, x)
<1> SUFFICES ASSUME x.lineage \in D!Lineages
             PROVE  /\ e[x.lineage.source] # None
                    /\ x.lineage.count <= Len(x.rows)
                    /\ x.lineage.count <= Len(e[x.lineage.source].rows)
                    /\ \A i \in 1..x.lineage.count :
                         x.rows[i] = e[x.lineage.source].rows[i]
  BY DEF SoundLineage
<1> DEFINE s == x.lineage.source
           n == x.lineage.count
<1>1. s \in Paths /\ n \in Nat
  BY LedgerParts
<1>2. /\ d[s] # None /\ n <= Len(x.rows) /\ n <= Len(d[s].rows)
      /\ \A i \in 1..n : x.rows[i] = d[s].rows[i]
  BY DEF SoundLineage
<1>3. /\ e[s] # None /\ Len(d[s].rows) <= Len(e[s].rows)
      /\ \A i \in 1..Len(d[s].rows) : d[s].rows[i] = e[s].rows[i]
  BY <1>1, <1>2 DEF Grew, Begins
<1>4. Len(d[s].rows) \in Nat /\ Len(e[s].rows) \in Nat
  BY <1>1, <1>2, <1>3, LedgerParts
<1> HIDE DEF s, n
<1>5. n <= Len(e[s].rows) /\ \A i \in 1..n : x.rows[i] = e[s].rows[i]
  BY <1>1, <1>2, <1>3, <1>4
<1> QED
  BY <1>2, <1>3, <1>5 DEF s, n

LEMMA CopyCommandGrows ==
  ASSUME NEW d \in [Paths -> D!Ledgers \cup {None}], NEW e \in [Paths -> D!Ledgers \cup {None}],
         Grew(d, e), NEW at, NEW f, NEW t,
         NEW s \in D!Ledgers \cup {None}, NEW p \in D!Ledgers \cup {None},
         CopyCommand(d, at, f, t, s, p)
  PROVE  CopyCommand(e, at, f, t, s, p)
<1>1. s # None => SoundLineage(e, s)
  BY SoundGrows DEF CopyCommand
<1>2. p # None => SoundLineage(e, p)
  BY SoundGrows DEF CopyCommand
<1>3. ASSUME s # None
      PROVE  e[f] # None /\ Begins(s.rows, e[f].rows)
  <2>1. /\ f \in Paths /\ d[f] # None /\ e[f] # None
        /\ Begins(s.rows, d[f].rows) /\ Begins(d[f].rows, e[f].rows)
    BY <1>3 DEF CopyCommand, Grew
  <2>2. s.rows \in Seq(D!Events) /\ d[f].rows \in Seq(D!Events) /\ e[f].rows \in Seq(D!Events)
    <3>1. d[f] \in D!Ledgers /\ e[f] \in D!Ledgers /\ s \in D!Ledgers
      BY <1>3, <2>1
    <3> QED
      BY <3>1, LedgerParts
  <2> QED
    BY <2>1, <2>2, Chained
<1>4. at \in {"clean", "done"} => e[t] # None
  BY DEF CopyCommand, Grew
<1> QED
  BY <1>1, <1>2, <1>3, <1>4 DEF CopyCommand

(* A step of one command that leaves the databases alone.                    *)
LEMMA OwnCopyStep ==
  ASSUME D!CopyBounds, CopyInv, NEW c \in Copiers, CopyTypeOK', db' = db,
         \A k \in Copiers \ {c} :
           /\ stage'[k] = stage[k] /\ from'[k] = from[k] /\ to'[k] = to[k]
           /\ snapshot'[k] = snapshot[k] /\ partial'[k] = partial[k],
         CopyCommand(db, stage'[c], from'[c], to'[c], snapshot'[c], partial'[c]),
         stage'[c] \in {"clean", "done"} => stage[c] = "clean" /\ to'[c] = to[c]
  PROVE  CopyInv'
<1>1. CopyCommands'
  BY DEF CopyInv, CopyCommands
<1>2. CopyDatabases'
  BY DEF CopyInv, CopyDatabases
<1>3. D!OnePublishes'
  BY DEF CopyInv, D!OnePublishes
<1> QED
  BY <1>1, <1>2, <1>3 DEF CopyInv

LEMMA CopyFailureKeeps ==
  ASSUME D!CopyBounds, CopyInv, NEW c \in Copiers, D!Fails(c), stage[c] # "start"
  PROVE  CopyInv'
<1>1. CopyTypeOK'
  BY DEF D!Fails, D!Goto, D!plans, CopyInv, CopyTypeOK, CopyStages
<1>2. /\ stage'[c] = "failed" /\ partial'[c] = None
      /\ UNCHANGED <<db, from, to, snapshot>>
      /\ \A k \in Copiers \ {c} : stage'[k] = stage[k] /\ partial'[k] = partial[k]
  BY DEF D!Fails, D!Goto, D!plans, CopyInv, CopyTypeOK
<1>3. CopyCommand(db, stage[c], from[c], to[c], snapshot[c], partial[c])
  BY DEF CopyInv, CopyCommands
<1>4. CopyCommand(db, "failed", from[c], to[c], snapshot[c], None)
  BY <1>3 DEF CopyCommand
<1> QED
  BY <1>1, <1>2, <1>4, OwnCopyStep

LEMMA CopyCommandKeeps ==
  ASSUME D!CopyBounds, CopyInv, NEW c \in Copiers,
         D!Start(c) \/ D!Pin(c) \/ D!Backup(c) \/ D!MigrateCopy(c) \/ D!WriteLineage(c)
           \/ D!Clean(c) \/ D!CallFails(c) \/ D!Crash(c)
  PROVE  CopyInv'
<1>0. /\ CopyCommand(db, stage[c], from[c], to[c], snapshot[c], partial[c])
      /\ CopyTypeOK /\ CopyDatabases
  BY DEF CopyInv, CopyCommands
<1>1. CASE D!Start(c)
  <2>1. CopyTypeOK'
    BY <1>0, <1>1 DEF D!Start, D!Goto, CopyTypeOK, CopyStages
  <2>2. /\ stage[c] = "start" /\ stage'[c] \in {"failed", "pin"}
        /\ from'[c] \in Paths /\ to'[c] \in Paths
        /\ UNCHANGED <<db, snapshot, partial>>
        /\ \A k \in Copiers \ {c} :
             stage'[k] = stage[k] /\ from'[k] = from[k] /\ to'[k] = to[k]
    BY <1>0, <1>1 DEF D!Start, D!Goto, CopyTypeOK
  <2>3. CopyCommand(db, stage'[c], from'[c], to'[c], snapshot[c], partial[c])
    BY <1>0, <2>2 DEF CopyCommand
  <2> QED
    BY <2>1, <2>2, <2>3, OwnCopyStep
<1>2. CASE D!Pin(c)
  <2>1. CASE /\ stage[c] = "pin" /\ db[from[c]] # None
             /\ snapshot' = [snapshot EXCEPT ![c] = db[from[c]]]
             /\ D!Goto(c, "backup") /\ UNCHANGED <<db, from, to, partial>>
    <3>1. from[c] \in Paths /\ db[from[c]] \in D!Ledgers /\ SoundLineage(db, db[from[c]])
      BY <1>0, <2>1 DEF CopyCommand, CopyTypeOK, CopyDatabases
    <3>2. CopyTypeOK'
      BY <1>0, <2>1, <3>1 DEF D!Goto, CopyTypeOK, CopyStages
    <3>3. /\ stage'[c] = "backup" /\ snapshot'[c] = db[from[c]]
          /\ \A k \in Copiers \ {c} : stage'[k] = stage[k] /\ snapshot'[k] = snapshot[k]
      BY <1>0, <2>1 DEF D!Goto, CopyTypeOK
    <3>4. Begins(db[from[c]].rows, db[from[c]].rows)
      BY <3>1, LedgerParts DEF Begins
    <3>5. CopyCommand(db, "backup", from[c], to[c], db[from[c]], partial[c])
      BY <1>0, <2>1, <3>1, <3>4 DEF CopyCommand
    <3> QED
      BY <2>1, <3>2, <3>3, <3>5, OwnCopyStep
  <2> QED
    BY <1>2, <2>1, CopyFailureKeeps DEF D!Pin
<1>3. CASE D!Backup(c)
  <2>1. CopyTypeOK'
    BY <1>0, <1>3 DEF D!Backup, D!Goto, D!plans, CopyTypeOK, CopyStages
  <2>2. /\ stage[c] = "backup" /\ stage'[c] = "migrate" /\ partial'[c] = snapshot[c]
        /\ UNCHANGED <<db, from, to, snapshot>>
        /\ \A k \in Copiers \ {c} : stage'[k] = stage[k] /\ partial'[k] = partial[k]
    BY <1>0, <1>3 DEF D!Backup, D!Goto, D!plans, CopyTypeOK
  <2>3. CopyCommand(db, "migrate", from[c], to[c], snapshot[c], snapshot[c])
    BY <1>0, <2>2 DEF CopyCommand
  <2> QED
    BY <2>1, <2>2, <2>3, OwnCopyStep
<1>4. CASE D!MigrateCopy(c)
  <2>0. /\ stage[c] = "migrate" /\ partial[c] \in D!Ledgers /\ partial[c].version \in Nat
    BY <1>0, <1>4, LedgerParts DEF D!MigrateCopy, CopyCommand, CopyTypeOK
  <2>1. CASE /\ partial' = [partial EXCEPT ![c].version = @ + 1]
             /\ UNCHANGED <<db, stage, D!plans>>
    <3>1. partial'[c] = [partial[c] EXCEPT !.version = @ + 1]
      BY <1>0, <2>1 DEF CopyTypeOK
    <3>2. /\ partial'[c] \in D!Ledgers /\ partial'[c].rows = partial[c].rows
          /\ partial'[c].lineage = partial[c].lineage
      BY <2>0, <3>1 DEF D!Ledgers
    <3>3. CopyTypeOK'
      BY <1>0, <2>1, <3>2 DEF D!plans, CopyTypeOK
    <3>4. CopyCommand(db, "migrate", from[c], to[c], snapshot[c], partial'[c])
      BY <1>0, <2>0, <3>2, LedgerParts DEF CopyCommand, D!CopyBounds, SoundLineage
    <3>5. \A k \in Copiers \ {c} : partial'[k] = partial[k]
      BY <1>0, <2>1 DEF CopyTypeOK
    <3> QED
      BY <2>0, <2>1, <3>3, <3>4, <3>5, OwnCopyStep DEF D!plans
  <2>2. CASE /\ partial[c].version = Latest /\ D!Goto(c, "lineage")
             /\ UNCHANGED <<db, partial, D!plans>>
    <3>1. CopyTypeOK'
      BY <1>0, <2>2 DEF D!Goto, D!plans, CopyTypeOK, CopyStages
    <3>2. stage'[c] = "lineage" /\ \A k \in Copiers \ {c} : stage'[k] = stage[k]
      BY <1>0, <2>2 DEF D!Goto, CopyTypeOK
    <3>3. CopyCommand(db, "lineage", from[c], to[c], snapshot[c], partial[c])
      BY <1>0, <2>0, <2>2 DEF CopyCommand
    <3> QED
      BY <2>2, <3>1, <3>2, <3>3, OwnCopyStep DEF D!plans
  <2> QED
    BY <1>4, <2>1, <2>2, CopyFailureKeeps DEF D!MigrateCopy
<1>5. CASE D!WriteLineage(c)
  <2>1. CASE /\ stage[c] = "lineage" /\ partial[c].lineage # Torn
             /\ partial' = [partial EXCEPT ![c].lineage = D!LineageOf(c)]
             /\ D!Goto(c, "publish") /\ UNCHANGED <<db, D!plans>>
    <3>1. /\ partial[c] \in D!Ledgers /\ snapshot[c] \in D!Ledgers /\ from[c] \in Paths
          /\ db[from[c]] # None /\ Begins(snapshot[c].rows, db[from[c]].rows)
          /\ partial[c].rows = snapshot[c].rows /\ partial[c].version = Latest
      BY <1>0, <2>1 DEF CopyCommand, CopyTypeOK
    <3>2. D!TailOf(snapshot[c]) \in D!Events \cup {None}
      <4>1. snapshot[c].rows \in Seq(D!Events)
        BY <3>1, LedgerParts
      <4> QED
        BY <4>1 DEF D!TailOf, D!Last
    <3>3. /\ D!LineageOf(c) \in D!Lineages
          /\ D!LineageOf(c).source = from[c]
          /\ D!LineageOf(c).count = Len(snapshot[c].rows)
      <4>1. partial[c].lineage = None \/ partial[c].lineage.source \in Paths
        BY <2>1, <3>1, LedgerParts
      <4>2. Len(snapshot[c].rows) \in Nat
        BY <3>1, LedgerParts
      <4> QED
        BY <3>1, <3>2, <4>1, <4>2 DEF D!LineageOf, D!Lineages
    <3>4. partial'[c] = [partial[c] EXCEPT !.lineage = D!LineageOf(c)]
      BY <1>0, <2>1 DEF CopyTypeOK
    <3>5. /\ partial'[c] \in D!Ledgers /\ partial'[c].rows = snapshot[c].rows
          /\ partial'[c].version = Latest /\ partial'[c].lineage = D!LineageOf(c)
      BY <3>1, <3>3, <3>4 DEF D!Ledgers
    <3>6. CopyTypeOK'
      BY <1>0, <2>1, <3>5 DEF D!Goto, D!plans, CopyTypeOK, CopyStages
    <3>7. SoundLineage(db, partial'[c])
      BY <3>1, <3>3, <3>5, LedgerParts DEF SoundLineage, Begins
    <3>8. CopyCommand(db, "publish", from[c], to[c], snapshot[c], partial'[c])
      BY <1>0, <2>1, <3>3, <3>5, <3>7 DEF CopyCommand, D!CopyBounds
    <3>9. /\ stage'[c] = "publish"
          /\ \A k \in Copiers \ {c} : stage'[k] = stage[k] /\ partial'[k] = partial[k]
      BY <1>0, <2>1 DEF D!Goto, CopyTypeOK
    <3> QED
      BY <2>1, <3>6, <3>8, <3>9, OwnCopyStep DEF D!plans
  <2> QED
    BY <1>5, <2>1, CopyFailureKeeps DEF D!WriteLineage
<1>6. CASE D!Clean(c)
  <2>1. CopyTypeOK'
    BY <1>0, <1>6 DEF D!Clean, D!Goto, D!plans, CopyTypeOK, CopyStages
  <2>2. /\ stage[c] = "clean" /\ stage'[c] = "done" /\ partial'[c] = None
        /\ UNCHANGED <<db, from, to, snapshot>>
        /\ \A k \in Copiers \ {c} : stage'[k] = stage[k] /\ partial'[k] = partial[k]
    BY <1>0, <1>6 DEF D!Clean, D!Goto, D!plans, CopyTypeOK
  <2>3. CopyCommand(db, "done", from[c], to[c], snapshot[c], None)
    BY <1>0, <2>2 DEF CopyCommand
  <2> QED
    BY <2>1, <2>2, <2>3, OwnCopyStep
<1>7. CASE D!CallFails(c)
  BY <1>7, CopyFailureKeeps DEF D!CallFails, D!Running
<1>8. CASE D!Crash(c)
  <2>1. CopyTypeOK'
    BY <1>0, <1>8 DEF D!Crash, D!Goto, D!plans, CopyTypeOK, CopyStages
  <2>2. /\ stage'[c] = "crashed" /\ UNCHANGED <<db, from, to, snapshot, partial>>
        /\ \A k \in Copiers \ {c} : stage'[k] = stage[k]
    BY <1>0, <1>8 DEF D!Crash, D!Goto, D!plans, CopyTypeOK
  <2>3. CopyCommand(db, "crashed", from[c], to[c], snapshot[c], partial[c])
    BY <1>0 DEF CopyCommand
  <2> QED
    BY <2>1, <2>2, <2>3, OwnCopyStep
<1> QED
  BY <1>1, <1>2, <1>3, <1>4, <1>5, <1>6, <1>7, <1>8

(* A step that puts a database in place or lets one grow.                    *)
LEMMA CopyLinkKeeps ==
  ASSUME D!CopyBounds, CopyInv, NEW c \in Copiers, D!Publish(c)
  PROVE  CopyInv'
<1>0. /\ CopyCommand(db, stage[c], from[c], to[c], snapshot[c], partial[c])
      /\ CopyTypeOK /\ CopyDatabases /\ stage[c] = "publish"
  BY DEF CopyInv, CopyCommands, D!Publish
<1>1. CASE /\ db[to[c]] = None
           /\ db' = [db EXCEPT ![to[c]] = partial[c]]
           /\ D!Goto(c, "clean") /\ UNCHANGED <<D!plans, partial>>
  <2>1. /\ to[c] \in Paths /\ partial[c] \in D!Ledgers /\ SoundLineage(db, partial[c])
        /\ partial[c].version = Latest /\ partial[c].lineage \in D!Lineages
    BY <1>0 DEF CopyCommand, CopyTypeOK
  <2>2. CopyTypeOK'
    BY <1>0, <1>1, <2>1 DEF D!Goto, D!plans, CopyTypeOK, CopyStages
  <2>3. /\ db'[to[c]] = partial[c] /\ \A p \in Paths \ {to[c]} : db'[p] = db[p]
        /\ stage'[c] = "clean" /\ \A k \in Copiers \ {c} : stage'[k] = stage[k]
        /\ UNCHANGED <<from, to, snapshot, partial>>
    BY <1>0, <1>1, <2>1 DEF D!Goto, D!plans, CopyTypeOK
  <2>4. \A p \in Paths : db[p] # None => db[p] \in D!Ledgers /\ db'[p] = db[p]
    BY <1>0, <1>1, <2>3 DEF CopyTypeOK
  <2>5. Grew(db, db')
    BY <2>4, LedgerParts DEF Grew, Begins
  <2>6. db \in [Paths -> D!Ledgers \cup {None}] /\ db' \in [Paths -> D!Ledgers \cup {None}]
    BY <1>0, <2>2 DEF CopyTypeOK
  <2>7. CopyDatabases'
    <3> SUFFICES ASSUME NEW p \in Paths, db'[p] # None
                 PROVE  /\ SoundLineage(db', db'[p])
                        /\ p # Legacy => db'[p].version = Latest
                                         /\ db'[p].lineage \in D!Lineages
      BY DEF CopyDatabases
    <3>1. /\ db'[p] \in D!Ledgers /\ SoundLineage(db, db'[p])
          /\ p # Legacy => db'[p].version = Latest /\ db'[p].lineage \in D!Lineages
      BY <1>0, <2>1, <2>3, <2>6 DEF CopyDatabases
    <3> QED
      BY <2>5, <2>6, <3>1, SoundGrows
  <2>8. CopyCommands'
    <3>1. \A k \in Copiers :
            /\ CopyCommand(db, stage[k], from[k], to[k], snapshot[k], partial[k])
            /\ snapshot[k] \in D!Ledgers \cup {None} /\ partial[k] \in D!Ledgers \cup {None}
      BY <1>0 DEF CopyInv, CopyCommands, CopyTypeOK
    <3>2. \A k \in Copiers :
            CopyCommand(db', stage[k], from[k], to[k], snapshot[k], partial[k])
      BY <2>5, <2>6, <3>1, CopyCommandGrows
    <3>3. CopyCommand(db', "clean", from[c], to[c], snapshot[c], partial[c])
      BY <1>0, <2>1, <2>3, <3>2 DEF CopyCommand, D!CopyBounds
    <3> QED
      BY <2>3, <3>2, <3>3 DEF CopyCommands
  <2>9. \A e \in Copiers : stage[e] \in {"clean", "done"} => to[e] # to[c]
    BY <1>1 DEF CopyInv, CopyCommands, CopyCommand
  <2>10. D!OnePublishes'
    BY <2>3, <2>9 DEF CopyInv, D!OnePublishes
  <2> QED
    BY <2>2, <2>7, <2>8, <2>10 DEF CopyInv
<1> QED
  BY <1>0, <1>1, CopyFailureKeeps DEF D!Publish

LEMMA CopyRecordKeeps ==
  ASSUME D!CopyBounds, CopyInv, NEW p \in Paths, D!Record(p)
  PROVE  CopyInv'
<1> DEFINE row == <<p, Len(db[p].rows) + 1>>
<1>0. /\ CopyTypeOK /\ CopyDatabases /\ db[p] # None /\ db[p] \in D!Ledgers
      /\ db' = [db EXCEPT ![p].rows = Append(@, row)]
      /\ UNCHANGED <<stage, from, to, snapshot, partial>>
  BY DEF CopyInv, CopyTypeOK, D!Record, D!plans
<1>1. db[p].rows \in Seq(D!Events) /\ row \in D!Events
  BY <1>0, LedgerParts DEF D!Events
<1>2. /\ db'[p] = [db[p] EXCEPT !.rows = Append(db[p].rows, row)]
      /\ \A q \in Paths \ {p} : db'[q] = db[q]
  BY <1>0 DEF CopyTypeOK
<1> HIDE DEF row
<1>3. Append(db[p].rows, row) \in Seq(D!Events) /\ Begins(db[p].rows, Append(db[p].rows, row))
  BY <1>1 DEF Begins
<1>4. /\ db'[p] \in D!Ledgers /\ db'[p].rows = Append(db[p].rows, row)
      /\ db'[p].version = db[p].version /\ db'[p].lineage = db[p].lineage
  BY <1>0, <1>2, <1>3, ZenonT(30) DEF D!Ledgers
<1>5. CopyTypeOK'
  BY <1>0, <1>4 DEF CopyTypeOK
<1>6. db \in [Paths -> D!Ledgers \cup {None}] /\ db' \in [Paths -> D!Ledgers \cup {None}]
  BY <1>0, <1>5 DEF CopyTypeOK
<1>7. \A q \in Paths : db[q] # None =>
        db'[q] # None /\ db'[q] \in D!Ledgers /\ Begins(db[q].rows, db'[q].rows)
  <2> SUFFICES ASSUME NEW q \in Paths, db[q] # None
               PROVE  db'[q] # None /\ db'[q] \in D!Ledgers /\ Begins(db[q].rows, db'[q].rows)
    OBVIOUS
  <2>1. CASE q = p
    BY <1>3, <1>4, <2>1 DEF D!CopyBounds
  <2>2. CASE q # p
    BY <1>2, <1>6, <2>2, LedgerParts, BeginsItself
  <2> QED
    BY <2>1, <2>2
<1>8. Grew(db, db')
  BY <1>7 DEF Grew
<1>9. SoundLineage(db, db'[p])
  BY <1>0, <1>1, <1>3, <1>4, LedgerParts DEF CopyDatabases, SoundLineage, Begins
<1>10. CopyDatabases'
  <2>1. \A q \in Paths : db'[q] # None =>
          /\ db'[q] \in D!Ledgers /\ SoundLineage(db, db'[q])
          /\ q # Legacy => db'[q].version = Latest /\ db'[q].lineage \in D!Lineages
    BY <1>0, <1>2, <1>4, <1>6, <1>9 DEF CopyDatabases
  <2>2. \A q \in Paths : db'[q] # None => SoundLineage(db', db'[q])
    BY <1>6, <1>8, <2>1, SoundGrows
  <2> QED
    BY <2>1, <2>2 DEF CopyDatabases
<1>11. CopyCommands'
  <2>1. \A k \in Copiers :
          /\ CopyCommand(db, stage[k], from[k], to[k], snapshot[k], partial[k])
          /\ snapshot[k] \in D!Ledgers \cup {None} /\ partial[k] \in D!Ledgers \cup {None}
    BY DEF CopyInv, CopyCommands, CopyTypeOK
  <2>2. \A k \in Copiers :
          CopyCommand(db', stage[k], from[k], to[k], snapshot[k], partial[k])
    BY <1>6, <1>8, <2>1, CopyCommandGrows
  <2> QED
    BY <1>0, <2>2 DEF CopyCommands
<1>12. D!OnePublishes'
  BY <1>0 DEF CopyInv, D!OnePublishes
<1> QED
  BY <1>5, <1>10, <1>11, <1>12 DEF CopyInv

LEMMA CopyInvariant ==
  ASSUME D!CopyBounds
  PROVE  D!Spec => []CopyInv
<1>1. D!Init => CopyInv
  BY CopyInit
<1>2. CopyInv /\ [D!Next]_(D!vars) => CopyInv'
  <2>1. CASE D!Next
    BY <2>1, CopyCommandKeeps, CopyLinkKeeps, CopyRecordKeeps DEF D!Next
  <2>2. CASE UNCHANGED D!vars
    BY <2>2 DEF D!vars, D!plans, CopyInv, CopyTypeOK, CopyCommands, CopyDatabases,
       D!OnePublishes
  <2> QED
    BY <2>1, <2>2
<1> QED
  BY <1>1, <1>2, PTL DEF D!Spec

(* copy-database.ts and copy-lineage.ts: whatever fails or is killed, a       *)
(* published copy is whole, of the commands that race for a path one          *)
(* publishes, and what a cutover is told is complete has every event.         *)
THEOREM CopyIsFaithful ==
  ASSUME D!CopyBounds
  PROVE  D!Spec => []D!CopiesAreFaithful
<1>1. ASSUME CopyInv, NEW s \in Paths, NEW d \in Paths, D!Vouched(s, d)
      PROVE  D!ToSet(db[s].rows) \subseteq D!ToSet(db[d].rows)
  <2>1. /\ db[s] # None /\ db[s] \in D!Ledgers /\ db[d] # None /\ db[d] \in D!Ledgers
        /\ db[d].lineage \in D!Lineages /\ db[d].lineage.source = s
        /\ db[d].lineage.count = Len(db[s].rows) /\ SoundLineage(db, db[d])
    BY <1>1, LedgerParts DEF D!Vouched, CopyInv, CopyTypeOK, CopyDatabases
  <2>2. /\ Len(db[s].rows) <= Len(db[d].rows)
        /\ \A i \in 1..Len(db[s].rows) : db[s].rows[i] = db[d].rows[i]
    BY <2>1 DEF SoundLineage
  <2>3. db[s].rows \in Seq(D!Events) /\ db[d].rows \in Seq(D!Events)
    BY <2>1, LedgerParts
  <2>4. Len(db[s].rows) \in Nat /\ Len(db[d].rows) \in Nat
    BY <2>3
  <2>5. ASSUME NEW i \in 1..Len(db[s].rows)
        PROVE  i \in 1..Len(db[d].rows) /\ db[s].rows[i] = db[d].rows[i]
    BY <2>2, <2>4
  <2>6. /\ D!ToSet(db[s].rows) = {db[s].rows[i] : i \in 1..Len(db[s].rows)}
        /\ D!ToSet(db[d].rows) = {db[d].rows[i] : i \in 1..Len(db[d].rows)}
    BY <2>3 DEF D!ToSet
  <2> QED
    BY <2>5, <2>6
<1>2. CopyInv => D!PublishedIsWhole
  <2> SUFFICES ASSUME CopyInv, NEW p \in Paths \ {Legacy}, db[p] # None
               PROVE  D!Accepts(p) /\ Len(db[p].rows) >= db[p].lineage.count
    BY DEF D!PublishedIsWhole
  <2>1. /\ db[p] \in D!Ledgers /\ db[p].version = Latest /\ db[p].lineage \in D!Lineages
        /\ SoundLineage(db, db[p])
    BY DEF CopyInv, CopyTypeOK, CopyDatabases
  <2> QED
    BY <2>1, LedgerParts DEF SoundLineage, D!Accepts, D!CopyBounds
<1>3. CopyInv => D!CopiesAreFaithful
  BY <1>1, <1>2 DEF D!CopiesAreFaithful, D!VouchedIsComplete, CopyInv
<1> QED
  BY <1>3, CopyInvariant, PTL

--------------------------------------------------------------------------------
(* The daemon between its locks (ContextRuntime), for any number of adapters *)
(* and failures. Each part of the invariant ties where start or stop is to   *)
(* what the adapters are then: those before the runner's turn have caught    *)
(* up, those behind it while stopping are at rest, and what is said of an    *)
(* adapter without a handle is the runner's.                                 *)

RuntimeTypeOK ==
  /\ life \in {"storage", "mcp", "adapter", "starting", "catchUp", "running",
                "stopping", "failing", "closed"}
  /\ enabled \subseteq R!Ids /\ caught \subseteq R!Ids /\ writing \subseteq R!Ids
  /\ component \in [R!Ids -> R!Healths \cup {None, "stopping"}]
  /\ health \in [R!Ids -> R!Healths \cup {None}]
  /\ turn \in 0..(Len(Adapters) + 1)

(* The daemon is called healthy only while it runs, on an open ledger.        *)
RuntimeOrder ==
  /\ status = "healthy" => life = "running"
  /\ life \in {"mcp", "adapter", "starting", "catchUp", "running", "stopping"}
       => storage = "open"
  /\ life \in {"storage", "mcp"} => turn = 1
  /\ life = "running" => turn = Len(Adapters) + 1
  /\ life \in {"starting", "catchUp"} => turn \in 1..Len(Adapters)
  /\ life \in {"storage", "mcp", "adapter", "starting", "catchUp", "running"} => turn > 0
  /\ life = "catchUp" => health[Adapters[turn]] # None
  /\ life \in R!Ending => turn <= Len(Adapters)
  /\ life = "closed" => turn = 0

(* What was begun before the runner's turn has caught up.                     *)
AdaptersBehind ==
  life \in {"adapter", "starting", "catchUp", "running"} =>
    \A i \in 1..Len(Adapters) : i < turn /\ Adapters[i] \in enabled =>
      Adapters[i] \in caught /\ health[Adapters[i]] # None

(* An adapter without a handle does not write and is not said to be healthy,  *)
(* one that is healthy has caught up.                                         *)
AdapterHandles ==
  \A x \in R!Ids :
    /\ health[x] = None => x \notin writing
    /\ health[x] = None /\ x \in enabled => component[x] # "healthy"
    /\ health[x] = "healthy" => x \in caught

(* The handles that stop has been through are stopped, and nobody writes      *)
(* behind them but one whose stop has thrown.                                 *)
AdaptersRested ==
  life \in R!Ending \cup {"closed"} =>
    \A i \in 1..Len(Adapters) : i > turn =>
      /\ health[Adapters[i]] \in {None, "stopped"}
      /\ Adapters[i] \in writing => Adapters[i] \in unstopped

(* A ledger that was never opened had no adapters.                            *)
LedgerNeverOpened ==
  storage = "closed" /\ life # "closed" =>
    life \in {"storage", "failing"} /\ \A x \in R!Ids : health[x] = None

AdaptersInTurn ==
  \A i, j \in 1..Len(Adapters) : i < j /\ health[Adapters[j]] # None /\ Adapters[i] \in enabled
    => Adapters[i] \in caught

RuntimeInv ==
  /\ RuntimeTypeOK /\ RuntimeOrder /\ AdaptersBehind /\ AdapterHandles /\ AdaptersRested
  /\ LedgerNeverOpened /\ AdaptersInTurn

(* How adapters are registered.                                              *)
LEMMA Registrations ==
  ASSUME R!RuntimeBounds
  PROVE  /\ Len(Adapters) \in Nat /\ DOMAIN Adapters = 1..Len(Adapters)
         /\ \A i \in 1..Len(Adapters) : Adapters[i] \in R!Ids
         /\ \A x \in R!Ids : \E i \in 1..Len(Adapters) : x = Adapters[i]
         /\ \A i, j \in 1..Len(Adapters) : Adapters[i] = Adapters[j] => i = j
         /\ None \notin R!Healths
  BY DEF R!RuntimeBounds, R!Ids

LEMMA RuntimeInit ==
  ASSUME R!RuntimeBounds, R!Init
  PROVE  RuntimeInv
<1>1. RuntimeTypeOK /\ RuntimeOrder
  BY Registrations DEF R!Init, RuntimeTypeOK, RuntimeOrder, R!Ending, R!Healths
<1>2. AdaptersBehind /\ AdaptersRested
  BY DEF R!Init, AdaptersBehind, AdaptersRested, R!Ending
<1>3. \A x \in R!Ids : health[x] = None /\ x \notin writing /\ component[x] = None
  BY DEF R!Init
<1>4. AdapterHandles /\ LedgerNeverOpened
  BY <1>3, Registrations DEF R!Init, AdapterHandles, LedgerNeverOpened, R!Healths
<1>5. AdaptersInTurn
  BY <1>3, Registrations DEF AdaptersInTurn
<1> QED
  BY <1>1, <1>2, <1>4, <1>5 DEF RuntimeInv

(* Abbreviations that say nothing by themselves.                             *)
USE DEF R!Healths, R!Ending, R!adapters, R!Current

LEMMA RuntimeStepKeeps ==
  ASSUME R!RuntimeBounds, RuntimeInv, R!Runtime
  PROVE  RuntimeInv'
<1>1. CASE R!OpenStorage
  BY <1>1, Registrations
     DEF R!OpenStorage, RuntimeInv, RuntimeTypeOK, RuntimeOrder, AdaptersBehind,
         AdapterHandles, AdaptersRested, LedgerNeverOpened, AdaptersInTurn
<1>2. CASE R!Listen
  BY <1>2, Registrations
     DEF R!Listen, RuntimeInv, RuntimeTypeOK, RuntimeOrder, AdaptersBehind,
         AdapterHandles, AdaptersRested, LedgerNeverOpened, AdaptersInTurn
<1>3. CASE R!NextAdapter
  BY <1>3, Registrations
     DEF R!NextAdapter, RuntimeInv, RuntimeTypeOK, RuntimeOrder, AdaptersBehind,
         AdapterHandles, AdaptersRested, LedgerNeverOpened, AdaptersInTurn
<1>4. CASE R!StartAdapter
  BY <1>4, Registrations
     DEF R!StartAdapter, RuntimeInv, RuntimeTypeOK, RuntimeOrder, AdaptersBehind,
         AdapterHandles, AdaptersRested, LedgerNeverOpened, AdaptersInTurn
<1>5. CASE R!CaughtUp
  BY <1>5, Registrations
     DEF R!CaughtUp, R!Observed, RuntimeInv, RuntimeTypeOK, RuntimeOrder, AdaptersBehind,
         AdapterHandles, AdaptersRested, LedgerNeverOpened, AdaptersInTurn
<1>6. CASE R!Started
  BY <1>6, Registrations
     DEF R!Started, RuntimeInv, RuntimeTypeOK, RuntimeOrder, AdaptersBehind,
         AdapterHandles, AdaptersRested, LedgerNeverOpened, AdaptersInTurn
<1>7. CASE R!StartFails
  BY <1>7, Registrations
     DEF R!StartFails, RuntimeInv, RuntimeTypeOK, RuntimeOrder, AdaptersBehind,
         AdapterHandles, AdaptersRested, LedgerNeverOpened, AdaptersInTurn
<1>8. CASE R!Stop
  BY <1>8, Registrations
     DEF R!Stop, RuntimeInv, RuntimeTypeOK, RuntimeOrder, AdaptersBehind,
         AdapterHandles, AdaptersRested, LedgerNeverOpened, AdaptersInTurn
<1>9. CASE R!StopAdapter
  BY <1>9, Registrations
     DEF R!StopAdapter, RuntimeInv, RuntimeTypeOK, RuntimeOrder, AdaptersBehind,
         AdapterHandles, AdaptersRested, LedgerNeverOpened, AdaptersInTurn
<1>10. CASE R!AdapterStopped
  BY <1>10, Registrations
     DEF R!AdapterStopped, RuntimeInv, RuntimeTypeOK, RuntimeOrder, AdaptersBehind,
         AdapterHandles, AdaptersRested, LedgerNeverOpened, AdaptersInTurn
<1>11. CASE R!StopThrows
  BY <1>11, Registrations
     DEF R!StopThrows, RuntimeInv, RuntimeTypeOK, RuntimeOrder, AdaptersBehind,
         AdapterHandles, AdaptersRested, LedgerNeverOpened, AdaptersInTurn
<1>12. CASE R!CloseMcp
  BY <1>12, Registrations
     DEF R!CloseMcp, RuntimeInv, RuntimeTypeOK, RuntimeOrder, AdaptersBehind,
         AdapterHandles, AdaptersRested, LedgerNeverOpened, AdaptersInTurn
<1>13. CASE R!CloseStorage
  BY <1>13, Registrations
     DEF R!CloseStorage, RuntimeInv, RuntimeTypeOK, RuntimeOrder, AdaptersBehind,
         AdapterHandles, AdaptersRested, LedgerNeverOpened, AdaptersInTurn
<1> QED
  BY <1>1, <1>2, <1>3, <1>4, <1>5, <1>6, <1>7, <1>8, <1>9, <1>10, <1>11, <1>12, <1>13
     DEF R!Runtime

LEMMA ExtractorStepKeeps ==
  ASSUME R!RuntimeBounds, RuntimeInv, NEW x \in R!Ids, R!Extractor(x)
  PROVE  RuntimeInv'
<1>0. UNCHANGED <<life, enabled, status, component, turn, unstopped, storage>>
  BY DEF R!Extractor
<1>1. CASE R!Scans(x)
  BY <1>0, <1>1, Registrations
     DEF R!Scans, RuntimeInv, RuntimeTypeOK, RuntimeOrder, AdaptersBehind,
         AdapterHandles, AdaptersRested, LedgerNeverOpened, AdaptersInTurn
<1>2. CASE R!Settles(x)
  BY <1>0, <1>2, Registrations
     DEF R!Settles, R!Unless, RuntimeInv, RuntimeTypeOK, RuntimeOrder, AdaptersBehind,
         AdapterHandles, AdaptersRested, LedgerNeverOpened, AdaptersInTurn
<1>3. CASE R!HandlerBegins(x)
  BY <1>0, <1>3, Registrations
     DEF R!HandlerBegins, RuntimeInv, RuntimeTypeOK, RuntimeOrder, AdaptersBehind,
         AdapterHandles, AdaptersRested, LedgerNeverOpened, AdaptersInTurn
<1>4. CASE R!HandlerEnds(x)
  BY <1>0, <1>4, Registrations
     DEF R!HandlerEnds, RuntimeInv, RuntimeTypeOK, RuntimeOrder, AdaptersBehind,
         AdapterHandles, AdaptersRested, LedgerNeverOpened, AdaptersInTurn
<1>5. CASE R!Fails(x)
  BY <1>0, <1>5, Registrations
     DEF R!Fails, RuntimeInv, RuntimeTypeOK, RuntimeOrder, AdaptersBehind,
         AdapterHandles, AdaptersRested, LedgerNeverOpened, AdaptersInTurn
<1> QED
  BY <1>1, <1>2, <1>3, <1>4, <1>5 DEF R!Extractor

LEMMA RuntimeInvariant ==
  ASSUME R!RuntimeBounds
  PROVE  R!Spec => []RuntimeInv
<1>1. R!Init => RuntimeInv
  BY RuntimeInit
<1>2. RuntimeInv /\ [R!Next]_(R!vars) => RuntimeInv'
  <2>1. ASSUME RuntimeInv, UNCHANGED R!vars PROVE RuntimeInv'
    BY <2>1
       DEF R!vars, RuntimeInv, RuntimeTypeOK, RuntimeOrder, AdaptersBehind,
           AdapterHandles, AdaptersRested, LedgerNeverOpened, AdaptersInTurn
  <2> QED
    BY <2>1, RuntimeStepKeeps, ExtractorStepKeeps DEF R!Next
<1> QED
  BY <1>1, <1>2, PTL DEF R!Spec

(* 200 is answered only for a daemon that runs with every adapter caught up:  *)
(* what is observed is healthy only if the runner has finished and every      *)
(* handle says so.                                                            *)
LEMMA HonestHealth ==
  ASSUME R!RuntimeBounds, RuntimeInv
  PROVE  R!HealthIsHonest
<1>1. ASSUME R!AnswersOk
      PROVE  life = "running" /\ storage = "open" /\ \A x \in enabled : R!Ready(x)
  <2>1. status = "healthy" /\ \A x \in R!Ids : health[x] # None => health[x] = "healthy"
    <3>1. status = "healthy"
      BY <1>1 DEF R!AnswersOk, R!ObservedStatus
    <3>2. SUFFICES ASSUME NEW x \in R!Ids, health[x] # None, health[x] # "healthy"
                   PROVE  FALSE
      BY <3>1
    <3> DEFINE seen == {R!Observed(y) : y \in {y \in R!Ids : health[y] # None}}
    <3>3. R!Observed(x) \in seen /\ R!Observed(x) \in {"starting", "catching_up", "unhealthy"}
      BY <3>1, <3>2 DEF RuntimeInv, RuntimeTypeOK, R!Observed
    <3>4. R!ObservedStatus = CASE status # "healthy" -> status
                             [] "unhealthy" \in seen -> "unhealthy"
                             [] seen \cap {"starting", "catching_up"} # {} -> "catching_up"
                             [] OTHER -> status
      BY DEF R!ObservedStatus
    <3> HIDE DEF seen
    <3> QED
      BY <1>1, <3>1, <3>3, <3>4 DEF R!AnswersOk
  <2>2. life = "running" /\ storage = "open"
    BY <2>1 DEF RuntimeInv, RuntimeOrder
  <2>3. ASSUME NEW x \in enabled PROVE R!Ready(x)
    <3>1. PICK i \in 1..Len(Adapters) : x = Adapters[i]
      BY Registrations DEF RuntimeInv, RuntimeTypeOK
    <3>2. x \in caught /\ health[x] # None
      BY <2>2, <3>1, Registrations DEF RuntimeInv, RuntimeOrder, AdaptersBehind
    <3> QED
      BY <2>1, <3>2 DEF RuntimeInv, RuntimeTypeOK, R!Ready
  <2> QED
    BY <2>2, <2>3
<1>2. ASSUME NEW x \in enabled, R!ObservedComponent(x) = "healthy"
      PROVE  R!Ready(x)
  BY <1>2
     DEF RuntimeInv, RuntimeTypeOK, AdapterHandles, R!ObservedComponent, R!Observed,
         R!Ready
<1> QED
  BY <1>1, <1>2 DEF R!HealthIsHonest

(* A daemon starts and stops in order (context-runtime.ts): its health is     *)
(* honest, adapters catch up one after another, and the ledger is closed      *)
(* under no handler, whatever fails.                                          *)
THEOREM DaemonRunsInOrder ==
  ASSUME R!RuntimeBounds
  PROVE  R!Spec => []R!RunsInOrder
<1>1. RuntimeInv => R!HealthIsHonest
  BY HonestHealth
<1>2. RuntimeInv => R!OneCatchesUp
  BY Registrations DEF RuntimeInv, AdaptersInTurn, R!OneCatchesUp
<1>3. RuntimeInv => R!ClosedAtRest
  BY Registrations
     DEF RuntimeInv, RuntimeTypeOK, RuntimeOrder, AdapterHandles, AdaptersRested,
         LedgerNeverOpened, R!ClosedAtRest
<1> QED
  BY <1>1, <1>2, <1>3, RuntimeInvariant, PTL DEF R!RunsInOrder

HIDE DEF R!Healths, R!Ending, R!adapters, R!Current

--------------------------------------------------------------------------------
(* The tasks of MCAuthorityTransfer: what is proved of the copies, the files *)
(* and the daemon by themselves holds where they stand side by side with a   *)
(* transfer, since a behaviour does one of them and leaves the others alone. *)

(* What was not begun has nothing published, in place or under way.          *)
NoCopy ==
  /\ \A p \in Paths : db[p] # None => p = Legacy /\ db[p].lineage = None
  /\ stage = [c \in Copiers |-> "start"]

NoFile ==
  /\ place = [p \in A!Places |-> None]
  /\ temp = [w \in Writers |-> None]

NoDaemon ==
  /\ ~mcp /\ writing = {}
  /\ health = [x \in R!Ids |-> None]

LEMMA NothingBegun ==
  ASSUME TaskInit
  PROVE  /\ task # "copy" => NoCopy
         /\ task # "write" => NoFile
         /\ task # "run" => NoDaemon
<1>1. ASSUME task # "copy"  PROVE NoCopy
  <2>1. D!Init /\ db[Legacy].lineage = None /\ Legacy \in Paths
    BY <1>1, TaskBounds DEF TaskInit, D!CopyBounds
  <2>2. \A p \in Paths : p # Legacy => db[p] = None
    BY <2>1 DEF D!Init
  <2> QED  BY <2>1, <2>2 DEF D!Init, NoCopy
<1>2. task # "write" => NoFile
  BY DEF TaskInit, NoFile, A!Init
<1>3. NoDaemon
  BY DEF TaskInit, NoDaemon, R!Init
<1> QED  BY <1>1, <1>2, <1>3

(* A step goes on with its task.                                             *)
LEMMA OneTask ==
  ASSUME [TaskNext]_taskVars
  PROVE  /\ task' = task
         /\ IF task = "copy" THEN [D!Next]_(D!vars) ELSE UNCHANGED copyVars
         /\ IF task = "write" THEN [A!Next]_(A!vars) ELSE UNCHANGED fileVars
         /\ IF task = "run" THEN [R!Next]_(R!vars) ELSE UNCHANGED daemonVars
BY DEF TaskNext, taskVars, Transfers, Copies, Writes, Runs, copyVars, fileVars, daemonVars,
       D!vars, D!plans, A!vars, A!asked, R!vars, R!adapters

(* A copy that is published beside a transfer is whole, published once, and  *)
(* vouches for no event it does not have (copy-database.ts, copy-lineage.ts).*)
THEOREM CopiesFaithfulBeside == TaskSpec => []CopiesAreFaithful
<1>1. D!Spec => []D!CopiesAreFaithful
  BY TaskBounds, CopyIsFaithful
<1>2. TaskInit => D!Init /\ (~(task = "copy") => NoCopy)
  BY NothingBegun DEF TaskInit
<1>3. [TaskNext]_taskVars =>
        /\ task = "copy" => (task = "copy")' /\ [D!Next]_(D!vars)
        /\ ~(task = "copy") /\ NoCopy => ~(task = "copy")' /\ NoCopy'
  BY OneTask DEF copyVars, NoCopy
<1>4. D!CopiesAreFaithful => CopiesAreFaithful
  BY DEF CopiesAreFaithful
<1>5. NoCopy => CopiesAreFaithful
  BY DEF NoCopy, CopiesAreFaithful, D!CopiesAreFaithful, D!VouchedIsComplete, D!Vouched,
         D!PublishedIsWhole, D!OnePublishes
<1> QED  BY <1>1, <1>2, <1>3, <1>4, <1>5, PTL DEF TaskSpec, D!Spec

(* Receipts, plists and settings written beside a transfer are replaced      *)
(* whole or not at all, and a secret is never readable by others             *)
(* (atomic-write.ts).                                                        *)
THEOREM FilesAtomicBeside == TaskSpec => []AtomicReplace
<1>1. A!Spec => []A!AtomicReplace
  BY TaskBounds, ReplacesAtomically
<1>2. TaskInit => A!Init /\ (~(task = "write") => NoFile)
  BY NothingBegun DEF TaskInit
<1>3. [TaskNext]_taskVars =>
        /\ task = "write" => (task = "write")' /\ [A!Next]_(A!vars)
        /\ ~(task = "write") /\ NoFile => ~(task = "write")' /\ NoFile'
  BY OneTask DEF fileVars, NoFile
<1>4. A!AtomicReplace => AtomicReplace
  BY DEF AtomicReplace
<1>5. NoFile => AtomicReplace
  BY TaskBounds
     DEF NoFile, AtomicReplace, A!AtomicReplace, A!ReadersSeeWhole, A!FailuresLeaveNothing,
         A!SecretsArePrivate, A!InPlace, A!IsFile, A!FileBounds
<1> QED  BY <1>1, <1>2, <1>3, <1>4, <1>5, PTL DEF TaskSpec, A!Spec

(* The daemon a cutover waits for starts and stops in order, and what it     *)
(* answers to /healthz is true (context-runtime.ts).                         *)
THEOREM DaemonOrderlyBeside == TaskSpec => []RunsInOrder
<1>1. R!Spec => []R!RunsInOrder
  BY TaskBounds, DaemonRunsInOrder
<1>2. TaskInit => R!Init /\ (~(task = "run") => NoDaemon)
  BY NothingBegun DEF TaskInit
<1>3. [TaskNext]_taskVars =>
        /\ task = "run" => (task = "run")' /\ [R!Next]_(R!vars)
        /\ ~(task = "run") /\ NoDaemon => ~(task = "run")' /\ NoDaemon'
  BY OneTask DEF daemonVars, NoDaemon
<1>4. R!RunsInOrder => RunsInOrder
  BY DEF RunsInOrder
<1>5. NoDaemon => RunsInOrder
  BY DEF NoDaemon, RunsInOrder, R!RunsInOrder, R!HealthIsHonest, R!AnswersOk,
         R!OneCatchesUp, R!ClosedAtRest, R!Ids
<1> QED  BY <1>1, <1>2, <1>3, <1>4, <1>5, PTL DEF TaskSpec, R!Spec
================================================================================
