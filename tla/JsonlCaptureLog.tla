-------------------------- MODULE JsonlCaptureLog --------------------------
(***************************************************************************)
(* The handler of JsonlCapture implements TranscriptLog while the          *)
(* transcript is only appended to or replaced and no cluster outgrows a    *)
(* page: write-ahead proofs, retries, rewinds and lost runs are invisible  *)
(* in the ledger.                                                          *)
(***************************************************************************)
EXTENDS JsonlCapture

(* The turns of the current file that the ledger holds.                    *)
Delivered ==
  { [from |-> x.from, offset |-> x.offset, lines |-> x.lines] :
      x \in { y \in ledger : ~y.raw /\ y.identity = file.identity } }

Log == INSTANCE TranscriptLog WITH lines <- file.lines, delivered <- Delivered

(* Turns reach the ledger in order and exactly once, and all of them do.   *)
ImplementsLog == Log!Spec

=============================================================================
