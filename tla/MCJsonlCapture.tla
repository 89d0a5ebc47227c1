--------------------------- MODULE MCJsonlCapture ---------------------------
(* A small instance of JsonlCapture for TLC.                               *)
EXTENDS JsonlCaptureLog

CONSTANTS U, R, E, F

MCUser  == {U}
MCReply == {R}
MCFinal == {E}

(* An empty file, and a cluster longer than a page.                        *)
MCContents == {<<>>, <<U, R, U>>}

(* Turns that share a page, and one of them refused by the gate.           *)
MCTurns == {<<>>, <<U, E, U, E, U>>, <<U, F, U>>}
=============================================================================
