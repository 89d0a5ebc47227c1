--------------------------- MODULE MCCaptureQueue ---------------------------
(* A small instance of CaptureQueue for TLC: a transcript of up to two     *)
(* pages and another of one.                                               *)
EXTENDS CaptureQueue, TLC

CONSTANTS a, b

MCPaths == {a, b}
MCSizes == (a :> 2) @@ (b :> 1)
=============================================================================
