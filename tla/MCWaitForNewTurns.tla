------------------------- MODULE MCWaitForNewTurns -------------------------
(* Four turns of one source in one millisecond, one fewer than the window, *)
(* and a later turn of another source.                                     *)
EXTENDS WaitForNewTurns

Event(id, ts, class, kind) == [id |-> id, ts |-> ts, class |-> class, kind |-> kind, bytes |-> 1]

MCTieEvents ==
  << Event(2, 2, "a", "original"), Event(3, 2, "a", "original"),
     Event(5, 2, "a", "original"), Event(6, 2, "a", "original"),
     Event(9, 3, "a", "original"), Event(10, 3, "a", "original"),
     Event(11, 4, "b", "original") >>

(* One source by name, and a prefix that only the scan itself can test.    *)
MCQueries ==
  {[scans |-> {"a"}, keeps |-> {"a"}], [scans |-> {"a", "b", "n"}, keeps |-> {"b"}]}
=============================================================================
