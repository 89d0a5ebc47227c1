------------------------------ MODULE Selection ------------------------------
(* Filtering a list, Array.prototype.filter. It is SelectSeq of Sequences    *)
(* with the test as a set, and a recursive function, which can be proved     *)
(* about.                                                                    *)
(*                                                                           *)
(* The operators below are those of SequencesExt, by its definitions: every  *)
(* reader of the ledger is INSTANCEd beside the others, and would carry a    *)
(* copy of that whole module into each proof about them.                     *)
EXTENDS Sequences, Integers

ToSet(s) == {s[i] : i \in DOMAIN s}

Last(s) == s[Len(s)]

Reverse(s) == [i \in 1..Len(s) |-> s[(Len(s) - i) + 1]]

IsPrefix(s, t) == Len(s) <= Len(t) /\ SubSeq(s, 1, Len(s)) = SubSeq(t, 1, Len(s))

(* The elements of s that are in S, in their order.                          *)
Among(s, S) ==
  LET upTo[n \in Nat] ==
        IF n = 0 THEN <<>>
        ELSE IF s[n] \in S THEN Append(upTo[n - 1], s[n]) ELSE upTo[n - 1]
  IN  upTo[Len(s)]
================================================================================
