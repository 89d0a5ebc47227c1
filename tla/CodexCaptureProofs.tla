--------------------------- MODULE CodexCaptureProofs ---------------------------
(* Theorems about the Codex handler. A read is a recursive function over    *)
(* the lines, so what it keeps is shown by induction on their number; the   *)
(* invariant of the handler then only speaks of what a read leaves behind:  *)
(* turns, a checkpoint and the start of its page.                           *)
EXTENDS CodexCapture, FiniteSetTheorems, WellFoundedInduction, TLAPS

(* Induction over the natural numbers, for a set instead of a predicate.    *)
LEMMA SetInduction ==
  ASSUME NEW S, 0 \in S, \A n \in Nat : n \in S => n + 1 \in S
  PROVE  Nat \subseteq S
<1> DEFINE T == Nat \ S
<1> SUFFICES ASSUME T # {} PROVE FALSE
  OBVIOUS
<1>1. IsWellFoundedOn(OpToRel(<, Nat), Nat)
  BY NatLessThanWellFounded
<1>2. PICK x \in T : \A y \in T : <<y, x>> \notin OpToRel(<, Nat)
  <2>1. T \subseteq Nat
    OBVIOUS
  <2> HIDE DEF T
  <2> QED
    BY <1>1, <2>1, WFMin
<1>3. \A y \in T : ~ (y < x)
  BY <1>2 DEF OpToRel
<1>4. x \in Nat /\ x # 0
  OBVIOUS
<1>5. x - 1 \in Nat /\ x - 1 < x
  BY <1>4
<1>6. x - 1 \in S
  BY <1>3, <1>5
<1>7. (x - 1) + 1 \in S
  BY <1>5, <1>6
<1> QED
  BY <1>4, <1>7

LineByLine(R, F, at, cwd, thread) ==
  \A n \in Nat : R[n] = IF n = 0 THEN ReadFrom(at, cwd, thread)
                        ELSE ReadLine(R[n - 1], F[at + n], at + n)

(* A read starts from what the checkpoint knows and goes on line by line.   *)
LEMMA ReadingLaw ==
  ASSUME NEW F, NEW at, NEW cwd, NEW thread
  PROVE  LineByLine(Reading(F, at, cwd, thread), F, at, cwd, thread)
<1> DEFINE Val(h, n) == IF n = 0 THEN ReadFrom(at, cwd, thread)
                        ELSE ReadLine(h[n - 1], F[at + n], at + n)
           UpTo(h, n) == \A k \in 0..n : h[k] = Val(h, k)
           Exist == {n \in Nat : \E h : UpTo(h, n)}
           Agree == {n \in Nat : \A h1, h2 : UpTo(h1, n) /\ UpTo(h2, n) => h1[n] = h2[n]}
           g == [n \in Nat |-> (CHOOSE h : UpTo(h, n))[n]]
<1>1. Nat \subseteq Exist
  <2>1. 0 \in Exist
    <3>1. UpTo([k \in {0} |-> ReadFrom(at, cwd, thread)], 0)
      OBVIOUS
    <3> QED
      BY <3>1
  <2>2. ASSUME NEW n \in Nat, n \in Exist PROVE n + 1 \in Exist
    <3>1. PICK h : UpTo(h, n)
      BY <2>2
    <3> DEFINE h2 == [k \in 0..(n + 1) |-> IF k = n + 1 THEN Val(h, n + 1) ELSE h[k]]
    <3>2. ASSUME NEW k \in 0..(n + 1) PROVE h2[k] = Val(h2, k)
      <4>1. CASE k = n + 1
        BY <4>1
      <4>2. CASE k # n + 1
        <5>1. k \in 0..n /\ (k # 0 => k - 1 \in 0..(n + 1) /\ k - 1 # n + 1)
          BY <4>2
        <5>2. h[k] = Val(h, k)
          BY <5>1, <3>1
        <5> QED
          BY <5>1, <5>2
      <4> QED
        BY <4>1, <4>2
    <3> HIDE DEF h2
    <3>3. UpTo(h2, n + 1)
      BY <3>2
    <3> QED
      BY <3>3
  <2> HIDE DEF Exist
  <2> QED
    BY <2>1, <2>2, SetInduction
<1>2. Nat \subseteq Agree
  <2>1. 0 \in Agree
    OBVIOUS
  <2>2. ASSUME NEW n \in Nat, n \in Agree PROVE n + 1 \in Agree
    <3>1. ASSUME NEW h1, NEW h2, UpTo(h1, n + 1), UpTo(h2, n + 1)
          PROVE  h1[n + 1] = h2[n + 1]
      <4>1. UpTo(h1, n) /\ UpTo(h2, n)
        BY <3>1
      <4>2. h1[n] = h2[n]
        BY <4>1, <2>2
      <4>3. h1[n + 1] = Val(h1, n + 1) /\ h2[n + 1] = Val(h2, n + 1)
        BY <3>1
      <4> QED
        BY <4>2, <4>3
    <3> QED
      BY <3>1
  <2> HIDE DEF Agree
  <2> QED
    BY <2>1, <2>2, SetInduction
<1>3. ASSUME NEW n \in Nat PROVE g[n] = Val(g, n)
  <2> DEFINE h == CHOOSE x : UpTo(x, n)
             j == CHOOSE x : UpTo(x, n - 1)
  <2>1. UpTo(h, n)
    <3>1. \E x : UpTo(x, n)
      BY <1>1
    <3> HIDE DEF UpTo
    <3> QED
      BY <3>1
  <2>2. g[n] = h[n]
    OBVIOUS
  <2>3. CASE n = 0
    <3>1. h[0] = Val(h, 0)
      BY <2>1, <2>3
    <3> HIDE DEF h
    <3> QED
      BY <2>2, <2>3, <3>1
  <2>4. CASE n # 0
    <3>1. n - 1 \in Nat
      BY <2>4
    <3>2. UpTo(j, n - 1)
      <4>1. \E x : UpTo(x, n - 1)
        BY <1>1, <3>1
      <4> HIDE DEF UpTo
      <4> QED
        BY <4>1
    <3>3. g[n - 1] = j[n - 1]
      BY <3>1
    <3> HIDE DEF h, j, g
    <3>4. UpTo(h, n - 1)
      BY <2>1, <3>1
    <3>5. h[n - 1] = j[n - 1]
      BY <1>2, <3>1, <3>2, <3>4
    <3>6. h[n] = Val(h, n)
      BY <2>1
    <3> QED
      BY <2>2, <2>4, <3>3, <3>5, <3>6
  <2> QED
    BY <2>3, <2>4
<1>4. g = [n \in Nat |-> Val(g, n)]
  <2>1. g = [n \in Nat |-> g[n]]
    OBVIOUS
  <2> HIDE DEF g, Val
  <2> QED
    BY <1>3, <2>1
<1>5. Reading(F, at, cwd, thread) = CHOOSE r : r = [n \in Nat |-> Val(r, n)]
  BY DEF Reading
<1> DEFINE R == Reading(F, at, cwd, thread)
<1>6. R = [n \in Nat |-> Val(R, n)]
  <2> HIDE DEF g, Val, R
  <2>1. \E r : r = [n \in Nat |-> Val(r, n)]
    BY <1>4
  <2>2. R = CHOOSE r : r = [n \in Nat |-> Val(r, n)]
    BY <1>5 DEF R
  <2> QED
    BY <2>1, <2>2
<1>7. \A n \in Nat : R[n] = Val(R, n)
  <2> HIDE DEF Val, R
  <2> QED
    BY <1>6
<1> QED
  BY <1>7 DEF LineByLine

--------------------------------------------------------------------------------
(* Headers: what a thread that is known at an offset owes to the lines      *)
(* before it.                                                               *)

HeadersFirst(F) ==
  \A i \in 1..Len(F) : F[i].line = "header" => \A j \in 1..i : F[j].line = "header"

Own(F, n, t) ==
  /\ t.kind \notin {None, "unknown"} =>
       n >= 1 /\ F[1].line = "header" /\ t.id = Reconciled(Lineage(F[1])).id
  /\ t.path # None =>
       \E h \in 1..n : /\ F[h].line = "header" /\ F[h].path = t.path
                       /\ Lineage(F[h]).id = t.id

LEMMA OwnLater ==
  ASSUME NEW F, NEW t, NEW m \in Nat, NEW n \in Nat, m <= n, Own(F, m, t)
  PROVE  Own(F, n, t)
BY DEF Own

(* What is known at an offset was known before any line that is no header.  *)
LEMMA OwnBack ==
  ASSUME NEW F, NEW t, HeadersFirst(F), NEW n \in 0..Len(F), Len(F) \in Nat,
         Own(F, n, t), NEW k \in 1..Len(F), F[k].line # "header"
  PROVE  Own(F, k - 1, t)
<1>1. ASSUME NEW h \in 1..n, F[h].line = "header" PROVE h \in 1..(k - 1)
  <2>1. CASE k <= h
    <3>1. k \in 1..h /\ h \in 1..Len(F)
      BY <2>1
    <3> QED
      BY <1>1, <3>1 DEF HeadersFirst
  <2> QED
    BY <2>1
<1>2. k - 1 \in Nat
  OBVIOUS
<1>3. n >= 1 => 1 \in 1..n
  OBVIOUS
<1> QED
  BY <1>1, <1>2, <1>3 DEF Own

(* It depends on the lines up to there only.                                *)
LEMMA OwnPrefix ==
  ASSUME NEW F, NEW G, NEW t, NEW n \in Nat, \A i \in 1..n : G[i] = F[i], Own(F, n, t)
  PROVE  Own(G, n, t)
<1>1. n >= 1 => G[1] = F[1]
  OBVIOUS
<1> QED
  BY <1>1 DEF Own

LEMMA ThreadFields ==
  /\ NoThread.kind = None /\ NoThread.id = None /\ NoThread.path = None
  /\ Unknown.kind = "unknown" /\ Unknown.id = None /\ Unknown.path = None
BY DEF NoThread, Unknown

(* A header yields a lineage with its own path, or none at all.             *)
LEMMA LineageOfHeader ==
  ASSUME NEW h
  PROVE  /\ Lineage(h).kind \in {"unknown", "subagent", "root"}
         /\ Lineage(h).path # None => Lineage(h).path = h.path
         /\ Reconciled(Lineage(h)).kind \in {"unknown", "subagent", "root"}
         /\ Reconciled(Lineage(h)).kind # "unknown" => Reconciled(Lineage(h)) = Lineage(h)
         /\ Reconciled(Lineage(h)).path # None =>
              Reconciled(Lineage(h)) = Lineage(h) /\ Lineage(h).path = h.path
<1>1. /\ Lineage(h).kind \in {"unknown", "subagent", "root"}
      /\ Lineage(h).path # None => Lineage(h).path = h.path
  <2>1. CASE Lineage(h) = Unknown
    BY <2>1, ThreadFields
  <2>2. CASE Lineage(h) = [kind |-> "subagent", id |-> h.id, root |-> h.root, fork |-> h.fork,
                  parent |-> IF h.parents = {} THEN None ELSE CHOOSE t \in h.parents : TRUE,
                  path |-> h.path]
    BY <2>2
  <2>3. CASE Lineage(h) = [NoThread EXCEPT !.kind = "root", !.id = h.id, !.root = h.id]
    BY <2>3 DEF NoThread
  <2> QED
    BY <2>1, <2>2, <2>3 DEF Lineage
<1>2. Reconciled(Lineage(h)) = Lineage(h) \/ Reconciled(Lineage(h)) = Unknown
  BY DEF Reconciled
<1> QED
  BY <1>1, <1>2, ThreadFields

LEMMA ReconcileOwn ==
  ASSUME NEW F, NEW n, NEW t, Own(F, n, t)
  PROVE  Own(F, n, Reconciled(t)) /\ (Reconciled(t).kind = None => t.kind = None)
<1>1. Reconciled(t) = t \/ Reconciled(t) = Unknown
  BY DEF Reconciled
<1>2. Own(F, n, Unknown) /\ Unknown.kind # None
  BY ThreadFields, NoneAssumption DEF Own
<1> QED
  BY <1>1, <1>2

--------------------------------------------------------------------------------
(* The invariant of a read: F is the rollout, at the offset it began at, i  *)
(* the lines read.                                                          *)

ReadFields == {"turns", "pending", "queued", "ofAgent", "trigger", "cwd", "thread",
               "chain", "frontier", "confirmed", "first"}
TurnFields == {"start", "user", "replies", "end", "cwd", "thread", "calls", "userTurn",
               "replyTurn", "context", "bad", "initiator", "local"}

(* The evidence for a turn that another agent has started, up to line u.    *)
Sent(F, u, t) ==
  \E m \in 1..(u - 1) :
    /\ F[m].line = "marker" /\ F[m].on
    /\ \E h \in 1..(m - 1) : /\ F[h].line = "header" /\ F[h].path = F[u].to
                             /\ Lineage(F[h]).id = t.id
    /\ \A j \in (m + 1)..(u - 1) : F[j].line = "context"

InForce(F, at, i, c, t) ==
  /\ c \in 0..i /\ Own(F, c, t)
  /\ t.kind = None => at = 0 /\ \A j \in 1..i : F[j].line # "header"

Marked(F, at, i, k) ==
  k # None => /\ k \in at..(i - 1) /\ F[k + 1].line = "marker" /\ F[k + 1].on
              /\ \A j \in (k + 2)..i : F[j].line = "context"

Waiting(F, i, q) == q # None => q.start \in 0..(i - 1) /\ F[q.start + 1].line # "header"

OpenTurn(F, i, p) ==
  p # None => /\ DOMAIN p = TurnFields
              /\ p.user \in 1..i /\ p.end \in p.user..i /\ p.start \in 0..(i - 1)
              /\ F[p.user].line # "header" /\ F[p.start + 1].line # "header"
              /\ Own(F, p.user, p.thread)
              /\ p.local => Sent(F, p.user, p.thread)

FirstInput(F, i, f) == f # None => f.at \in 0..i /\ Own(F, f.at, f.thread)

GoodTurn(F, i, t) ==
  /\ t.user \in 1..i /\ t.end \in t.user..i /\ Own(F, t.end, t.thread)
  /\ t.local => Sent(F, t.user, t.thread)

GoodTurns(F, i, ts) == \E S : ts \in Seq(S) /\ \A t \in S : GoodTurn(F, i, t)

(* Before the first line that is no header nothing waits.                   *)
Opening(F, i, s) ==
  (\A j \in 1..i : F[j].line = "header") =>
    s.pending = None /\ s.queued = None /\ s.trigger = None

ReadInv(F, at, i, s) ==
  /\ DOMAIN s = ReadFields
  /\ InForce(F, at, i, s.confirmed, s.thread)
  /\ Marked(F, at, i, s.trigger)
  /\ Waiting(F, i, s.queued)
  /\ OpenTurn(F, i, s.pending)
  /\ FirstInput(F, i, s.first)
  /\ GoodTurns(F, i, s.turns)
  /\ Opening(F, i, s)

Rollout(F) == Len(F) \in Nat /\ HeadersFirst(F) /\ \A i \in 1..Len(F) : F[i].line \in LineKinds

LEMMA ReadStarts ==
  ASSUME NEW F, NEW at \in Nat, NEW cwd, NEW t, Own(F, at, t), t.kind = None => at = 0
  PROVE  ReadInv(F, at, at, ReadFrom(at, cwd, t))
<1> DEFINE s == ReadFrom(at, cwd, t)
<1>1. /\ DOMAIN s = ReadFields /\ s.turns = <<>> /\ s.pending = None /\ s.queued = None
      /\ s.trigger = None /\ s.thread = Reconciled(t) /\ s.confirmed = at /\ s.first = None
  BY DEF ReadFrom, ReadFields
<1>2. InForce(F, at, at, s.confirmed, s.thread)
  BY <1>1, ReconcileOwn DEF InForce
<1>3. GoodTurns(F, at, s.turns)
  <2>1. s.turns \in Seq({})
    BY <1>1
  <2> QED
    BY <2>1 DEF GoodTurns
<1> HIDE DEF s
<1>4. ReadInv(F, at, at, s)
  BY <1>1, <1>2, <1>3 DEF ReadInv, Marked, Waiting, OpenTurn, FirstInput, Opening
<1> QED
  BY <1>4 DEF s

(* A line that is no header leaves what is in force as it is.               *)
LEMMA ReadAdvances ==
  ASSUME NEW F, Rollout(F), NEW at \in Nat, NEW i \in Nat, i > at, i <= Len(F), NEW s,
         ReadInv(F, at, i - 1, s), F[i].line # "header",
         s.trigger = None \/ F[i].line = "context"
  PROVE  ReadInv(F, at, i, s)
<1>1. i - 1 \in Nat /\ \A j \in 1..i : j \in 1..(i - 1) \/ j = i
  OBVIOUS
<1>2. InForce(F, at, i, s.confirmed, s.thread)
  BY <1>1 DEF ReadInv, InForce
<1>3. Marked(F, at, i, s.trigger)
  BY <1>1 DEF ReadInv, Marked
<1>4. Waiting(F, i, s.queued)
  BY <1>1 DEF ReadInv, Waiting
<1>5. OpenTurn(F, i, s.pending)
  BY <1>1 DEF ReadInv, OpenTurn
<1>6. FirstInput(F, i, s.first)
  BY <1>1 DEF ReadInv, FirstInput
<1>7. GoodTurns(F, i, s.turns)
  <2>1. PICK S : s.turns \in Seq(S) /\ \A t \in S : GoodTurn(F, i - 1, t)
    BY DEF ReadInv, GoodTurns
  <2>2. \A t \in S : GoodTurn(F, i, t)
    BY <1>1, <2>1 DEF GoodTurn
  <2> QED
    BY <2>1, <2>2 DEF GoodTurns
<1>8. Opening(F, i, s)
  <2>1. i \in 1..i
    BY <1>1
  <2> QED
    BY <2>1 DEF Opening
<1> QED
  BY <1>2, <1>3, <1>4, <1>5, <1>6, <1>7, <1>8 DEF ReadInv

LEMMA MarkSafeKeeps ==
  ASSUME NEW F, NEW at \in Nat, NEW i \in Nat, i >= at, NEW s, ReadInv(F, at, i, s)
  PROVE  ReadInv(F, at, i, MarkSafe(s, i))
<1> DEFINE c == IF i > s.confirmed THEN i ELSE s.confirmed
<1>1. CASE MarkSafe(s, i) = s
  BY <1>1
<1>2. CASE MarkSafe(s, i) = [s EXCEPT !.confirmed = c]
  <2>1. InForce(F, at, i, c, s.thread)
    <3>1. s.confirmed \in Nat /\ i \in 0..i /\ s.confirmed <= i
      BY DEF ReadInv, InForce
    <3> QED
      BY <3>1, OwnLater DEF ReadInv, InForce
  <2> DEFINE r == [s EXCEPT !.confirmed = c]
  <2> HIDE DEF c
  <2>2. /\ DOMAIN r = ReadFields /\ r.confirmed = c
        /\ \A f \in ReadFields \ {"confirmed"} : r[f] = s[f]
    BY DEF ReadInv, ReadFields
  <2>3. /\ r.thread = s.thread /\ r.trigger = s.trigger /\ r.queued = s.queued
        /\ r.pending = s.pending /\ r.first = s.first /\ r.turns = s.turns
    BY <2>2 DEF ReadFields
  <2> HIDE DEF r
  <2>4. ReadInv(F, at, i, r)
    BY <2>1, <2>2, <2>3 DEF ReadInv, Opening
  <2> QED
    BY <1>2, <2>4 DEF r
<1> QED
  BY <1>1, <1>2 DEF MarkSafe

(* What waited may go without being used.                                   *)
LEMMA ReadForgets ==
  ASSUME NEW F, NEW at \in Nat, NEW i \in Nat, NEW s, ReadInv(F, at, i, s), NEW r,
         DOMAIN r = ReadFields, r.confirmed = s.confirmed, r.thread = s.thread,
         r.first = s.first, r.turns = s.turns, r.trigger \in {s.trigger, None},
         r.queued \in {s.queued, None}, r.pending \in {s.pending, None}
  PROVE  ReadInv(F, at, i, r)
BY DEF ReadInv, Marked, Waiting, OpenTurn, Opening

LEMMA CloseChainKeeps ==
  ASSUME NEW F, NEW at \in Nat, NEW i \in Nat, NEW s, ReadInv(F, at, i, s)
  PROVE  ReadInv(F, at, i, CloseChain(s)) /\ CloseChain(s).trigger = s.trigger
<1> DEFINE r == CloseChain(s)
<1>1. /\ DOMAIN r = ReadFields /\ r.confirmed = s.confirmed /\ r.thread = s.thread
      /\ r.first = s.first /\ r.turns = s.turns /\ r.trigger = s.trigger
      /\ r.queued = s.queued /\ r.pending = s.pending
  BY DEF CloseChain, ReadInv, ReadFields
<1> HIDE DEF r
<1>2. ReadInv(F, at, i, r)
  BY <1>1, ReadForgets
<1> QED
  BY <1>1, <1>2 DEF r

LEMMA InvalidateKeeps ==
  ASSUME NEW F, NEW at \in Nat, NEW i \in Nat, NEW s, ReadInv(F, at, i, s), NEW b
  PROVE  ReadInv(F, at, i, Invalidate(s, b)) /\ Invalidate(s, b).trigger = None
<1> DEFINE r == Invalidate(s, b)
<1>1. /\ DOMAIN r = ReadFields /\ r.confirmed = s.confirmed /\ r.thread = s.thread
      /\ r.first = s.first /\ r.turns = s.turns /\ r.trigger = None
      /\ r.queued \in {s.queued, None} /\ r.pending = s.pending
  BY DEF Invalidate, ReadInv, ReadFields
<1> HIDE DEF r
<1>2. ReadInv(F, at, i, r)
  BY <1>1, ReadForgets
<1> QED
  BY <1>1, <1>2 DEF r

LEMMA RejectedInputKeeps ==
  ASSUME NEW F, NEW at \in Nat, NEW i \in Nat, i >= at, NEW s, ReadInv(F, at, i, s)
  PROVE  ReadInv(F, at, i, OnRejectedInput(s, i))
<1> DEFINE r == [s EXCEPT !.trigger = None, !.queued = None, !.ofAgent = FALSE]
<1>1. /\ DOMAIN r = ReadFields /\ r.confirmed = s.confirmed /\ r.thread = s.thread
      /\ r.first = s.first /\ r.turns = s.turns /\ r.trigger = None
      /\ r.queued = None /\ r.pending = s.pending
  BY DEF ReadInv, ReadFields
<1> HIDE DEF r
<1>2. ReadInv(F, at, i, r)
  BY <1>1, ReadForgets
<1>3. ReadInv(F, at, i, MarkSafe(r, i))
  BY <1>2, MarkSafeKeeps
<1> QED
  BY <1>3 DEF r, OnRejectedInput

(* The open turn may be changed in what the invariant does not speak of.    *)
LEMMA ReadContinues ==
  ASSUME NEW F, NEW at \in Nat, NEW i \in Nat, NEW s, ReadInv(F, at, i, s), NEW p,
         OpenTurn(F, i, p), ~ (\A j \in 1..i : F[j].line = "header")
  PROVE  ReadInv(F, at, i, [s EXCEPT !.pending = p])
<1> DEFINE r == [s EXCEPT !.pending = p]
<1>1. /\ DOMAIN r = ReadFields /\ r.confirmed = s.confirmed /\ r.thread = s.thread
      /\ r.first = s.first /\ r.turns = s.turns /\ r.trigger = s.trigger
      /\ r.queued = s.queued /\ r.pending = p
  BY DEF ReadInv, ReadFields
<1> HIDE DEF r
<1>2. ReadInv(F, at, i, r)
  BY <1>1 DEF ReadInv, Opening
<1> QED
  BY <1>2 DEF r

LEMMA CallKeeps ==
  ASSUME NEW F, NEW at \in Nat, NEW i \in Nat, NEW s, NEW l, ReadInv(F, at, i, s),
         ~ (\A j \in 1..i : F[j].line = "header")
  PROVE  ReadInv(F, at, i, OnCall(s, l, i))
<1>1. CASE OnCall(s, l, i) = s
  BY <1>1
<1>2. CASE OnCall(s, l, i) # s
  <2> DEFINE c == Append(s.pending.calls, [id |-> l.id, output |-> None])
             p == [s.pending EXCEPT !.calls = c]
  <2>1. s.pending # None /\ OnCall(s, l, i) = [s EXCEPT !.pending = p]
    BY <1>2 DEF OnCall
  <2> HIDE DEF c
  <2>2. OpenTurn(F, i, s.pending)
    BY DEF ReadInv
  <2>3. OpenTurn(F, i, p)
    BY <2>1, <2>2 DEF OpenTurn, TurnFields
  <2> HIDE DEF p
  <2>4. ReadInv(F, at, i, [s EXCEPT !.pending = p])
    BY <2>3, ReadContinues
  <2> QED
    BY <2>1, <2>4
<1> QED
  BY <1>1, <1>2

LEMMA OutputKeeps ==
  ASSUME NEW F, NEW at \in Nat, NEW i \in Nat, NEW s, NEW l, ReadInv(F, at, i, s),
         ~ (\A j \in 1..i : F[j].line = "header")
  PROVE  ReadInv(F, at, i, OnOutput(s, l, i))
<1> DEFINE open == IF s.pending = None THEN {}
                   ELSE {c \in DOMAIN s.pending.calls :
                           /\ s.pending.calls[c].output = None
                           /\ l.id \in {None, s.pending.calls[c].id}}
<1>1. CASE OnOutput(s, l, i) = s
  BY <1>1
<1>2. CASE OnOutput(s, l, i) # s
  <2> DEFINE k == [s.pending.calls EXCEPT ![Max(open)].output = i]
             p == [s.pending EXCEPT !.calls = k]
  <2>1. s.pending # None /\ OnOutput(s, l, i) = [s EXCEPT !.pending = p]
    BY <1>2 DEF OnOutput
  <2> HIDE DEF k
  <2>2. OpenTurn(F, i, s.pending)
    BY DEF ReadInv
  <2>3. OpenTurn(F, i, p)
    BY <2>1, <2>2 DEF OpenTurn, TurnFields
  <2> HIDE DEF p
  <2>4. ReadInv(F, at, i, [s EXCEPT !.pending = p])
    BY <2>3, ReadContinues
  <2> QED
    BY <2>1, <2>4
<1> QED
  BY <1>1, <1>2

LEMMA SequenceGrows ==
  ASSUME NEW S, NEW ts \in Seq(S), NEW t
  PROVE  Append(ts, t) \in Seq(S \cup {t})
<1>1. ts \in Seq(S \cup {t})
  OBVIOUS
<1> QED
  BY <1>1

(* A turn that is closed takes the place of the offset.                     *)
LEMMA EmitKeeps ==
  ASSUME NEW F, Rollout(F), NEW at \in Nat, NEW i \in Nat, i <= Len(F), NEW s,
         ReadInv(F, at, i, s)
  PROVE  /\ ReadInv(F, at, i, Emit(s))
         /\ \A f \in ReadFields \ {"turns", "confirmed"} : Emit(s)[f] = s[f]
<1>1. CASE Emit(s) = s
  BY <1>1
<1>2. CASE Emit(s) # s
  <2> DEFINE p == s.pending
             ts == Append(s.turns, TurnOf(p))
             r == [s EXCEPT !.turns = ts, !.confirmed = p.end]
  <2>1. p # None /\ Emit(s) = r
    BY <1>2 DEF Emit
  <2>2. /\ DOMAIN p = TurnFields /\ p.user \in 1..i /\ p.end \in p.user..i
        /\ F[p.user].line # "header" /\ Own(F, p.user, p.thread)
        /\ p.local => Sent(F, p.user, p.thread)
    BY <2>1 DEF ReadInv, OpenTurn
  <2>3. /\ TurnOf(p).user = p.user /\ TurnOf(p).end = p.end
        /\ TurnOf(p).thread = p.thread /\ TurnOf(p).local = p.local
    BY DEF TurnOf
  <2> HIDE DEF p
  <2>4. GoodTurn(F, i, TurnOf(p))
    <3>1. p.user \in Nat /\ p.end \in Nat /\ p.user <= p.end
      BY <2>2
    <3>2. Own(F, p.end, p.thread)
      BY <2>2, <3>1, OwnLater
    <3> QED
      BY <2>2, <2>3, <3>2 DEF GoodTurn
  <2>5. GoodTurns(F, i, ts)
    <3>1. PICK S : s.turns \in Seq(S) /\ \A t \in S : GoodTurn(F, i, t)
      BY DEF ReadInv, GoodTurns
    <3>2. ts \in Seq(S \cup {TurnOf(p)})
      BY <3>1, SequenceGrows
    <3> QED
      BY <2>4, <3>1, <3>2 DEF GoodTurns
  <2>6. InForce(F, at, i, p.end, s.thread)
    <3>1. Own(F, s.confirmed, s.thread) /\ s.confirmed \in 0..Len(F)
      BY DEF ReadInv, InForce, Rollout
    <3>2. p.user \in 1..Len(F) /\ p.user - 1 \in Nat /\ p.end \in Nat /\ p.user - 1 <= p.end
      BY <2>2 DEF Rollout
    <3>3. Own(F, p.user - 1, s.thread)
      BY <2>2, <3>1, <3>2, OwnBack DEF Rollout
    <3>4. Own(F, p.end, s.thread)
      BY <3>2, <3>3, OwnLater
    <3> QED
      BY <2>2, <3>2, <3>4 DEF ReadInv, InForce
  <2> HIDE DEF ts
  <2>7. /\ DOMAIN r = ReadFields /\ r.turns = ts /\ r.confirmed = p.end
        /\ \A f \in ReadFields \ {"turns", "confirmed"} : r[f] = s[f]
    BY DEF ReadInv, ReadFields
  <2>8. /\ r.thread = s.thread /\ r.trigger = s.trigger /\ r.queued = s.queued
        /\ r.pending = s.pending /\ r.first = s.first
    BY <2>7 DEF ReadFields
  <2> HIDE DEF r
  <2>9. ReadInv(F, at, i, r)
    BY <2>5, <2>6, <2>7, <2>8 DEF ReadInv, Opening
  <2> QED
    BY <2>1, <2>7, <2>9
<1> QED
  BY <1>1, <1>2

LEMMA CompleteKeeps ==
  ASSUME NEW F, Rollout(F), NEW at \in Nat, NEW i \in Nat, i <= Len(F), NEW s,
         ReadInv(F, at, i, s), ~ (\A j \in 1..i : F[j].line = "header")
  PROVE  ReadInv(F, at, i, OnComplete(s, i))
<1>1. CASE OnComplete(s, i) = s
  BY <1>1
<1>2. CASE OnComplete(s, i) # s
  <2> DEFINE p == [s.pending EXCEPT !.end = i]
             e == Emit([s EXCEPT !.pending = p])
             r == [e EXCEPT !.pending = None]
  <2>1. s.pending # None /\ OnComplete(s, i) = r
    BY <1>2 DEF OnComplete
  <2>2. OpenTurn(F, i, s.pending)
    BY DEF ReadInv
  <2>3. OpenTurn(F, i, p)
    BY <2>1, <2>2 DEF OpenTurn, TurnFields
  <2> HIDE DEF p
  <2>4. ReadInv(F, at, i, e)
    BY <2>3, ReadContinues, EmitKeeps
  <2> HIDE DEF e
  <2>5. /\ DOMAIN r = ReadFields /\ r.confirmed = e.confirmed /\ r.thread = e.thread
        /\ r.first = e.first /\ r.turns = e.turns /\ r.trigger = e.trigger
        /\ r.queued = e.queued /\ r.pending = None
    BY <2>4 DEF ReadInv, ReadFields
  <2> HIDE DEF r
  <2>6. ReadInv(F, at, i, r)
    BY <2>4, <2>5, ReadForgets
  <2> QED
    BY <2>1, <2>6
<1> QED
  BY <1>1, <1>2

LEMMA ReplyKeeps ==
  ASSUME NEW F, Rollout(F), NEW at \in Nat, NEW i \in Nat, i >= at, i <= Len(F), NEW s,
         NEW l, ReadInv(F, at, i, s), ~ (\A j \in 1..i : F[j].line = "header")
  PROVE  ReadInv(F, at, i, OnReply(s, l, i))
<1>1. CASE OnReply(s, l, i) = s
  BY <1>1
<1>2. CASE s.pending = None
  BY <1>2, MarkSafeKeeps DEF OnReply
<1>3. CASE OnReply(s, l, i) # s /\ s.pending # None
  <2> DEFINE re == Append(s.pending.replies, i)
             b == \/ s.pending.bad \/ l.bad
                  \/ (s.pending.replyTurn # None /\ l.turn \notin {None, s.pending.replyTurn})
             o == OrElse(l.turn, s.pending.replyTurn)
             p == [s.pending EXCEPT !.replies = re, !.end = i, !.bad = b, !.replyTurn = o]
  <2>1. OpenTurn(F, i, s.pending) /\ DOMAIN s.pending = TurnFields
    BY <1>3 DEF ReadInv, OpenTurn
  <2>2. OnReply(s, l, i) = [s EXCEPT !.pending = p]
    BY <1>3, <2>1 DEF OnReply, TurnFields
  <2> HIDE DEF re, b, o
  <2>3. OpenTurn(F, i, p)
    BY <1>3, <2>1 DEF OpenTurn, TurnFields
  <2> HIDE DEF p
  <2> QED
    BY <2>2, <2>3, ReadContinues
<1> QED
  BY <1>1, <1>2, <1>3

LEMMA LeastOfTwo ==
  ASSUME NEW a \in Int, NEW b \in Int
  PROVE  Least({a, b}) \in {a, b} /\ Least({a, b}) <= a /\ Least({a, b}) <= b
<1>1. \E x \in {a, b} : \A y \in {a, b} : x <= y
  <2>1. CASE a <= b
    BY <2>1
  <2>2. CASE ~ (a <= b)
    BY <2>2
  <2> QED
    BY <2>1, <2>2
<1> QED
  BY <1>1 DEF Least

LEMMA LeastOfThree ==
  ASSUME NEW a \in Int, NEW b \in Int, NEW c \in Int
  PROVE  Least({a, b, c}) \in {a, b, c}
<1>1. Least({a, b}) \in {a, b} /\ Least({a, b}) <= a /\ Least({a, b}) <= b
  BY LeastOfTwo
<1>2. \E x \in {a, b, c} : \A y \in {a, b, c} : x <= y
  <2> DEFINE m == Least({a, b})
  <2> HIDE DEF m
  <2>1. m \in {a, b} /\ m <= a /\ m <= b
    BY <1>1 DEF m
  <2>2. CASE m <= c
    BY <2>1, <2>2
  <2>3. CASE ~ (m <= c)
    <3>1. c <= a /\ c <= b
      BY <2>1, <2>3
    <3> QED
      BY <3>1
  <2> QED
    BY <2>2, <2>3
<1> QED
  BY <1>2 DEF Least

(* An identity that is queued waits at a line that is no header.            *)
LEMMA QueueWaits ==
  ASSUME NEW F, NEW i \in Nat, NEW q, Waiting(F, i, q), NEW k \in 0..(i - 1),
         F[k + 1].line # "header", NEW turn, NEW bad
  PROVE  Waiting(F, i, Queue(q, k, turn, bad))
<1>1. CASE q = None
  BY <1>1 DEF Queue, Waiting
<1>2. CASE q # None
  <2>1. q.start \in 0..(i - 1) /\ F[q.start + 1].line # "header"
    BY <1>2 DEF Waiting
  <2> DEFINE m == q.start
  <2>4. m \in Int /\ k \in Int
    BY <2>1
  <2> HIDE DEF m
  <2>5. Least({m, k}) \in {m, k}
    BY <2>4, LeastOfTwo
  <2>2. Least({q.start, k}) \in {q.start, k}
    BY <2>5 DEF m
  <2>3. Queue(q, k, turn, bad).start = Least({q.start, k})
    BY <1>2 DEF Queue
  <2> QED
    BY <2>1, <2>2, <2>3 DEF Waiting
<1> QED
  BY <1>1, <1>2

LEMMA ContextKeeps ==
  ASSUME NEW F, Rollout(F), NEW at \in Nat, NEW i \in Nat, i > at, i <= Len(F), NEW s,
         NEW l, ReadInv(F, at, i, s), F[i].line # "header"
  PROVE  ReadInv(F, at, i, OnContext(s, l, i))
<1> DEFINE w == OrElse(l.cwd, s.cwd)
           c == [s EXCEPT !.cwd = w]
           mine == IF s.pending = None THEN FALSE ELSE BelongsToOpen(s.pending, l)
           b == s.pending.bad \/ l.bad \/ (s.pending.context # None
                                          /\ l.turn \notin {None, s.pending.context})
           o == OrElse(s.pending.context, l.turn)
           p == [s.pending EXCEPT !.bad = b, !.context = o]
           d == [c EXCEPT !.pending = p]
           q == Queue(s.queued, i - 1, l.turn, l.bad)
           e == [c EXCEPT !.queued = q, !.ofAgent = @ \/ s.trigger # None]
<1>0. ~ (\A j \in 1..i : F[j].line = "header")
  BY DEF Rollout
<1>1. ReadInv(F, at, i, c)
  <2> HIDE DEF w
  <2>1. /\ DOMAIN c = ReadFields /\ c.confirmed = s.confirmed /\ c.thread = s.thread
        /\ c.first = s.first /\ c.turns = s.turns /\ c.trigger = s.trigger
        /\ c.queued = s.queued /\ c.pending = s.pending
    BY DEF ReadInv, ReadFields
  <2> HIDE DEF c
  <2> QED
    BY <2>1, ReadForgets
<1>2. DOMAIN c = ReadFields /\ c.pending = s.pending /\ c.queued = s.queued
  BY DEF ReadInv, ReadFields
<1>3. ASSUME mine PROVE ReadInv(F, at, i, d)
  <2>1. s.pending # None
    BY <1>3
  <2>2. OpenTurn(F, i, s.pending)
    BY DEF ReadInv
  <2> HIDE DEF b, o, mine
  <2>3. OpenTurn(F, i, p)
    BY <2>1, <2>2 DEF OpenTurn, TurnFields
  <2> HIDE DEF p, c
  <2> QED
    BY <1>0, <1>1, <2>3, ReadContinues
<1>4. ReadInv(F, at, i, e)
  <2>1. i - 1 \in 0..(i - 1) /\ (i - 1) + 1 = i
    OBVIOUS
  <2>2. Waiting(F, i, s.queued)
    BY DEF ReadInv
  <2>3. Waiting(F, i, q)
    BY <2>1, <2>2, QueueWaits
  <2> HIDE DEF q, c
  <2>4. /\ DOMAIN e = ReadFields /\ e.confirmed = c.confirmed /\ e.thread = c.thread
        /\ e.first = c.first /\ e.turns = c.turns /\ e.trigger = c.trigger
        /\ e.queued = q /\ e.pending = c.pending
    BY <1>1 DEF ReadInv, ReadFields
  <2> HIDE DEF e
  <2> QED
    BY <1>0, <1>1, <2>3, <2>4 DEF ReadInv, Opening
<1>5. \/ OnContext(s, l, i) = MarkSafe(c, i)
      \/ OnContext(s, l, i) = MarkSafe(e, i)
      \/ mine /\ OnContext(s, l, i) = MarkSafe(d, i)
  <2>1. CASE l.turn = None /\ ~l.bad
    BY <2>1 DEF OnContext
  <2>2. CASE ~ (l.turn = None /\ ~l.bad) /\ ~mine
    BY <2>2 DEF OnContext
  <2>3. CASE ~ (l.turn = None /\ ~l.bad) /\ mine
    <3>1. s.pending # None
      BY <2>3
    <3>2. DOMAIN s.pending = TurnFields
      BY <3>1 DEF ReadInv, OpenTurn
    <3>3. [c EXCEPT !.pending.bad = @ \/ l.bad \/ (s.pending.context # None
                                          /\ l.turn \notin {None, s.pending.context}),
                    !.pending.context = OrElse(@, l.turn)] = d
      BY <1>2, <3>2 DEF ReadFields, TurnFields
    <3> QED
      BY <2>3, <3>3 DEF OnContext
  <2> QED
    BY <2>1, <2>2, <2>3
<1> HIDE DEF c, d, e, mine
<1> QED
  BY <1>1, <1>3, <1>4, <1>5, MarkSafeKeeps

LEMMA MarkerKeeps ==
  ASSUME NEW F, Rollout(F), NEW at \in Nat, NEW i \in Nat, i > at, i <= Len(F), NEW s,
         ReadInv(F, at, i - 1, s), F[i].line = "marker"
  PROVE  ReadInv(F, at, i, OnMarker(s, F[i], i))
<1>0. ~ (\A j \in 1..i : F[j].line = "header")
  BY DEF Rollout
<1>1. i - 1 \in Nat
  OBVIOUS
<1>2. CASE F[i].on
  <2> DEFINE b == s.ofAgent \/ s.queued # None
             r == [s EXCEPT !.trigger = i - 1, !.ofAgent = b]
             n == [s EXCEPT !.trigger = None]
  <2>1. OnMarker(s, F[i], i) = r
    BY <1>2 DEF OnMarker
  <2>2. /\ DOMAIN n = ReadFields /\ n.confirmed = s.confirmed /\ n.thread = s.thread
        /\ n.first = s.first /\ n.turns = s.turns /\ n.trigger = None
        /\ n.queued = s.queued /\ n.pending = s.pending
    BY DEF ReadInv, ReadFields
  <2> HIDE DEF b
  <2>3. /\ DOMAIN r = ReadFields /\ r.confirmed = s.confirmed /\ r.thread = s.thread
        /\ r.first = s.first /\ r.turns = s.turns /\ r.trigger = i - 1
        /\ r.queued = s.queued /\ r.pending = s.pending
    BY DEF ReadInv, ReadFields
  <2> HIDE DEF n, r
  <2>4. ReadInv(F, at, i, n)
    <3>1. ReadInv(F, at, i - 1, n)
      BY <1>1, <2>2, ReadForgets
    <3> QED
      BY <2>2, <3>1, ReadAdvances
  <2>5. Marked(F, at, i, r.trigger)
    BY <1>2, <2>3 DEF Marked
  <2>6. ReadInv(F, at, i, r)
    BY <1>0, <2>2, <2>3, <2>4, <2>5 DEF ReadInv, Opening
  <2> QED
    BY <2>1, <2>6
<1>3. CASE ~F[i].on
  <2>1. ReadInv(F, at, i - 1, Invalidate(s, FALSE)) /\ Invalidate(s, FALSE).trigger = None
    BY <1>1, InvalidateKeeps
  <2>2. ReadInv(F, at, i, Invalidate(s, FALSE))
    BY <2>1, ReadAdvances
  <2> DEFINE r == Invalidate(s, FALSE)
  <2> HIDE DEF r
  <2>5. ReadInv(F, at, i, r)
    BY <2>2 DEF r
  <2>3. ReadInv(F, at, i, MarkSafe(r, i))
    BY <2>5, MarkSafeKeeps
  <2>4. OnMarker(s, F[i], i) = MarkSafe(r, i)
    BY <1>3 DEF OnMarker, r
  <2> QED
    BY <2>3, <2>4
<1> QED
  BY <1>2, <1>3

(* A header that is of this thread takes the place of the offset.           *)
LEMMA AdoptKeeps ==
  ASSUME NEW F, NEW at \in Nat, NEW i \in Nat, i > at, i <= Len(F), NEW s,
         ReadInv(F, at, i - 1, s), \A j \in 1..i : F[j].line = "header",
         NEW x, DOMAIN x = ReadFields, x.turns = s.turns, x.pending = s.pending,
         x.queued = s.queued, x.trigger = s.trigger, x.first = s.first,
         x.confirmed = s.confirmed, Own(F, i, x.thread), x.thread.kind # None
  PROVE  ReadInv(F, at, i, MarkSafe(x, i))
<1>1. i - 1 \in Nat /\ s.confirmed \in 0..(i - 1)
  BY DEF ReadInv, InForce
<1>2. s.pending = None /\ s.queued = None /\ s.trigger = None
  BY <1>1 DEF ReadInv, Opening
<1> DEFINE r == [x EXCEPT !.confirmed = i]
<1>3. MarkSafe(x, i) = r
  <2> DEFINE m == IF i > x.confirmed THEN i ELSE x.confirmed
  <2>1. m = i
    BY <1>1
  <2>2. MarkSafe(x, i) = [x EXCEPT !.confirmed = m]
    BY <1>2 DEF MarkSafe
  <2> QED
    BY <2>1, <2>2
<1>4. /\ DOMAIN r = ReadFields /\ r.confirmed = i /\ r.thread = x.thread
      /\ r.first = s.first /\ r.turns = s.turns /\ r.trigger = None
      /\ r.queued = None /\ r.pending = None
  BY <1>2 DEF ReadFields
<1> HIDE DEF r
<1>5. InForce(F, at, i, r.confirmed, r.thread)
  BY <1>4 DEF InForce
<1>6. FirstInput(F, i, r.first)
  BY <1>1, <1>4 DEF ReadInv, FirstInput
<1>7. GoodTurns(F, i, r.turns)
  <2>1. PICK S : s.turns \in Seq(S) /\ \A t \in S : GoodTurn(F, i - 1, t)
    BY DEF ReadInv, GoodTurns
  <2>2. \A t \in S : GoodTurn(F, i, t)
    BY <1>1, <2>1 DEF GoodTurn
  <2> QED
    BY <1>4, <2>1, <2>2 DEF GoodTurns
<1>8. ReadInv(F, at, i, r)
  BY <1>4, <1>5, <1>6, <1>7 DEF ReadInv, Marked, Waiting, OpenTurn, Opening
<1> QED
  BY <1>3, <1>8

LEMMA HeaderKeeps ==
  ASSUME NEW F, Rollout(F), NEW at \in Nat, NEW i \in Nat, i > at, i <= Len(F), NEW s,
         ReadInv(F, at, i - 1, s), F[i].line = "header"
  PROVE  ReadInv(F, at, i, OnHeader(s, F[i], i))
<1> DEFINE h == F[i]
           t == Lineage(h)
           w == OrElse(h.cwd, s.cwd)
           adopt(thread, fr) == [s EXCEPT !.thread = thread, !.frontier = fr, !.cwd = w]
<1>1. i \in 1..Len(F) /\ i - 1 \in Nat
  BY DEF Rollout
<1>2. \A j \in 1..i : F[j].line = "header"
  BY <1>1 DEF Rollout, HeadersFirst
<1>3. DOMAIN s = ReadFields /\ Own(F, s.confirmed, s.thread) /\ s.confirmed \in 0..(i - 1)
  BY DEF ReadInv, InForce
<1>4. Own(F, i, s.thread)
  BY <1>1, <1>3, OwnLater
<1>5. ASSUME NEW thread, NEW fr, Own(F, i, thread), thread.kind # None
      PROVE  ReadInv(F, at, i, MarkSafe(adopt(thread, fr), i))
  <2> DEFINE x == adopt(thread, fr)
  <2> HIDE DEF w
  <2>1. /\ DOMAIN x = ReadFields /\ x.confirmed = s.confirmed /\ x.thread = thread
        /\ x.first = s.first /\ x.turns = s.turns /\ x.trigger = s.trigger
        /\ x.queued = s.queued /\ x.pending = s.pending
    BY <1>3 DEF ReadFields
  <2> HIDE DEF x
  <2>2. ReadInv(F, at, i, MarkSafe(x, i))
    BY <1>2, <1>5, <2>1, AdoptKeeps
  <2> QED
    BY <2>2 DEF x
<1>6. CASE s.thread.kind = None
  <2>1. i = 1
    <3>1. \A j \in 1..(i - 1) : F[j].line # "header"
      BY <1>6 DEF ReadInv, InForce
    <3>2. i # 1 => 1 \in 1..(i - 1) /\ 1 \in 1..i
      BY <1>1
    <3> QED
      BY <1>2, <3>1, <3>2
  <2>2. Own(F, i, Reconciled(t)) /\ Reconciled(t).kind # None
    BY <2>1, <1>2, LineageOfHeader, NoneAssumption DEF Own
  <2>3. OnHeader(s, h, i) = MarkSafe(adopt(Reconciled(t), Frontier(Reconciled(t))), i)
    BY <1>6 DEF OnHeader
  <2> HIDE DEF adopt, t
  <2> QED
    BY <1>5, <2>2, <2>3
<1>7. CASE /\ s.thread.kind # None /\ "unknown" \notin {s.thread.kind, t.kind}
           /\ s.chain /\ CopiedAncestor(s.thread, t, s.frontier)
  <2> DEFINE f == IF t.kind = "root" THEN {} ELSE Frontier(t)
             r == [s EXCEPT !.frontier = f, !.chain = f # {}]
  <2>1. OnHeader(s, h, i) = r
    BY <1>7 DEF OnHeader
  <2> HIDE DEF f
  <2>2. /\ DOMAIN r = ReadFields /\ r.confirmed = s.confirmed /\ r.thread = s.thread
        /\ r.first = s.first /\ r.turns = s.turns /\ r.trigger = s.trigger
        /\ r.queued = s.queued /\ r.pending = s.pending
    BY <1>3 DEF ReadFields
  <2> HIDE DEF r
  <2>3. s.pending = None /\ s.queued = None /\ s.trigger = None
    BY <1>2 DEF ReadInv, Opening
  <2>4. InForce(F, at, i, r.confirmed, r.thread)
    BY <1>1, <1>3, <1>7, <2>2 DEF InForce
  <2>5. FirstInput(F, i, r.first)
    BY <1>1, <2>2 DEF ReadInv, FirstInput
  <2>6. GoodTurns(F, i, r.turns)
    <3>1. PICK S : s.turns \in Seq(S) /\ \A y \in S : GoodTurn(F, i - 1, y)
      BY DEF ReadInv, GoodTurns
    <3>2. \A y \in S : GoodTurn(F, i, y)
      BY <1>1, <3>1 DEF GoodTurn
    <3> QED
      BY <2>2, <3>1, <3>2 DEF GoodTurns
  <2>7. ReadInv(F, at, i, r)
    BY <2>2, <2>3, <2>4, <2>5, <2>6 DEF ReadInv, Marked, Waiting, OpenTurn, Opening
  <2> QED
    BY <2>1, <2>7
<1>8. CASE /\ s.thread.kind # None /\ "unknown" \notin {s.thread.kind, t.kind}
           /\ ~(s.chain /\ CopiedAncestor(s.thread, t, s.frontier))
           /\ SamePhysical(s.thread, t)
  <2> DEFINE j == Joined(s.thread, t)
  <2>1. /\ j.kind = OrElse(t.kind, s.thread.kind) /\ j.id = OrElse(t.id, s.thread.id)
        /\ j.path = OrElse(t.path, s.thread.path)
    BY DEF Joined, NoThread
  <2>2. t.kind = s.thread.kind /\ t.id = s.thread.id
    BY <1>8 DEF SamePhysical
  <2> HIDE DEF j, t
  <2>3. j.kind = s.thread.kind /\ j.id = s.thread.id
    BY <2>1, <2>2 DEF OrElse
  <2>4. j.path = s.thread.path \/ (t.path # None /\ j.path = t.path)
    BY <2>1 DEF OrElse
  <2>5. Own(F, i, j)
    <3>1. CASE j.path = s.thread.path
      BY <1>4, <2>3, <3>1 DEF Own
    <3>2. CASE t.path # None /\ j.path = t.path
      <4>1. F[i].path = t.path /\ Lineage(F[i]) = t /\ F[i].line = "header" /\ i \in 1..i
        BY <1>1, <1>2, <3>2, LineageOfHeader DEF t
      <4> QED
        BY <1>4, <2>2, <2>3, <3>2, <4>1 DEF Own
    <3> QED
      BY <2>4, <3>1, <3>2
  <2>6. OnHeader(s, h, i) = MarkSafe(adopt(j, Frontier(j)), i)
    BY <1>8 DEF OnHeader, j, t
  <2> HIDE DEF adopt
  <2> QED
    BY <1>5, <1>8, <2>3, <2>5, <2>6
<1>9. CASE /\ s.thread.kind # None
           /\ ~ /\ "unknown" \notin {s.thread.kind, t.kind}
                /\ \/ s.chain /\ CopiedAncestor(s.thread, t, s.frontier)
                   \/ SamePhysical(s.thread, t)
  <2> DEFINE x == [s EXCEPT !.thread = Unknown, !.frontier = {}]
  <2>1. OnHeader(s, h, i) = MarkSafe(x, i)
    BY <1>9 DEF OnHeader
  <2>2. /\ DOMAIN x = ReadFields /\ x.confirmed = s.confirmed /\ x.thread = Unknown
        /\ x.first = s.first /\ x.turns = s.turns /\ x.trigger = s.trigger
        /\ x.queued = s.queued /\ x.pending = s.pending
    BY <1>3 DEF ReadFields
  <2>3. Own(F, i, Unknown) /\ Unknown.kind # None
    BY ThreadFields, NoneAssumption DEF Own
  <2> HIDE DEF x
  <2>4. ReadInv(F, at, i, MarkSafe(x, i))
    BY <1>2, <2>2, <2>3, AdoptKeeps
  <2> QED
    BY <2>1, <2>4
<1> QED
  BY <1>6, <1>7, <1>8, <1>9

(* A turn begins at or before its input, never at a header.                 *)
LEMMA InputStarts ==
  ASSUME NEW F, NEW at \in Nat, NEW i \in Nat, i > at, NEW s, NEW l,
         ReadInv(F, at, i - 1, s), F[i].line # "header"
  PROVE  InputStart(s, l, i) \in 0..(i - 1) /\ F[InputStart(s, l, i) + 1].line # "header"
<1> DEFINE a == i - 1
           b == IF Triggered(s, l) THEN s.trigger ELSE a
           c == IF s.queued = None THEN a ELSE s.queued.start
           K == {k \in 0..(i - 1) : F[k + 1].line # "header"}
<1>1. a \in K
  OBVIOUS
<1>2. b \in K
  <2>1. CASE Triggered(s, l)
    <3>1. s.trigger # None
      BY <2>1 DEF Triggered
    <3>2. s.trigger \in at..(i - 2) /\ F[s.trigger + 1].line = "marker"
      BY <3>1 DEF ReadInv, Marked
    <3> QED
      BY <2>1, <3>2
  <2>2. CASE ~Triggered(s, l)
    BY <1>1, <2>2
  <2> QED
    BY <2>1, <2>2
<1>3. c \in K
  <2>1. CASE s.queued = None
    BY <1>1, <2>1
  <2>2. CASE s.queued # None
    BY <2>2 DEF ReadInv, Waiting
  <2> QED
    BY <2>1, <2>2
<1>4. {i - 1} \cup (IF Triggered(s, l) THEN {s.trigger} ELSE {})
              \cup (IF s.queued = None THEN {} ELSE {s.queued.start}) = {a, b, c}
  OBVIOUS
<1>5. InputStart(s, l, i) = Least({a, b, c})
  BY <1>4 DEF InputStart
<1>6. a \in Int /\ b \in Int /\ c \in Int
  BY <1>1, <1>2, <1>3
<1> HIDE DEF a, b, c
<1>7. Least({a, b, c}) \in {a, b, c}
  BY <1>6, LeastOfThree
<1>8. Least({a, b, c}) \in K
  BY <1>1, <1>2, <1>3, <1>7
<1> HIDE DEF K
<1>9. InputStart(s, l, i) \in K
  BY <1>5, <1>8
<1> QED
  BY <1>9 DEF K

(* What a trigger shows of the input that takes it.                         *)
LEMMA TriggerIsEvidence ==
  ASSUME NEW F, Rollout(F), NEW at \in Nat, NEW i \in Nat, i > at, i <= Len(F), NEW s,
         ReadInv(F, at, i - 1, s), Triggered(s, F[i])
  PROVE  Sent(F, i, s.thread)
<1> DEFINE m == s.trigger + 1
<1>1. s.trigger # None /\ F[i].to = s.thread.path /\ s.thread.path # None
  BY DEF Triggered
<1>2. /\ s.trigger \in at..(i - 2) /\ F[s.trigger + 1].line = "marker" /\ F[s.trigger + 1].on
      /\ \A j \in (s.trigger + 2)..(i - 1) : F[j].line = "context"
  BY <1>1 DEF ReadInv, Marked
<1>3. m \in 1..(i - 1) /\ m \in 1..Len(F) /\ m + 1 = s.trigger + 2 /\ m - 1 = s.trigger
  BY <1>2 DEF Rollout
<1>4. s.confirmed \in 0..Len(F) /\ Own(F, s.confirmed, s.thread)
  BY DEF ReadInv, InForce, Rollout
<1>5. F[m].line # "header"
  BY <1>2
<1> HIDE DEF m
<1>6. Own(F, m - 1, s.thread)
  BY <1>3, <1>4, <1>5, OwnBack DEF Rollout
<1>7. \E h \in 1..(m - 1) : /\ F[h].line = "header" /\ F[h].path = F[i].to
                            /\ Lineage(F[h]).id = s.thread.id
  BY <1>1, <1>6 DEF Own
<1>8. F[m].line = "marker" /\ F[m].on /\ \A j \in (m + 1)..(i - 1) : F[j].line = "context"
  BY <1>2, <1>3 DEF m
<1> QED
  BY <1>3, <1>7, <1>8 DEF Sent

LEMMA InputKeeps ==
  ASSUME NEW F, Rollout(F), NEW at \in Nat, NEW i \in Nat, i > at, i <= Len(F), NEW s,
         ReadInv(F, at, i - 1, s), F[i].line \in {"user", "agent"},
         F[i].line = "user" => s.trigger = None
  PROVE  ReadInv(F, at, i, OnInput(s, F[i], i))
<1> DEFINE l == F[i]
           start0 == InputStart(s, l, i)
           local == Triggered(s, l)
           ini == Initiator(s, l)
           fi == OrElse(s.first, [at |-> start0, cwd |-> s.cwd, thread |-> s.thread])
           g == IF l.line = "agent" THEN None ELSE s.trigger
           f == [s EXCEPT !.first = fi, !.trigger = g]
           n == [s EXCEPT !.trigger = None]
<1>0. ~ (\A j \in 1..i : F[j].line = "header")
  BY DEF Rollout
<1>1. i - 1 \in Nat /\ i \in 1..Len(F) /\ F[i].line # "header"
  BY DEF Rollout
<1>2. start0 \in 0..(i - 1) /\ F[start0 + 1].line # "header"
  BY <1>1, InputStarts
<1>3. DOMAIN s = ReadFields
  BY DEF ReadInv
<1>4. g = None
  OBVIOUS
<1>5. s.confirmed \in 0..Len(F) /\ Own(F, s.confirmed, s.thread) /\ s.confirmed <= i - 1
  BY DEF ReadInv, InForce, Rollout
<1>6. ReadInv(F, at, i, n)
  <2>1. /\ DOMAIN n = ReadFields /\ n.confirmed = s.confirmed /\ n.thread = s.thread
        /\ n.first = s.first /\ n.turns = s.turns /\ n.trigger = None
        /\ n.queued = s.queued /\ n.pending = s.pending
    BY <1>3 DEF ReadFields
  <2> HIDE DEF n
  <2>2. ReadInv(F, at, i - 1, n)
    BY <1>1, <2>1, ReadForgets
  <2> QED
    BY <1>1, <2>1, <2>2, ReadAdvances
<1>7. FirstInput(F, i, fi)
  <2>1. FirstInput(F, i, s.first)
    BY <1>1 DEF ReadInv, FirstInput
  <2>2. Own(F, start0, s.thread)
    <3> DEFINE k == start0 + 1
    <3>1. k \in 1..Len(F) /\ k - 1 = start0 /\ F[k].line # "header"
      BY <1>1, <1>2
    <3> HIDE DEF k, start0
    <3>2. Own(F, k - 1, s.thread)
      BY <1>5, <3>1, OwnBack DEF Rollout
    <3> QED
      BY <3>1, <3>2
  <2> HIDE DEF start0
  <2>3. start0 \in 0..i
    BY <1>2
  <2>4. fi = s.first \/ fi = [at |-> start0, cwd |-> s.cwd, thread |-> s.thread]
    BY DEF OrElse
  <2> HIDE DEF fi
  <2> QED
    BY <2>1, <2>2, <2>3, <2>4 DEF FirstInput
<1>8. /\ ReadInv(F, at, i, f) /\ f.thread = s.thread /\ f.cwd = s.cwd
      /\ f.queued = s.queued /\ f.pending = s.pending
  <2> HIDE DEF fi, g
  <2>1. /\ DOMAIN f = ReadFields /\ f.confirmed = s.confirmed /\ f.thread = s.thread
        /\ f.first = fi /\ f.turns = s.turns /\ f.trigger = g
        /\ f.queued = s.queued /\ f.pending = s.pending /\ f.cwd = s.cwd
    BY <1>3 DEF ReadFields
  <2>2. /\ DOMAIN n = ReadFields /\ n.confirmed = s.confirmed /\ n.thread = s.thread
        /\ n.turns = s.turns /\ n.trigger = None
        /\ n.queued = s.queued /\ n.pending = s.pending
    BY <1>3 DEF ReadFields
  <2> HIDE DEF f, n
  <2>3. ReadInv(F, at, i, f)
    BY <1>0, <1>4, <1>6, <1>7, <2>1, <2>2 DEF ReadInv, Opening
  <2> QED
    BY <2>1, <2>3
<1>9. local => Sent(F, i, s.thread)
  BY TriggerIsEvidence
<1> HIDE DEF f, n, fi, g, start0, ini, local
<1>10. ReadInv(F, at, i, OpenCluster(f, l, i, start0, ini, local))
  <2> DEFINE q == Inherited(f)
             from == IF q = None THEN start0 ELSE Least({start0, q.start})
             e == Emit(f)
             c == IF from > e.confirmed THEN from ELSE e.confirmed
             p == NewCluster(f, l, i, q, from, ini, local)
             r == [e EXCEPT !.queued = None, !.ofAgent = FALSE, !.confirmed = c, !.pending = p]
  <2>1. OpenCluster(f, l, i, start0, ini, local) = r
    BY DEF OpenCluster
  <2>2. Waiting(F, i, q)
    <3>1. Waiting(F, i, f.queued)
      BY <1>8 DEF ReadInv
    <3>2. CASE q = f.queued
      BY <3>1, <3>2
    <3>3. CASE q # f.queued
      <4>1. f.pending # None /\ q = Queue(f.queued, f.pending.start, f.pending.context, f.pending.bad)
        BY <3>3 DEF Inherited
      <4>2. f.pending.start \in 0..(i - 1) /\ F[f.pending.start + 1].line # "header"
        BY <1>8, <4>1 DEF ReadInv, OpenTurn
      <4> HIDE DEF q
      <4> QED
        BY <3>1, <4>1, <4>2, QueueWaits
    <3> QED
      BY <3>2, <3>3
  <2> HIDE DEF q
  <2>3. from \in 0..(i - 1) /\ F[from + 1].line # "header"
    <3>1. CASE q = None
      BY <1>2, <3>1
    <3>2. CASE q # None
      <4> DEFINE b == q.start
      <4>1. b \in 0..(i - 1) /\ F[b + 1].line # "header"
        BY <2>2, <3>2 DEF Waiting
      <4> HIDE DEF b
      <4>2. start0 \in Int /\ b \in Int
        BY <1>2, <4>1
      <4>3. Least({start0, b}) \in {start0, b}
        BY <4>2, LeastOfTwo
      <4>4. from = Least({start0, b})
        BY <3>2 DEF b
      <4> HIDE DEF from
      <4> QED
        BY <1>2, <4>1, <4>3, <4>4
    <3> QED
      BY <3>1, <3>2
  <2> HIDE DEF from
  <2>4. ReadInv(F, at, i, e) /\ e.thread = s.thread /\ e.first = f.first /\ e.trigger = f.trigger
    <3>1. ReadInv(F, at, i, e) /\ \A x \in ReadFields \ {"turns", "confirmed"} : e[x] = f[x]
      BY <1>8, EmitKeeps
    <3> QED
      BY <1>8, <3>1 DEF ReadFields
  <2> HIDE DEF e
  <2>5. InForce(F, at, i, c, s.thread)
    <3>1. e.confirmed \in 0..i /\ Own(F, e.confirmed, s.thread)
      BY <2>4 DEF ReadInv, InForce
    <3>2. c \in 0..i /\ e.confirmed <= c
      BY <2>3, <3>1
    <3> HIDE DEF c
    <3>3. Own(F, c, s.thread)
      BY <3>1, <3>2, OwnLater
    <3> QED
      BY <2>4, <3>2, <3>3 DEF ReadInv, InForce
  <2>6. OpenTurn(F, i, p)
    <3>1. /\ DOMAIN p = TurnFields /\ p.user = i /\ p.end = i /\ p.start = from
          /\ p.thread = s.thread /\ p.local = local
      BY <1>8 DEF NewCluster, TurnFields
    <3>2. Own(F, i, s.thread)
      BY <1>5, OwnLater
    <3> HIDE DEF p
    <3> QED
      BY <1>1, <1>9, <2>3, <3>1, <3>2 DEF OpenTurn
  <2> HIDE DEF c, p
  <2>7. /\ DOMAIN r = ReadFields /\ r.confirmed = c /\ r.thread = e.thread
        /\ r.first = e.first /\ r.turns = e.turns /\ r.trigger = e.trigger
        /\ r.queued = None /\ r.pending = p
    BY <2>4 DEF ReadInv, ReadFields
  <2> HIDE DEF r
  <2>8. ReadInv(F, at, i, r)
    BY <1>0, <2>4, <2>5, <2>6, <2>7 DEF ReadInv, Waiting, Opening
  <2> QED
    BY <2>1, <2>8
<1>11. \/ OnInput(s, l, i) = f
       \/ OnInput(s, l, i) = OpenCluster(f, l, i, start0, ini, local)
  BY DEF OnInput, f, fi, g, start0, ini, local
<1> QED
  BY <1>8, <1>10, <1>11

LEMMA LineKeeps ==
  ASSUME NEW F, Rollout(F), NEW at \in Nat, NEW i \in Nat, i > at, i <= Len(F), NEW s,
         ReadInv(F, at, i - 1, s)
  PROVE  ReadInv(F, at, i, ReadLine(s, F[i], i))
<1> DEFINE l == F[i]
           c == CloseChain(s)
           v == Invalidate(c, l.line # "user")
<1>1. i - 1 \in Nat /\ i \in 1..Len(F) /\ l.line \in LineKinds /\ i >= at
  BY DEF Rollout
<1>2. ReadInv(F, at, i - 1, c)
  BY <1>1, CloseChainKeeps
<1> HIDE DEF c
<1>3. ReadInv(F, at, i - 1, v) /\ v.trigger = None
  BY <1>1, <1>2, InvalidateKeeps
<1> HIDE DEF v
<1>4. CASE l.line = "header"
  BY <1>1, <1>4, HeaderKeeps DEF ReadLine
<1>5. CASE l.line = "marker"
  <2>1. ReadLine(s, l, i) = OnMarker(c, l, i)
    BY <1>5 DEF ReadLine, c
  <2> QED
    BY <1>1, <1>2, <1>5, <2>1, MarkerKeeps
<1>6. CASE l.line = "context"
  <2>1. ReadLine(s, l, i) = OnContext(c, l, i)
    BY <1>6 DEF ReadLine, c
  <2>2. ReadInv(F, at, i, c)
    BY <1>1, <1>2, <1>6, ReadAdvances
  <2> QED
    BY <1>1, <1>6, <2>1, <2>2, ContextKeeps
<1>7. CASE l.line \in {"malformed", "call", "output", "complete", "other", "assistant"}
  <2>1. ReadInv(F, at, i, v)
    BY <1>1, <1>3, <1>7, ReadAdvances
  <2>2. ~ (\A j \in 1..i : F[j].line = "header")
    BY <1>1, <1>7
  <2> DEFINE k == OnCall(v, l, i)
             o == OnOutput(v, l, i)
             d == OnComplete(v, i)
  <2>3. ReadInv(F, at, i, k) /\ ReadInv(F, at, i, o) /\ ReadInv(F, at, i, d)
    BY <1>1, <2>1, <2>2, CallKeeps, OutputKeeps, CompleteKeeps
  <2>4. ReadInv(F, at, i, OnReply(v, l, i))
    BY <1>1, <2>1, <2>2, ReplyKeeps
  <2>5. \/ ReadLine(s, l, i) \in {MarkSafe(v, i), MarkSafe(k, i), MarkSafe(o, i), MarkSafe(d, i)}
        \/ ReadLine(s, l, i) = OnReply(v, l, i)
    BY <1>7 DEF ReadLine, c, v
  <2> HIDE DEF k, o, d
  <2>6. /\ ReadInv(F, at, i, MarkSafe(v, i)) /\ ReadInv(F, at, i, MarkSafe(k, i))
        /\ ReadInv(F, at, i, MarkSafe(o, i)) /\ ReadInv(F, at, i, MarkSafe(d, i))
    BY <1>1, <2>1, <2>3, MarkSafeKeeps
  <2> QED
    BY <2>4, <2>5, <2>6
<1>8. CASE l.line = "user"
  <2>1. ReadLine(s, l, i) = OnInput(v, l, i)
    BY <1>8 DEF ReadLine, c, v
  <2> QED
    BY <1>3, <1>8, <2>1, InputKeeps
<1>9. CASE l.line = "agent" /\ Triggered(c, l)
  <2>1. ReadLine(s, l, i) = OnInput(c, l, i)
    BY <1>9 DEF ReadLine, c
  <2> QED
    BY <1>2, <1>9, <2>1, InputKeeps
<1>10. CASE l.line = "agent" /\ ~Triggered(c, l)
  <2> DEFINE r == OnRejectedInput(c, i)
             n == [c EXCEPT !.trigger = None]
             m == [n EXCEPT !.trigger = None, !.queued = None, !.ofAgent = FALSE]
  <2>1. ReadLine(s, l, i) = r
    BY <1>10 DEF ReadLine, c
  <2>2. /\ DOMAIN n = ReadFields /\ n.confirmed = c.confirmed /\ n.thread = c.thread
        /\ n.first = c.first /\ n.turns = c.turns /\ n.trigger = None
        /\ n.queued = c.queued /\ n.pending = c.pending
    BY <1>2 DEF ReadInv, ReadFields
  <2>3. m = [c EXCEPT !.trigger = None, !.queued = None, !.ofAgent = FALSE]
    BY <1>2 DEF ReadInv, ReadFields
  <2>4. OnRejectedInput(n, i) = r
    BY <2>3 DEF OnRejectedInput
  <2> HIDE DEF n, r
  <2>5. ReadInv(F, at, i - 1, n)
    BY <1>1, <1>2, <2>2, ReadForgets
  <2>6. ReadInv(F, at, i, n)
    BY <1>1, <1>10, <2>2, <2>5, ReadAdvances
  <2>7. ReadInv(F, at, i, OnRejectedInput(n, i))
    BY <1>1, <2>6, RejectedInputKeeps
  <2> QED
    BY <2>1, <2>4, <2>7
<1> QED
  BY <1>1, <1>4, <1>5, <1>6, <1>7, <1>8, <1>9, <1>10 DEF LineKinds

(* Whatever is read, from a checkpoint that owes its thread to the lines    *)
(* before it.                                                               *)
LEMMA ExtractKeeps ==
  ASSUME NEW F, Rollout(F), NEW at \in Nat, NEW through \in Nat, at <= through,
         through <= Len(F), NEW cwd, NEW t, Own(F, at, t), t.kind = None => at = 0
  PROVE  ReadInv(F, at, through, Extract(F, at, through, cwd, t))
<1> DEFINE R == Reading(F, at, cwd, t)
           T == {n \in Nat : at + n <= Len(F) => ReadInv(F, at, at + n, R[n])}
<1> HIDE DEF R
<1>0. \A n \in Nat : R[n] = IF n = 0 THEN ReadFrom(at, cwd, t)
                             ELSE ReadLine(R[n - 1], F[at + n], at + n)
  <2>1. LineByLine(Reading(F, at, cwd, t), F, at, cwd, t)
    BY ReadingLaw
  <2> QED
    BY <2>1 DEF LineByLine, R
<1>1. 0 \in T
  <2>1. R[0] = ReadFrom(at, cwd, t)
    BY <1>0
  <2>2. ReadInv(F, at, at + 0, R[0])
    BY <2>1, ReadStarts
  <2> QED
    BY <2>2
<1>2. ASSUME NEW n \in Nat, n \in T PROVE n + 1 \in T
  <2>1. SUFFICES ASSUME at + (n + 1) <= Len(F) PROVE ReadInv(F, at, at + (n + 1), R[n + 1])
    OBVIOUS
  <2> DEFINE i == at + (n + 1)
  <2>2. i \in Nat /\ i > at /\ i <= Len(F) /\ i - 1 = at + n /\ at + n <= Len(F)
    BY <2>1 DEF Rollout
  <2>3. ReadInv(F, at, i - 1, R[n])
    BY <1>2, <2>2
  <2>4. R[n + 1] = ReadLine(R[n], F[i], i)
    <3>1. n + 1 \in Nat /\ n + 1 # 0 /\ (n + 1) - 1 = n
      OBVIOUS
    <3> QED
      BY <1>0, <3>1
  <2> HIDE DEF i
  <2>5. ReadInv(F, at, i, ReadLine(R[n], F[i], i))
    BY <2>2, <2>3, LineKeeps
  <2> QED
    BY <2>4, <2>5 DEF i
<1> HIDE DEF T
<1>3. through - at \in T
  <2>1. Nat \subseteq T
    BY <1>1, <1>2, SetInduction
  <2> QED
    BY <2>1
<1>4. at + (through - at) = through
  OBVIOUS
<1> QED
  BY <1>3, <1>4 DEF T, Extract, R

--------------------------------------------------------------------------------
(* The invariant of the handler. A change of the rollout is allowed to make *)
(* wrong what the next run will not go back to.                             *)

Files == Seq(Headers \cup Lines)
CheckpointFields == {"at", "cwd", "thread", "raw", "page", "generation"}

KnownOk(F, k) == k.at \in 0..Len(F) /\ Own(F, k.at, k.thread)

CodexInv ==
  /\ file \in Files /\ file # <<>> /\ HeadersFirst(file)
  /\ change \in {"none", "page", "tail", "replaced"}
  /\ pageLines \in Nat \ {0}
  /\ DOMAIN cp = CheckpointFields
  /\ change \in {"none", "tail"} => KnownOk(file, cp)
  /\ change \in {"none", "page"} /\ cp.page # None => KnownOk(file, cp.page)
  /\ change = "page" => cp.page # None
  /\ change = "none" => seen \in 0..Len(file)
  /\ change = "none" => \A t \in captured : GoodTurn(file, Len(file), t)

LEMMA FilesAreRollouts ==
  ASSUME NEW F \in Files, HeadersFirst(F)
  PROVE  Rollout(F)
<1>1. Len(F) \in Nat /\ \A i \in 1..Len(F) : F[i] \in Headers \cup Lines
  BY DEF Files
<1> QED
  BY <1>1, LinesAssumption DEF Rollout

LEMMA GoodTurnPrefix ==
  ASSUME NEW F, NEW G, NEW t, NEW n \in Nat, NEW m \in Nat, n <= m,
         \A i \in 1..n : G[i] = F[i], GoodTurn(F, n, t)
  PROVE  GoodTurn(G, m, t)
<1>1. /\ t.user \in 1..n /\ t.end \in t.user..n /\ Own(F, t.end, t.thread)
      /\ t.local => Sent(F, t.user, t.thread)
  BY DEF GoodTurn
<1>2. t.end \in Nat /\ \A i \in 1..t.end : i \in 1..n
  BY <1>1
<1>3. Own(G, t.end, t.thread)
  BY <1>1, <1>2, OwnPrefix
<1>4. ASSUME t.local PROVE Sent(G, t.user, t.thread)
  <2>1. PICK k \in 1..(t.user - 1) :
          /\ F[k].line = "marker" /\ F[k].on
          /\ \E h \in 1..(k - 1) : /\ F[h].line = "header" /\ F[h].path = F[t.user].to
                                   /\ Lineage(F[h]).id = t.thread.id
          /\ \A j \in (k + 1)..(t.user - 1) : F[j].line = "context"
    BY <1>1, <1>4 DEF Sent
  <2>2. \A i \in 1..t.user : i \in 1..n /\ G[i] = F[i]
    BY <1>1
  <2>3. k \in 1..t.user /\ t.user \in 1..t.user
    BY <1>1
  <2>4. G[k] = F[k] /\ G[t.user] = F[t.user]
    BY <2>2, <2>3
  <2>5. \A h \in 1..(k - 1) : G[h] = F[h]
    BY <1>1, <2>2
  <2>6. \A j \in (k + 1)..(t.user - 1) : G[j] = F[j]
    BY <1>1, <2>2
  <2>7. \E h \in 1..(k - 1) : /\ G[h].line = "header" /\ G[h].path = G[t.user].to
                              /\ Lineage(G[h]).id = t.thread.id
    BY <2>1, <2>4, <2>5
  <2>8. \A j \in (k + 1)..(t.user - 1) : G[j].line = "context"
    BY <2>1, <2>6
  <2> QED
    BY <2>1, <2>4, <2>7, <2>8 DEF Sent
<1> QED
  BY <1>1, <1>3, <1>4 DEF GoodTurn

LEMMA KnownPrefix ==
  ASSUME NEW F, NEW G, NEW k, Len(F) \in Nat, Len(G) \in Nat, KnownOk(F, k),
         k.at <= Len(G), \A i \in 1..k.at : G[i] = F[i]
  PROVE  KnownOk(G, k)
BY OwnPrefix DEF KnownOk

(* What the run starts from once an old checkpoint has been completed.      *)
LEMMA BackfilledOwn ==
  ASSUME CodexInv, change = "none"
  PROVE  /\ Own(file, cp.at, Backfilled.thread)
         /\ Backfilled.thread.kind = None => cp.at = 0
<1>1. cp.at \in Nat /\ Own(file, cp.at, cp.thread) /\ DOMAIN cp = CheckpointFields
  BY DEF CodexInv, KnownOk
<1>2. CASE cp.at = 0 \/ cp.thread.kind # None
  BY <1>1, <1>2 DEF Backfilled
<1>3. CASE ~ (cp.at = 0 \/ cp.thread.kind # None)
  <2> DEFINE t == HeaderKnown(file[1]).thread
  <2>1. Backfilled.thread = t
    BY <1>1, <1>3 DEF Backfilled, CheckpointFields
  <2>2. cp.at >= 1 /\ 1 \in 1..cp.at
    BY <1>1, <1>3
  <2>3. CASE file[1].line = "header"
    <3>1. t = Reconciled(Lineage(file[1]))
      BY <2>3 DEF HeaderKnown
    <3>2. Own(file, cp.at, t) /\ t.kind # None
      BY <2>2, <2>3, <3>1, LineageOfHeader, NoneAssumption DEF Own
    <3> QED
      BY <2>1, <3>2
  <2>4. CASE file[1].line # "header"
    <3>1. t = Unknown
      BY <2>4 DEF HeaderKnown
    <3>2. Own(file, cp.at, t) /\ t.kind # None
      BY <3>1, ThreadFields, NoneAssumption DEF Own
    <3> QED
      BY <2>1, <3>2
  <2> QED
    BY <2>3, <2>4
<1> QED
  BY <1>2, <1>3

(* What one run reads of the rollout.                                       *)
LEMMA ResultKeeps ==
  ASSUME CodexInv, change = "none", Through > cp.at
  PROVE  /\ Through \in 0..Len(file) /\ cp.at \in 0..Len(file)
         /\ ReadInv(file, cp.at, Through, Result)
<1>1. Rollout(file) /\ Len(file) \in Nat /\ pageLines \in Nat /\ cp.at \in 0..Len(file)
  BY FilesAreRollouts DEF CodexInv, KnownOk, Rollout
<1>2. Through \in 0..Len(file) /\ Through \in Nat /\ cp.at \in Nat /\ cp.at <= Through
  BY <1>1 DEF Through
<1>3. ReadInv(file, cp.at, Through, Extract(file, cp.at, Through, Backfilled.cwd, Backfilled.thread))
  <2>1. Own(file, cp.at, Backfilled.thread) /\ (Backfilled.thread.kind = None => cp.at = 0)
    BY BackfilledOwn
  <2> DEFINE t == Backfilled.thread
             n == Through
             a == cp.at
             w == Backfilled.cwd
  <2>2. /\ Own(file, a, t) /\ (t.kind = None => a = 0) /\ a \in Nat /\ n \in Nat
        /\ a <= n /\ n <= Len(file)
    BY <1>1, <1>2, <2>1
  <2> HIDE DEF t, n, a, w
  <2>3. ReadInv(file, a, n, Extract(file, a, n, w, t))
    BY <1>1, <2>2, ExtractKeeps
  <2> QED
    BY <2>3 DEF t, n, a, w
<1> QED
  BY <1>1, <1>2, <1>3 DEF Result

(* The page of a write-ahead checkpoint is where the run began.             *)
LEMMA AheadKnown ==
  ASSUME CodexInv, change = "none"
  PROVE  /\ KnownOk(file, Ahead) /\ KnownOk(file, Ahead.page)
         /\ DOMAIN Ahead = CheckpointFields
<1>1. Ahead.at = cp.at /\ Ahead.thread = Backfilled.thread /\ DOMAIN Ahead = CheckpointFields
  BY DEF Ahead, Checkpoint, Known, CheckpointFields
<1>2. Ahead.page.at = cp.at /\ Ahead.page.thread = Backfilled.thread
  BY DEF Ahead, Checkpoint, Known, PageStart
<1>3. cp.at \in 0..Len(file)
  BY DEF CodexInv, KnownOk
<1> QED
  BY <1>1, <1>2, <1>3, BackfilledOwn DEF KnownOk

LEMMA CheckpointFieldsOf ==
  ASSUME NEW k, NEW page, NEW g
  PROVE  /\ DOMAIN Checkpoint(k, page, g) = CheckpointFields
         /\ Checkpoint(k, page, g).at = k.at /\ Checkpoint(k, page, g).thread = k.thread
         /\ Checkpoint(k, page, g).page = page
BY DEF Checkpoint, CheckpointFields

(* A run that stays in this generation of the rollout.                      *)
LEMMA RunKeeps ==
  ASSUME CodexInv, change = "none", UNCHANGED <<file, change, pageLines>>,
         DOMAIN cp' = CheckpointFields, KnownOk(file, cp'),
         KnownOk(file, cp'.page), seen' \in 0..Len(file),
         \A t \in captured' : GoodTurn(file, Len(file), t)
  PROVE  CodexInv'
BY DEF CodexInv

THEOREM CodexInvariant == Spec => []CodexInv
<1>1. Init => CodexInv
  <2> SUFFICES ASSUME Init PROVE CodexInv
    OBVIOUS
  <2>1. PICK h \in Headers : file = <<h>>
    BY DEF Init
  <2>2. file \in Files /\ file # <<>> /\ Len(file) = 1 /\ HeadersFirst(file)
    BY <2>1 DEF Files, HeadersFirst
  <2>3. \A n \in Nat : Own(file, n, NoThread)
    BY ThreadFields DEF Own
  <2>4. cp = Checkpoint(Known(0, None, NoThread, None), None, 0)
          \/ cp = Checkpoint(Known(1, "old", NoThread, None), None, 0)
    BY DEF Init, Fresh, Legacy
  <2>5. DOMAIN cp = CheckpointFields /\ cp.at \in 0..1 /\ cp.thread = NoThread /\ cp.page = None
    BY <2>4 DEF Checkpoint, Known, CheckpointFields
  <2>6. KnownOk(file, cp)
    BY <2>2, <2>3, <2>5 DEF KnownOk
  <2> QED
    BY <2>2, <2>5, <2>6, CodexAssumption DEF Init, CodexInv
<1>2. CodexInv /\ [Next]_vars => CodexInv'
  <2> SUFFICES ASSUME CodexInv, [Next]_vars PROVE CodexInv'
    OBVIOUS
  <2>1. CASE Write
    <3>1. PICK l \in Lines : /\ l.line = "header" => HeaderMayBe(Len(file) + 1)
                            /\ file' = Append(file, l)
      BY <2>1 DEF Write
    <3>2. file \in Files /\ Len(file) \in Nat /\ HeadersFirst(file)
      BY DEF CodexInv, Files
    <3>3. /\ file' \in Files /\ Len(file') = Len(file) + 1 /\ file' # <<>>
          /\ \A i \in 1..Len(file) : file'[i] = file[i]
          /\ file'[Len(file) + 1] = l
      BY <3>1, <3>2 DEF Files
    <3>4. HeadersFirst(file')
      BY <3>1, <3>2, <3>3 DEF HeadersFirst, HeaderMayBe
    <3>5. ASSUME NEW k, KnownOk(file, k) PROVE KnownOk(file', k)
      <4>1. k.at \in 0..Len(file)
        BY <3>5 DEF KnownOk
      <4>2. k.at <= Len(file') /\ Len(file') \in Nat /\ \A i \in 1..k.at : file'[i] = file[i]
        BY <3>2, <3>3, <4>1
      <4> QED
        BY <3>2, <3>5, <4>2, KnownPrefix
    <3>6. ASSUME NEW t, GoodTurn(file, Len(file), t) PROVE GoodTurn(file', Len(file'), t)
      <4>1. Len(file') \in Nat /\ Len(file) <= Len(file')
        BY <3>2, <3>3
      <4> QED
        BY <3>2, <3>3, <3>6, <4>1, GoodTurnPrefix
    <3>7. UNCHANGED <<cp, captured, seen, change, pageLines>>
      BY <2>1 DEF Write
    <3> QED
      BY <3>2, <3>3, <3>4, <3>5, <3>6, <3>7 DEF CodexInv
  <2>2. CASE Rewrite
    <3>1. PICK i \in (cp.page.at + 1)..cp.at, l \in Lines :
            /\ file[i] # l /\ file[i].line # "header"
            /\ l.line = "header" => HeaderMayBe(i)
            /\ file' = [file EXCEPT ![i] = l]
      BY <2>2 DEF Rewrite
    <3>2. /\ change = "none" /\ cp.page # None /\ change' = "page"
          /\ UNCHANGED <<cp, seen, pageLines>>
      BY <2>2 DEF Rewrite
    <3>3. file \in Files /\ Len(file) \in Nat /\ HeadersFirst(file)
      BY DEF CodexInv, Files
    <3>4. KnownOk(file, cp.page) /\ cp.page.at \in 0..Len(file) /\ cp.at \in 0..Len(file)
      BY <3>2 DEF CodexInv, KnownOk
    <3>5. i \in 1..Len(file) /\ i > cp.page.at
      BY <3>4
    <3>6. /\ file' \in Files /\ Len(file') = Len(file) /\ file' # <<>>
          /\ file'[i] = l /\ \A j \in 1..Len(file) : j # i => file'[j] = file[j]
      BY <3>1, <3>3, <3>5 DEF Files
    <3>7. HeadersFirst(file')
      <4>1. ASSUME NEW k \in 1..Len(file), file'[k].line = "header", NEW j \in 1..k
            PROVE  file'[j].line = "header"
        <5>1. CASE k = i
          BY <3>1, <3>5, <3>6, <4>1, <5>1 DEF HeaderMayBe
        <5>2. CASE k # i
          <6>1. file[k].line = "header"
            BY <3>6, <4>1, <5>2
          <6>2. \A x \in 1..k : file[x].line = "header"
            BY <3>3, <6>1 DEF HeadersFirst
          <6>3. j # i
            BY <3>1, <6>2
          <6> QED
            BY <3>6, <6>2, <6>3
        <5> QED
          BY <5>1, <5>2
      <4> QED
        BY <3>6, <4>1 DEF HeadersFirst
    <3>8. KnownOk(file', cp.page)
      <4>1. \A j \in 1..cp.page.at : file'[j] = file[j]
        BY <3>4, <3>5, <3>6
      <4> QED
        BY <3>3, <3>4, <3>6, <4>1, KnownPrefix
    <3> QED
      BY <3>2, <3>6, <3>7, <3>8 DEF CodexInv
  <2>3. CASE Shrink
    <3>1. PICK n \in cp.at..(seen - 1) : n > 0 /\ file' = SubSeq(file, 1, n)
      BY <2>3 DEF Shrink
    <3>2. change = "none" /\ change' = "tail" /\ UNCHANGED <<cp, seen, pageLines>>
      BY <2>3 DEF Shrink
    <3>3. /\ file \in Files /\ Len(file) \in Nat /\ HeadersFirst(file)
          /\ seen \in 0..Len(file) /\ KnownOk(file, cp) /\ cp.at \in 0..Len(file)
      BY <3>2 DEF CodexInv, Files, KnownOk
    <3>4. n \in 1..Len(file) /\ cp.at <= n
      BY <3>1, <3>3
    <3>5. /\ file' \in Files /\ Len(file') = n /\ file' # <<>>
          /\ \A j \in 1..n : file'[j] = file[j]
      BY <3>1, <3>3, <3>4 DEF Files
    <3>6. HeadersFirst(file')
      BY <3>3, <3>4, <3>5 DEF HeadersFirst
    <3>7. KnownOk(file', cp)
      BY <3>3, <3>4, <3>5, KnownPrefix
    <3> QED
      BY <3>2, <3>5, <3>6, <3>7 DEF CodexInv
  <2>4. CASE Replace
    <3>1. PICK h \in Headers : file' = <<h>>
      BY <2>4 DEF Replace
    <3>2. change' = "replaced" /\ UNCHANGED <<cp, seen, pageLines>>
      BY <2>4 DEF Replace
    <3>3. file' \in Files /\ file' # <<>> /\ HeadersFirst(file')
      BY <3>1 DEF Files, HeadersFirst
    <3> QED
      BY <3>2, <3>3 DEF CodexInv
  <2>5. CASE Rewind
    <3>1. /\ change # "none" /\ cp' = Checkpoint(RewindPoint, None, cp.generation + 1)
          /\ captured' = {} /\ seen' = RewindPoint.at /\ change' = "none"
          /\ UNCHANGED <<file, pageLines>>
      BY <2>5 DEF Rewind
    <3>2. KnownOk(file, RewindPoint)
      <4>1. CASE change = "tail"
        <5>1. RewindPoint = Known(cp.at, cp.cwd, cp.thread, cp.raw)
          BY <4>1 DEF RewindPoint
        <5> QED
          BY <4>1, <5>1 DEF CodexInv, KnownOk, Known
      <4>2. CASE change = "page"
        <5>1. RewindPoint = cp.page
          BY <4>2 DEF RewindPoint
        <5> QED
          BY <4>2, <5>1 DEF CodexInv
      <4>3. CASE change = "replaced"
        <5>1. RewindPoint = Known(0, None, NoThread, None)
          BY <4>3 DEF RewindPoint
        <5>2. RewindPoint.at = 0 /\ RewindPoint.thread = NoThread
          BY <5>1 DEF Known
        <5>3. Len(file) \in Nat
          BY DEF CodexInv, Files
        <5> QED
          BY <5>2, <5>3, ThreadFields DEF KnownOk, Own
      <4> QED
        BY <3>1, <4>1, <4>2, <4>3 DEF CodexInv
    <3>3. /\ DOMAIN cp' = CheckpointFields /\ cp'.at = RewindPoint.at
          /\ cp'.thread = RewindPoint.thread /\ cp'.page = None
      BY <3>1, CheckpointFieldsOf
    <3>4. KnownOk(file, cp') /\ seen' \in 0..Len(file)
      BY <3>1, <3>2, <3>3 DEF KnownOk
    <3> QED
      BY <3>1, <3>3, <3>4 DEF CodexInv
  <2>6. CASE CaptureRaw
    <3> DEFINE r == Result
               k == AfterFragments(r)
    <3>1. /\ change = "none" /\ Through > cp.at
          /\ cp' = Checkpoint(k, Ahead.page, cp.generation) /\ seen' = k.at
          /\ UNCHANGED <<file, captured, change, pageLines>>
      BY <2>6 DEF CaptureRaw
    <3>2. ReadInv(file, cp.at, Through, r) /\ Through \in 0..Len(file)
      BY <3>1, ResultKeeps
    <3> HIDE DEF r
    <3>3. KnownOk(file, k)
      <4>1. CASE ResumesAtInput(r)
        <5>1. r.first # None /\ k.at = r.first.at /\ k.thread = r.first.thread
          BY <4>1 DEF AfterFragments, Known, ResumesAtInput
        <5> QED
          BY <3>2, <5>1 DEF ReadInv, FirstInput, KnownOk
      <4>2. CASE ~ResumesAtInput(r)
        <5>1. k.at = Through /\ k.thread = r.thread
          BY <4>2 DEF AfterFragments, Known
        <5>2. Own(file, r.confirmed, r.thread) /\ r.confirmed \in 0..Through
          BY <3>2 DEF ReadInv, InForce
        <5>3. Own(file, Through, r.thread)
          <6>1. Through \in Nat /\ r.confirmed \in Nat /\ r.confirmed <= Through
            BY <3>2, <5>2
          <6> QED
            BY <5>2, <6>1, OwnLater
        <5> QED
          BY <3>2, <5>1, <5>3 DEF KnownOk
      <4> QED
        BY <4>1, <4>2
    <3> HIDE DEF k
    <3>4. /\ DOMAIN cp' = CheckpointFields /\ cp'.at = k.at
          /\ cp'.thread = k.thread /\ cp'.page = Ahead.page
      BY <3>1, CheckpointFieldsOf
    <3>5. KnownOk(file, cp') /\ KnownOk(file, cp'.page) /\ seen' \in 0..Len(file)
      BY <3>1, <3>3, <3>4, AheadKnown DEF KnownOk
    <3>6. \A t \in captured' : GoodTurn(file, Len(file), t)
      BY <3>1 DEF CodexInv
    <3> QED
      BY <3>1, <3>4, <3>5, <3>6, RunKeeps
  <2>7. ASSUME change = "none", Through > cp.at
        PROVE  \A x \in 1..Len(Result.turns) :
                 /\ GoodTurn(file, Len(file), Result.turns[x])
                 /\ KnownOk(file, AfterTurn(Result.turns[x]))
    <3> DEFINE r == Result
    <3>1. ReadInv(file, cp.at, Through, r) /\ Through \in 0..Len(file)
      BY <2>7, ResultKeeps
    <3>2. PICK S : r.turns \in Seq(S) /\ \A t \in S : GoodTurn(file, Through, t)
      BY <3>1 DEF ReadInv, GoodTurns
    <3> HIDE DEF r
    <3>3. ASSUME NEW x \in 1..Len(r.turns)
          PROVE  GoodTurn(file, Len(file), r.turns[x]) /\ KnownOk(file, AfterTurn(r.turns[x]))
      <4> DEFINE t == r.turns[x]
      <4>1. GoodTurn(file, Through, t)
        BY <3>2
      <4> HIDE DEF t
      <4>2. t.user \in 1..Through /\ t.end \in t.user..Through /\ Own(file, t.end, t.thread)
        BY <4>1 DEF GoodTurn
      <4>3. GoodTurn(file, Len(file), t)
        BY <3>1, <4>1, <4>2 DEF GoodTurn
      <4>4. AfterTurn(t).at = t.end /\ AfterTurn(t).thread = t.thread
        BY DEF AfterTurn, Known
      <4>5. KnownOk(file, AfterTurn(t))
        BY <3>1, <4>2, <4>4 DEF KnownOk
      <4> QED
        BY <4>3, <4>5 DEF t
    <3> QED
      BY <3>3 DEF r
  <2>8. ASSUME change = "none", Through > cp.at PROVE Result.turns \in Seq({Result.turns[x] : x \in 1..Len(Result.turns)})
    <3>1. PICK S : Result.turns \in Seq(S)
      BY <2>8, ResultKeeps DEF ReadInv, GoodTurns
    <3> QED
      BY <3>1
  <2>9. CASE CaptureTurns
    <3> DEFINE r == Result
    <3>1. /\ change = "none" /\ Through > cp.at /\ captured' = captured \cup ToSet(r.turns)
          /\ cp' = Checkpoint(AfterPage(r), Ahead.page, cp.generation) /\ seen' = Through
          /\ UNCHANGED <<file, change, pageLines>>
      BY <2>9 DEF CaptureTurns
    <3>2. ReadInv(file, cp.at, Through, r) /\ Through \in 0..Len(file)
      BY <3>1, ResultKeeps
    <3>3. DOMAIN r.turns = 1..Len(r.turns)
      BY <2>8, <3>1
    <3>4. \A x \in 1..Len(r.turns) : GoodTurn(file, Len(file), r.turns[x])
      BY <2>7, <3>1
    <3> HIDE DEF r
    <3>5. \A t \in captured' : GoodTurn(file, Len(file), t)
      BY <3>1, <3>3, <3>4 DEF ToSet, CodexInv
    <3>6. KnownOk(file, AfterPage(r))
      <4>1. AfterPage(r).at = r.confirmed /\ AfterPage(r).thread = r.thread
        BY DEF AfterPage, Known
      <4> QED
        BY <3>2, <4>1 DEF ReadInv, InForce, KnownOk
    <3> DEFINE k == AfterPage(r)
    <3> HIDE DEF k
    <3>7. /\ DOMAIN cp' = CheckpointFields /\ cp'.at = k.at
          /\ cp'.thread = k.thread /\ cp'.page = Ahead.page
      BY <3>1, CheckpointFieldsOf DEF k
    <3>8. KnownOk(file, k)
      BY <3>6 DEF k
    <3>9. KnownOk(file, cp') /\ KnownOk(file, cp'.page)
      BY <3>1, <3>7, <3>8, AheadKnown DEF KnownOk
    <3> QED
      BY <3>1, <3>2, <3>5, <3>7, <3>9, RunKeeps
  <2>10. CASE ReadFails
    <3>1. /\ change = "none" /\ Through > cp.at /\ UNCHANGED <<file, seen, change, pageLines>>
      BY <2>10 DEF ReadFails
    <3> DEFINE r == Result
    <3>2. PICK n \in 0..Len(r.turns) : \E saved \in {n, n - 1} \cap Nat :
            /\ captured' = captured \cup {r.turns[k] : k \in 1..n}
            /\ cp' = IF saved = 0 THEN Ahead
                     ELSE Checkpoint(AfterTurn(r.turns[saved]), Ahead.page, cp.generation)
      BY <2>10 DEF ReadFails
    <3>3. PICK saved \in {n, n - 1} \cap Nat :
            /\ captured' = captured \cup {r.turns[k] : k \in 1..n}
            /\ cp' = IF saved = 0 THEN Ahead
                     ELSE Checkpoint(AfterTurn(r.turns[saved]), Ahead.page, cp.generation)
      BY <3>2
    <3>4. Len(r.turns) \in Nat
      BY <2>8, <3>1
    <3>5. \A x \in 1..Len(r.turns) : /\ GoodTurn(file, Len(file), r.turns[x])
                                     /\ KnownOk(file, AfterTurn(r.turns[x]))
      BY <2>7, <3>1
    <3> HIDE DEF r
    <3>6. \A t \in captured' : GoodTurn(file, Len(file), t)
      BY <3>1, <3>3, <3>4, <3>5 DEF CodexInv
    <3>7. DOMAIN cp' = CheckpointFields /\ KnownOk(file, cp') /\ KnownOk(file, cp'.page)
      <4>1. CASE saved = 0
        BY <3>1, <3>3, <4>1, AheadKnown
      <4>2. CASE saved # 0
        <5> DEFINE k == AfterTurn(r.turns[saved])
        <5>1. saved \in 1..Len(r.turns)
          BY <3>3, <3>4, <4>2
        <5>2. KnownOk(file, k)
          BY <3>5, <5>1
        <5> HIDE DEF k
        <5>3. cp' = Checkpoint(k, Ahead.page, cp.generation)
          BY <3>3, <4>2 DEF k
        <5>4. /\ DOMAIN cp' = CheckpointFields /\ cp'.at = k.at
              /\ cp'.thread = k.thread /\ cp'.page = Ahead.page
          BY <5>3, CheckpointFieldsOf
        <5> QED
          BY <3>1, <5>2, <5>4, AheadKnown DEF KnownOk
      <4> QED
        BY <4>1, <4>2
    <3>8. seen' \in 0..Len(file)
      BY <3>1 DEF CodexInv
    <3> QED
      BY <3>1, <3>6, <3>7, <3>8, RunKeeps
  <2>11. CASE UNCHANGED vars
    BY <2>11 DEF vars, CodexInv
  <2> QED
    BY <2>1, <2>2, <2>3, <2>4, <2>5, <2>6, <2>9, <2>10, <2>11 DEF Next, Read
<1> QED
  BY <1>1, <1>2, PTL DEF Spec

(* A turn is never filed under the thread of an ancestor, whatever pages    *)
(* the rollout was read in and wherever a run ended.                        *)
THEOREM CodexOwnLineage == Spec => []OwnLineage
<1>1. CodexInv => OwnLineage
  <2> SUFFICES ASSUME CodexInv, change = "none", NEW t \in captured,
                      t.thread.kind \notin {None, "unknown"}
               PROVE  file[1].line = "header" /\ t.thread.id = Reconciled(Lineage(file[1])).id
    BY DEF OwnLineage
  <2>1. GoodTurn(file, Len(file), t)
    BY DEF CodexInv
  <2> QED
    BY <2>1 DEF GoodTurn, Own
<1> QED
  BY <1>1, CodexInvariant, PTL

(* A turn is the work another agent asked for only if that agent's message  *)
(* to this thread was announced right before it.                            *)
THEOREM CodexTriggeredByMarker == Spec => []TriggeredByMarker
<1>1. CodexInv => TriggeredByMarker
  BY DEF CodexInv, TriggeredByMarker, GoodTurn, Sent
<1> QED
  BY <1>1, CodexInvariant, PTL
================================================================================
