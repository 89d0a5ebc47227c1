------------------------------ MODULE LedgerProofs ------------------------------
(* What the readers of the ledger rest on: recursive functions, filtered    *)
(* and ordered sequences, one page of storage, and the clusters made of     *)
(* what was read.                                                           *)
EXTENDS WorkClusters, FiniteSetTheorems, SequenceTheorems, WellFoundedInduction, TLAPS

(* Induction over the natural numbers, for a set instead of a predicate.    *)
LEMMA SetInduction ==
  ASSUME NEW S, 0 \in S, \A n \in Nat : n \in S => n + 1 \in S
  PROVE  Nat \subseteq S
<1> DEFINE T == Nat \ S
<1> SUFFICES ASSUME T # {} PROVE FALSE
  OBVIOUS
<1>1. IsWellFoundedOn(OpToRel(<, Nat), Nat)
  BY NatLessThanWellFounded
<1>2. PICK x \in T : \A y \in T : <<y, x>> \notin OpToRel(<, Nat)
  <2>1. T \subseteq Nat
    OBVIOUS
  <2> HIDE DEF T
  <2> QED
    BY <1>1, <2>1, WFMin
<1>3. \A y \in T : ~ (y < x)
  BY <1>2 DEF OpToRel
<1>4. x \in Nat /\ x # 0
  OBVIOUS
<1>5. x - 1 \in Nat /\ x - 1 < x
  BY <1>4
<1>6. x - 1 \in S
  BY <1>3, <1>5
<1>7. (x - 1) + 1 \in S
  BY <1>5, <1>6
<1> QED
  BY <1>4, <1>7

StepsBy(f, base, step) ==
  \A n \in Nat : f[n] = IF n = 0 THEN base ELSE step[<<n, f[n - 1]>>]

(* A value that is reached step by step within a set is what a recursive    *)
(* function computes.                                                       *)
LEMMA Recursion ==
  ASSUME NEW V, NEW base \in V, NEW step \in [Nat \X V -> V]
  PROVE  \E f \in [Nat -> V] : StepsBy(f, base, step)
<1> DEFINE Val(h, n) == IF n = 0 THEN base ELSE step[<<n, h[n - 1]>>]
           UpTo(h, n) == h \in [0..n -> V] /\ \A k \in 0..n : h[k] = Val(h, k)
           Exist == {n \in Nat : \E h : UpTo(h, n)}
           Agree == {n \in Nat : \A h1, h2 : \A m \in Nat :
                        m >= n /\ UpTo(h1, n) /\ UpTo(h2, m) => h1[n] = h2[n]}
           g == [n \in Nat |-> (CHOOSE h : UpTo(h, n))[n]]
<1>1. Nat \subseteq Exist
  <2>1. 0 \in Exist
    <3>1. UpTo([k \in 0..0 |-> base], 0)
      OBVIOUS
    <3> QED
      BY <3>1
  <2>2. ASSUME NEW n \in Nat, n \in Exist PROVE n + 1 \in Exist
    <3>1. PICK h : UpTo(h, n)
      BY <2>2
    <3> DEFINE h2 == [k \in 0..(n + 1) |-> IF k = n + 1 THEN Val(h, n + 1) ELSE h[k]]
    <3>2. h[n] \in V /\ n + 1 # 0 /\ n + 1 \in Nat /\ n \in 0..n
      BY <3>1
    <3>3. step[<<n + 1, h[n]>>] \in V
      BY <3>2
    <3>4. Val(h, n + 1) \in V
      <4>1. (n + 1) - 1 = n
        OBVIOUS
      <4> QED
        BY <3>2, <3>3, <4>1
    <3>5. ASSUME NEW k \in 0..(n + 1) PROVE h2[k] \in V /\ h2[k] = Val(h2, k)
      <4>1. CASE k = n + 1
        <5>1. n \in 0..(n + 1) /\ n # n + 1 /\ k - 1 = n
          BY <4>1
        <5>2. h2[n] = h[n]
          BY <5>1
        <5> QED
          BY <4>1, <3>4, <5>1, <5>2
      <4>2. CASE k # n + 1
        <5>1. k \in 0..n /\ (k # 0 => k - 1 \in 0..(n + 1) /\ k - 1 # n + 1)
          BY <4>2
        <5>2. h[k] = Val(h, k) /\ h[k] \in V
          BY <5>1, <3>1
        <5> QED
          BY <5>1, <5>2
      <4> QED
        BY <4>1, <4>2
    <3>6. h2 = [k \in 0..(n + 1) |-> h2[k]]
      OBVIOUS
    <3> HIDE DEF h2
    <3>7. UpTo(h2, n + 1)
      BY <3>5, <3>6
    <3> QED
      BY <3>7
  <2> HIDE DEF Exist
  <2> QED
    BY <2>1, <2>2, SetInduction
<1>2. Nat \subseteq Agree
  <2>1. 0 \in Agree
    <3>1. ASSUME NEW h1, NEW h2, NEW m \in Nat, UpTo(h1, 0), UpTo(h2, m) PROVE h1[0] = h2[0]
      <4>1. 0 \in 0..m /\ 0 \in 0..0
        OBVIOUS
      <4> QED
        BY <3>1, <4>1
    <3> QED
      BY <3>1
  <2>2. ASSUME NEW n \in Nat, n \in Agree PROVE n + 1 \in Agree
    <3>1. ASSUME NEW h1, NEW h2, NEW m \in Nat, m >= n + 1, UpTo(h1, n + 1), UpTo(h2, m)
          PROVE  h1[n + 1] = h2[n + 1]
      <4> DEFINE h3 == [k \in 0..n |-> h1[k]]
      <4>1. UpTo(h3, n)
        <5>1. ASSUME NEW k \in 0..n PROVE h3[k] \in V /\ h3[k] = Val(h3, k)
          <6>1. k \in 0..(n + 1) /\ (k # 0 => k - 1 \in 0..n)
            OBVIOUS
          <6>2. h1[k] = Val(h1, k) /\ h1[k] \in V
            BY <3>1, <6>1
          <6> QED
            BY <6>1, <6>2
        <5>2. h3 = [k \in 0..n |-> h3[k]]
          OBVIOUS
        <5> HIDE DEF h3
        <5> QED
          BY <5>1, <5>2
      <4>2. h3[n] = h2[n]
        <5>1. m >= n
          BY <3>1
        <5> HIDE DEF h3, UpTo
        <5> QED
          BY <3>1, <4>1, <5>1, <2>2
      <4>3. h3[n] = h1[n] /\ n + 1 \in 0..m /\ n + 1 \in 0..(n + 1) /\ (n + 1) - 1 = n /\ n + 1 # 0
        BY <3>1
      <4> HIDE DEF h3
      <4>4. h1[n + 1] = step[<<n + 1, h1[n]>>] /\ h2[n + 1] = step[<<n + 1, h2[n]>>]
        BY <3>1, <4>3
      <4> QED
        BY <4>2, <4>3, <4>4
    <3> HIDE DEF UpTo
    <3> QED
      BY <3>1
  <2> HIDE DEF Agree
  <2> QED
    BY <2>1, <2>2, SetInduction
<1>3. ASSUME NEW n \in Nat PROVE g[n] \in V /\ g[n] = Val(g, n)
  <2> DEFINE h == CHOOSE x : UpTo(x, n)
             j == CHOOSE x : UpTo(x, n - 1)
  <2>1. UpTo(h, n)
    <3>1. \E x : UpTo(x, n)
      BY <1>1
    <3> HIDE DEF UpTo
    <3> QED
      BY <3>1
  <2>2. g[n] = h[n]
    OBVIOUS
  <2>6. n \in 0..n
    OBVIOUS
  <2>3. h[n] \in V /\ h[n] = Val(h, n)
    <3> HIDE DEF h, g
    <3> QED
      BY <2>1, <2>6
  <2>4. CASE n = 0
    BY <2>2, <2>3, <2>4
  <2>5. CASE n # 0
    <3>1. n - 1 \in Nat /\ n >= n - 1
      BY <2>5
    <3>2. UpTo(j, n - 1)
      <4>1. \E x : UpTo(x, n - 1)
        BY <1>1, <3>1
      <4> HIDE DEF UpTo
      <4> QED
        BY <4>1
    <3>3. g[n - 1] = j[n - 1]
      BY <3>1
    <3>4. j[n - 1] = h[n - 1]
      <4>1. n - 1 \in Agree
        BY <1>2, <3>1
      <4> HIDE DEF h, j, UpTo
      <4> QED
        BY <2>1, <3>1, <3>2, <4>1
    <3> HIDE DEF h, j, g
    <3> QED
      BY <2>2, <2>3, <2>5, <3>3, <3>4
  <2> QED
    BY <2>4, <2>5
<1>4. g \in [Nat -> V]
  <2>1. g = [n \in Nat |-> g[n]]
    OBVIOUS
  <2> HIDE DEF g
  <2> QED
    BY <1>3, <2>1
<1> HIDE DEF g
<1> QED
  BY <1>3, <1>4 DEF StepsBy

--------------------------------------------------------------------------------
(* Filtering a sequence.                                                    *)

OneByOne(u, s, S) ==
  /\ u[0] = <<>>
  /\ \A n \in Nat : u[n + 1] = IF s[n + 1] \in S THEN Append(u[n], s[n + 1]) ELSE u[n]

(* Among is computed element by element.                                    *)
LEMMA AmongOneByOne ==
  ASSUME NEW s, NEW S
  PROVE  \E u : OneByOne(u, s, S) /\ Among(s, S) = u[Len(s)]
<1> DEFINE V == Seq({s[k] : k \in Nat})
           Val(f, n) == IF n = 0 THEN <<>>
                        ELSE IF s[n] \in S THEN Append(f[n - 1], s[n]) ELSE f[n - 1]
           step == [x \in Nat \X V |-> IF s[x[1]] \in S THEN Append(x[2], s[x[1]]) ELSE x[2]]
           U == CHOOSE f : f = [n \in Nat |-> Val(f, n)]
<1>1. <<>> \in V /\ step \in [Nat \X V -> V]
  <2>1. ASSUME NEW k \in Nat, NEW t \in V PROVE Append(t, s[k]) \in V
    OBVIOUS
  <2>2. ASSUME NEW x \in Nat \X V
        PROVE  (IF s[x[1]] \in S THEN Append(x[2], s[x[1]]) ELSE x[2]) \in V
    <3>1. x[1] \in Nat /\ x[2] \in V
      OBVIOUS
    <3> HIDE DEF V
    <3> QED
      BY <2>1, <3>1
  <2>3. <<>> \in V
    OBVIOUS
  <2> HIDE DEF V
  <2> QED
    BY <2>2, <2>3
<1>2. PICK f \in [Nat -> V] : StepsBy(f, <<>>, step)
  <2> HIDE DEF V, step
  <2> QED
    BY <1>1, Recursion
<1>3. ASSUME NEW n \in Nat PROVE f[n] = Val(f, n)
  <2>1. CASE n = 0
    BY <1>2, <2>1 DEF StepsBy
  <2>2. CASE n # 0
    <3>1. n - 1 \in Nat
      BY <2>2
    <3>2. <<n, f[n - 1]>> \in Nat \X V
      <4> HIDE DEF V
      <4> QED
        BY <1>2, <3>1
    <3>3. f[n] = step[<<n, f[n - 1]>>]
      <4> HIDE DEF V, step
      <4> QED
        BY <1>2, <2>2 DEF StepsBy
    <3>4. step[<<n, f[n - 1]>>] = IF s[n] \in S THEN Append(f[n - 1], s[n]) ELSE f[n - 1]
      <4> HIDE DEF V
      <4> QED
        BY <3>2
    <3> HIDE DEF step
    <3> QED
      BY <2>2, <3>3, <3>4
  <2> QED
    BY <2>1, <2>2
<1>4. f = [n \in Nat |-> Val(f, n)]
  <2>1. f = [n \in Nat |-> f[n]]
    <3> HIDE DEF V
    <3> QED
      BY <1>2
  <2> HIDE DEF Val
  <2> QED
    BY <1>3, <2>1
<1>5. U = [n \in Nat |-> Val(U, n)]
  <2> HIDE DEF Val
  <2> QED
    BY <1>4
<1>6. ASSUME NEW n \in Nat PROVE U[n] = Val(U, n)
  <2> HIDE DEF Val, U
  <2> QED
    BY <1>5
<1>7. OneByOne(U, s, S)
  <2>1. U[0] = <<>>
    <3> HIDE DEF U
    <3> QED
      BY <1>6
  <2>2. ASSUME NEW n \in Nat
        PROVE  U[n + 1] = IF s[n + 1] \in S THEN Append(U[n], s[n + 1]) ELSE U[n]
    <3>1. n + 1 \in Nat /\ n + 1 # 0 /\ (n + 1) - 1 = n
      OBVIOUS
    <3>2. U[n + 1] = Val(U, n + 1)
      <4> HIDE DEF Val, U
      <4> QED
        BY <1>6, <3>1
    <3> HIDE DEF U
    <3> QED
      BY <3>1, <3>2
  <2> HIDE DEF U
  <2> QED
    BY <2>1, <2>2 DEF OneByOne
<1>8. Among(s, S) = U[Len(s)]
  BY DEF Among
<1> HIDE DEF U
<1> QED
  BY <1>7, <1>8

(* What Among returns: the elements of s at increasing places p, and all    *)
(* that are in S.                                                           *)
Places(p, a, s, S, m) ==
  /\ p \in [1..Len(a) -> 1..m]
  /\ \A i, j \in 1..Len(a) : i < j => p[i] < p[j]
  /\ \A i \in 1..Len(a) : a[i] = s[p[i]] /\ a[i] \in S
  /\ \A k \in 1..m : s[k] \in S => \E i \in 1..Len(a) : p[i] = k

LEMMA AmongPlaces ==
  ASSUME NEW T, NEW s \in Seq(T), NEW S
  PROVE  /\ Among(s, S) \in Seq(T)
         /\ \E p : Places(p, Among(s, S), s, S, Len(s))
<1>1. PICK u : OneByOne(u, s, S) /\ Among(s, S) = u[Len(s)]
  BY AmongOneByOne
<1> DEFINE Good == {n \in Nat : n <= Len(s) => u[n] \in Seq(T) /\ \E p : Places(p, u[n], s, S, n)}
<1>2. 0 \in Good
  <2>1. u[0] = <<>>
    BY <1>1 DEF OneByOne
  <2>2. Places([i \in 1..0 |-> 0], <<>>, s, S, 0)
    BY DEF Places
  <2>3. <<>> \in Seq(T)
    OBVIOUS
  <2>4. \E p : Places(p, u[0], s, S, 0)
    BY <2>1, <2>2
  <2> QED
    BY <2>1, <2>3, <2>4
<1>3. ASSUME NEW n \in Nat, n \in Good PROVE n + 1 \in Good
  <2> SUFFICES ASSUME n + 1 <= Len(s)
               PROVE  u[n + 1] \in Seq(T) /\ \E p : Places(p, u[n + 1], s, S, n + 1)
    OBVIOUS
  <2>1. n <= Len(s) /\ n + 1 \in 1..Len(s) /\ s[n + 1] \in T
    OBVIOUS
  <2>2. u[n] \in Seq(T)
    BY <1>3, <2>1
  <2>3. PICK p : Places(p, u[n], s, S, n)
    BY <1>3, <2>1
  <2>4. u[n + 1] = IF s[n + 1] \in S THEN Append(u[n], s[n + 1]) ELSE u[n]
    BY <1>1 DEF OneByOne
  <2>5. CASE s[n + 1] \notin S
    <3>1. u[n + 1] = u[n]
      BY <2>4, <2>5
    <3>2. Places(p, u[n], s, S, n + 1)
      <4>1. p \in [1..Len(u[n]) -> 1..(n + 1)]
        BY <2>3 DEF Places
      <4>2. ASSUME NEW k \in 1..(n + 1), s[k] \in S PROVE \E i \in 1..Len(u[n]) : p[i] = k
        <5>1. k \in 1..n
          BY <4>2, <2>5
        <5> QED
          BY <5>1, <4>2, <2>3 DEF Places
      <4> QED
        BY <2>3, <4>1, <4>2 DEF Places
    <3> QED
      BY <2>2, <3>1, <3>2
  <2>6. CASE s[n + 1] \in S
    <3> DEFINE a == u[n]
               b == Append(a, s[n + 1])
               r == [i \in 1..(Len(a) + 1) |-> IF i = Len(a) + 1 THEN n + 1 ELSE p[i]]
    <3>1. u[n + 1] = b
      BY <2>4, <2>6
    <3>2. /\ b \in Seq(T) /\ Len(b) = Len(a) + 1 /\ Len(a) \in Nat
          /\ b[Len(a) + 1] = s[n + 1] /\ \A i \in 1..Len(a) : b[i] = a[i]
      BY <2>1, <2>2
    <3>3. Places(r, b, s, S, n + 1)
      <4>9. ASSUME NEW i \in 1..Len(a) PROVE p[i] \in 1..n
        BY <2>3 DEF Places
      <4>1. /\ \A i \in 1..Len(a) : p[i] \in 1..n /\ r[i] = p[i]
            /\ r[Len(a) + 1] = n + 1
        <5>1. Len(a) + 1 \in 1..(Len(a) + 1) /\ \A i \in 1..Len(a) : i \in 1..(Len(a) + 1) /\ i # Len(a) + 1
          BY <3>2
        <5> HIDE DEF a
        <5> QED
          BY <4>9, <5>1
      <4>8. ASSUME NEW i \in 1..(Len(a) + 1) PROVE r[i] \in 1..(n + 1)
        <5>1. i \in 1..Len(a) \/ i = Len(a) + 1
          BY <3>2
        <5> HIDE DEF r
        <5> QED
          BY <4>1, <5>1
      <4>2. r \in [1..Len(b) -> 1..(n + 1)]
        <5>1. r = [i \in 1..(Len(a) + 1) |-> r[i]]
          OBVIOUS
        <5> HIDE DEF r, b
        <5> QED
          BY <3>2, <4>8, <5>1
      <4> HIDE DEF r, b, a
      <4>3. ASSUME NEW i \in 1..Len(b) PROVE i \in 1..Len(a) \/ i = Len(a) + 1
        BY <3>2
      <4>4. ASSUME NEW i \in 1..Len(b), NEW j \in 1..Len(b), i < j PROVE r[i] < r[j]
        <5>1. i \in 1..Len(a) /\ r[i] \in 1..n
          BY <3>2, <4>1, <4>4
        <5>2. CASE j \in 1..Len(a)
          BY <5>1, <5>2, <4>1, <4>4, <2>3 DEF Places, a
        <5>3. CASE j = Len(a) + 1
          BY <5>1, <5>3, <4>1
        <5> QED
          BY <4>3, <5>2, <5>3
      <4>5. ASSUME NEW i \in 1..Len(b) PROVE b[i] = s[r[i]] /\ b[i] \in S
        <5>1. CASE i \in 1..Len(a)
          BY <5>1, <3>2, <4>1, <2>3 DEF Places, a
        <5>2. CASE i = Len(a) + 1
          BY <5>2, <3>2, <4>1, <2>6
        <5> QED
          BY <4>3, <5>1, <5>2
      <4>6. ASSUME NEW k \in 1..(n + 1), s[k] \in S PROVE \E i \in 1..Len(b) : r[i] = k
        <5>1. CASE k = n + 1
          BY <5>1, <3>2, <4>1
        <5>2. CASE k # n + 1
          <6>1. k \in 1..n
            BY <5>2
          <6>2. PICK i \in 1..Len(a) : p[i] = k
            BY <6>1, <4>6, <2>3 DEF Places, a
          <6>3. i \in 1..Len(b) /\ i \in 1..Len(a)
            BY <3>2, <6>2
          <6>4. r[i] = k
            BY <4>1, <6>2, <6>3
          <6> QED
            BY <6>3, <6>4
        <5> QED
          BY <5>1, <5>2
      <4> QED
        BY <4>2, <4>4, <4>5, <4>6 DEF Places
    <3> HIDE DEF b, r
    <3> QED
      BY <3>1, <3>2, <3>3
  <2> QED
    BY <2>5, <2>6
<1>4. Len(s) \in Good
  <2> HIDE DEF Good
  <2> QED
    BY <1>2, <1>3, SetInduction
<1> QED
  BY <1>1, <1>4

LEMMA TailOf ==
  ASSUME NEW T, NEW s \in Seq(T), NEW d \in Nat, d <= Len(s)
  PROVE  /\ SubSeq(s, 1 + d, Len(s)) \in Seq(T) /\ Len(SubSeq(s, 1 + d, Len(s))) = Len(s) - d
         /\ \A i \in 1..(Len(s) - d) : SubSeq(s, 1 + d, Len(s))[i] = s[d + i]
OBVIOUS

(* Filtering and renaming commute, if the tests agree.                      *)
Renames(m, s, S, t, T) ==
  /\ Len(t) = Len(s)
  /\ \A i \in 1..Len(s) : t[i] = m[s[i]] /\ (s[i] \in S <=> t[i] \in T)

LEMMA AmongMapped ==
  ASSUME NEW A, NEW B, NEW s \in Seq(A), NEW t \in Seq(B), NEW S, NEW T, NEW m, Renames(m, s, S, t, T)
  PROVE  Among(t, T) = [i \in DOMAIN Among(s, S) |-> m[Among(s, S)[i]]]
<1>1. PICK u : OneByOne(u, s, S) /\ Among(s, S) = u[Len(s)]
  BY AmongOneByOne
<1>2. PICK w : OneByOne(w, t, T) /\ Among(t, T) = w[Len(t)]
  BY AmongOneByOne
<1> DEFINE Good == {n \in Nat : n <= Len(s) => u[n] \in Seq(A) /\ w[n] = [i \in 1..Len(u[n]) |-> m[u[n][i]]]}
<1>3. 0 \in Good
  <2>1. u[0] = <<>> /\ w[0] = <<>>
    BY <1>1, <1>2 DEF OneByOne
  <2>2. <<>> \in Seq(A) /\ <<>> = [i \in 1..Len(<<>>) |-> m[<<>>[i]]]
    OBVIOUS
  <2> QED
    BY <2>1, <2>2
<1>4. ASSUME NEW n \in Nat, n \in Good PROVE n + 1 \in Good
  <2> SUFFICES ASSUME n + 1 <= Len(s)
               PROVE  /\ u[n + 1] \in Seq(A)
                      /\ w[n + 1] = [i \in 1..Len(u[n + 1]) |-> m[u[n + 1][i]]]
    OBVIOUS
  <2> DEFINE a == u[n]
  <2>1. n <= Len(s) /\ n + 1 \in 1..Len(s) /\ s[n + 1] \in A
    OBVIOUS
  <2>2. a \in Seq(A) /\ w[n] = [i \in 1..Len(a) |-> m[a[i]]]
    BY <1>4, <2>1
  <2>3. /\ u[n + 1] = IF s[n + 1] \in S THEN Append(a, s[n + 1]) ELSE a
        /\ w[n + 1] = IF t[n + 1] \in T THEN Append(w[n], t[n + 1]) ELSE w[n]
    BY <1>1, <1>2 DEF OneByOne
  <2>4. t[n + 1] = m[s[n + 1]] /\ (s[n + 1] \in S <=> t[n + 1] \in T)
    BY <2>1 DEF Renames
  <2> HIDE DEF a
  <2>5. CASE s[n + 1] \notin S
    BY <2>2, <2>3, <2>4, <2>5
  <2>6. CASE s[n + 1] \in S
    <3> DEFINE x == s[n + 1]
               b == Append(a, x)
    <3>1. u[n + 1] = b /\ w[n + 1] = Append([i \in 1..Len(a) |-> m[a[i]]], m[x])
      BY <2>2, <2>3, <2>4, <2>6
    <3>2. b \in Seq(A) /\ Len(b) = Len(a) + 1
          /\ b[Len(a) + 1] = x /\ \A i \in 1..Len(a) : b[i] = a[i]
      BY <2>1, <2>2
    <3>3. Append([i \in 1..Len(a) |-> m[a[i]]], m[x]) = [i \in 1..Len(b) |-> m[b[i]]]
      <4> DEFINE c == [i \in 1..Len(a) |-> m[a[i]]]
                 M == {m[a[i]] : i \in 1..Len(a)} \cup {m[x]}
      <4>1. Len(a) \in Nat
        BY <2>2
      <4>2. c \in Seq(M) /\ Len(c) = Len(a)
        BY <4>1
      <4>3. m[x] \in M
        OBVIOUS
      <4> HIDE DEF M, x, b
      <4>4. /\ Append(c, m[x]) \in Seq(M) /\ Len(Append(c, m[x])) = Len(a) + 1
            /\ Append(c, m[x])[Len(a) + 1] = m[x]
            /\ \A i \in 1..Len(a) : Append(c, m[x])[i] = c[i]
        <5> HIDE DEF c
        <5> QED
          BY <4>1, <4>2, <4>3
      <4>5. \A i \in 1..Len(a) : c[i] = m[b[i]]
        BY <3>2
      <4>6. ASSUME NEW i \in 1..Len(b) PROVE Append(c, m[x])[i] = m[b[i]]
        <5>1. i \in 1..Len(a) \/ i = Len(a) + 1
          BY <3>2, <4>1
        <5> HIDE DEF c
        <5> QED
          BY <5>1, <4>4, <4>5, <3>2
      <4>7. Append(c, m[x]) = [i \in 1..Len(b) |-> Append(c, m[x])[i]]
        <5> HIDE DEF c
        <5> QED
          BY <4>4, <3>2
      <4> HIDE DEF c
      <4>8. Append(c, m[x]) = [i \in 1..Len(b) |-> m[b[i]]]
        BY <4>6, <4>7
      <4> QED
        BY <4>8 DEF c
    <3> HIDE DEF b
    <3> QED
      BY <3>1, <3>2, <3>3
  <2> QED
    BY <2>5, <2>6
<1>5. Len(s) \in Good
  <2> HIDE DEF Good
  <2> QED
    BY <1>3, <1>4, SetInduction
<1>6. u[Len(s)] \in Seq(A) /\ w[Len(s)] = [i \in 1..Len(u[Len(s)]) |-> m[u[Len(s)][i]]]
  BY <1>5
<1>7. Len(t) = Len(s)
  BY DEF Renames
<1>8. Among(t, T) = w[Len(s)]
  BY <1>2, <1>7
<1>9. DOMAIN u[Len(s)] = 1..Len(u[Len(s)])
  BY <1>6
<1> QED
  BY <1>1, <1>6, <1>8, <1>9

--------------------------------------------------------------------------------
(* The order of events. A point is anything with a time and an id: a row or *)
(* a cursor.                                                                *)

Point(a) == a.ts \in Int /\ a.id \in Int

LEMMA AheadIsOrder ==
  ASSUME NEW order, NEW a, NEW b, NEW c, Point(a), Point(b), Point(c)
  PROVE  /\ ~Ahead(order, a, a)
         /\ Ahead(order, a, b) => ~Ahead(order, b, a)
         /\ Ahead(order, a, b) /\ Ahead(order, b, c) => Ahead(order, a, c)
         /\ Ahead(order, a, b) \/ Ahead(order, b, a) \/ a.id = b.id
BY DEF Point, Ahead, Older

(* A set of rows in which an id tells the row.                              *)
Distinct(M) == \A a \in M : Point(a) /\ \A b \in M : a.id = b.id => a = b

LEMMA AheadInDistinct ==
  ASSUME NEW M, Distinct(M), NEW order, NEW a \in M, NEW b \in M, NEW c \in M
  PROVE  /\ ~Ahead(order, a, a)
         /\ Ahead(order, a, b) => ~Ahead(order, b, a)
         /\ Ahead(order, a, b) /\ Ahead(order, b, c) => Ahead(order, a, c)
         /\ Ahead(order, a, b) \/ Ahead(order, b, a) \/ a = b
<1>1. Point(a) /\ Point(b) /\ Point(c) /\ (a.id = b.id => a = b)
  BY DEF Distinct
<1> QED
  BY <1>1, AheadIsOrder

(* s is a beginning of M in this order.                                     *)
InTurn(s, order) == \A i, j \in 1..Len(s) : i < j => Ahead(order, s[i], s[j])

Begins(s, M, order) ==
  /\ s \in Seq(M) /\ InTurn(s, order)
  /\ \A i \in 1..Len(s), x \in M : Ahead(order, x, s[i]) => x \in ToSet(s)

LEMMA ElementsOf ==
  ASSUME NEW T, NEW s \in Seq(T)
  PROVE  /\ ToSet(s) \subseteq T
         /\ \A x : x \in ToSet(s) <=> \E i \in 1..Len(s) : s[i] = x
         /\ \A i \in 1..Len(s) : s[i] \in ToSet(s) /\ s[i] \in T
         /\ Len(s) \in Nat
         /\ DOMAIN s = 1..Len(s)
BY DEF ToSet

LEMMA BeginsElements ==
  ASSUME NEW M, NEW s, NEW order, Begins(s, M, order)
  PROVE  /\ s \in Seq(M) /\ ToSet(s) \subseteq M
         /\ \A x : x \in ToSet(s) <=> \E i \in 1..Len(s) : s[i] = x
         /\ \A i \in 1..Len(s) : s[i] \in ToSet(s) /\ s[i] \in M
         /\ Len(s) \in Nat
         /\ DOMAIN s = 1..Len(s)
<1>1. s \in Seq(M)
  BY DEF Begins
<1> QED
  BY <1>1, ElementsOf

LEMMA FirstOf ==
  ASSUME NEW T, NEW s \in Seq(T), NEW n \in Nat
  PROVE  /\ First(s, n) \in Seq(T)
         /\ Len(First(s, n)) = IF n < Len(s) THEN n ELSE Len(s)
         /\ \A i \in 1..Len(First(s, n)) : i \in 1..Len(s) /\ First(s, n)[i] = s[i]
<1> DEFINE m == IF n < Len(s) THEN n ELSE Len(s)
<1>1. m \in Nat /\ m <= Len(s)
  OBVIOUS
<1>2. First(s, n) = SubSeq(s, 1, m)
  BY DEF First
<1> HIDE DEF m
<1>3. /\ SubSeq(s, 1, m) \in Seq(T) /\ Len(SubSeq(s, 1, m)) = m
      /\ \A i \in 1..m : SubSeq(s, 1, m)[i] = s[i]
  BY <1>1
<1>4. \A i \in 1..m : i \in 1..Len(s)
  BY <1>1
<1> QED
  BY <1>2, <1>3, <1>4 DEF m

(* A beginning of a beginning.                                              *)
LEMMA FirstBegins ==
  ASSUME NEW M, Distinct(M), NEW s, NEW order, Begins(s, M, order), NEW n \in Nat
  PROVE  Begins(First(s, n), M, order)
<1> DEFINE t == First(s, n)
<1>1. s \in Seq(M) /\ InTurn(s, order)
  BY DEF Begins
<1>2. /\ t \in Seq(M) /\ Len(t) \in Nat /\ Len(s) \in Nat
      /\ \A i \in 1..Len(t) : i \in 1..Len(s) /\ t[i] = s[i]
  BY <1>1, FirstOf
<1>3. Len(t) = IF n < Len(s) THEN n ELSE Len(s)
  BY <1>1, FirstOf
<1> HIDE DEF t
<1>4. InTurn(t, order)
  BY <1>1, <1>2 DEF InTurn
<1>5. ASSUME NEW i \in 1..Len(t), NEW x \in M, Ahead(order, x, t[i])
      PROVE  x \in ToSet(t)
  <2>1. i \in 1..Len(s) /\ t[i] = s[i]
    BY <1>2
  <2>2. x \in ToSet(s)
    BY <2>1, <1>5 DEF Begins
  <2>3. PICK k \in 1..Len(s) : s[k] = x
    BY <2>2, BeginsElements
  <2>4. k < i
    <3>1. CASE k = i
      BY <3>1, <2>1, <2>3, <1>5, AheadInDistinct
    <3>2. CASE i < k
      <4>1. Ahead(order, s[i], s[k])
        BY <3>2, <2>1, <1>1 DEF InTurn
      <4>2. s[i] \in M
        BY <2>1, BeginsElements
      <4> QED
        BY <4>1, <4>2, <2>1, <2>3, <1>5, AheadInDistinct
    <3> QED
      BY <3>1, <3>2, <2>1, <1>2
  <2>5. k \in 1..Len(t) /\ t[k] = x
    BY <2>3, <2>4, <1>2
  <2> QED
    BY <2>5, <1>2, ElementsOf
<1>6. Begins(t, M, order)
  BY <1>2, <1>4, <1>5 DEF Begins
<1> QED
  BY <1>6 DEF t

(* Filtering a beginning.                                                   *)
LEMMA AmongBegins ==
  ASSUME NEW C, NEW s, NEW order, Begins(s, C, order), NEW K
  PROVE  /\ Begins(Among(s, K), C \cap K, order)
         /\ ToSet(Among(s, K)) = ToSet(s) \cap K
         /\ Len(Among(s, K)) <= Len(s)
<1> DEFINE t == Among(s, K)
<1>1. s \in Seq(C) /\ InTurn(s, order) /\ Len(s) \in Nat
  BY DEF Begins
<1>2. t \in Seq(C) /\ Len(t) \in Nat
  BY <1>1, AmongPlaces
<1>3. PICK p : Places(p, t, s, K, Len(s))
  BY <1>1, AmongPlaces
<1> HIDE DEF t
<1>4. /\ \A i \in 1..Len(t) : p[i] \in 1..Len(s) /\ t[i] = s[p[i]] /\ t[i] \in K
      /\ \A i, j \in 1..Len(t) : i < j => p[i] < p[j]
      /\ \A k \in 1..Len(s) : s[k] \in K => \E i \in 1..Len(t) : p[i] = k
  BY <1>3 DEF Places
<1>5. InTurn(t, order)
  BY <1>1, <1>4 DEF InTurn
<1>6. ToSet(t) = ToSet(s) \cap K
  <2>1. ASSUME NEW x \in ToSet(t) PROVE x \in ToSet(s) /\ x \in K
    <3>1. PICK i \in 1..Len(t) : t[i] = x
      BY <2>1, <1>2, ElementsOf
    <3> QED
      BY <3>1, <1>4, <1>1, ElementsOf
  <2>2. ASSUME NEW x \in ToSet(s), x \in K PROVE x \in ToSet(t)
    <3>1. PICK k \in 1..Len(s) : s[k] = x
      BY <2>2, <1>1, ElementsOf
    <3>2. PICK i \in 1..Len(t) : p[i] = k
      BY <3>1, <2>2, <1>4
    <3>3. t[i] = x
      BY <3>1, <3>2, <1>4
    <3> QED
      BY <3>3, <1>2, ElementsOf
  <2> QED
    BY <2>1, <2>2
<1>7. t \in Seq(C \cap K)
  <2>1. \A i \in 1..Len(t) : t[i] \in C \cap K
    BY <1>1, <1>4
  <2> QED
    BY <2>1, <1>2
<1>8. ASSUME NEW i \in 1..Len(t), NEW x \in C \cap K, Ahead(order, x, t[i])
      PROVE  x \in ToSet(t)
  <2>1. p[i] \in 1..Len(s) /\ t[i] = s[p[i]]
    BY <1>4
  <2>2. x \in ToSet(s)
    BY <2>1, <1>8 DEF Begins
  <2> QED
    BY <2>2, <1>6
<1>9. Len(t) <= Len(s)
  <2> DEFINE Good == {i \in Nat : i \in 1..Len(t) => p[i] >= i}
  <2>1. 0 \in Good
    OBVIOUS
  <2>2. ASSUME NEW i \in Nat, i \in Good PROVE i + 1 \in Good
    <3> SUFFICES ASSUME i + 1 \in 1..Len(t) PROVE p[i + 1] >= i + 1
      OBVIOUS
    <3>1. p[i + 1] \in 1..Len(s)
      BY <1>4
    <3>2. CASE i = 0
      BY <3>1, <3>2
    <3>3. CASE i # 0
      <4>1. i \in 1..Len(t) /\ i < i + 1
        BY <3>3, <1>2
      <4>2. p[i] >= i /\ p[i] < p[i + 1] /\ p[i] \in 1..Len(s)
        BY <4>1, <2>2, <1>4
      <4> QED
        BY <4>2, <3>1
    <3> QED
      BY <3>2, <3>3
  <2>3. Len(t) \in Good
    <3> HIDE DEF Good
    <3> QED
      BY <2>1, <2>2, <1>2, SetInduction
  <2>4. CASE Len(t) = 0
    BY <2>4, <1>1
  <2>5. CASE Len(t) # 0
    <3>1. Len(t) \in 1..Len(t)
      BY <2>5, <1>2
    <3> QED
      BY <3>1, <2>3, <1>1, <1>4
  <2> QED
    BY <2>4, <2>5
<1>10. Begins(t, C \cap K, order)
  BY <1>5, <1>7, <1>8 DEF Begins
<1> QED
  BY <1>6, <1>9, <1>10 DEF t

(* Two beginnings of the same set agree as far as both go.                   *)
LEMMA BeginsAgree ==
  ASSUME NEW M, Distinct(M), NEW order, NEW s, NEW t, Begins(s, M, order), Begins(t, M, order)
  PROVE  \A i \in 1..Len(s) : i \in 1..Len(t) => s[i] = t[i]
<1> DEFINE Same == {n \in Nat : \A i \in 1..n : i \in 1..Len(s) /\ i \in 1..Len(t) => s[i] = t[i]}
<1>1. 0 \in Same
  OBVIOUS
<1>2. ASSUME NEW n \in Nat, n \in Same PROVE n + 1 \in Same
  <2> DEFINE i == n + 1
  <2> SUFFICES i \in 1..Len(s) /\ i \in 1..Len(t) => s[i] = t[i]
    <3>1. ASSUME NEW k \in 1..i, k \in 1..Len(s), k \in 1..Len(t)
          PROVE  s[k] = t[k]
      <4>1. CASE k = i
        <5> HIDE DEF i
        <5> QED
          BY <3>1, <4>1
      <4>2. CASE k # i
        <5>1. k \in 1..n
          BY <4>2
        <5> QED
          BY <5>1, <3>1, <1>2
      <4> QED
        BY <4>1, <4>2
    <3>2. i \in Nat /\ i \in 1..i
      OBVIOUS
    <3>3. ASSUME NEW k \in 1..i PROVE k \in 1..Len(s) /\ k \in 1..Len(t) => s[k] = t[k]
      <4> HIDE DEF i
      <4> QED
        BY <3>1, <3>2, <3>3
    <3> QED
      BY <3>3
  <2> SUFFICES ASSUME i \in 1..Len(s), i \in 1..Len(t) PROVE s[i] = t[i]
    OBVIOUS
  <2>1. \A k \in 1..n : k \in 1..Len(s) /\ k \in 1..Len(t) => s[k] = t[k]
    BY <1>2
  <2>2. i \in Nat /\ \A k \in 1..Len(s) : k < i => k \in 1..n
    BY BeginsElements
  <2>3. Len(s) \in Nat /\ Len(t) \in Nat /\ s[i] \in M /\ t[i] \in M
    BY BeginsElements
  <2> HIDE DEF i
  <2>4. ASSUME Ahead(order, s[i], t[i]) PROVE FALSE
    <3>1. s[i] \in ToSet(t)
      BY <2>3, <2>4 DEF Begins
    <3>2. PICK k \in 1..Len(t) : t[k] = s[i]
      BY <3>1, BeginsElements
    <3>3. ~(i < k)
      <4>1. i < k => Ahead(order, t[i], t[k])
        BY <3>2 DEF Begins, InTurn
      <4>2. i < k => Ahead(order, t[i], s[i])
        BY <4>1, <3>2
      <4> QED
        BY <4>2, <2>3, <2>4, AheadInDistinct
    <3>4. k # i
      BY <3>2, <2>3, <2>4, AheadInDistinct
    <3>5. k < i /\ k \in 1..Len(s)
      BY <3>3, <3>4, <2>2, <2>3
    <3>6. s[k] = s[i] /\ Ahead(order, s[k], s[i])
      BY <3>2, <3>5, <2>1, <2>2 DEF Begins, InTurn
    <3> QED
      BY <3>6, <2>3, AheadInDistinct
  <2>5. ASSUME Ahead(order, t[i], s[i]) PROVE FALSE
    <3>1. t[i] \in ToSet(s)
      BY <2>3, <2>5 DEF Begins
    <3>2. PICK k \in 1..Len(s) : s[k] = t[i]
      BY <3>1, BeginsElements
    <3>3. ~(i < k)
      <4>1. i < k => Ahead(order, s[i], s[k])
        BY <3>2 DEF Begins, InTurn
      <4>2. i < k => Ahead(order, s[i], t[i])
        BY <4>1, <3>2
      <4> QED
        BY <4>2, <2>3, <2>5, AheadInDistinct
    <3>4. k # i
      BY <3>2, <2>3, <2>5, AheadInDistinct
    <3>5. k < i /\ k \in 1..Len(t)
      BY <3>3, <3>4, <2>2, <2>3
    <3>6. t[k] = t[i] /\ Ahead(order, t[k], t[i])
      BY <3>2, <3>5, <2>1, <2>2 DEF Begins, InTurn
    <3> QED
      BY <3>6, <2>3, AheadInDistinct
  <2> QED
    BY <2>3, <2>4, <2>5, AheadInDistinct
<1>3. Nat \subseteq Same
  <2> HIDE DEF Same
  <2> QED
    BY <1>1, <1>2, SetInduction
<1>4. ASSUME NEW i \in 1..Len(s), i \in 1..Len(t) PROVE s[i] = t[i]
  <2>1. i \in Nat /\ i \in 1..i
    BY BeginsElements
  <2>2. i \in Same
    BY <1>3, <2>1
  <2> QED
    BY <2>1, <2>2, <1>4
<1> QED
  BY <1>4

(* A beginning is no longer than one that has everything.                    *)
LEMMA BeginsShorter ==
  ASSUME NEW M, Distinct(M), NEW order, NEW s, NEW t, Begins(s, M, order), Begins(t, M, order),
         ToSet(t) = M
  PROVE  Len(s) <= Len(t)
<1>1. Len(s) \in Nat /\ Len(t) \in Nat
  BY BeginsElements
<1> SUFFICES ASSUME Len(t) < Len(s) PROVE FALSE
  BY <1>1
<1>2. Len(t) + 1 \in 1..Len(s)
  BY <1>1
<1>3. s[Len(t) + 1] \in M
  BY <1>2, BeginsElements
<1>4. PICK k \in 1..Len(t) : t[k] = s[Len(t) + 1]
  BY <1>3, BeginsElements
<1>5. k \in 1..Len(s) /\ k < Len(t) + 1
  BY <1>1, <1>4
<1>6. s[k] = t[k]
  BY <1>5, <1>4, BeginsAgree
<1>7. Ahead(order, s[k], s[Len(t) + 1])
  BY <1>2, <1>5 DEF Begins, InTurn
<1> QED
  BY <1>3, <1>4, <1>6, <1>7, AheadInDistinct

LEMMA BeginsSame ==
  ASSUME NEW M, Distinct(M), NEW order, NEW s, NEW t, Begins(s, M, order), Begins(t, M, order),
         Len(s) = Len(t) \/ (ToSet(s) = M /\ ToSet(t) = M)
  PROVE  s = t
<1>1. Len(s) \in Nat /\ Len(t) \in Nat /\ s \in Seq(M) /\ t \in Seq(M)
  BY BeginsElements
<1>2. Len(s) = Len(t)
  <2>1. CASE ToSet(s) = M /\ ToSet(t) = M
    <3>1. Len(s) <= Len(t) /\ Len(t) <= Len(s)
      BY <2>1, BeginsShorter
    <3> QED
      BY <3>1, <1>1
  <2> QED
    BY <2>1
<1>3. \A i \in 1..Len(s) : s[i] = t[i]
  BY <1>2, BeginsAgree
<1> QED
  BY <1>1, <1>2, <1>3

(* Two sequences one behind the other.                                       *)
LEMMA Joined ==
  ASSUME NEW T, NEW s \in Seq(T), NEW t \in Seq(T)
  PROVE  /\ s \o t \in Seq(T) /\ Len(s \o t) = Len(s) + Len(t)
         /\ \A i \in 1..Len(s) : (s \o t)[i] = s[i]
         /\ \A i \in 1..Len(t) : (s \o t)[Len(s) + i] = t[i] /\ Len(s) + i \in 1..Len(s \o t)
         /\ \A i \in 1..Len(s \o t) : i \in 1..Len(s) \/ (i - Len(s) \in 1..Len(t) /\ i - Len(s) + Len(s) = i)
         /\ ToSet(s \o t) = ToSet(s) \cup ToSet(t)
<1>1. s \o t \in Seq(T) /\ Len(s \o t) = Len(s) + Len(t) /\ Len(s) \in Nat /\ Len(t) \in Nat
  OBVIOUS
<1>2. \A i \in 1..Len(s) : (s \o t)[i] = s[i]
  OBVIOUS
<1>3. ASSUME NEW i \in 1..Len(t)
      PROVE  (s \o t)[Len(s) + i] = t[i] /\ Len(s) + i \in 1..(Len(s) + Len(t))
  OBVIOUS
<1>4. ASSUME NEW i \in 1..(Len(s) + Len(t))
      PROVE  i \in 1..Len(s) \/ (i - Len(s) \in 1..Len(t) /\ i - Len(s) + Len(s) = i)
  OBVIOUS
<1>5. ToSet(s \o t) = ToSet(s) \cup ToSet(t)
  <2> DEFINE j == s \o t
  <2>1. ASSUME NEW x \in ToSet(j) PROVE x \in ToSet(s) \cup ToSet(t)
    <3>1. PICK i \in 1..Len(j) : j[i] = x
      BY <2>1, <1>1, ElementsOf
    <3>2. CASE i \in 1..Len(s)
      BY <3>1, <3>2, <1>2, ElementsOf
    <3>3. CASE i - Len(s) \in 1..Len(t) /\ i - Len(s) + Len(s) = i
      <4>1. j[Len(s) + (i - Len(s))] = t[i - Len(s)] /\ Len(s) + (i - Len(s)) = i
        BY <3>3, <1>1, <1>3
      <4> QED
        BY <3>1, <3>3, <4>1, ElementsOf
    <3> QED
      BY <3>1, <3>2, <3>3, <1>1, <1>4
  <2>2. ASSUME NEW x \in ToSet(s) PROVE x \in ToSet(j)
    <3>1. PICK i \in 1..Len(s) : s[i] = x
      BY <2>2, ElementsOf
    <3>2. i \in 1..Len(j)
      BY <3>1, <1>1
    <3> QED
      BY <3>1, <3>2, <1>1, <1>2, ElementsOf
  <2>3. ASSUME NEW x \in ToSet(t) PROVE x \in ToSet(j)
    <3>1. PICK i \in 1..Len(t) : t[i] = x
      BY <2>3, ElementsOf
    <3> QED
      BY <3>1, <1>1, <1>3, ElementsOf
  <2> HIDE DEF j
  <2>4. ToSet(j) = ToSet(s) \cup ToSet(t)
    BY <2>1, <2>2, <2>3
  <2> QED
    BY <2>4 DEF j
<1> QED
  BY <1>1, <1>2, <1>3, <1>4, <1>5

(* A beginning that is cut somewhere, and the beginning of what is behind.   *)
LEMMA BeginsJoin ==
  ASSUME NEW M, Distinct(M), NEW order, NEW H, NEW s, NEW t,
         Begins(s, M, order), ToSet(s) = H, Begins(t, M \ H, order),
         \A x \in H, y \in M \ H : Ahead(order, x, y)
  PROVE  Begins(s \o t, M, order)
<1>1. s \in Seq(M) /\ t \in Seq(M) /\ Len(s) \in Nat /\ Len(t) \in Nat
  BY BeginsElements
<1> DEFINE j == s \o t
<1>2. /\ j \in Seq(M) /\ Len(j) \in Nat
      /\ \A i \in 1..Len(s) : j[i] = s[i]
      /\ \A i \in 1..Len(t) : j[Len(s) + i] = t[i]
      /\ \A i \in 1..Len(j) : i \in 1..Len(s) \/ (i - Len(s) \in 1..Len(t) /\ i - Len(s) + Len(s) = i)
      /\ ToSet(j) = ToSet(s) \cup ToSet(t)
  BY <1>1, Joined
<1> HIDE DEF j
<1>3. ASSUME NEW i \in 1..Len(j)
      PROVE  \/ i \in 1..Len(s) /\ j[i] = s[i] /\ j[i] \in H
             \/ i - Len(s) \in 1..Len(t) /\ j[i] = t[i - Len(s)] /\ j[i] \in M \ H /\ i > Len(s)
  <2>1. CASE i \in 1..Len(s)
    BY <2>1, <1>2, BeginsElements
  <2>2. CASE i - Len(s) \in 1..Len(t) /\ i - Len(s) + Len(s) = i
    <3>1. Len(s) + (i - Len(s)) = i /\ i > Len(s)
      BY <1>1, <2>2
    <3>2. t[i - Len(s)] \in M \ H
      BY <2>2, BeginsElements
    <3>3. j[Len(s) + (i - Len(s))] = t[i - Len(s)]
      BY <2>2, <1>2
    <3> QED
      BY <2>2, <3>1, <3>2, <3>3
  <2> QED
    BY <2>1, <2>2, <1>2
<1>4. ASSUME NEW i \in 1..Len(j), NEW k \in 1..Len(j), i < k PROVE Ahead(order, j[i], j[k])
  <2>1. CASE j[i] \in H /\ j[k] \in M \ H
    BY <2>1
  <2>2. CASE i \in 1..Len(s) /\ k \in 1..Len(s)
    BY <2>2, <1>2, <1>4 DEF Begins, InTurn
  <2>3. CASE i > Len(s) /\ k > Len(s)
    <3>1. /\ i - Len(s) \in 1..Len(t) /\ j[i] = t[i - Len(s)]
          /\ k - Len(s) \in 1..Len(t) /\ j[k] = t[k - Len(s)] /\ i - Len(s) < k - Len(s)
      BY <1>1, <1>3, <1>4, <2>3
    <3> QED
      BY <3>1 DEF Begins, InTurn
  <2> QED
    BY <1>1, <1>3, <1>4, <2>1, <2>2, <2>3
<1>5. ASSUME NEW i \in 1..Len(j), NEW x \in M, Ahead(order, x, j[i]) PROVE x \in ToSet(j)
  <2>1. CASE x \in H
    BY <2>1, <1>2
  <2>2. CASE x \notin H
    <3>1. j[i] \notin H
      <4>1. j[i] \in M
        BY <1>2, ElementsOf
      <4>2. j[i] \in H => Ahead(order, j[i], x)
        BY <2>2
      <4> QED
        BY <1>5, <4>1, <4>2, AheadInDistinct
    <3>2. i - Len(s) \in 1..Len(t) /\ j[i] = t[i - Len(s)]
      BY <3>1, <1>3
    <3>3. x \in ToSet(t)
      BY <3>2, <2>2, <1>5 DEF Begins
    <3> QED
      BY <3>3, <1>2
  <2> QED
    BY <2>1, <2>2
<1>6. Begins(j, M, order)
  BY <1>2, <1>4, <1>5 DEF Begins, InTurn
<1> QED
  BY <1>6 DEF j

LEMMA DistinctIn ==
  ASSUME NEW M, Distinct(M), NEW K, K \subseteq M
  PROVE  Distinct(K)
BY DEF Distinct

LEMMA ReverseOf ==
  ASSUME NEW T, NEW s \in Seq(T)
  PROVE  /\ Reverse(s) \in Seq(T) /\ Len(Reverse(s)) = Len(s)
         /\ \A i \in 1..Len(s) : Reverse(s)[i] = s[Len(s) - i + 1] /\ Len(s) - i + 1 \in 1..Len(s)
         /\ ToSet(Reverse(s)) = ToSet(s)
<1> DEFINE t == Reverse(s)
<1>1. Len(s) \in Nat
  OBVIOUS
<1>2. t = [i \in 1..Len(s) |-> s[Len(s) - i + 1]]
  <2>1. t = [i \in 1..Len(s) |-> s[(Len(s) - i) + 1]]
    BY DEF Reverse
  <2> QED
    BY <2>1
<1> HIDE DEF t
<1>3. \A i \in 1..Len(s) : Len(s) - i + 1 \in 1..Len(s) /\ Len(s) - (Len(s) - i + 1) + 1 = i
  BY <1>1
<1>4. \A i \in 1..Len(s) : s[i] \in T
  OBVIOUS
<1>5. \A i \in 1..Len(s) : t[i] = s[Len(s) - i + 1] /\ t[i] \in T
  BY <1>2, <1>3, <1>4
<1>6. t \in Seq(T) /\ Len(t) = Len(s)
  <2>1. t \in [1..Len(s) -> T]
    BY <1>2, <1>3, <1>4
  <2> QED
    BY <2>1, <1>1
<1>7. ToSet(t) = ToSet(s)
  <2>1. ASSUME NEW x \in ToSet(s) PROVE x \in ToSet(t)
    <3>1. PICK i \in 1..Len(s) : s[i] = x
      BY <2>1, ElementsOf
    <3>2. t[Len(s) - i + 1] = x /\ Len(s) - i + 1 \in 1..Len(t)
      BY <3>1, <1>3, <1>5, <1>6
    <3> QED
      BY <3>2, <1>6, ElementsOf
  <2>2. ASSUME NEW x \in ToSet(t) PROVE x \in ToSet(s)
    <3>1. PICK i \in 1..Len(s) : t[i] = x
      BY <2>2, <1>6, ElementsOf
    <3> QED
      BY <3>1, <1>3, <1>5, ElementsOf
  <2> QED
    BY <2>1, <2>2
<1> QED
  BY <1>3, <1>5, <1>6, <1>7 DEF t

LEMMA EventsBegin ==
  ASSUME EventBounds
  PROVE  Distinct(Rows) /\ Begins(Events, Rows, "asc") /\ ToSet(Events) = Rows
<1>1. Events \in Seq(Rows) /\ ToSet(Events) = Rows
  BY DEF EventBounds, Rows
<1>2. DOMAIN Events = 1..Len(Events) /\ Len(Events) \in Nat
  BY <1>1
<1>3. \A i, j \in 1..Len(Events) :
        i < j => Older(Events[i], Events[j]) /\ Events[i].id # Events[j].id
  BY <1>2 DEF EventBounds
<1>4. ASSUME NEW a \in Rows, NEW b \in Rows, a.id = b.id PROVE a = b
  <2>1. PICK i \in 1..Len(Events), j \in 1..Len(Events) : Events[i] = a /\ Events[j] = b
    BY <1>1, ElementsOf
  <2>2. ~(i < j) /\ ~(j < i)
    BY <2>1, <1>3, <1>4
  <2>3. i = j
    BY <2>2, <1>2
  <2> QED
    BY <2>1, <2>3
<1>5. \A a \in Rows : Point(a)
  BY DEF EventBounds, Rows, Point
<1>6. Begins(Events, Rows, "asc")
  BY <1>1, <1>3 DEF Begins, InTurn, Ahead
<1> QED
  BY <1>1, <1>4, <1>5, <1>6 DEF Distinct

(* The rows of a set in order.                                               *)
LEMMA InOrderBegins ==
  ASSUME EventBounds, NEW S, S \subseteq Rows, NEW order
  PROVE  Begins(InOrder(S, order), S, order) /\ ToSet(InOrder(S, order)) = S
<1> DEFINE s == Among(Events, S)
<1>1. Begins(s, S, "asc") /\ ToSet(s) = S
  <2>1. Begins(s, Rows \cap S, "asc") /\ ToSet(s) = ToSet(Events) \cap S
    BY EventsBegin, AmongBegins
  <2>2. Rows \cap S = S
    OBVIOUS
  <2> QED
    BY <2>1, <2>2, EventsBegin
<1>2. s \in Seq(S)
  BY <1>1 DEF Begins
<1>3. CASE order = "asc"
  BY <1>1, <1>3 DEF InOrder, Directed
<1>4. CASE order # "asc"
  <2> DEFINE t == Reverse(s)
  <2> HIDE DEF s
  <2>1. /\ t \in Seq(S) /\ Len(t) = Len(s) /\ Len(s) \in Nat /\ ToSet(t) = S
        /\ \A i \in 1..Len(s) : t[i] = s[Len(s) - i + 1] /\ Len(s) - i + 1 \in 1..Len(s)
    BY <1>1, <1>2, ReverseOf
  <2> HIDE DEF t
  <2>2. ASSUME NEW i \in 1..Len(t), NEW j \in 1..Len(t), i < j PROVE Ahead(order, t[i], t[j])
    <3>1. Len(s) - j + 1 < Len(s) - i + 1
      BY <2>1, <2>2
    <3>2. Ahead("asc", s[Len(s) - j + 1], s[Len(s) - i + 1])
      BY <3>1, <2>1, <1>1 DEF Begins, InTurn
    <3> QED
      BY <3>2, <2>1, <1>4 DEF Ahead
  <2>3. Begins(t, S, order)
    BY <2>1, <2>2 DEF Begins, InTurn
  <2>4. t = InOrder(S, order)
    BY <1>4 DEF InOrder, Directed, t, s
  <2> QED
    BY <2>1, <2>3, <2>4
<1> QED
  BY <1>3, <1>4

(* The first n rows of a set in order.                                       *)
LEMMA FirstInOrder ==
  ASSUME EventBounds, NEW S, S \subseteq Rows, NEW order, NEW n \in Nat
  PROVE  LET a == First(InOrder(S, order), n)
         IN  /\ Begins(a, S, order) /\ Len(a) <= n
             /\ Len(a) < n => ToSet(a) = S
             /\ \A s : Begins(s, S, order) /\ Len(s) <= n => Len(s) <= Len(a)
<1> DEFINE w == InOrder(S, order)
           a == First(w, n)
<1>1. Begins(w, S, order) /\ ToSet(w) = S /\ Distinct(S)
  BY InOrderBegins, EventsBegin, DistinctIn
<1>2. w \in Seq(S) /\ Len(w) \in Nat
  BY <1>1, BeginsElements
<1> HIDE DEF w
<1>3. Begins(a, S, order)
  BY <1>1, FirstBegins
<1>4. /\ Len(a) = IF n < Len(w) THEN n ELSE Len(w)
      /\ \A i \in 1..Len(a) : i \in 1..Len(w) /\ a[i] = w[i]
  BY <1>2, FirstOf
<1>5. Len(a) \in Nat /\ a \in Seq(S)
  BY <1>3, BeginsElements
<1> HIDE DEF a
<1>6. ASSUME Len(a) < n PROVE ToSet(a) = S
  <2>1. Len(a) = Len(w)
    BY <1>2, <1>4, <1>6
  <2>2. \A i \in 1..Len(a) : a[i] = w[i]
    BY <1>4
  <2>3. a = w
    BY <2>1, <2>2, <1>2, <1>5
  <2> QED
    BY <2>3, <1>1
<1>7. ASSUME NEW s, Begins(s, S, order), Len(s) <= n PROVE Len(s) <= Len(a)
  <2>1. Len(s) <= Len(w) /\ Len(s) \in Nat
    BY <1>1, <1>7, BeginsShorter, BeginsElements
  <2> QED
    BY <2>1, <1>2, <1>4, <1>7
<1>8. Len(a) <= n
  BY <1>2, <1>4
<1> QED
  BY <1>3, <1>6, <1>7, <1>8 DEF a, w

(* What the events' bounds say of a row.                                     *)
LEMMA RowBytes ==
  ASSUME EventBounds
  PROVE  \A r \in Rows : /\ r.bytes \in 1..QueryBytes /\ r.bytes \in Int /\ 1 <= r.bytes
                         /\ r.bytes <= QueryBytes /\ r.ts \in Nat /\ r.id \in Nat
<1> SUFFICES ASSUME NEW r \in Rows
             PROVE  /\ r.bytes \in 1..QueryBytes /\ r.bytes \in Int /\ 1 <= r.bytes
                    /\ r.bytes <= QueryBytes /\ r.ts \in Nat /\ r.id \in Nat
  OBVIOUS
<1>1. r.bytes \in 1..QueryBytes /\ r.ts \in Nat /\ r.id \in Nat
  BY DEF EventBounds, Rows
<1> QED
  BY <1>1

--------------------------------------------------------------------------------
(* The bytes of a sequence of rows.                                          *)

LEMMA BytesRowByRow ==
  ASSUME NEW T, \A r \in T : r.bytes \in Nat, NEW s \in Seq(T)
  PROVE  \E u \in [0..Len(s) -> Nat] :
           /\ u[0] = 0 /\ \A n \in 1..Len(s) : u[n] = u[n - 1] + s[n].bytes
           /\ StoredBytes(s) = u[Len(s)]
<1> DEFINE bytes(n) == IF n \in 1..Len(s) THEN s[n].bytes ELSE 0
           step == [x \in Nat \X Nat |-> x[2] + bytes(x[1])]
           Val(f, n) == IF n = 0 THEN 0 ELSE f[n - 1] + s[n].bytes
           U == CHOOSE f : f = [n \in 0..Len(s) |-> Val(f, n)]
<1>0. Len(s) \in Nat
  OBVIOUS
<1>1. ASSUME NEW n PROVE bytes(n) \in Nat
  <2>1. n \in 1..Len(s) => s[n] \in T
    OBVIOUS
  <2> QED
    BY <2>1
<1>2. step \in [Nat \X Nat -> Nat]
  <2>1. ASSUME NEW x \in Nat \X Nat PROVE x[2] + bytes(x[1]) \in Nat
    <3>1. x[2] \in Nat
      OBVIOUS
    <3> HIDE DEF bytes
    <3> QED
      BY <1>1, <3>1
  <2> HIDE DEF bytes
  <2> QED
    BY <2>1
<1>3. PICK g \in [Nat -> Nat] : StepsBy(g, 0, step)
  <2> HIDE DEF step
  <2> QED
    BY <1>2, Recursion
<1> DEFINE f == [n \in 0..Len(s) |-> g[n]]
<1>4. ASSUME NEW n \in 0..Len(s) PROVE f[n] = Val(f, n) /\ f[n] \in Nat
  <2>1. n \in Nat /\ f[n] = g[n] /\ g[n] \in Nat
    BY <1>0, <1>3
  <2>2. CASE n = 0
    BY <1>3, <2>1, <2>2 DEF StepsBy
  <2>3. CASE n # 0
    <3>1. n - 1 \in 0..Len(s) /\ n - 1 \in Nat /\ n \in 1..Len(s)
      BY <1>0, <2>3
    <3>2. g[n] = step[<<n, g[n - 1]>>]
      <4> HIDE DEF step
      <4> QED
        BY <1>3, <2>1, <2>3 DEF StepsBy
    <3>3. <<n, g[n - 1]>> \in Nat \X Nat
      BY <1>3, <2>1, <3>1
    <3>4. step[<<n, g[n - 1]>>] = g[n - 1] + bytes(n)
      <4> HIDE DEF bytes
      <4> QED
        BY <3>3
    <3>5. bytes(n) = s[n].bytes
      BY <3>1
    <3>6. f[n - 1] = g[n - 1]
      BY <3>1
    <3> HIDE DEF step, bytes, f
    <3> QED
      BY <2>1, <2>3, <3>2, <3>4, <3>5, <3>6
  <2> QED
    BY <2>2, <2>3
<1>5. f = [n \in 0..Len(s) |-> Val(f, n)]
  <2>1. f = [n \in 0..Len(s) |-> f[n]]
    OBVIOUS
  <2> HIDE DEF f, Val
  <2> QED
    BY <1>4, <2>1
<1>6. U = [n \in 0..Len(s) |-> Val(U, n)]
  <2> HIDE DEF Val, f
  <2> QED
    BY <1>5
<1>7. StoredBytes(s) = U[Len(s)]
  BY DEF StoredBytes
<1> DEFINE Fine == {n \in Nat : n \in 0..Len(s) => U[n] \in Nat}
<1> HIDE DEF U
<1>8. ASSUME NEW n \in 0..Len(s) PROVE U[n] = Val(U, n)
  <2> HIDE DEF Val
  <2> QED
    BY <1>6
<1>9. U[0] = 0 /\ \A n \in 1..Len(s) : U[n] = U[n - 1] + s[n].bytes /\ n # 0
  <2>1. 0 \in 0..Len(s)
    BY <1>0
  <2>2. \A n \in 1..Len(s) : n \in 0..Len(s) /\ n # 0
    BY <1>0
  <2> QED
    BY <1>8, <2>1, <2>2
<1>10. Nat \subseteq Fine
  <2>1. 0 \in Fine
    BY <1>9
  <2>2. ASSUME NEW n \in Nat, n \in Fine PROVE n + 1 \in Fine
    <3> SUFFICES ASSUME n + 1 \in 0..Len(s) PROVE U[n + 1] \in Nat
      OBVIOUS
    <3>1. n \in 0..Len(s) /\ n + 1 \in 1..Len(s) /\ (n + 1) - 1 = n
      BY <1>0
    <3>2. U[n + 1] = U[n] + s[n + 1].bytes
      BY <1>9, <3>1
    <3>3. s[n + 1].bytes \in Nat
      <4>1. s[n + 1] \in T
        BY <3>1
      <4> QED
        BY <4>1
    <3>4. U[n] \in Nat
      BY <2>2, <3>1
    <3>5. \A a, b \in Nat : a + b \in Nat
      OBVIOUS
    <3>6. U[n] + s[n + 1].bytes \in Nat
      BY <3>3, <3>4, <3>5, Zenon
    <3> QED
      BY <3>2, <3>6
  <2> HIDE DEF Fine
  <2> QED
    BY <2>1, <2>2, SetInduction
<1>11. U \in [0..Len(s) -> Nat]
  <2>1. \A n \in 0..Len(s) : U[n] \in Nat
    BY <1>0, <1>10
  <2>2. U = [n \in 0..Len(s) |-> U[n]]
    BY <1>6
  <2> QED
    BY <2>1, <2>2
<1> QED
  BY <1>7, <1>9, <1>11

(* One row takes its own bytes, and more rows take more.                     *)
LEMMA BytesGrow ==
  ASSUME NEW T, \A r \in T : r.bytes \in Nat, NEW s \in Seq(T), NEW t \in Seq(T),
         Len(s) <= Len(t), \A i \in 1..Len(s) : s[i] = t[i]
  PROVE  /\ StoredBytes(s) \in Nat /\ StoredBytes(s) <= StoredBytes(t)
         /\ Len(s) = 1 => StoredBytes(s) = s[1].bytes
         /\ Len(s) = 0 => StoredBytes(s) = 0
<1>0. Len(s) \in Nat /\ Len(t) \in Nat /\ Len(s) <= Len(t)
  OBVIOUS
<1>1. PICK u \in [0..Len(s) -> Nat] :
        /\ u[0] = 0 /\ \A n \in 1..Len(s) : u[n] = u[n - 1] + s[n].bytes
        /\ StoredBytes(s) = u[Len(s)]
  BY BytesRowByRow
<1>2. PICK w \in [0..Len(t) -> Nat] :
        /\ w[0] = 0 /\ \A n \in 1..Len(t) : w[n] = w[n - 1] + t[n].bytes
        /\ StoredBytes(t) = w[Len(t)]
  BY BytesRowByRow
<1>3. \A i \in 1..Len(s) : s[i] \in T
  OBVIOUS
<1>4. \A i \in 1..Len(t) : t[i] \in T
  OBVIOUS
<1>5. \A n \in 0..Len(s) : u[n] \in Nat
  OBVIOUS
<1>6. \A n \in 0..Len(t) : w[n] \in Nat
  OBVIOUS
<1> DEFINE Same == {n \in Nat : n \in 0..Len(s) => u[n] = w[n]}
           Grow == {n \in Nat : Len(s) + n \in 0..Len(t) => w[Len(s)] <= w[Len(s) + n]}
<1>7. Nat \subseteq Same
  <2>1. 0 \in Same
    BY <1>1, <1>2
  <2>2. ASSUME NEW n \in Nat, n \in Same PROVE n + 1 \in Same
    <3> SUFFICES ASSUME n + 1 \in 0..Len(s) PROVE u[n + 1] = w[n + 1]
      OBVIOUS
    <3>1. n \in 0..Len(s) /\ n + 1 \in 1..Len(s) /\ n + 1 \in 1..Len(t) /\ (n + 1) - 1 = n
      BY <1>0
    <3>2. u[n + 1] = u[n] + s[n + 1].bytes /\ w[n + 1] = w[n] + t[n + 1].bytes
      BY <1>1, <1>2, <3>1
    <3> QED
      BY <2>2, <3>1, <3>2
  <2> HIDE DEF Same
  <2> QED
    BY <2>1, <2>2, SetInduction
<1>8. Nat \subseteq Grow
  <2>1. 0 \in Grow
    <3>1. Len(s) + 0 = Len(s) /\ Len(s) \in 0..Len(t)
      BY <1>0
    <3> QED
      BY <3>1, <1>6
  <2>2. ASSUME NEW n \in Nat, n \in Grow PROVE n + 1 \in Grow
    <3> SUFFICES ASSUME Len(s) + (n + 1) \in 0..Len(t) PROVE w[Len(s)] <= w[Len(s) + (n + 1)]
      OBVIOUS
    <3> DEFINE m == Len(s) + n
    <3>1. /\ m \in 0..Len(t) /\ m + 1 \in 1..Len(t) /\ (m + 1) - 1 = m
          /\ Len(s) + (n + 1) = m + 1 /\ Len(s) \in 0..Len(t)
      BY <1>0
    <3>2. w[Len(s)] <= w[m]
      BY <2>2, <3>1
    <3> HIDE DEF m
    <3>3. w[m + 1] = w[m] + t[m + 1].bytes
      BY <1>2, <3>1
    <3>4. t[m + 1].bytes \in Nat /\ w[m] \in Nat /\ w[Len(s)] \in Nat
      BY <1>4, <1>6, <3>1
    <3>5. w[Len(s)] <= w[m + 1]
      BY <3>2, <3>3, <3>4
    <3> QED
      BY <3>1, <3>5
  <2> HIDE DEF Grow
  <2> QED
    BY <2>1, <2>2, SetInduction
<1>9. u[Len(s)] = w[Len(s)]
  BY <1>0, <1>7
<1>10. w[Len(s)] <= w[Len(t)]
  <2>1. Len(t) - Len(s) \in Nat /\ Len(s) + (Len(t) - Len(s)) = Len(t)
    BY <1>0
  <2>2. Len(t) - Len(s) \in Grow
    BY <1>8, <2>1
  <2> QED
    BY <1>0, <2>1, <2>2
<1>11. ASSUME Len(s) = 1 PROVE StoredBytes(s) = s[1].bytes
  <2>1. 1 \in 1..Len(s) /\ 1 - 1 = 0
    BY <1>11
  <2>2. u[1] = u[0] + s[1].bytes
    BY <1>1, <2>1
  <2>3. s[1].bytes \in Nat
    BY <1>3, <2>1
  <2> QED
    BY <1>1, <1>11, <2>2, <2>3
<1>12. StoredBytes(s) \in Nat
  BY <1>0, <1>1
<1> QED
  BY <1>1, <1>2, <1>9, <1>10, <1>11, <1>12

--------------------------------------------------------------------------------
(* One page of storage.                                                      *)

LEMMA HalvingDefined ==
  ASSUME NEW T
  PROVE  \E f : f = [n \in Nat |-> IF n > 1 /\ n \in T THEN f[n \div 2] ELSE n]
<1> DEFINE V == [Nat -> Nat]
           base == [n \in Nat |-> n]
           next(h) == [n \in Nat |-> IF n > 1 /\ n \in T THEN h[n \div 2] ELSE n]
           step == [x \in Nat \X V |-> next(x[2])]
<1>1. \A n \in Nat : n > 1 => n \div 2 \in Nat /\ n \div 2 < n
  OBVIOUS
<1>2. ASSUME NEW h \in V PROVE next(h) \in V
  <2>1. ASSUME NEW n \in Nat PROVE (IF n > 1 /\ n \in T THEN h[n \div 2] ELSE n) \in Nat
    BY <1>1
  <2> QED
    BY <2>1
<1>3. base \in V
  OBVIOUS
<1>4. step \in [Nat \X V -> V]
  <2>1. ASSUME NEW x \in Nat \X V PROVE next(x[2]) \in V
    <3>1. x[2] \in V
      <4> HIDE DEF V
      <4> QED
        OBVIOUS
    <3> HIDE DEF V, next
    <3> QED
      BY <1>2, <3>1
  <2> HIDE DEF V, next
  <2> QED
    BY <2>1
<1>5. PICK g \in [Nat -> V] : StepsBy(g, base, step)
  <2> HIDE DEF V, base, step
  <2> QED
    BY <1>3, <1>4, Recursion
<1>6. ASSUME NEW k \in Nat PROVE g[k] \in V /\ g[k + 1] = next(g[k])
  <2>1. k + 1 \in Nat /\ k + 1 # 0 /\ (k + 1) - 1 = k /\ g[k] \in V
    <3> HIDE DEF V
    <3> QED
      BY <1>5
  <2>2. g[k + 1] = step[<<k + 1, g[k]>>]
    <3> HIDE DEF V, step, base
    <3> QED
      BY <2>1, <1>5 DEF StepsBy
  <2>3. step[<<k + 1, g[k]>>] = next(g[k])
    <3>1. <<k + 1, g[k]>> \in Nat \X V
      <4> HIDE DEF V
      <4> QED
        BY <2>1
    <3> HIDE DEF V, next
    <3> QED
      BY <3>1
  <2> HIDE DEF V, step, next
  <2> QED
    BY <2>1, <2>2, <2>3
<1>7. ASSUME NEW k \in Nat, NEW n \in Nat
      PROVE  g[k + 1][n] = IF n > 1 /\ n \in T THEN g[k][n \div 2] ELSE n
  <2> DEFINE h == g[k]
  <2>1. g[k + 1] = next(h)
    <3> HIDE DEF next, V
    <3> QED
      BY <1>6
  <2> HIDE DEF h
  <2>2. g[k + 1][n] = IF n > 1 /\ n \in T THEN h[n \div 2] ELSE n
    BY <2>1
  <2> QED
    BY <2>2 DEF h
<1>8. \A n \in Nat : g[0][n] = n
  <2>1. g[0] = base
    <3> HIDE DEF V, base, step
    <3> QED
      BY <1>5 DEF StepsBy
  <2> QED
    BY <2>1
<1> DEFINE Stable == {k \in Nat : \A n \in Nat : n <= k => g[k + 1][n] = g[k][n]}
<1> HIDE DEF V, base, next, step
<1>9. Nat \subseteq Stable
  <2>1. 0 \in Stable
    <3>1. ASSUME NEW n \in Nat, n <= 0 PROVE g[0 + 1][n] = g[0][n]
      BY <3>1, <1>7, <1>8
    <3> QED
      BY <3>1
  <2>2. ASSUME NEW k \in Nat, k \in Stable PROVE k + 1 \in Stable
    <3>1. ASSUME NEW n \in Nat, n <= k + 1 PROVE g[(k + 1) + 1][n] = g[k + 1][n]
      <4>1. k + 1 \in Nat
        OBVIOUS
      <4>2. /\ g[(k + 1) + 1][n] = IF n > 1 /\ n \in T THEN g[k + 1][n \div 2] ELSE n
            /\ g[k + 1][n] = IF n > 1 /\ n \in T THEN g[k][n \div 2] ELSE n
        BY <4>1, <1>7
      <4>3. n > 1 => n \div 2 \in Nat /\ n \div 2 <= k
        BY <3>1
      <4>4. n > 1 => g[k + 1][n \div 2] = g[k][n \div 2]
        BY <4>3, <2>2
      <4> QED
        BY <4>2, <4>4
    <3>2. k + 1 \in Nat
      OBVIOUS
    <3> QED
      BY <3>1, <3>2
  <2> HIDE DEF Stable
  <2> QED
    BY <2>1, <2>2, SetInduction
<1> DEFINE f == [n \in Nat |-> g[n][n]]
           Later == {d \in Nat : \A n \in Nat : g[n + d][n] = g[n][n]}
<1>10. Nat \subseteq Later
  <2>1. 0 \in Later
    <3>1. \A n \in Nat : n + 0 = n
      OBVIOUS
    <3> QED
      BY <3>1
  <2>2. ASSUME NEW d \in Nat, d \in Later PROVE d + 1 \in Later
    <3>1. ASSUME NEW n \in Nat PROVE g[n + (d + 1)][n] = g[n][n]
      <4>1. n + (d + 1) = (n + d) + 1 /\ n + d \in Nat /\ n <= n + d
        OBVIOUS
      <4>2. n + d \in Stable
        BY <1>9, <4>1
      <4>3. g[(n + d) + 1][n] = g[n + d][n]
        BY <4>1, <4>2
      <4> QED
        BY <4>1, <4>3, <2>2
    <3> QED
      BY <3>1
  <2> HIDE DEF Later
  <2> QED
    BY <2>1, <2>2, SetInduction
<1>11. ASSUME NEW n \in Nat PROVE f[n] = IF n > 1 /\ n \in T THEN f[n \div 2] ELSE n
  <2>1. CASE n = 0
    BY <1>8, <2>1
  <2>2. CASE n # 0
    <3> DEFINE k == n - 1
    <3>1. k \in Nat /\ k + 1 = n
      BY <2>2
    <3>2. g[k + 1][n] = IF n > 1 /\ n \in T THEN g[k][n \div 2] ELSE n
      BY <3>1, <1>7
    <3>3. n > 1 => g[k][n \div 2] = f[n \div 2]
      <4> SUFFICES ASSUME n > 1 PROVE g[k][n \div 2] = g[n \div 2][n \div 2]
        BY <1>1
      <4> DEFINE m == n \div 2
                 d == k - m
      <4>1. m \in Nat /\ d \in Nat /\ m + d = k
        OBVIOUS
      <4>2. d \in Later
        BY <1>10, <4>1
      <4> HIDE DEF m, d, k
      <4>3. g[m + d][m] = g[m][m]
        BY <4>1, <4>2
      <4>4. g[k][m] = g[m][m]
        BY <4>1, <4>3
      <4> QED
        BY <4>4 DEF m
    <3>4. f[n] = g[k + 1][n]
      BY <3>1
    <3> HIDE DEF k, f
    <3> QED
      BY <3>2, <3>3, <3>4
  <2> QED
    BY <2>1, <2>2
<1>12. f = [n \in Nat |-> IF n > 1 /\ n \in T THEN f[n \div 2] ELSE n]
  <2>1. f = [n \in Nat |-> f[n]]
    OBVIOUS
  <2> HIDE DEF f
  <2> QED
    BY <1>11, <2>1
<1> QED
  BY <1>12

TooLarge(rows, q) == {n \in Nat : SqliteQuery(rows, [q EXCEPT !.limit = n]).kind = "request_too_large"}

(* A reader that halves its page ends with one that is not refused, or with  *)
(* a single row.                                                             *)
LEMMA HalvingEnds ==
  ASSUME NEW rows, NEW q, q.limit \in Nat \ {0}
  PROVE  /\ ByteSafeLimit(rows, q) \in 1..q.limit
         /\ ByteSafeLimit(rows, q) = 1 \/ ByteSafeLimit(rows, q) \notin TooLarge(rows, q)
<1> DEFINE refused(n) == SqliteQuery(rows, [q EXCEPT !.limit = n]).kind = "request_too_large"
           T == TooLarge(rows, q)
           Try == CHOOSE f : f = [n \in Nat |-> IF n > 1 /\ refused(n) THEN f[n \div 2] ELSE n]
<1>1. ByteSafeLimit(rows, q) = Try[q.limit]
  BY DEF ByteSafeLimit
<1>2. \A n \in Nat : n \in T <=> refused(n)
  BY DEF TooLarge
<1> HIDE DEF refused, T
<1>3. PICK f : f = [n \in Nat |-> IF n > 1 /\ n \in T THEN f[n \div 2] ELSE n]
  BY HalvingDefined
<1>4. f = [n \in Nat |-> IF n > 1 /\ refused(n) THEN f[n \div 2] ELSE n]
  BY <1>2, <1>3
<1>5. Try = [n \in Nat |-> IF n > 1 /\ refused(n) THEN Try[n \div 2] ELSE n]
  BY <1>4
<1> HIDE DEF Try
<1>6. ASSUME NEW n \in Nat PROVE Try[n] = IF n > 1 /\ n \in T THEN Try[n \div 2] ELSE n
  BY <1>2, <1>5
<1> DEFINE Ends(n) == Try[n] \in 1..n /\ (Try[n] = 1 \/ Try[n] \notin T)
           Good == {m \in Nat : \A n \in 1..m : Ends(n)}
<1>7. 0 \in Good
  OBVIOUS
<1>8. ASSUME NEW m \in Nat, m \in Good PROVE m + 1 \in Good
  <2>1. \A n \in 1..m : Ends(n)
    BY <1>8
  <2>2. Ends(m + 1)
    <3>1. m + 1 \in Nat
      OBVIOUS
    <3>2. CASE m + 1 > 1 /\ m + 1 \in T
      <4>1. (m + 1) \div 2 \in 1..m /\ (m + 1) \div 2 <= m + 1
        BY <3>2
      <4>2. Ends((m + 1) \div 2)
        BY <2>1, <4>1
      <4>3. Try[m + 1] = Try[(m + 1) \div 2]
        BY <3>1, <3>2, <1>6
      <4> QED
        BY <4>1, <4>2, <4>3
    <3>3. CASE ~(m + 1 > 1 /\ m + 1 \in T)
      <4>1. Try[m + 1] = m + 1
        BY <3>1, <3>3, <1>6
      <4> QED
        BY <3>3, <4>1
    <3> QED
      BY <3>2, <3>3
  <2>3. \A n \in 1..(m + 1) : n \in 1..m \/ n = m + 1
    OBVIOUS
  <2> HIDE DEF Ends
  <2> QED
    BY <2>1, <2>2, <2>3
<1>9. q.limit \in Good
  <2> HIDE DEF Good
  <2> QED
    BY <1>7, <1>8, SetInduction
<1>10. Ends(q.limit)
  BY <1>9
<1> QED
  BY <1>1, <1>10 DEF T

Matches(rows, q) == {r \in Candidates(rows, q) : r.class \in q.keeps}

Passed(order, M, x) == {r \in M : ~Ahead(order, x, r)}

(* A query that asks for no more than one scan can inspect, and that SQLite  *)
(* is told everything of unless it filters afterwards.                       *)
Fitting(q) ==
  /\ q.limit \in Nat \ {0} /\ q.limit <= PageRows * MaxPages
  /\ q.post \/ q.scans \subseteq q.keeps

(* What a storage query for n rows, cut or not, tells of its matches.        *)
Exact(a, rows, q, n) ==
  /\ Begins(a.rows, Matches(rows, q), q.order) /\ Len(a.rows) <= n
  /\ a.kind \in {"rows", "scan_budget_exceeded"}
  /\ a.kind = "rows" => a.cursor = {} /\ (Len(a.rows) < n => ToSet(a.rows) = Matches(rows, q))
  /\ a.kind = "scan_budget_exceeded" =>
       /\ Len(a.rows) < n
       /\ \E x \in Candidates(rows, q) :
            a.cursor = {CursorOf(x)} /\ ToSet(a.rows) = Passed(q.order, Matches(rows, q), x)

(* What is admitted of a scan before its bytes are counted.                  *)
Admitted(rows, q) ==
  LET seen == Inspected(rows, q)
  IN  First(Among(seen, {r \in ToSet(seen) : r.class \in q.keeps}), q.limit)

LEMMA AdmittedExact ==
  ASSUME EventBounds, StorageBounds, NEW rows, rows \subseteq Rows, NEW q, Fitting(q)
  PROVE  LET a == Admitted(rows, q)
             cut == q.post /\ Len(a) < q.limit /\ Len(Inspected(rows, q)) = PageRows * MaxPages
         IN  /\ Begins(a, Matches(rows, q), q.order) /\ Len(a) <= q.limit
             /\ ~cut /\ Len(a) < q.limit => ToSet(a) = Matches(rows, q)
             /\ cut => /\ Last(Inspected(rows, q)) \in Candidates(rows, q)
                       /\ ToSet(a) = Passed(q.order, Matches(rows, q), Last(Inspected(rows, q)))
<1> DEFINE order == q.order
           limit == q.limit
           B == PageRows * MaxPages
           C == Candidates(rows, q)
           K == Matches(rows, q)
           seen == Inspected(rows, q)
           S == {r \in ToSet(seen) : r.class \in q.keeps}
           k == Among(seen, S)
           a == Admitted(rows, q)
           cut == q.post /\ Len(a) < limit /\ Len(seen) = B
<1>1. C \subseteq Rows /\ Distinct(C) /\ K \subseteq C /\ Distinct(K)
  <2>1. C \subseteq Rows /\ K \subseteq C
    BY DEF Candidates, Matches
  <2> QED
    BY <2>1, EventsBegin, DistinctIn
<1>2. B \in Nat \ {0}
  BY DEF StorageBounds
<1>3. limit \in Nat \ {0} /\ limit <= B
  BY DEF Fitting
<1> HIDE DEF B, limit, C
<1>4. /\ Begins(seen, C, order) /\ Len(seen) <= B
      /\ Len(seen) < B => ToSet(seen) = C
  <2>1. seen = First(InOrder(C, order), B)
    BY DEF Inspected, B, C
  <2> QED
    BY <1>1, <1>2, <2>1, FirstInOrder
<1>5. K = {r \in C : r.class \in q.keeps}
  BY DEF Matches, C
<1>6. a = First(k, limit)
  BY DEF Admitted, limit
<1> HIDE DEF K, seen, a, order
<1>7. seen \in Seq(C) /\ Len(seen) \in Nat /\ ToSet(seen) \subseteq C
  BY <1>4, BeginsElements
<1>8. Begins(k, C \cap S, order) /\ ToSet(k) = ToSet(seen) \cap S /\ Len(k) <= Len(seen)
  BY <1>4, AmongBegins
<1>9. ToSet(k) = ToSet(seen) \cap K
  BY <1>5, <1>7, <1>8
<1> HIDE DEF k, S
<1>10. k \in Seq(C \cap S) /\ Len(k) \in Nat
  BY <1>8, BeginsElements
<1>11. Begins(k, K, order)
  <2>1. \A i \in 1..Len(k) : k[i] \in K /\ k[i] \in ToSet(k) /\ k[i] \in ToSet(seen)
    BY <1>9, <1>10, ElementsOf
  <2>2. k \in Seq(K)
    BY <1>10, <2>1
  <2>3. ASSUME NEW i \in 1..Len(k), NEW x \in K, Ahead(order, x, k[i]) PROVE x \in ToSet(k)
    <3>1. PICK j \in 1..Len(seen) : seen[j] = k[i]
      BY <2>1, <1>7, ElementsOf
    <3>2. x \in ToSet(seen)
      BY <3>1, <2>3, <1>1, <1>4 DEF Begins
    <3> QED
      BY <3>2, <1>9
  <2> QED
    BY <1>8, <2>2, <2>3 DEF Begins
<1>12. Begins(a, K, order)
  BY <1>1, <1>3, <1>6, <1>11, FirstBegins
<1>13. Len(a) = (IF limit < Len(k) THEN limit ELSE Len(k)) /\ \A i \in 1..Len(a) : a[i] = k[i]
  BY <1>3, <1>6, <1>10, FirstOf
<1>14. Len(a) <= limit
  BY <1>3, <1>10, <1>13
<1>15. ASSUME Len(a) < limit PROVE a = k
  <2>1. Len(a) = Len(k)
    BY <1>3, <1>10, <1>13, <1>15
  <2> QED
    BY <2>1, <1>1, <1>11, <1>12, BeginsSame
<1>16. ASSUME ~cut, Len(a) < limit PROVE ToSet(a) = K
  <2>1. ToSet(a) = ToSet(seen) \cap K
    BY <1>9, <1>15, <1>16
  <2>2. CASE Len(seen) < B
    BY <2>1, <2>2, <1>1, <1>4
  <2>3. CASE ~(Len(seen) < B)
    <3>1. Len(seen) = B
      BY <2>3, <1>2, <1>4, <1>7
    <3>2. ~q.post
      BY <3>1, <1>16
    <3>3. q.scans \subseteq q.keeps
      BY <3>2 DEF Fitting
    <3>4. K = C
      BY <3>3, <1>5 DEF C, Candidates
    <3>5. Len(seen) <= Len(k)
      <4>1. Begins(seen, K, order) /\ ToSet(k) = ToSet(seen)
        BY <3>4, <1>4, <1>7, <1>9
      <4>2. Begins(seen, ToSet(seen), order) /\ Begins(k, ToSet(seen), order)
        <5>1. seen \in Seq(ToSet(seen)) /\ k \in Seq(ToSet(seen))
          <6>1. \A i \in 1..Len(k) : k[i] \in ToSet(seen)
            BY <1>9, <1>10, ElementsOf
          <6>2. \A i \in 1..Len(seen) : seen[i] \in ToSet(seen)
            BY <1>7, ElementsOf
          <6> QED
            BY <6>1, <6>2, <1>7, <1>10
        <5>2. ToSet(seen) \subseteq K
          BY <3>4, <1>7
        <5> QED
          BY <4>1, <5>1, <5>2, <1>11 DEF Begins
      <4>3. Distinct(ToSet(seen))
        BY <1>1, <1>7, DistinctIn
      <4> QED
        BY <4>1, <4>2, <4>3, BeginsShorter
    <3>6. Len(a) = Len(k)
      BY <1>15, <1>16
    <3> QED
      BY <3>1, <3>5, <3>6, <1>2, <1>3, <1>7, <1>10, <1>16
  <2> QED
    BY <2>2, <2>3
<1>17. ASSUME cut PROVE Last(seen) \in C /\ ToSet(a) = Passed(order, K, Last(seen))
  <2> DEFINE n == Len(seen)
             x == seen[n]
  <2>1. n \in 1..Len(seen) /\ Last(seen) = x /\ x \in C /\ x \in ToSet(seen)
    <3>1. n \in 1..Len(seen) /\ Last(seen) = x
      BY <1>2, <1>17 DEF Last
    <3> QED
      BY <3>1, <1>7, ElementsOf
  <2>2. a = k
    BY <1>15, <1>17
  <2> HIDE DEF n
  <2>3. ASSUME NEW r \in C PROVE r \in ToSet(seen) <=> ~Ahead(order, x, r)
    <3>1. ASSUME r \in ToSet(seen) PROVE ~Ahead(order, x, r)
      <4>1. PICK i \in 1..Len(seen) : seen[i] = r
        BY <3>1, <1>7, ElementsOf
      <4>2. CASE i = n
        BY <4>1, <4>2, <1>1, <2>3, AheadInDistinct
      <4>3. CASE i < n
        <5>1. Ahead(order, r, x)
          BY <4>1, <4>3, <2>1, <1>4 DEF Begins, InTurn
        <5> QED
          BY <5>1, <2>1, <2>3, <1>1, AheadInDistinct
      <4>4. i = n \/ i < n
        BY <1>7 DEF n
      <4> QED
        BY <4>2, <4>3, <4>4
    <3>2. ASSUME ~Ahead(order, x, r) PROVE r \in ToSet(seen)
      <4>1. r = x \/ Ahead(order, r, x)
        BY <3>2, <2>1, <2>3, <1>1, AheadInDistinct
      <4> QED
        BY <4>1, <2>1, <2>3, <1>4 DEF Begins
    <3> QED
      BY <3>1, <3>2
  <2>4. ToSet(a) = Passed(order, K, x)
    BY <1>1, <1>9, <2>2, <2>3 DEF Passed
  <2> QED
    BY <2>1, <2>4
<1> QED
  BY <1>12, <1>14, <1>16, <1>17 DEF K, C, B, limit, seen, a, order

LEMMA SqliteExact ==
  ASSUME EventBounds, StorageBounds, NEW rows, rows \subseteq Rows, NEW q, Fitting(q)
  PROVE  LET a == SqliteQuery(rows, q)
         IN  /\ a.kind = "request_too_large" <=> StoredBytes(Admitted(rows, q)) > QueryBytes
             /\ a.kind # "request_too_large" => Exact(a, rows, q, q.limit)
<1> DEFINE a == SqliteQuery(rows, q)
           seen == Inspected(rows, q)
           adm == Admitted(rows, q)
           K == Matches(rows, q)
           x == Last(seen)
           large == StoredBytes(adm) > QueryBytes
           full == Len(seen) = PageRows * MaxPages
           cut == q.post /\ Len(adm) < q.limit /\ full
<1>1. /\ Begins(adm, K, q.order) /\ Len(adm) <= q.limit
      /\ ~cut /\ Len(adm) < q.limit => ToSet(adm) = K
      /\ cut => x \in Candidates(rows, q) /\ ToSet(adm) = Passed(q.order, K, x)
  BY AdmittedExact
<1>2. a = IF large THEN Outcome("request_too_large", <<>>, {})
          ELSE IF cut THEN Outcome("scan_budget_exceeded", adm, {CursorOf(x)})
          ELSE Outcome("rows", adm, {})
  BY DEF SqliteQuery, AdmitFrom, Admit, Admitted
<1> HIDE DEF a, adm, K, x, large, full, seen
<1> SUFFICES /\ a.kind = "request_too_large" <=> large
             /\ a.kind # "request_too_large" => Exact(a, rows, q, q.limit)
  BY DEF a, large, adm
<1>3. CASE large
  BY <1>2, <1>3 DEF Outcome
<1>4. CASE ~large /\ cut
  <2>1. a = [kind |-> "scan_budget_exceeded", rows |-> adm, cursor |-> {CursorOf(x)}]
    BY <1>2, <1>4 DEF Outcome
  <2>2. a.kind = "scan_budget_exceeded" /\ a.rows = adm /\ a.cursor = {CursorOf(x)}
    BY <2>1
  <2>3. Exact(a, rows, q, q.limit)
    BY <2>2, <1>1, <1>4 DEF Exact, K
  <2> QED
    BY <2>2, <2>3, <1>4
<1>5. CASE ~large /\ ~cut
  <2>1. a = [kind |-> "rows", rows |-> adm, cursor |-> {}]
    BY <1>2, <1>5 DEF Outcome
  <2>2. a.kind = "rows" /\ a.rows = adm /\ a.cursor = {}
    BY <2>1
  <2>3. Exact(a, rows, q, q.limit)
    BY <2>2, <1>1, <1>5 DEF Exact, K
  <2> QED
    BY <2>2, <2>3, <1>5
<1> QED
  BY <1>3, <1>4, <1>5

Query(q) ==
  q = [scans |-> q.scans, keeps |-> q.keeps, post |-> q.post, since |-> q.since,
       until |-> q.until, order |-> q.order, cursor |-> q.cursor, limit |-> q.limit]

LEMMA Limited ==
  ASSUME NEW q, Query(q), NEW n, NEW rows
  PROVE  LET p == [q EXCEPT !.limit = n]
         IN  /\ p.limit = n /\ p.order = q.order /\ p.post = q.post
             /\ p.scans = q.scans /\ p.keeps = q.keeps /\ p.cursor = q.cursor
             /\ Candidates(rows, p) = Candidates(rows, q) /\ Matches(rows, p) = Matches(rows, q)
<1> DEFINE p == [q EXCEPT !.limit = n]
<1>1. p = [scans |-> q.scans, keeps |-> q.keeps, post |-> q.post, since |-> q.since,
           until |-> q.until, order |-> q.order, cursor |-> q.cursor, limit |-> n]
  BY DEF Query
<1> HIDE DEF p
<1>2. /\ p.limit = n /\ p.order = q.order /\ p.post = q.post /\ p.scans = q.scans
      /\ p.keeps = q.keeps /\ p.cursor = q.cursor /\ p.since = q.since /\ p.until = q.until
  BY <1>1
<1>3. Candidates(rows, p) = Candidates(rows, q)
  BY <1>2 DEF Candidates
<1>4. Matches(rows, p) = Matches(rows, q)
  BY <1>2, <1>3 DEF Matches
<1> QED
  BY <1>2, <1>3, <1>4 DEF p

(* A page read with an adapted limit is never refused, and what it says of   *)
(* the matches is exact.                                                     *)
LEMMA PageIsExact ==
  ASSUME EventBounds, StorageBounds, NEW rows, rows \subseteq Rows, NEW q, Query(q), Fitting(q)
  PROVE  LET page == AdaptivePage(rows, q)
         IN  page.limit \in 1..q.limit /\ Exact(page.answer, rows, q, page.limit)
<1> DEFINE n == ByteSafeLimit(rows, q)
           p == [q EXCEPT !.limit = n]
           a == SqliteQuery(rows, p)
           adm == Admitted(rows, p)
<1>1. q.limit \in Nat \ {0}
  BY DEF Fitting
<1>2. n \in 1..q.limit /\ (n = 1 \/ n \notin TooLarge(rows, q))
  BY <1>1, HalvingEnds
<1> HIDE DEF n
<1>3. AdaptivePage(rows, q) = [limit |-> n, answer |-> a]
  BY DEF AdaptivePage, PageAt, n
<1>4. n \in Nat \ {0} /\ n <= q.limit
  BY <1>1, <1>2
<1>5. /\ p.limit = n /\ p.order = q.order /\ p.post = q.post
      /\ p.scans = q.scans /\ p.keeps = q.keeps
      /\ Candidates(rows, p) = Candidates(rows, q) /\ Matches(rows, p) = Matches(rows, q)
  BY Limited, SMTT(30)
<1> HIDE DEF p
<1>6. Fitting(p)
  <2>1. PageRows * MaxPages \in Nat
    BY DEF StorageBounds
  <2> QED
    BY <1>1, <1>4, <1>5, <2>1 DEF Fitting
<1>7. a.kind # "request_too_large"
  <2>1. CASE n = 1
    <3>1. Begins(adm, Matches(rows, p), p.order) /\ Len(adm) <= 1
      BY <2>1, <1>5, <1>6, AdmittedExact
    <3>2. adm \in Seq(Matches(rows, p)) /\ Len(adm) \in Nat
      BY <3>1, BeginsElements
    <3>3. Matches(rows, p) \subseteq Rows
      BY DEF Matches, Candidates
    <3>4. \A r \in Rows : r.bytes \in Nat /\ r.bytes <= QueryBytes
      <4>1. ASSUME NEW r \in Rows PROVE r.bytes \in Nat /\ r.bytes <= QueryBytes
        <5>1. r.bytes \in Int /\ 1 <= r.bytes /\ r.bytes <= QueryBytes
          BY RowBytes
        <5> QED
          BY <5>1
      <4> QED
        BY <4>1
    <3>5. adm \in Seq(Rows)
      BY <3>2, <3>3
    <3>6. /\ StoredBytes(adm) \in Nat
          /\ Len(adm) = 1 => StoredBytes(adm) = adm[1].bytes
          /\ Len(adm) = 0 => StoredBytes(adm) = 0
      BY <3>4, <3>5, BytesGrow
    <3>7. Len(adm) = 1 => adm[1] \in Rows
      BY <3>5
    <3>10. Len(adm) \in Nat
      BY <3>2
    <3> HIDE DEF adm
    <3>8. StoredBytes(adm) <= QueryBytes
      <4>1. CASE Len(adm) = 1
        BY <3>4, <3>6, <3>7, <4>1
      <4>2. CASE Len(adm) = 0
        BY <3>6, <4>2 DEF StorageBounds
      <4>3. \A n1 \in Nat : n1 <= 1 => n1 = 1 \/ n1 = 0
        OBVIOUS
      <4> QED
        BY <3>1, <3>10, <4>1, <4>2, <4>3, Zenon
    <3>9. ~(StoredBytes(adm) > QueryBytes)
      BY <3>6, <3>8 DEF StorageBounds
    <3> QED
      BY <3>9, <1>6, SqliteExact DEF adm
  <2>2. CASE n \notin TooLarge(rows, q)
    BY <2>2, <1>4 DEF TooLarge, p
  <2> QED
    BY <1>2, <2>1, <2>2
<1>8. Exact(a, rows, p, n)
  BY <1>5, <1>6, <1>7, SqliteExact
<1>9. Exact(a, rows, q, n)
  BY <1>5, <1>8 DEF Exact
<1> HIDE DEF a
<1> QED
  BY <1>2, <1>3, <1>9

--------------------------------------------------------------------------------
(* The two adapters.                                                         *)

LEMMA MemoryExact ==
  ASSUME EventBounds, NEW rows, rows \subseteq Rows, NEW q, q.limit \in Nat
  PROVE  LET m == MemoryQuery(rows, q)
             K == Matches(rows, q)
         IN  /\ Begins(m, K, q.order) /\ Len(m) <= q.limit
             /\ Len(m) < q.limit => ToSet(m) = K
             /\ \A s : Begins(s, K, q.order) /\ Len(s) <= q.limit => Len(s) <= Len(m)
<1>1. Matches(rows, q) \subseteq Rows
  BY DEF Matches, Candidates
<1>2. MemoryQuery(rows, q) = First(InOrder(Matches(rows, q), q.order), q.limit)
  BY DEF MemoryQuery, Matches
<1> HIDE DEF MemoryQuery
<1> QED
  BY <1>1, <1>2, FirstInOrder

LEMMA Resumed ==
  ASSUME NEW q, Query(q), q.limit \in Nat, NEW c, NEW k \in Nat
  PROVE  [q EXCEPT !.cursor = c, !.limit = @ - k]
           = [scans |-> q.scans, keeps |-> q.keeps, post |-> q.post, since |-> q.since,
              until |-> q.until, order |-> q.order, cursor |-> c, limit |-> q.limit - k]
<1> DEFINE w == [scans |-> q.scans, keeps |-> q.keeps, post |-> q.post, since |-> q.since,
                 until |-> q.until, order |-> q.order, cursor |-> q.cursor, limit |-> q.limit]
<1>1. [w EXCEPT !.cursor = c, !.limit = w.limit - k]
        = [scans |-> q.scans, keeps |-> q.keeps, post |-> q.post, since |-> q.since,
           until |-> q.until, order |-> q.order, cursor |-> c, limit |-> q.limit - k]
  <2> DEFINE v == [w EXCEPT !.cursor = c]
  <2>1. v = [scans |-> q.scans, keeps |-> q.keeps, post |-> q.post, since |-> q.since,
             until |-> q.until, order |-> q.order, cursor |-> c, limit |-> q.limit]
    OBVIOUS
  <2>2. [w EXCEPT !.cursor = c, !.limit = w.limit - k] = [v EXCEPT !.limit = w.limit - k]
    OBVIOUS
  <2>3. w.limit = q.limit
    OBVIOUS
  <2> HIDE DEF v, w
  <2>4. [v EXCEPT !.limit = q.limit - k]
          = [scans |-> q.scans, keeps |-> q.keeps, post |-> q.post, since |-> q.since,
             until |-> q.until, order |-> q.order, cursor |-> c, limit |-> q.limit - k]
    BY <2>1
  <2> QED
    BY <2>2, <2>3, <2>4
<1>2. w = q
  BY DEF Query
<1> HIDE DEF w
<1> QED
  BY <1>1, <1>2

(* The two storage adapters agree: on every ledger and for every query that  *)
(* fits in its scan budget, the SQLite adapter, which reads pages, gives up  *)
(* after its budget and decides in SQL, returns what the memory adapter      *)
(* returns from all the rows (storage/sqlite.ts, storage/memory.ts).         *)
THEOREM QueriesAgree ==
  ASSUME EventBounds, StorageBounds, NEW rows, rows \subseteq Rows, NEW q, Query(q), Fitting(q),
         \A c \in q.cursor : Point(c)
  PROVE  AdaptersAgreeOn(rows, q)
<1> DEFINE a == SqliteQuery(rows, q)
           m == MemoryQuery(rows, q)
           C == Candidates(rows, q)
           K == Matches(rows, q)
           order == q.order
           limit == q.limit
<1>1. limit \in Nat
  BY DEF Fitting
<1>2. /\ Begins(m, K, order) /\ Len(m) <= limit /\ (Len(m) < limit => ToSet(m) = K)
      /\ \A s : Begins(s, K, order) /\ Len(s) <= limit => Len(s) <= Len(m)
  BY <1>1, MemoryExact
<1>3. /\ a.kind = "request_too_large" <=> StoredBytes(Admitted(rows, q)) > QueryBytes
      /\ a.kind # "request_too_large" => Exact(a, rows, q, limit)
  BY SqliteExact
<1>4. K \subseteq C /\ C \subseteq Rows /\ Distinct(K) /\ Distinct(C)
  <2>1. K \subseteq C /\ C \subseteq Rows
    BY DEF Matches, Candidates
  <2> QED
    BY <2>1, EventsBegin, DistinctIn
<1>5. Len(m) \in Nat
  BY <1>2, BeginsElements
<1>6. ASSUME NEW s, Begins(s, K, order), Len(s) <= limit, Len(s) < limit => ToSet(s) = K PROVE s = m
  <2>1. Len(s) <= Len(m) /\ Len(s) \in Nat
    BY <1>2, <1>6, BeginsElements
  <2>2. CASE Len(s) < limit
    <3>1. Len(m) <= Len(s)
      BY <2>2, <1>2, <1>4, <1>6, BeginsShorter
    <3>2. Len(m) = Len(s)
      BY <2>1, <3>1, <1>5
    <3> QED
      BY <3>2, <1>2, <1>4, <1>6, BeginsSame
  <2>3. CASE ~(Len(s) < limit)
    <3>1. Len(m) = Len(s)
      BY <2>1, <2>3, <1>1, <1>2, <1>5
    <3> QED
      BY <3>1, <1>2, <1>4, <1>6, BeginsSame
  <2> QED
    BY <2>2, <2>3
<1>7. CASE a.kind = "rows"
  <2>1. Begins(a.rows, K, order) /\ Len(a.rows) <= limit /\ (Len(a.rows) < limit => ToSet(a.rows) = K)
    BY <1>3, <1>7 DEF Exact
  <2>2. a.rows = m
    BY <2>1, <1>6
  <2> QED
    BY <2>2, <1>7 DEF AdaptersAgreeOn, Agrees
<1>8. CASE a.kind = "request_too_large"
  <2> DEFINE adm == Admitted(rows, q)
  <2>1. Begins(adm, K, order) /\ Len(adm) <= limit
    BY AdmittedExact
  <2>2. StoredBytes(adm) > QueryBytes
    BY <1>3, <1>8
  <2> HIDE DEF adm
  <2>3. Len(adm) <= Len(m) /\ Len(adm) \in Nat
    BY <2>1, <1>2, BeginsElements
  <2>4. \A i \in 1..Len(adm) : adm[i] = m[i]
    <3>1. \A i \in 1..Len(adm) : i \in 1..Len(m)
      BY <2>3, <1>5
    <3> QED
      BY <3>1, <2>1, <1>2, <1>4, BeginsAgree
  <2>5. adm \in Seq(Rows) /\ m \in Seq(Rows)
    <3>1. adm \in Seq(K) /\ m \in Seq(K) /\ K \subseteq Rows
      BY <2>1, <1>2, <1>4, BeginsElements
    <3> HIDE DEF m, K
    <3> QED
      BY <3>1
  <2>6. \A r \in Rows : r.bytes \in Nat
    <3>1. ASSUME NEW r \in Rows PROVE r.bytes \in Nat
      <4>1. r.bytes \in Int /\ 1 <= r.bytes
        BY RowBytes
      <4> QED
        BY <4>1
    <3> QED
      BY <3>1
  <2>7. StoredBytes(adm) \in Nat /\ StoredBytes(adm) <= StoredBytes(m) /\ StoredBytes(m) \in Nat
    BY <2>3, <2>4, <2>5, <2>6, BytesGrow
  <2>8. StoredBytes(m) > QueryBytes
    BY <2>2, <2>7 DEF StorageBounds
  <2> QED
    BY <2>8, <1>8 DEF AdaptersAgreeOn, Agrees
<1>9. CASE a.kind = "scan_budget_exceeded"
  <2>1. Begins(a.rows, K, order) /\ Len(a.rows) < limit
    BY <1>3, <1>9 DEF Exact
  <2>2. PICK x \in C : a.cursor = {CursorOf(x)} /\ ToSet(a.rows) = Passed(order, K, x)
    BY <1>3, <1>9 DEF Exact
  <2> DEFINE p == [q EXCEPT !.cursor = a.cursor, !.limit = @ - Len(a.rows)]
             d == limit - Len(a.rows)
             H == Passed(order, K, x)
  <2>3. Len(a.rows) \in Nat /\ a.rows \in Seq(K)
    BY <2>1, BeginsElements
  <2>4. d \in Nat
    BY <2>1, <2>3, <1>1
  <2>5. p = [scans |-> q.scans, keeps |-> q.keeps, post |-> q.post, since |-> q.since,
             until |-> q.until, order |-> q.order, cursor |-> a.cursor, limit |-> d]
    BY <1>1, <2>3, Resumed
  <2> HIDE DEF p, d
  <2>6. /\ p.limit = d /\ p.order = q.order /\ p.scans = q.scans /\ p.keeps = q.keeps
        /\ p.cursor = a.cursor /\ p.since = q.since /\ p.until = q.until
    BY <2>5
  <2>7. ASSUME NEW r \in K, NEW c \in q.cursor, Ahead(order, x, r) PROVE Ahead(order, c, r)
    <3>1. Ahead(order, c, x)
      BY DEF Candidates
    <3>2. Point(c) /\ Point(x) /\ Point(r)
      BY <1>4 DEF Distinct
    <3> HIDE DEF K, C, order
    <3> QED
      BY <2>7, <3>1, <3>2, AheadIsOrder
  <2>8. \A r : Ahead(order, CursorOf(x), r) <=> Ahead(order, x, r)
    BY DEF CursorOf, Ahead, Older
  <2>9. Matches(rows, p) = K \ H
    <3>1. ASSUME NEW r \in rows
          PROVE  r \in Matches(rows, p) <=> r \in K /\ Ahead(order, x, r)
      <4>1. r \in K <=> /\ r.class \in q.scans /\ r.class \in q.keeps
                        /\ q.since <= r.ts /\ r.ts < q.until
                        /\ \A c \in q.cursor : Ahead(order, c, r)
        BY <3>1 DEF Matches, Candidates
      <4>2. r \in Matches(rows, p) <=> /\ r.class \in q.scans /\ r.class \in q.keeps
                                       /\ q.since <= r.ts /\ r.ts < q.until
                                       /\ Ahead(order, x, r)
        BY <2>2, <2>6, <2>8, <3>1 DEF Matches, Candidates
      <4>3. x \in C
        OBVIOUS
      <4>4. ASSUME /\ r.class \in q.scans /\ r.class \in q.keeps
                   /\ q.since <= r.ts /\ r.ts < q.until, Ahead(order, x, r),
                   NEW c \in q.cursor
            PROVE  Ahead(order, c, r)
        <5>1. Ahead(order, c, x)
          BY <4>3 DEF Candidates
        <5>2. Point(c) /\ Point(x) /\ Point(r)
          <6>1. r \in Rows
            OBVIOUS
          <6> QED
            BY <1>4, <6>1, EventsBegin DEF Distinct
        <5> HIDE DEF C, order
        <5> QED
          BY <4>4, <5>1, <5>2, AheadIsOrder
      <4> HIDE DEF K, C, order
      <4> QED
        BY <4>1, <4>2, <4>4
    <3>2. Matches(rows, p) \subseteq rows /\ K \subseteq rows
      BY DEF Matches, Candidates
    <3> HIDE DEF K, C
    <3> QED
      BY <3>1, <3>2 DEF Passed
  <2> DEFINE t == MemoryQuery(rows, p)
  <2>10. /\ Begins(t, K \ H, order) /\ Len(t) <= d /\ (Len(t) < d => ToSet(t) = K \ H)
    BY <2>4, <2>6, <2>9, MemoryExact
  <2> HIDE DEF t, K, order, H, C
  <2>11. \A y \in H, z \in K \ H : Ahead(order, y, z)
    <3>1. ASSUME NEW y \in H, NEW z \in K \ H PROVE Ahead(order, y, z)
      <4>1. y \in C /\ z \in C /\ ~Ahead(order, x, y) /\ Ahead(order, x, z)
        BY <1>4 DEF H, Passed
      <4> QED
        BY <4>1, <1>4, AheadInDistinct, ZenonT(30)
    <3> QED
      BY <3>1
  <2>12. ToSet(a.rows) = H
    BY <2>2 DEF H
  <2>13. Begins(a.rows \o t, K, order)
    BY <2>1, <2>10, <2>11, <2>12, <1>4, BeginsJoin
  <2>14. t \in Seq(K) /\ Len(t) \in Nat /\ t \in Seq(K \ H)
    <3>1. t \in Seq(K \ H) /\ Len(t) \in Nat
      BY <2>10, BeginsElements
    <3> QED
      BY <3>1
  <2>15. Len(a.rows \o t) = Len(a.rows) + Len(t) /\ ToSet(a.rows \o t) = ToSet(a.rows) \cup ToSet(t)
    BY <2>3, <2>14, Joined
  <2>16. Len(a.rows \o t) <= limit /\ (Len(a.rows \o t) < limit => Len(t) < d)
    BY <2>3, <2>4, <2>10, <2>14, <2>15, <1>1 DEF d
  <2>17. Len(t) < d => ToSet(a.rows \o t) = K
    <3>1. H \subseteq K
      BY DEF H, Passed
    <3> QED
      BY <3>1, <2>10, <2>12, <2>15
  <2>18. a.rows \o t = m
    BY <2>13, <2>16, <2>17, <1>6
  <2> QED
    BY <2>18, <1>9 DEF AdaptersAgreeOn, Agrees, t, p
<1> QED
  <2>1. a.kind \in {"rows", "request_too_large", "scan_budget_exceeded"}
    BY <1>3 DEF Exact
  <2> QED
    BY <2>1, <1>7, <1>8, <1>9

(* A beginning has passed everything up to its last row.                     *)
LEMMA BeginsLast ==
  ASSUME NEW M, Distinct(M), NEW order, NEW s, Begins(s, M, order), Len(s) # 0
  PROVE  Last(s) \in M /\ ToSet(s) = Passed(order, M, Last(s))
<1> DEFINE n == Len(s)
           x == s[n]
<1>1. n \in 1..n /\ s \in Seq(M) /\ \A i \in 1..n : s[i] \in M
  BY BeginsElements
<1>2. Last(s) = x /\ x \in M /\ x \in ToSet(s)
  BY <1>1, ElementsOf DEF Last
<1>3. \A i \in 1..n : i = n \/ i < n
  BY <1>1
<1>4. ASSUME NEW r \in M PROVE r \in ToSet(s) <=> ~Ahead(order, x, r)
  <2>1. ASSUME r \in ToSet(s) PROVE ~Ahead(order, x, r)
    <3>1. PICK i \in 1..n : s[i] = r
      BY <2>1, BeginsElements
    <3>2. i < n => Ahead(order, r, x)
      BY <3>1, <1>1 DEF Begins, InTurn
    <3> HIDE DEF n, x
    <3>3. i = n => r = x
      BY <3>1 DEF x
    <3> QED
      BY <3>2, <3>3, <1>2, <1>3, <1>4, AheadInDistinct
  <2>2. ASSUME ~Ahead(order, x, r) PROVE r \in ToSet(s)
    <3>1. r = x \/ Ahead(order, r, x)
      BY <2>2, <1>2, <1>4, AheadInDistinct
    <3> QED
      BY <3>1, <1>1, <1>2 DEF Begins
  <2> QED
    BY <2>1, <2>2
<1>5. ToSet(s) \subseteq M
  BY BeginsElements
<1> QED
  BY <1>2, <1>4, <1>5 DEF Passed

--------------------------------------------------------------------------------
(* Loops.                                                                    *)

LEMMA Iterated ==
  ASSUME NEW V, NEW base \in V, NEW step \in [V -> V]
  PROVE  \E f \in [Nat -> V] : f[0] = base /\ \A n \in Nat : f[n + 1] = step[f[n]]
<1> DEFINE next == [x \in Nat \X V |-> step[x[2]]]
<1>1. next \in [Nat \X V -> V]
  OBVIOUS
<1> HIDE DEF next
<1>2. PICK f \in [Nat -> V] : StepsBy(f, base, next)
  BY <1>1, Recursion
<1>3. f[0] = base
  BY <1>2 DEF StepsBy
<1>4. ASSUME NEW n \in Nat PROVE f[n + 1] = step[f[n]]
  <2>1. n + 1 \in Nat /\ n + 1 # 0 /\ (n + 1) - 1 = n
    OBVIOUS
  <2>2. f[n + 1] = next[<<n + 1, f[n]>>]
    BY <1>2, <2>1 DEF StepsBy
  <2>3. <<n + 1, f[n]>> \in Nat \X V
    BY <2>1
  <2> QED
    BY <2>2, <2>3 DEF next
<1> QED
  BY <1>3, <1>4

--------------------------------------------------------------------------------
(* Rows in the order of time.                                                *)

LEMMA TimesGrow ==
  ASSUME NEW M, Distinct(M), NEW s \in Seq(M), InTurn(s, "asc")
  PROVE  \A i, j \in 1..Len(s) : i <= j => s[i].ts <= s[j].ts
<1> SUFFICES ASSUME NEW i \in 1..Len(s), NEW j \in 1..Len(s), i <= j PROVE s[i].ts <= s[j].ts
  OBVIOUS
<1>1. s[i] \in M /\ s[j] \in M
  OBVIOUS
<1>2. s[i].ts \in Int /\ s[j].ts \in Int
  BY <1>1 DEF Distinct, Point
<1>3. i < j => Older(s[i], s[j])
  BY DEF InTurn, Ahead
<1>4. i = j \/ i < j
  OBVIOUS
<1>5. i < j => s[i].ts <= s[j].ts
  BY <1>2, <1>3 DEF Older
<1> QED
  BY <1>2, <1>4, <1>5

(* What is spread over another sequence in the same order lies farther on    *)
(* in it.                                                                    *)
LEMMA FartherOn ==
  ASSUME NEW M, Distinct(M), NEW order, NEW s \in Seq(M), NEW t \in Seq(M),
         InTurn(s, order), InTurn(t, order), ToSet(s) \subseteq ToSet(t)
  PROVE  /\ Len(s) <= Len(t)
         /\ \A j \in 1..Len(s) : t[j] = s[j] \/ Ahead(order, t[j], s[j])
<1> DEFINE p == [j \in 1..Len(s) |-> CHOOSE k \in 1..Len(t) : t[k] = s[j]]
<1>1. ASSUME NEW j \in 1..Len(s) PROVE p[j] \in 1..Len(t) /\ t[p[j]] = s[j] /\ s[j] \in M
  <2>1. s[j] \in ToSet(s)
    BY ElementsOf
  <2>2. \E k \in 1..Len(t) : t[k] = s[j]
    BY <2>1, ElementsOf
  <2> QED
    BY <2>2
<1> HIDE DEF p
<1>2. ASSUME NEW i \in 1..Len(s), NEW j \in 1..Len(s), i < j PROVE p[i] < p[j]
  <2>1. Ahead(order, s[i], s[j])
    BY <1>2 DEF InTurn
  <2>2. p[i] # p[j]
    BY <2>1, <1>1, AheadInDistinct
  <2>3. ~(p[j] < p[i])
    <3>1. p[j] < p[i] => Ahead(order, t[p[j]], t[p[i]])
      BY <1>1 DEF InTurn
    <3>2. p[j] < p[i] => Ahead(order, s[j], s[i])
      BY <3>1, <1>1
    <3>3. s[i] \in M /\ s[j] \in M
      OBVIOUS
    <3>4. ~Ahead(order, s[j], s[i])
      BY <2>1, <3>3, AheadInDistinct
    <3> QED
      BY <3>2, <3>4
  <2>4. p[i] \in Nat /\ p[j] \in Nat
    BY <1>1
  <2> QED
    BY <2>2, <2>3, <2>4
<1> DEFINE Good == {i \in Nat : i \in 1..Len(s) => p[i] >= i}
<1>3. 0 \in Good
  OBVIOUS
<1>4. ASSUME NEW i \in Nat, i \in Good PROVE i + 1 \in Good
  <2> SUFFICES ASSUME i + 1 \in 1..Len(s) PROVE p[i + 1] >= i + 1
    OBVIOUS
  <2>1. p[i + 1] \in 1..Len(t)
    BY <1>1
  <2>2. CASE i = 0
    BY <2>1, <2>2
  <2>3. CASE i # 0
    <3>1. i \in 1..Len(s) /\ i < i + 1
      BY <2>3
    <3>2. p[i] >= i /\ p[i] < p[i + 1] /\ p[i] \in 1..Len(t)
      BY <3>1, <1>1, <1>2, <1>4
    <3> QED
      BY <3>2, <2>1
  <2> QED
    BY <2>2, <2>3
<1>5. Nat \subseteq Good
  <2> HIDE DEF Good
  <2> QED
    BY <1>3, <1>4, SetInduction
<1>6. ASSUME NEW j \in 1..Len(s) PROVE p[j] >= j /\ p[j] \in 1..Len(t) /\ j \in 1..Len(t)
  <2>1. j \in Good /\ j \in Nat
    BY <1>5
  <2>2. p[j] >= j /\ p[j] \in 1..Len(t)
    BY <2>1, <1>1
  <2> QED
    BY <2>1, <2>2
<1>7. Len(s) <= Len(t)
  <2>1. CASE Len(s) = 0
    BY <2>1
  <2>2. CASE Len(s) # 0
    <3>1. Len(s) \in 1..Len(s)
      BY <2>2
    <3> QED
      BY <3>1, <1>6
  <2> QED
    BY <2>1, <2>2
<1>8. ASSUME NEW j \in 1..Len(s) PROVE t[j] = s[j] \/ Ahead(order, t[j], s[j])
  <2>1. j < p[j] => Ahead(order, t[j], t[p[j]])
    BY <1>6 DEF InTurn
  <2>2. j = p[j] \/ j < p[j]
    BY <1>6
  <2> QED
    BY <2>1, <2>2, <1>1
<1> QED
  BY <1>7, <1>8

--------------------------------------------------------------------------------
(* A read of atoms in pages. What is received is, up to an entry of the      *)
(* order the entries are processed in, what exists of it.                    *)

(* The elements of S among the first n of s.                                 *)
SoFar(s, S, n) == Among(SubSeq(s, 1, n), S)

SoFarRule(s, S) ==
  /\ \A n \in 1..Len(s) :
       SoFar(s, S, n) = IF s[n] \in S THEN Append(SoFar(s, S, n - 1), s[n])
                                      ELSE SoFar(s, S, n - 1)
  /\ \A a, b \in 0..Len(s) :
       a <= b => SoFar(s, S, b) = SoFar(s, S, a) \o Among(SubSeq(s, a + 1, b), S)

LEMMA SoFarIs ==
  ASSUME NEW T, NEW s \in Seq(T), NEW S
  PROVE  /\ SoFar(s, S, 0) = <<>> /\ SoFar(s, S, Len(s)) = Among(s, S)
         /\ \A n \in 0..Len(s) : SoFar(s, S, n) \in Seq(T)
         /\ SoFarRule(s, S)
<1>1. PICK u : OneByOne(u, s, S) /\ Among(s, S) = u[Len(s)]
  BY AmongOneByOne
<1>2. Len(s) \in Nat
  OBVIOUS
<1> DEFINE Typed == {n \in Nat : n <= Len(s) => u[n] \in Seq(T)}
<1>3. Nat \subseteq Typed
  <2>1. 0 \in Typed
    <3>1. u[0] = <<>> /\ <<>> \in Seq(T)
      BY <1>1 DEF OneByOne
    <3> QED
      BY <3>1
  <2>2. ASSUME NEW n \in Nat, n \in Typed PROVE n + 1 \in Typed
    <3> SUFFICES ASSUME n + 1 <= Len(s) PROVE u[n + 1] \in Seq(T)
      OBVIOUS
    <3>1. u[n] \in Seq(T) /\ s[n + 1] \in T
      BY <1>2, <2>2
    <3>2. u[n + 1] = IF s[n + 1] \in S THEN Append(u[n], s[n + 1]) ELSE u[n]
      BY <1>1 DEF OneByOne
    <3> QED
      BY <3>1, <3>2
  <2> HIDE DEF Typed
  <2> QED
    BY <2>1, <2>2, SetInduction
<1>4. \A n \in 0..Len(s) : u[n] \in Seq(T)
  BY <1>2, <1>3
<1>5. ASSUME NEW a \in 0..Len(s), NEW b \in 0..Len(s), a <= b
      PROVE  u[b] = u[a] \o Among(SubSeq(s, a + 1, b), S)
  <2> DEFINE t == SubSeq(s, a + 1, b)
  <2>1. Len(t) = b - a /\ \A i \in 1..(b - a) : t[i] = s[a + i]
    BY <1>2, <1>5
  <2>2. PICK v : OneByOne(v, t, S) /\ Among(t, S) = v[Len(t)]
    BY AmongOneByOne
  <2> HIDE DEF t
  <2> DEFINE Good == {k \in Nat : k <= b - a => u[a + k] = u[a] \o v[k] /\ v[k] \in Seq(T)}
  <2>3. 0 \in Good
    <3>1. v[0] = <<>> /\ u[a] \in Seq(T) /\ a + 0 = a
      BY <1>4, <2>2 DEF OneByOne
    <3>2. u[a] = u[a] \o <<>> /\ <<>> \in Seq(T)
      BY <3>1, ConcatEmptySeq
    <3> QED
      BY <3>1, <3>2
  <2>4. ASSUME NEW k \in Nat, k \in Good PROVE k + 1 \in Good
    <3> SUFFICES ASSUME k + 1 <= b - a
                 PROVE  u[a + (k + 1)] = u[a] \o v[k + 1] /\ v[k + 1] \in Seq(T)
      <4>1. k + 1 \in Nat
        OBVIOUS
      <4> QED
        BY <4>1
    <3>1. u[a + k] = u[a] \o v[k] /\ v[k] \in Seq(T)
      <4>1. k <= b - a
        BY <1>2
      <4> QED
        BY <2>4, <4>1
    <3>2. /\ a + k \in Nat /\ a + (k + 1) = (a + k) + 1
          /\ t[k + 1] = s[(a + k) + 1] /\ s[(a + k) + 1] \in T
      BY <1>2, <1>5, <2>1
    <3>3. u[(a + k) + 1] = IF s[(a + k) + 1] \in S THEN Append(u[a + k], s[(a + k) + 1]) ELSE u[a + k]
      BY <1>1, <3>2 DEF OneByOne
    <3>4. v[k + 1] = IF t[k + 1] \in S THEN Append(v[k], t[k + 1]) ELSE v[k]
      BY <2>2 DEF OneByOne
    <3> DEFINE x == s[(a + k) + 1]
               p == u[a]
               w == v[k]
    <3>5. p \in Seq(T) /\ w \in Seq(T) /\ x \in T
      BY <1>4, <3>1, <3>2
    <3> HIDE DEF x, p, w
    <3>6. Append(p \o w, x) = p \o Append(w, x) /\ Append(w, x) \in Seq(T)
      <4>1. <<x>> \in Seq(T) /\ p \o w \in Seq(T)
        BY <3>5
      <4>2. Append(p \o w, x) = (p \o w) \o <<x>> /\ Append(w, x) = w \o <<x>>
        BY <3>5, <4>1
      <4>3. (p \o w) \o <<x>> = p \o (w \o <<x>>)
        BY <3>5, <4>1, ConcatAssociative
      <4>4. Append(w, x) \in Seq(T)
        BY <3>5
      <4> QED
        BY <4>2, <4>3, <4>4
    <3> QED
      BY <3>1, <3>2, <3>3, <3>4, <3>6 DEF x, p, w
  <2>5. Nat \subseteq Good
    <3> HIDE DEF Good
    <3> QED
      BY <2>3, <2>4, SetInduction
  <2>6. b - a \in Nat /\ a + (b - a) = b
    BY <1>2, <1>5
  <2>7. b - a \in Good
    BY <2>5, <2>6
  <2>8. u[a + (b - a)] = u[a] \o v[b - a]
    <3>1. b - a <= b - a
      BY <2>6
    <3> QED
      BY <2>7, <3>1
  <2> QED
    BY <2>1, <2>2, <2>6, <2>8 DEF t
<1>6. ASSUME NEW n \in 0..Len(s) PROVE u[n] = SoFar(s, S, n)
  <2>1. u[n] = u[0] \o SoFar(s, S, n)
    <3>1. 0 \in 0..Len(s) /\ 0 <= n /\ 0 + 1 = 1
      BY <1>2
    <3>2. u[n] = u[0] \o Among(SubSeq(s, 0 + 1, n), S)
      BY <1>5, <3>1
    <3> QED
      BY <3>1, <3>2 DEF SoFar
  <2>2. u[0] = <<>>
    BY <1>1 DEF OneByOne
  <2>3. SoFar(s, S, n) \in Seq(T)
    <3>1. SubSeq(s, 1, n) \in Seq(T)
      BY <1>2
    <3> QED
      BY <3>1, AmongPlaces DEF SoFar
  <2> HIDE DEF SoFar
  <2>4. <<>> \o SoFar(s, S, n) = SoFar(s, S, n)
    BY <2>3, ConcatEmptySeq
  <2> QED
    BY <2>1, <2>2, <2>4
<1>7. ASSUME NEW n \in 1..Len(s)
      PROVE  SoFar(s, S, n) = IF s[n] \in S THEN Append(SoFar(s, S, n - 1), s[n])
                                            ELSE SoFar(s, S, n - 1)
  <2>1. n - 1 \in Nat /\ (n - 1) + 1 = n /\ n - 1 \in 0..Len(s) /\ n \in 0..Len(s)
    BY <1>2
  <2>2. u[(n - 1) + 1] = IF s[(n - 1) + 1] \in S THEN Append(u[n - 1], s[(n - 1) + 1]) ELSE u[n - 1]
    BY <1>1, <2>1 DEF OneByOne
  <2> QED
    BY <1>6, <2>1, <2>2
<1>8. 0 \in 0..Len(s) /\ Len(s) \in 0..Len(s)
  BY <1>2
<1>9. SoFar(s, S, 0) = <<>>
  BY <1>1, <1>6, <1>8 DEF OneByOne
<1>10. SoFar(s, S, Len(s)) = Among(s, S)
  BY <1>1, <1>6, <1>8
<1>11. \A m \in 0..Len(s), k \in 0..Len(s) :
         m <= k => SoFar(s, S, k) = SoFar(s, S, m) \o Among(SubSeq(s, m + 1, k), S)
  BY <1>5, <1>6
<1>12. SoFarRule(s, S)
  <2> HIDE DEF SoFar
  <2> QED
    BY <1>7, <1>11 DEF SoFarRule
<1>13. \A n \in 0..Len(s) : SoFar(s, S, n) \in Seq(T)
  BY <1>4, <1>6
<1> QED
  BY <1>9, <1>10, <1>12, <1>13

(* What is kept and what is left out add up.                                 *)
LEMMA SoFarCounts ==
  ASSUME NEW T, NEW s \in Seq(T), NEW S
  PROVE  /\ IsFiniteSet({i \in 1..Len(s) : s[i] \notin S})
         /\ Cardinality({i \in 1..Len(s) : s[i] \notin S}) \in Nat
         /\ Len(Among(s, S)) + Cardinality({i \in 1..Len(s) : s[i] \notin S}) = Len(s)
<1>0. \A m \in 1..Len(s) :
        SoFar(s, S, m) = IF s[m] \in S THEN Append(SoFar(s, S, m - 1), s[m])
                                       ELSE SoFar(s, S, m - 1)
  BY SoFarIs DEF SoFarRule
<1> DEFINE Out(n) == {i \in 1..n : s[i] \notin S}
           Good == {n \in Nat : n <= Len(s) =>
                      IsFiniteSet(Out(n)) /\ Cardinality(Out(n)) \in Nat
                        /\ Len(SoFar(s, S, n)) + Cardinality(Out(n)) = n}
<1>1. Len(s) \in Nat
  OBVIOUS
<1>2. 0 \in Good
  <2>1. SoFar(s, S, 0) = <<>>
    BY SoFarIs
  <2>2. Out(0) = {}
    OBVIOUS
  <2> QED
    BY <2>1, <2>2, FS_EmptySet
<1>3. ASSUME NEW n \in Nat, n \in Good PROVE n + 1 \in Good
  <2> SUFFICES ASSUME n + 1 <= Len(s)
               PROVE  /\ IsFiniteSet(Out(n + 1)) /\ Cardinality(Out(n + 1)) \in Nat
                      /\ Len(SoFar(s, S, n + 1)) + Cardinality(Out(n + 1)) = n + 1
    OBVIOUS
  <2>1. /\ IsFiniteSet(Out(n)) /\ Cardinality(Out(n)) \in Nat
        /\ Len(SoFar(s, S, n)) + Cardinality(Out(n)) = n
    BY <1>1, <1>3
  <2>2. n + 1 \in 1..Len(s) /\ (n + 1) - 1 = n /\ n \in 0..Len(s)
    BY <1>1
  <2>3. SoFar(s, S, n) \in Seq(T)
    BY <2>2, SoFarIs
  <2>4. SoFar(s, S, n + 1) = IF s[n + 1] \in S THEN Append(SoFar(s, S, n), s[n + 1])
                                               ELSE SoFar(s, S, n)
    <3>1. SoFar(s, S, n + 1) = IF s[n + 1] \in S THEN Append(SoFar(s, S, (n + 1) - 1), s[n + 1])
                                                 ELSE SoFar(s, S, (n + 1) - 1)
      BY <1>0, <2>2
    <3> QED
      BY <2>2, <3>1
  <2>5. CASE s[n + 1] \in S
    <3>1. Out(n + 1) = Out(n)
      BY <2>5
    <3>2. Len(SoFar(s, S, n + 1)) = Len(SoFar(s, S, n)) + 1 /\ Len(SoFar(s, S, n)) \in Nat
      BY <2>3, <2>4, <2>5
    <3> HIDE DEF Out
    <3> QED
      BY <2>1, <3>1, <3>2
  <2>6. CASE s[n + 1] \notin S
    <3>1. Out(n + 1) = Out(n) \cup {n + 1} /\ n + 1 \notin Out(n)
      BY <2>6
    <3>2. SoFar(s, S, n + 1) = SoFar(s, S, n) /\ Len(SoFar(s, S, n)) \in Nat
      BY <2>3, <2>4, <2>6
    <3> HIDE DEF Out
    <3>3. IsFiniteSet(Out(n + 1)) /\ Cardinality(Out(n + 1)) = Cardinality(Out(n)) + 1
      BY <2>1, <3>1, FS_AddElement
    <3> QED
      BY <2>1, <3>2, <3>3
  <2> QED
    BY <2>5, <2>6
<1>4. Len(s) \in Good
  <2> HIDE DEF Good
  <2> QED
    BY <1>1, <1>2, <1>3, SetInduction
<1>5. SoFar(s, S, Len(s)) = Among(s, S)
  BY SoFarIs
<1>6. /\ IsFiniteSet(Out(Len(s))) /\ Cardinality(Out(Len(s))) \in Nat
      /\ Len(SoFar(s, S, Len(s))) + Cardinality(Out(Len(s))) = Len(s)
  <2> HIDE DEF Out
  <2> QED
    BY <1>1, <1>4
<1> QED
  BY <1>5, <1>6

(* Filtering depends on the test of the elements there are.                  *)
LEMMA AmongSame ==
  ASSUME NEW T, NEW s \in Seq(T), NEW S, NEW K, \A i \in 1..Len(s) : s[i] \in S <=> s[i] \in K
  PROVE  Among(s, S) = Among(s, K)
<1>1. PICK u : OneByOne(u, s, S) /\ Among(s, S) = u[Len(s)]
  BY AmongOneByOne
<1>2. PICK v : OneByOne(v, s, K) /\ Among(s, K) = v[Len(s)]
  BY AmongOneByOne
<1> DEFINE Good == {n \in Nat : n <= Len(s) => u[n] = v[n]}
<1>3. 0 \in Good
  BY <1>1, <1>2 DEF OneByOne
<1>4. ASSUME NEW n \in Nat, n \in Good PROVE n + 1 \in Good
  <2>1. u[n + 1] = IF s[n + 1] \in S THEN Append(u[n], s[n + 1]) ELSE u[n]
    BY <1>1 DEF OneByOne
  <2>2. v[n + 1] = IF s[n + 1] \in K THEN Append(v[n], s[n + 1]) ELSE v[n]
    BY <1>2 DEF OneByOne
  <2>3. n + 1 <= Len(s) => n <= Len(s) /\ n + 1 \in 1..Len(s)
    OBVIOUS
  <2> QED
    BY <1>4, <2>1, <2>2, <2>3
<1>5. Len(s) \in Good
  <2> HIDE DEF Good
  <2> QED
    BY <1>3, <1>4, SetInduction
<1> QED
  BY <1>1, <1>2, <1>5

(* The first of the places where an element stands.                          *)
LEMMA FirstPlace ==
  ASSUME NEW T, NEW s \in Seq(T), NEW x \in ToSet(s)
  PROVE  \E n \in DOMAIN s : s[n] = x /\ \A m \in 1..(n - 1) : s[m] # x
<1>1. Len(s) \in Nat /\ DOMAIN s = 1..Len(s)
  OBVIOUS
<1>2. PICK k \in 1..Len(s) : s[k] = x
  BY ElementsOf
<1> SUFFICES ASSUME ~ \E n \in 1..Len(s) : s[n] = x /\ \A m \in 1..(n - 1) : s[m] # x
             PROVE  FALSE
  BY <1>1
<1> DEFINE Clear == {n \in Nat : \A m \in 1..n : m <= Len(s) => s[m] # x}
<1>3. 0 \in Clear
  OBVIOUS
<1>4. ASSUME NEW n \in Nat, n \in Clear PROVE n + 1 \in Clear
  <2> SUFFICES ASSUME NEW m \in 1..(n + 1), m <= Len(s) PROVE s[m] # x
    OBVIOUS
  <2>1. \A j \in 1..(m - 1) : j \in 1..n /\ j <= Len(s)
    BY <1>1
  <2>2. m \in 1..Len(s)
    BY <1>1
  <2> QED
    BY <1>4, <2>1, <2>2
<1>5. Nat \subseteq Clear
  <2> HIDE DEF Clear
  <2> QED
    BY <1>3, <1>4, SetInduction
<1>6. k \in Clear /\ k \in 1..k /\ k <= Len(s)
  BY <1>1, <1>5
<1> QED
  BY <1>2, <1>6

Ranks(M, R) ==
  /\ \A x \in M : <<x, x>> \notin R
  /\ \A x, y, z \in M : <<x, y>> \in R /\ <<y, z>> \in R => <<x, z>> \in R
  /\ \A x, y \in M : x = y \/ <<x, y>> \in R \/ <<y, x>> \in R

(* In a finite total order every rank is taken.                              *)
LEMMA RanksTaken ==
  ASSUME NEW M, IsFiniteSet(M), NEW R, Ranks(M, R)
  PROVE  \A n \in 1..Cardinality(M) :
           \E x \in M : Cardinality({y \in M : <<y, x>> \in R}) = n - 1
<1> DEFINE below(x) == {y \in M : <<y, x>> \in R}
           f == [x \in M |-> Cardinality(below(x))]
           N == Cardinality(M)
           D == 0..(N - 1)
<1>1. N \in Nat
  BY FS_CardinalityType
<1>2. ASSUME NEW x \in M PROVE IsFiniteSet(below(x)) /\ f[x] \in Nat /\ f[x] < N
  <2>1. below(x) \in SUBSET M /\ x \notin below(x)
    BY DEF Ranks
  <2>2. f[x] = Cardinality(below(x))
    OBVIOUS
  <2> HIDE DEF below, f
  <2>3. IsFiniteSet(below(x)) /\ Cardinality(below(x)) <= N /\ (N = Cardinality(below(x)) => M = below(x))
    BY <2>1, FS_Subset
  <2>4. Cardinality(below(x)) \in Nat
    BY <2>3, FS_CardinalityType
  <2> QED
    BY <1>1, <2>1, <2>2, <2>3, <2>4
<1>3. ASSUME NEW x \in M, NEW y \in M, <<x, y>> \in R PROVE f[x] < f[y]
  <2>1. below(x) \in SUBSET below(y)
    BY <1>3 DEF Ranks
  <2>2. x \in below(y) /\ x \notin below(x)
    BY <1>3 DEF Ranks
  <2>3. f[x] = Cardinality(below(x)) /\ f[y] = Cardinality(below(y))
    OBVIOUS
  <2>4. IsFiniteSet(below(y)) /\ f[x] \in Nat /\ f[y] \in Nat
    BY <1>2
  <2> HIDE DEF below, f
  <2>5. Cardinality(below(x)) <= Cardinality(below(y))
        /\ (Cardinality(below(y)) = Cardinality(below(x)) => below(y) = below(x))
    BY <2>1, <2>4, FS_Subset
  <2> QED
    BY <2>2, <2>3, <2>4, <2>5
<1>4. f \in [M -> D]
  <2>1. ASSUME NEW x \in M PROVE f[x] \in D
    <3>1. f[x] \in Nat /\ f[x] < N
      BY <1>2
    <3> HIDE DEF f, N
    <3> QED
      BY <1>1, <3>1
  <2>2. f = [x \in M |-> f[x]]
    OBVIOUS
  <2> HIDE DEF f
  <2> QED
    BY <2>1, <2>2
<1>5. f \in Injection(M, D)
  <2> HIDE DEF f
  <2>1. ASSUME NEW x \in M, NEW y \in M, f[x] = f[y] PROVE x = y
    <3>1. f[x] \in Nat /\ f[y] \in Nat
      BY <1>2
    <3>2. x = y \/ <<x, y>> \in R \/ <<y, x>> \in R
      BY DEF Ranks
    <3> QED
      BY <1>3, <2>1, <3>1, <3>2
  <2> QED
    BY <1>4, <2>1 DEF Injection, IsInjective
<1>6. IsFiniteSet(D) /\ Cardinality(D) = N
  <2>1. 0 \in Int /\ N - 1 \in Int
    BY <1>1
  <2> QED
    BY <1>1, <2>1, FS_Interval
<1>7. f \in Surjection(M, D)
  <2> HIDE DEF f, D
  <2> QED
    BY <1>5, <1>6, FS_Injection
<1>8. ASSUME NEW n \in 1..N PROVE \E x \in M : Cardinality(below(x)) = n - 1
  <2>1. n - 1 \in D
    BY <1>1
  <2>2. PICK x \in M : f[x] = n - 1
    <3> HIDE DEF f, D
    <3> QED
      BY <1>7, <2>1 DEF Surjection
  <2> QED
    BY <2>2
<1> QED
  BY <1>8

--------------------------------------------------------------------------------
(* Sorting a finite set gives each of its elements once.                     *)
LEMMA ImageFinite ==
  ASSUME NEW M, IsFiniteSet(M), NEW f
  PROVE  IsFiniteSet({f[x] : x \in M}) /\ Cardinality({f[x] : x \in M}) <= Cardinality(M)
<1> DEFINE T == {f[x] : x \in M}
           g == [x \in M |-> f[x]]
<1>1. g \in Surjection(M, T)
  <2>1. g \in [M -> T] /\ \A t \in T : \E x \in M : g[x] = t
    OBVIOUS
  <2> HIDE DEF g, T
  <2> QED
    BY <2>1 DEF Surjection
<1> HIDE DEF g, T
<1>2. IsFiniteSet(T) /\ Cardinality(T) <= Cardinality(M)
  BY <1>1, FS_Surjection
<1> QED
  BY <1>2 DEF T

(* s takes the n-th element to be one with n - 1 before it, if there is one. *)
Sorts(s, M, before) ==
  /\ s = [n \in 1..Cardinality(M) |-> s[n]]
  /\ \A n \in 1..Cardinality(M), x \in M :
       Cardinality(before[x]) = n - 1 => s[n] \in M /\ Cardinality(before[s[n]]) = n - 1

LEMMA SortedIs ==
  ASSUME NEW M, IsFiniteSet(M), NEW R, Ranks(M, R),
         NEW before, \A x \in M : before[x] = {y \in M : <<y, x>> \in R},
         NEW s, Sorts(s, M, before)
  PROVE  /\ s \in Seq(M) /\ Len(s) = Cardinality(M) /\ ToSet(s) = M
         /\ \A i, j \in 1..Len(s) : s[i] = s[j] => i = j
         /\ \A i, j \in 1..Len(s) : i < j => <<s[i], s[j]>> \in R
<1> DEFINE N == Cardinality(M)
<1>1. N \in Nat
  BY FS_CardinalityType
<1>2. ASSUME NEW n \in 1..N PROVE s[n] \in M /\ Cardinality(before[s[n]]) = n - 1
  <2>1. PICK x \in M : Cardinality({y \in M : <<y, x>> \in R}) = n - 1
    BY RanksTaken
  <2>2. Cardinality(before[x]) = n - 1
    BY <2>1
  <2> QED
    BY <2>2 DEF Sorts
<1>3. s \in [1..N -> M]
  BY <1>2 DEF Sorts
<1>4. ASSUME NEW i \in 1..N, NEW j \in 1..N, s[i] = s[j] PROVE i = j
  BY <1>1, <1>2, <1>4
<1>5. s \in Injection(1..N, M)
  BY <1>3, <1>4 DEF Injection, IsInjective
<1>6. Cardinality(1..N) = N
  BY <1>1, FS_Interval
<1>7. s \in Surjection(1..N, M)
  BY <1>5, <1>6, FS_Injection
<1>8. \A x \in M : \E i \in 1..N : s[i] = x
  BY <1>7 DEF Surjection
<1>9. s \in Seq(M) /\ Len(s) = N
  BY <1>1, <1>3
<1>10. ToSet(s) = M
  <2>1. ToSet(s) \subseteq M /\ \A i \in 1..Len(s) : s[i] \in ToSet(s)
    BY <1>9, ElementsOf
  <2> HIDE DEF N
  <2>2. \A x \in M : x \in ToSet(s)
    BY <1>8, <1>9, <2>1
  <2> QED
    BY <2>1, <2>2
<1>11. ASSUME NEW i \in 1..N, NEW j \in 1..N, i < j PROVE <<s[i], s[j]>> \in R
  <2>1. s[i] \in M /\ s[j] \in M /\ s[i] # s[j]
    BY <1>2, <1>4, <1>11
  <2>2. Cardinality(before[s[i]]) = i - 1 /\ Cardinality(before[s[j]]) = j - 1
    BY <1>2
  <2>3. ASSUME <<s[j], s[i]>> \in R PROVE FALSE
    <3> DEFINE x == s[i]
               y == s[j]
    <3>0. before[x] = {z \in M : <<z, x>> \in R} /\ before[y] = {z \in M : <<z, y>> \in R}
      BY <2>1
    <3>9. x \in M /\ y \in M /\ <<y, x>> \in R
      BY <2>1, <2>3
    <3> HIDE DEF x, y
    <3>1. before[y] \in SUBSET before[x] /\ before[x] \in SUBSET M
      BY <3>0, <3>9 DEF Ranks
    <3>2. IsFiniteSet(before[x])
      BY <3>1, FS_Subset
    <3>3. Cardinality(before[y]) <= Cardinality(before[x])
      BY <3>1, <3>2, FS_Subset
    <3> QED
      BY <1>1, <1>11, <2>2, <3>3 DEF x, y
  <2> QED
    BY <2>1, <2>3 DEF Ranks
<1> QED
  BY <1>4, <1>9, <1>10, <1>11

(* The lexicographic order of keys.                                          *)
LEMMA LexOrder ==
  ASSUME NEW k \in Nat, NEW a \in [1..k -> Int], NEW b \in [1..k -> Int], NEW c \in [1..k -> Int]
  PROVE  /\ ~LexLess(a, a)
         /\ LexLess(a, b) /\ LexLess(b, c) => LexLess(a, c)
         /\ a = b \/ LexLess(a, b) \/ LexLess(b, a)
<1>0. DOMAIN a = 1..k /\ DOMAIN b = 1..k
  OBVIOUS
<1>1. ~LexLess(a, a)
  BY DEF LexLess
<1>2. ASSUME LexLess(a, b), LexLess(b, c) PROVE LexLess(a, c)
  <2>1. PICK m \in 1..k : a[m] < b[m] /\ \A i \in 1..(m - 1) : a[i] = b[i]
    BY <1>0, <1>2 DEF LexLess
  <2>2. PICK n \in 1..k : b[n] < c[n] /\ \A i \in 1..(n - 1) : b[i] = c[i]
    BY <1>0, <1>2 DEF LexLess
  <2> DEFINE p == IF m < n THEN m ELSE n
  <2>3. p \in 1..k /\ a[p] < c[p]
    <3>1. CASE m < n
      <4>1. m \in 1..(n - 1)
        BY <3>1
      <4> QED
        BY <2>1, <2>2, <3>1, <4>1
    <3>2. CASE m = n
      BY <2>1, <2>2, <3>2
    <3>3. CASE m > n
      <4>1. n \in 1..(m - 1)
        BY <3>3
      <4> QED
        BY <2>1, <2>2, <3>3, <4>1
    <3> QED
      BY <3>1, <3>2, <3>3
  <2>4. \A i \in 1..(p - 1) : a[i] = c[i]
    <3>1. \A i \in 1..(p - 1) : i \in 1..(m - 1) /\ i \in 1..(n - 1)
      OBVIOUS
    <3> QED
      BY <2>1, <2>2, <3>1
  <2> HIDE DEF p
  <2> QED
    BY <1>0, <2>3, <2>4 DEF LexLess
<1>3. ASSUME a # b PROVE LexLess(a, b) \/ LexLess(b, a)
  <2> DEFINE same == {n \in Nat : n <= k => \A i \in 1..n : a[i] = b[i]}
  <2>1. ASSUME ~LexLess(a, b), ~LexLess(b, a) PROVE FALSE
    <3>1. 0 \in same
      OBVIOUS
    <3>2. ASSUME NEW n \in Nat, n \in same PROVE n + 1 \in same
      <4> SUFFICES ASSUME n + 1 <= k PROVE \A i \in 1..(n + 1) : a[i] = b[i]
        BY <3>2
      <4>1. \A i \in 1..n : a[i] = b[i]
        BY <3>2
      <4>2. n + 1 \in 1..k /\ (n + 1) - 1 = n
        OBVIOUS
      <4>3. ~(a[n + 1] < b[n + 1]) /\ ~(b[n + 1] < a[n + 1])
        <5>1. n + 1 \in DOMAIN a /\ n + 1 \in DOMAIN b
          BY <1>0, <4>2
        <5>2. \A m \in 1..((n + 1) - 1) : a[m] = b[m] /\ b[m] = a[m]
          BY <4>1
        <5>3. a[n + 1] < b[n + 1] => LexLess(a, b)
          BY <5>1, <5>2 DEF LexLess
        <5>4. b[n + 1] < a[n + 1] => LexLess(b, a)
          BY <5>1, <5>2 DEF LexLess
        <5> QED
          BY <2>1, <5>3, <5>4
      <4>4. a[n + 1] = b[n + 1]
        BY <4>2, <4>3
      <4> QED
        BY <4>1, <4>4
    <3>3. Nat \subseteq same
      <4> HIDE DEF same
      <4> QED
        BY <3>1, <3>2, SetInduction
    <3>4. \A i \in 1..k : a[i] = b[i]
      <4>1. k \in same
        BY <3>3
      <4> QED
        BY <4>1
    <3> QED
      BY <1>3, <3>4
  <2> QED
    BY <2>1
<1> QED
  BY <1>1, <1>2, <1>3

LEMMA LexRanks ==
  ASSUME NEW M, NEW k \in Nat, NEW key \in [M -> [1..k -> Int]],
         \A x, y \in M : key[x] = key[y] => x = y,
         NEW R, \A x, y \in M : <<x, y>> \in R <=> LexLess(key[x], key[y])
  PROVE  Ranks(M, R)
<1>1. \A x \in M : key[x] \in [1..k -> Int]
  OBVIOUS
<1>2. \A x \in M : <<x, x>> \notin R
  BY <1>1, LexOrder
<1>3. ASSUME NEW x \in M, NEW y \in M, NEW z \in M, <<x, y>> \in R, <<y, z>> \in R
      PROVE  <<x, z>> \in R
  <2>1. LexLess(key[x], key[y]) /\ LexLess(key[y], key[z])
    BY <1>3
  <2>2. LexLess(key[x], key[z])
    BY <1>1, <2>1, LexOrder
  <2> QED
    BY <2>2
<1>4. ASSUME NEW x \in M, NEW y \in M PROVE x = y \/ <<x, y>> \in R \/ <<y, x>> \in R
  <2>1. key[x] = key[y] \/ LexLess(key[x], key[y]) \/ LexLess(key[y], key[x])
    BY <1>1, LexOrder
  <2> QED
    BY <2>1
<1> QED
  BY <1>2, <1>3, <1>4 DEF Ranks

(* Sorting by a relation: what the model's operator comes down to.           *)
LEMMA EventIds ==
  ASSUME EventBounds, WorkBounds
  PROVE  /\ IsFiniteSet(Ids) /\ Ids \subseteq Nat
         /\ \A i \in Ids : Row[i] \in Rows /\ Row[i].id = i
         /\ \A i \in Ids : Row[i].occ \in Nat /\ Row[i].project \in Nat
         /\ \A i \in Ids : /\ IsFiniteSet(Strong(i)) /\ Strong(i) \subseteq Nat
                           /\ IsFiniteSet(Weak(i)) /\ Weak(i) \subseteq Nat
                           /\ IsFiniteSet(Owner(i)) /\ Owner(i) \subseteq Nat
                           /\ Cardinality(Owner(i)) <= 1
<1>1. IsFiniteSet(Rows)
  <2>1. Events \in Seq(Rows) /\ ToSet(Events) = Rows
    BY DEF EventBounds, Rows
  <2>2. /\ Len(Events) \in Nat /\ \A i \in 1..Len(Events) : Events[i] \in Rows
        /\ \A x \in Rows : \E i \in 1..Len(Events) : Events[i] = x
    BY <2>1, ElementsOf
  <2>3. Rows = {Events[i] : i \in 1..Len(Events)}
    BY <2>2
  <2>4. IsFiniteSet(1..Len(Events))
    BY <2>2, FS_Interval
  <2>5. IsFiniteSet({Events[i] : i \in 1..Len(Events)})
    BY <2>4, ImageFinite
  <2> QED
    BY <2>3, <2>5
<1>2. IsFiniteSet(Ids) /\ Ids \subseteq Nat
  <2> DEFINE f == [r \in Rows |-> r.id]
  <2>1. IsFiniteSet({f[r] : r \in Rows})
    BY <1>1, ImageFinite
  <2>2. {f[r] : r \in Rows} = Ids
    BY DEF Ids
  <2>3. \A r \in Rows : r.id \in Nat
    BY DEF EventBounds, Rows
  <2> QED
    BY <2>1, <2>2, <2>3 DEF Ids
<1>3. \A i \in Ids : Row[i] \in Rows /\ Row[i].id = i
  <2>1. \A i \in Ids : Row[i] = CHOOSE r \in Rows : r.id = i
    BY DEF Row
  <2>2. \A i \in Ids : \E r \in Rows : r.id = i
    BY DEF Ids
  <2> QED
    BY <2>1, <2>2
<1>4. \A r \in Rows : /\ r.occ \in Nat /\ r.project \in Nat /\ Cardinality(r.owner) <= 1
                      /\ IsFiniteSet(r.strong) /\ r.strong \subseteq Nat
                      /\ IsFiniteSet(r.files) /\ r.files \subseteq Nat
                      /\ IsFiniteSet(r.owner) /\ r.owner \subseteq Nat
  BY DEF WorkBounds
<1> QED
  BY <1>2, <1>3, <1>4 DEF Strong, Weak, Owner

(* A function defined step by step on an interval.                           *)
StepsTo(f, N, base, step) ==
  f[0] = base /\ \A n \in 1..N : f[n] = step[<<n, f[n - 1]>>]

LEMMA BoundedRecursion ==
  ASSUME NEW N \in Nat, NEW V, NEW base \in V, NEW step \in [(1..N) \X V -> V]
  PROVE  \E f \in [0..N -> V] : StepsTo(f, N, base, step)
<1> DEFINE ext(n, v) == IF n \in 1..N THEN step[<<n, v>>] ELSE v
           all == [x \in Nat \X V |-> ext(x[1], x[2])]
<1>1. ASSUME NEW n, NEW v \in V PROVE ext(n, v) \in V
  OBVIOUS
<1>2. all \in [Nat \X V -> V]
  <2> HIDE DEF ext
  <2> QED
    BY <1>1
<1>3. PICK g \in [Nat -> V] : StepsBy(g, base, all)
  <2> HIDE DEF all
  <2> QED
    BY <1>2, Recursion
<1> DEFINE f == [n \in 0..N |-> g[n]]
<1>4. f \in [0..N -> V]
  BY <1>3
<1>5. f[0] = base
  <2>1. g[0] = base
    BY <1>3 DEF StepsBy
  <2> QED
    BY <2>1
<1>6. ASSUME NEW n \in 1..N PROVE f[n] = step[<<n, f[n - 1]>>]
  <2>1. n \in Nat /\ n # 0 /\ n - 1 \in Nat /\ n - 1 \in 0..N /\ n \in 0..N
    OBVIOUS
  <2>2. f[n] = g[n] /\ f[n - 1] = g[n - 1] /\ g[n - 1] \in V
    BY <1>3, <2>1
  <2>3. g[n] = all[<<n, g[n - 1]>>]
    <3> HIDE DEF all, f
    <3> QED
      BY <1>3, <2>1 DEF StepsBy
  <2>4. all[<<n, g[n - 1]>>] = ext(n, g[n - 1])
    <3> HIDE DEF ext, f
    <3> QED
      BY <2>1, <2>2
  <2> HIDE DEF all, f
  <2> QED
    BY <2>2, <2>3, <2>4
<1> HIDE DEF f
<1>7. StepsTo(f, N, base, step)
  BY <1>5, <1>6 DEF StepsTo
<1> QED
  BY <1>4, <1>7

LEMMA WorkOrderIs ==
  ASSUME EventBounds, WorkBounds
  PROVE  /\ WorkOrder \in Seq(Ids) /\ ToSet(WorkOrder) = Ids
         /\ \A i, j \in 1..Len(WorkOrder) : WorkOrder[i] = WorkOrder[j] => i = j
         /\ \A i, j \in 1..Len(WorkOrder) : i < j => EarlierWork(WorkOrder[i], WorkOrder[j])
<1> DEFINE R == {p \in Ids \X Ids : EarlierWork(p[1], p[2])}
           before == [x \in Ids |-> {y \in Ids : EarlierWork(y, x)}]
<1>1. \A x \in Ids : x \in Nat /\ Row[x].occ \in Nat
  BY EventIds
<1>2. \A x, y \in Ids : <<x, y>> \in R <=> EarlierWork(x, y)
  OBVIOUS
<1>3. Ranks(Ids, R)
  <2> HIDE DEF R
  <2>1. \A x, y \in Ids :
          <<x, y>> \in R <=> Row[x].occ < Row[y].occ \/ (Row[x].occ = Row[y].occ /\ x < y)
    BY <1>2 DEF EarlierWork
  <2>2. \A x \in Ids : <<x, x>> \notin R
    BY <1>1, <2>1
  <2>3. \A x, y, z \in Ids : <<x, y>> \in R /\ <<y, z>> \in R => <<x, z>> \in R
    BY <1>1, <2>1
  <2>4. ASSUME NEW x \in Ids, NEW y \in Ids PROVE x = y \/ <<x, y>> \in R \/ <<y, x>> \in R
    <3>1. x \in Nat /\ y \in Nat /\ Row[x].occ \in Nat /\ Row[y].occ \in Nat
      BY <1>1
    <3>2. \/ Row[x].occ < Row[y].occ \/ Row[y].occ < Row[x].occ
          \/ Row[x].occ = Row[y].occ /\ (x < y \/ y < x \/ x = y)
      BY <3>1
    <3> QED
      BY <2>1, <3>2
  <2> QED
    BY <2>2, <2>3, <2>4 DEF Ranks
<1>4. \A x \in Ids : before[x] = {y \in Ids : <<y, x>> \in R}
  BY <1>2
<1>5. Sorts(WorkOrder, Ids, before)
  <2> DEFINE pick(n) == CHOOSE x \in Ids : Cardinality({y \in Ids : EarlierWork(y, x)}) = n - 1
  <2>1. WorkOrder = [n \in 1..Cardinality(Ids) |-> pick(n)]
    BY DEF WorkOrder, Sorted
  <2>2. ASSUME NEW n \in 1..Cardinality(Ids), NEW x \in Ids, Cardinality(before[x]) = n - 1
       PROVE  pick(n) \in Ids /\ Cardinality(before[pick(n)]) = n - 1
    <3>1. \A z \in Ids : before[z] = {y \in Ids : EarlierWork(y, z)}
      OBVIOUS
    <3>2. \E z \in Ids : Cardinality({y \in Ids : EarlierWork(y, z)}) = n - 1
      BY <2>2, <3>1
    <3> QED
      BY <3>1, <3>2
  <2> HIDE DEF pick, before
  <2>3. WorkOrder = [n \in 1..Cardinality(Ids) |-> WorkOrder[n]] /\ \A n \in 1..Cardinality(Ids) : WorkOrder[n] = pick(n)
    BY <2>1
  <2> QED
    BY <2>2, <2>3 DEF Sorts
<1>6. IsFiniteSet(Ids)
  BY EventIds
<1> HIDE DEF R, before
<1> DEFINE w == WorkOrder
<1>61. Sorts(w, Ids, before)
  BY <1>5
<1> HIDE DEF w
<1>7. /\ w \in Seq(Ids) /\ ToSet(w) = Ids
      /\ \A i, j \in 1..Len(w) : w[i] = w[j] => i = j
      /\ \A i, j \in 1..Len(w) : i < j => <<w[i], w[j]>> \in R
  BY <1>3, <1>4, <1>6, <1>61, SortedIs
<1>8. \A i \in 1..Len(w) : w[i] \in Ids
  BY <1>7
<1>9. \A i, j \in 1..Len(w) : i < j => EarlierWork(w[i], w[j])
  BY <1>2, <1>7, <1>8
<1> QED
  BY <1>7, <1>9 DEF w

LEMMA ByWorkIs ==
  ASSUME EventBounds, WorkBounds, NEW T \in SUBSET Ids
  PROVE  /\ ByWork(T) \in Seq(T) /\ (T # {} => Len(ByWork(T)) >= 1)
         /\ \A x \in T : \E i \in 1..Len(ByWork(T)) : ByWork(T)[i] = x
         /\ \A i, j \in 1..Len(ByWork(T)) : ByWork(T)[i] = ByWork(T)[j] => i = j
         /\ \A i, j \in 1..Len(ByWork(T)) : i < j => EarlierWork(ByWork(T)[i], ByWork(T)[j])
<1> DEFINE w == WorkOrder
           a == ByWork(T)
<1>1. /\ w \in Seq(Ids) /\ ToSet(w) = Ids /\ \A i, j \in 1..Len(w) : w[i] = w[j] => i = j
      /\ \A i, j \in 1..Len(w) : i < j => EarlierWork(w[i], w[j])
  BY WorkOrderIs
<1> HIDE DEF w
<1>2. a = Among(w, T)
  BY DEF ByWork, w
<1>3. a \in Seq(Ids) /\ \E p : Places(p, a, w, T, Len(w))
  BY <1>1, <1>2, AmongPlaces
<1> HIDE DEF a
<1>4. PICK p : Places(p, a, w, T, Len(w))
  BY <1>3
<1>5. /\ p \in [1..Len(a) -> 1..Len(w)]
      /\ \A i, j \in 1..Len(a) : i < j => p[i] < p[j]
      /\ \A i \in 1..Len(a) : a[i] = w[p[i]] /\ a[i] \in T
      /\ \A k \in 1..Len(w) : w[k] \in T => \E i \in 1..Len(a) : p[i] = k
  BY <1>4 DEF Places
<1>6. Len(a) \in Nat /\ a = [i \in 1..Len(a) |-> a[i]]
  BY <1>3
<1>7. a \in Seq(T)
  BY <1>5, <1>6
<1>8. ASSUME NEW x \in T PROVE \E i \in 1..Len(a) : a[i] = x
  <2>1. PICK k \in 1..Len(w) : w[k] = x
    BY <1>1, ElementsOf
  <2>2. PICK i \in 1..Len(a) : p[i] = k
    BY <1>5, <2>1
  <2> QED
    BY <1>5, <2>1, <2>2
<1>9. T # {} => Len(a) >= 1
  BY <1>6, <1>8
<1>10. ASSUME NEW i \in 1..Len(a), NEW j \in 1..Len(a), a[i] = a[j] PROVE i = j
  <2>1. p[i] = p[j]
    <3>1. p[i] \in 1..Len(w) /\ p[j] \in 1..Len(w) /\ w[p[i]] = w[p[j]]
      BY <1>5, <1>10
    <3> QED
      BY <1>1, <3>1
  <2>2. p[i] \in Nat /\ p[j] \in Nat
    <3>1. \A k \in 1..Len(w) : k \in Nat
      OBVIOUS
    <3> QED
      BY <1>5, <3>1
  <2>3. ~(i < j) /\ ~(j < i)
    BY <1>5, <2>1, <2>2
  <2> QED
    BY <2>3
<1>11. ASSUME NEW i \in 1..Len(a), NEW j \in 1..Len(a), i < j PROVE EarlierWork(a[i], a[j])
  <2>1. p[i] < p[j] /\ p[i] \in 1..Len(w) /\ p[j] \in 1..Len(w) /\ a[i] = w[p[i]] /\ a[j] = w[p[j]]
    BY <1>5, <1>11
  <2> QED
    BY <1>1, <2>1
<1> QED
  BY <1>7, <1>8, <1>9, <1>10, <1>11 DEF a

(* Neighbours are of the set, and each has one next neighbour at most.       *)
LEMMA NeighboursAre ==
  ASSUME EventBounds, WorkBounds, NEW T \in SUBSET Ids, NEW gap
  PROVE  /\ Neighbours(T, gap) \subseteq T \X T /\ IsFiniteSet(Neighbours(T, gap))
         /\ \A p, q \in Neighbours(T, gap) : p[1] = q[1] => p = q
<1> DEFINE s == ByWork(T)
           D == {m \in 1..(Len(s) - 1) : Row[s[m + 1]].occ - Row[s[m]].occ <= gap}
           f == [n \in D |-> <<s[n], s[n + 1]>>]
<1>1. s \in Seq(T) /\ \A i, j \in 1..Len(s) : s[i] = s[j] => i = j
  BY ByWorkIs
<1> HIDE DEF s
<1>2. Neighbours(T, gap) = {f[n] : n \in D}
  BY DEF Neighbours, Adjacent, s
<1>3. Len(s) \in Nat /\ \A n \in D : n \in Nat /\ n \in 1..Len(s) /\ n + 1 \in 1..Len(s)
  BY <1>1
<1>4. IsFiniteSet(D)
  <2>1. IsFiniteSet(1..(Len(s) - 1)) /\ D \in SUBSET (1..(Len(s) - 1))
    BY <1>3, FS_Interval
  <2> HIDE DEF D
  <2> QED
    BY <2>1, FS_Subset
<1> HIDE DEF D
<1>5. \A n \in D : f[n] = <<s[n], s[n + 1]>>
  OBVIOUS
<1> HIDE DEF f
<1>6. ASSUME NEW n \in D PROVE f[n] \in T \X T
  <2>1. s[n] \in T /\ s[n + 1] \in T
    BY <1>1, <1>3
  <2> QED
    BY <1>5, <2>1
<1>7. ASSUME NEW n \in D, NEW m \in D, f[n][1] = f[m][1] PROVE f[n] = f[m]
  <2>1. s[n] = s[m]
    BY <1>5, <1>7
  <2>2. n = m
    BY <1>1, <1>3, <2>1
  <2> QED
    BY <2>2
<1>8. IsFiniteSet({f[n] : n \in D})
  BY <1>4, ImageFinite
<1> QED
  BY <1>2, <1>6, <1>7, <1>8

LinkSet(P) ==
  [from : P, to : P, key : Nat, how : {"strong", "weak", "lineage"}, gap : Int]

LEMMA LinkIs ==
  ASSUME EventBounds, WorkBounds, NEW P \in SUBSET Ids, NEW p \in P \X P, NEW k \in Nat,
         NEW how \in {"strong", "weak", "lineage"}
  PROVE  /\ Link(p, k, how) \in LinkSet(P)
         /\ Link(p, k, how).from = p[1] /\ Link(p, k, how).to = p[2]
         /\ Link(p, k, how).key = k /\ Link(p, k, how).how = how
<1>1. p[1] \in P /\ p[2] \in P /\ p[1] \in Ids /\ p[2] \in Ids
  OBVIOUS
<1>2. Row[p[2]].occ - Row[p[1]].occ \in Int
  <2>1. Row[p[2]].occ \in Nat /\ Row[p[1]].occ \in Nat
    BY <1>1, EventIds
  <2> QED
    BY <2>1
<1>3. Link(p, k, how) = [from |-> p[1], to |-> p[2], key |-> k, how |-> how,
                         gap |-> Row[p[2]].occ - Row[p[1]].occ]
  BY DEF Link
<1> QED
  BY <1>1, <1>2, <1>3 DEF LinkSet

LinksBy(P, K, how) == {Link(x[2], x[1], how) : x \in K \X (P \X P)}

(* The links of a set by one kind of key are finitely many.                  *)
LEMMA LinksFinite ==
  ASSUME EventBounds, WorkBounds, NEW P \in SUBSET Ids, NEW K, K \subseteq Nat, IsFiniteSet(K),
         NEW how \in {"strong", "weak", "lineage"}, NEW U, U \subseteq LinksBy(P, K, how)
  PROVE  IsFiniteSet(U) /\ U \subseteq LinkSet(P) /\ \A l \in U : l.how = how
<1> DEFINE D == K \X (P \X P)
           f == [x \in D |-> Link(x[2], x[1], how)]
<1>1. IsFiniteSet(D)
  <2>1. IsFiniteSet(P)
    BY EventIds, FS_Subset
  <2>2. IsFiniteSet(P \X P)
    BY <2>1, FS_Product
  <2> QED
    BY <2>2, FS_Product
<1>2. {f[x] : x \in D} = LinksBy(P, K, how)
  BY DEF LinksBy
<1> HIDE DEF f
<1>3. IsFiniteSet({f[x] : x \in D})
  BY <1>1, ImageFinite
<1>4. IsFiniteSet(U)
  <2>1. IsFiniteSet(LinksBy(P, K, how))
    BY <1>2, <1>3
  <2> QED
    BY <2>1, FS_Subset
<1>5. \A l \in U : l \in LinkSet(P) /\ l.how = how
  <2>1. ASSUME NEW k \in K, NEW p \in P \X P
        PROVE  Link(p, k, how) \in LinkSet(P) /\ Link(p, k, how).how = how
    <3>1. k \in Nat
      OBVIOUS
    <3> QED
      BY <3>1, LinkIs
  <2>2. ASSUME NEW l \in U PROVE l \in LinkSet(P) /\ l.how = how
    <3>1. PICK x \in D : l = Link(x[2], x[1], how)
      BY DEF LinksBy
    <3>2. x[1] \in K /\ x[2] \in P \X P
      BY <3>1
    <3> HIDE DEF D
    <3> QED
      BY <2>1, <3>1, <3>2
  <2> QED
    BY <2>2
<1> QED
  BY <1>4, <1>5

LEMMA LinksOverIs ==
  ASSUME EventBounds, WorkBounds, NEW P \in SUBSET Ids, NEW how \in {"strong", "weak"}, NEW gap
  PROVE  LinksOver(P, how, gap) \in Seq({l \in LinkSet(P) : l.how = how})
<1> DEFINE K == UNION {Keys(i, how) : i \in P}
           Near(k) == Neighbours({i \in P : k \in Keys(i, how)}, gap)
           U == UNION {{Link(p, k, how) : p \in Near(k)} : k \in K}
           key == [l \in U |-> <<l.gap, l.key, l.from, l.to>>]
           R == {p \in U \X U : LinkBefore(p[1], p[2])}
           before == [x \in U |-> {y \in U : LinkBefore(y, x)}]
<1>1. K \subseteq Nat /\ IsFiniteSet(K)
  <2>1. \A i \in P : Keys(i, how) \subseteq Nat /\ IsFiniteSet(Keys(i, how))
    BY EventIds DEF Keys
  <2> DEFINE f == [i \in P |-> Keys(i, how)]
  <2>2. IsFiniteSet(P)
    BY EventIds, FS_Subset
  <2>3. IsFiniteSet({f[i] : i \in P})
    BY <2>2, ImageFinite
  <2>4. {f[i] : i \in P} = {Keys(i, how) : i \in P}
    OBVIOUS
  <2>5. IsFiniteSet({Keys(i, how) : i \in P})
    BY <2>3, <2>4
  <2> QED
    BY <2>1, <2>5, FS_UNION
<1>2. \A k : Near(k) \subseteq P \X P
  <2> SUFFICES ASSUME NEW k PROVE Near(k) \subseteq P \X P
    OBVIOUS
  <2>1. {i \in P : k \in Keys(i, how)} \in SUBSET Ids
    OBVIOUS
  <2>2. Near(k) \subseteq {i \in P : k \in Keys(i, how)} \X {i \in P : k \in Keys(i, how)}
    BY <2>1, NeighboursAre
  <2> QED
    BY <2>2
<1>3. U \subseteq LinksBy(P, K, how)
  <2> HIDE DEF K, Near
  <2> SUFFICES ASSUME NEW k \in K, NEW p \in Near(k) PROVE Link(p, k, how) \in LinksBy(P, K, how)
    OBVIOUS
  <2>1. <<k, p>> \in K \X (P \X P)
    BY <1>2
  <2>2. Link(<<k, p>>[2], <<k, p>>[1], how) = Link(p, k, how)
    OBVIOUS
  <2> QED
    BY <2>1, <2>2 DEF LinksBy
<1>4. LinksOver(P, how, gap) = Sorted(U, LinkBefore)
  BY DEF LinksOver
<1> HIDE DEF U, K, Near
<1>5. IsFiniteSet(U) /\ U \subseteq LinkSet(P) /\ \A l \in U : l.how = how
  <2>1. how \in {"strong", "weak", "lineage"}
    OBVIOUS
  <2> QED
    BY <1>1, <1>3, <2>1, LinksFinite
<1>6. Ranks(U, R)
  <2>1. ASSUME NEW l \in U PROVE key[l] \in [1..4 -> Int]
    <3>1. l.gap \in Int /\ l.key \in Int /\ l.from \in Int /\ l.to \in Int
      BY <1>5, EventIds DEF LinkSet
    <3>2. key[l] = <<l.gap, l.key, l.from, l.to>>
      OBVIOUS
    <3> HIDE DEF key
    <3> QED
      BY <3>1, <3>2
  <2>2. ASSUME NEW l \in U, NEW m \in U, key[l] = key[m] PROVE l = m
    <3>1. l.gap = m.gap /\ l.key = m.key /\ l.from = m.from /\ l.to = m.to /\ l.how = m.how
      BY <1>5, <2>2
    <3> QED
      BY <1>5, <3>1 DEF LinkSet
  <2>3. \A l, m \in U : <<l, m>> \in R <=> LexLess(key[l], key[m])
    BY DEF LinkBefore
  <2>4. key \in [U -> [1..4 -> Int]]
    BY <2>1
  <2> HIDE DEF key, R
  <2> QED
    BY <2>2, <2>3, <2>4, LexRanks
<1>7. \A x \in U : before[x] = {y \in U : <<y, x>> \in R}
  OBVIOUS
<1>8. Sorts(LinksOver(P, how, gap), U, before)
  <2> DEFINE pick(n) == CHOOSE x \in U : Cardinality({y \in U : LinkBefore(y, x)}) = n - 1
  <2>1. LinksOver(P, how, gap) = [n \in 1..Cardinality(U) |-> pick(n)]
    BY <1>4 DEF Sorted
  <2>2. ASSUME NEW n \in 1..Cardinality(U), NEW x \in U, Cardinality(before[x]) = n - 1
       PROVE  pick(n) \in U /\ Cardinality(before[pick(n)]) = n - 1
    <3>1. \A z \in U : before[z] = {y \in U : LinkBefore(y, z)}
      OBVIOUS
    <3>2. \E z \in U : Cardinality({y \in U : LinkBefore(y, z)}) = n - 1
      BY <2>2, <3>1
    <3> QED
      BY <3>1, <3>2
  <2> HIDE DEF pick, before
  <2>3. LinksOver(P, how, gap) = [n \in 1..Cardinality(U) |-> LinksOver(P, how, gap)[n]] /\ \A n \in 1..Cardinality(U) : LinksOver(P, how, gap)[n] = pick(n)
    BY <2>1
  <2> QED
    BY <2>2, <2>3 DEF Sorts
<1> HIDE DEF before, R
<1>9. LinksOver(P, how, gap) \in Seq(U)
  BY <1>5, <1>6, <1>7, <1>8, SortedIs
<1> HIDE DEF U
<1>10. U \subseteq {l \in LinkSet(P) : l.how = how}
  BY <1>5
<1> QED
  BY <1>9, <1>10

(* A link of a thread is between two atoms of it.                            *)
SharesThread(l) == l.how = "lineage" => Owner(l.from) \cap Owner(l.to) # {}

LEMMA ThreadLinksAre ==
  ASSUME EventBounds, WorkBounds, NEW P \in SUBSET Ids, NEW gap
  PROVE  ThreadLinks(P, gap) \in Seq({l \in LinkSet(P) : l.how = "lineage" /\ SharesThread(l)})
<1> DEFINE K == UNION {Owner(i) : i \in P}
           Near(o) == Neighbours({i \in P : o \in Owner(i)}, gap)
           U == UNION {{Link(p, 0, "lineage") : p \in Near(o)} : o \in K}
           at(i) == <<CHOOSE o \in Owner(i) : TRUE, Row[i].occ, i>>
           key == [l \in U |-> at(l.from)]
           R == {p \in U \X U : ThreadBefore(p[1], p[2])}
           before == [x \in U |-> {y \in U : ThreadBefore(y, x)}]
<1>2. ASSUME NEW o PROVE Near(o) \subseteq {i \in P : o \in Owner(i)} \X {i \in P : o \in Owner(i)}
  <2>1. {i \in P : o \in Owner(i)} \in SUBSET Ids
    OBVIOUS
  <2> QED
    BY <2>1, NeighboursAre
<1>3. U \subseteq LinksBy(P, {0}, "lineage")
  <2>1. ASSUME NEW o, NEW p \in Near(o) PROVE p \in P \X P
    <3>1. Near(o) \subseteq {i \in P : o \in Owner(i)} \X {i \in P : o \in Owner(i)}
      BY <1>2
    <3> QED
      BY <3>1
  <2> HIDE DEF K, Near
  <2> SUFFICES ASSUME NEW o \in K, NEW p \in Near(o)
               PROVE  Link(p, 0, "lineage") \in LinksBy(P, {0}, "lineage")
    OBVIOUS
  <2>2. <<0, p>> \in {0} \X (P \X P)
    BY <2>1
  <2>3. Link(<<0, p>>[2], <<0, p>>[1], "lineage") = Link(p, 0, "lineage")
    OBVIOUS
  <2> QED
    BY <2>2, <2>3 DEF LinksBy
<1>31. \A l \in U : \E o \in K : \E p \in Near(o) : l = Link(p, 0, "lineage")
  OBVIOUS
<1>4. ThreadLinks(P, gap) = Sorted(U, ThreadBefore)
  BY DEF ThreadLinks
<1> HIDE DEF U
<1>5. IsFiniteSet(U) /\ U \subseteq LinkSet(P) /\ \A l \in U : l.how = "lineage"
  <2>1. IsFiniteSet({0})
    BY FS_Singleton
  <2>2. {0} \subseteq Nat
    OBVIOUS
  <2> QED
    BY <1>3, <2>1, <2>2, LinksFinite
<1>51. ASSUME NEW l \in U, NEW m \in U, l.from = m.from PROVE l = m
  <2>0. PICK o \in K : \E p \in Near(o) : l = Link(p, 0, "lineage")
    BY <1>31
  <2>1. PICK p \in Near(o) : l = Link(p, 0, "lineage")
    BY <2>0
  <2>00. PICK u \in K : \E q \in Near(u) : m = Link(q, 0, "lineage")
    BY <1>31
  <2>2. PICK q \in Near(u) : m = Link(q, 0, "lineage")
    BY <2>00
  <2>3. /\ p \in P \X P /\ q \in P \X P /\ o \in Owner(p[1]) /\ u \in Owner(q[1])
    <3>1. p \in {i \in P : o \in Owner(i)} \X {i \in P : o \in Owner(i)}
      BY <1>2
    <3>2. q \in {i \in P : u \in Owner(i)} \X {i \in P : u \in Owner(i)}
      BY <1>2
    <3> QED
      BY <3>1, <3>2
  <2>4. l.from = p[1] /\ m.from = q[1]
    BY <2>1, <2>2 DEF Link
  <2>5. p[1] = q[1] /\ p[1] \in Ids
    BY <1>51, <2>3, <2>4
  <2>6. o = u
    <3>1. IsFiniteSet(Owner(p[1])) /\ Cardinality(Owner(p[1])) <= 1
      BY <2>5, EventIds
    <3>2. Cardinality(Owner(p[1])) = 0 \/ Cardinality(Owner(p[1])) = 1
      BY <3>1, FS_CardinalityType
    <3>3. Owner(p[1]) # {}
      BY <2>3
    <3>4. \E x : Owner(p[1]) = {x}
      BY <3>1, <3>2, <3>3, FS_EmptySet, FS_Singleton
    <3> QED
      BY <2>3, <2>5, <3>4
  <2>7. p = q
    <3>1. {i \in P : o \in Owner(i)} \in SUBSET Ids
      OBVIOUS
    <3>2. \A a, b \in Near(o) : a[1] = b[1] => a = b
      BY <3>1, NeighboursAre
    <3> HIDE DEF Near
    <3> QED
      BY <2>1, <2>2, <2>5, <2>6, <3>2
  <2> QED
    BY <2>1, <2>2, <2>7
<1>52. \A l \in U : Owner(l.from) # {} /\ Owner(l.from) \cap Owner(l.to) # {}
  <2> SUFFICES ASSUME NEW l \in U PROVE \E o : o \in Owner(l.from) /\ o \in Owner(l.to)
    OBVIOUS
  <2>0. PICK o \in K : \E p \in Near(o) : l = Link(p, 0, "lineage")
    BY <1>31
  <2>1. PICK p \in Near(o) : l = Link(p, 0, "lineage")
    BY <2>0
  <2>2. o \in Owner(p[1]) /\ o \in Owner(p[2])
    <3>1. p \in {i \in P : o \in Owner(i)} \X {i \in P : o \in Owner(i)}
      BY <1>2
    <3> QED
      BY <3>1
  <2>3. l.from = p[1] /\ l.to = p[2]
    BY <2>1 DEF Link
  <2> QED
    BY <2>2, <2>3
<1> HIDE DEF K, Near
<1>6. Ranks(U, R)
  <2>1. ASSUME NEW l \in U PROVE key[l] \in [1..3 -> Int]
    <3>1. l.from \in P /\ l.from \in Ids
      BY <1>5 DEF LinkSet
    <3>2. l.from \in Int /\ Row[l.from].occ \in Int /\ Owner(l.from) \subseteq Int
      BY <3>1, EventIds
    <3>3. (CHOOSE o \in Owner(l.from) : TRUE) \in Int
      BY <1>52, <3>2
    <3> DEFINE c == CHOOSE o \in Owner(l.from) : TRUE
    <3>4. key[l] = <<c, Row[l.from].occ, l.from>>
      OBVIOUS
    <3>5. c \in Int
      BY <3>3
    <3> HIDE DEF key, at, c
    <3> QED
      BY <3>2, <3>4, <3>5
  <2>2. ASSUME NEW l \in U, NEW m \in U, key[l] = key[m] PROVE l = m
    <3>1. key[l][3] = l.from /\ key[m][3] = m.from
      OBVIOUS
    <3> HIDE DEF key
    <3> QED
      BY <1>51, <2>2, <3>1
  <2>3. \A l, m \in U : <<l, m>> \in R <=> LexLess(key[l], key[m])
    <3>1. \A l, m : ThreadBefore(l, m) <=> LexLess(at(l.from), at(m.from))
      BY DEF ThreadBefore
    <3>2. \A l, m \in U : <<l, m>> \in R <=> ThreadBefore(l, m)
      OBVIOUS
    <3> HIDE DEF at, R
    <3>3. \A l \in U : key[l] = at(l.from)
      OBVIOUS
    <3> HIDE DEF key
    <3> SUFFICES ASSUME NEW l \in U, NEW m \in U PROVE <<l, m>> \in R <=> LexLess(key[l], key[m])
      OBVIOUS
    <3>4. key[l] = at(l.from) /\ key[m] = at(m.from)
      BY <3>3
    <3>5. <<l, m>> \in R <=> LexLess(at(l.from), at(m.from))
      BY <3>1, <3>2
    <3> QED
      BY <3>4, <3>5
  <2>4. key \in [U -> [1..3 -> Int]]
    BY <2>1
  <2> HIDE DEF key, R
  <2> QED
    BY <2>2, <2>3, <2>4, LexRanks
<1>7. \A x \in U : before[x] = {y \in U : <<y, x>> \in R}
  OBVIOUS
<1>8. Sorts(ThreadLinks(P, gap), U, before)
  <2> DEFINE pick(n) == CHOOSE x \in U : Cardinality({y \in U : ThreadBefore(y, x)}) = n - 1
  <2>1. ThreadLinks(P, gap) = [n \in 1..Cardinality(U) |-> pick(n)]
    BY <1>4 DEF Sorted
  <2>2. ASSUME NEW n \in 1..Cardinality(U), NEW x \in U, Cardinality(before[x]) = n - 1
       PROVE  pick(n) \in U /\ Cardinality(before[pick(n)]) = n - 1
    <3>1. \A z \in U : before[z] = {y \in U : ThreadBefore(y, z)}
      OBVIOUS
    <3>2. \E z \in U : Cardinality({y \in U : ThreadBefore(y, z)}) = n - 1
      BY <2>2, <3>1
    <3> QED
      BY <3>1, <3>2
  <2> HIDE DEF pick, before
  <2>3. ThreadLinks(P, gap) = [n \in 1..Cardinality(U) |-> ThreadLinks(P, gap)[n]] /\ \A n \in 1..Cardinality(U) : ThreadLinks(P, gap)[n] = pick(n)
    BY <2>1
  <2> QED
    BY <2>2, <2>3 DEF Sorts
<1> HIDE DEF before, R
<1>9. ThreadLinks(P, gap) \in Seq(U)
  BY <1>5, <1>6, <1>7, <1>8, SortedIs
<1> HIDE DEF U
<1>10. U \subseteq {l \in LinkSet(P) : l.how = "lineage" /\ SharesThread(l)}
  BY <1>5, <1>52 DEF SharesThread
<1> QED
  BY <1>9, <1>10

(* Links within a set of atoms, each within one project.                     *)
LinkIn(T) ==
  {l \in LinkSet(T) : Row[l.from].project = Row[l.to].project /\ SharesThread(l)}

(* Within a project, strong links come first.                                *)
Phased(w) ==
  \A n \in 1..Len(w) : w[n].how = "strong" =>
    \A m \in 1..(n - 1) :
      Row[w[m].from].project = Row[w[n].from].project => w[m].how = "strong"

LEMMA ProjectLinksAre ==
  ASSUME EventBounds, WorkBounds, NEW P \in SUBSET Ids, NEW gap
  PROVE  /\ ProjectLinks(P, gap) \in Seq({l \in LinkSet(P) : SharesThread(l)})
         /\ Phased(ProjectLinks(P, gap))
<1> DEFINE a == LinksOver(P, "strong", gap)
           b == LinksOver(P, "weak", gap)
           c == ThreadLinks(P, gap)
           V == {l \in LinkSet(P) : SharesThread(l)}
           w == ProjectLinks(P, gap)
<1>1. /\ a \in Seq({l \in LinkSet(P) : l.how = "strong"})
      /\ b \in Seq({l \in LinkSet(P) : l.how = "weak"})
      /\ c \in Seq({l \in LinkSet(P) : l.how = "lineage" /\ SharesThread(l)})
  BY LinksOverIs, ThreadLinksAre
<1>2. w = (a \o b) \o c
  BY DEF ProjectLinks
<1> HIDE DEF a, b, c, w
<1>3. a \in Seq(V) /\ b \in Seq(V) /\ c \in Seq(V)
  <2>1. /\ {l \in LinkSet(P) : l.how = "strong"} \subseteq V
        /\ {l \in LinkSet(P) : l.how = "weak"} \subseteq V
        /\ {l \in LinkSet(P) : l.how = "lineage" /\ SharesThread(l)} \subseteq V
    BY DEF SharesThread
  <2> HIDE DEF V
  <2> QED
    BY <1>1, <2>1
<1>4. w \in Seq(V)
  <2> HIDE DEF V
  <2> QED
    BY <1>2, <1>3
<1>5. /\ \A n \in 1..Len(a) : a[n].how = "strong"
      /\ \A n \in 1..Len(b) : b[n].how = "weak"
      /\ \A n \in 1..Len(c) : c[n].how = "lineage"
  BY <1>1
<1>6. /\ Len(a) \in Nat /\ Len(b) \in Nat /\ Len(c) \in Nat /\ Len(w) = Len(a) + Len(b) + Len(c)
      /\ \A n \in 1..Len(w) : w[n] = IF n <= Len(a) THEN a[n]
                                     ELSE IF n <= Len(a) + Len(b) THEN b[n - Len(a)]
                                     ELSE c[n - (Len(a) + Len(b))]
  <2> HIDE DEF V
  <2>1. Len(a) \in Nat /\ Len(b) \in Nat /\ Len(c) \in Nat
    BY <1>3
  <2>2. /\ a \o b \in Seq(V) /\ Len(a \o b) = Len(a) + Len(b)
        /\ \A n \in 1..(Len(a) + Len(b)) : (a \o b)[n] = IF n <= Len(a) THEN a[n] ELSE b[n - Len(a)]
    BY <1>3
  <2> DEFINE d == a \o b
  <2> HIDE DEF d
  <2>3. /\ Len(d \o c) = Len(d) + Len(c)
        /\ \A n \in 1..(Len(d) + Len(c)) : (d \o c)[n] = IF n <= Len(d) THEN d[n] ELSE c[n - Len(d)]
    BY <1>3, <2>2 DEF d
  <2>4. w = d \o c
    BY <1>2 DEF d
  <2> QED
    BY <2>1, <2>2, <2>3, <2>4 DEF d
<1>7. \A n \in 1..Len(w) : w[n].how = "strong" <=> n <= Len(a)
  <2> SUFFICES ASSUME NEW n \in 1..Len(w) PROVE w[n].how = "strong" <=> n <= Len(a)
    OBVIOUS
  <2>1. CASE n <= Len(a)
    BY <1>5, <1>6, <2>1
  <2>2. CASE ~(n <= Len(a)) /\ n <= Len(a) + Len(b)
    BY <1>5, <1>6, <2>2
  <2>3. CASE ~(n <= Len(a) + Len(b))
    <3> DEFINE k == n - (Len(a) + Len(b))
    <3>1. k \in 1..Len(c) /\ ~(n <= Len(a))
      BY <1>6, <2>3
    <3>2. w[n] = c[k]
      BY <1>6, <2>3, <3>1
    <3> HIDE DEF k
    <3>3. c[k].how = "lineage"
      BY <1>5, <3>1
    <3> QED
      BY <3>1, <3>2, <3>3
  <2> QED
    BY <1>6, <2>1, <2>2, <2>3
<1>8. Phased(w)
  <2> SUFFICES ASSUME NEW n \in 1..Len(w), w[n].how = "strong", NEW m \in 1..(n - 1)
               PROVE  w[m].how = "strong"
    BY DEF Phased
  <2>1. n <= Len(a) /\ m \in 1..Len(w) /\ m <= Len(a)
    BY <1>6, <1>7
  <2> QED
    BY <1>7, <2>1
<1> QED
  BY <1>4, <1>8 DEF w

LEMMA PhasedTogether ==
  ASSUME NEW V, NEW u \in Seq(V), NEW p \in Seq(V), Phased(u), Phased(p),
         \A i \in 1..Len(u), k \in 1..Len(p) : Row[u[i].from].project # Row[p[k].from].project
  PROVE  Phased(u \o p)
<1> DEFINE w == u \o p
           a == Len(u)
<1>1. a \in Nat /\ Len(p) \in Nat /\ Len(w) = a + Len(p)
      /\ \A n \in 1..(a + Len(p)) : w[n] = IF n <= a THEN u[n] ELSE p[n - a]
  OBVIOUS
<1>2. \A n \in 1..a : w[n] = u[n]
  BY <1>1
<1>3. \A n \in 1..Len(p) : w[a + n] = p[n]
  <2> SUFFICES ASSUME NEW n \in 1..Len(p) PROVE w[a + n] = p[n]
    OBVIOUS
  <2>1. a + n \in 1..(a + Len(p)) /\ ~(a + n <= a) /\ (a + n) - a = n
    BY <1>1
  <2> HIDE DEF w, a
  <2> QED
    BY <1>1, <2>1
<1> HIDE DEF w, a
<1> SUFFICES ASSUME NEW n \in 1..Len(w), w[n].how = "strong", NEW m \in 1..(n - 1),
                    Row[w[m].from].project = Row[w[n].from].project
             PROVE  w[m].how = "strong"
  BY DEF Phased, w
<1>4. CASE n <= a
  <2>1. n \in 1..a /\ m \in 1..a
    BY <1>1, <1>4
  <2>2. w[n] = u[n] /\ w[m] = u[m]
    BY <1>2, <2>1
  <2> QED
    BY <2>1, <2>2 DEF Phased, a
<1>5. CASE ~(n <= a)
  <2> DEFINE k == n - a
  <2>1. k \in 1..Len(p) /\ n = a + k
    BY <1>1, <1>5
  <2> HIDE DEF k
  <2>2. w[n] = p[k]
    BY <1>3, <2>1
  <2>3. CASE m <= a
    <3>1. m \in 1..a /\ w[m] = u[m]
      BY <1>2, <2>3
    <3> QED
      BY <2>1, <2>2, <3>1 DEF a
  <2>4. CASE ~(m <= a)
    <3> DEFINE i == m - a
    <3>1. i \in 1..(k - 1) /\ m = a + i /\ i \in 1..Len(p)
      BY <1>1, <2>1, <2>4
    <3> HIDE DEF i
    <3>2. w[m] = p[i]
      BY <1>3, <3>1
    <3> QED
      BY <2>1, <2>2, <3>1, <3>2 DEF Phased
  <2> QED
    BY <2>3, <2>4
<1> QED
  BY <1>4, <1>5

LEMMA LinksAre ==
  ASSUME EventBounds, WorkBounds, NEW T \in SUBSET Ids, NEW gap
  PROVE  Links(T, gap) \in Seq(LinkIn(T)) /\ Phased(Links(T, gap))
<1> DEFINE ps == Sorted(Projects(T), Less)
           N == Len(ps)
           Of(l) == Row[l.from].project
           V == Seq(LinkIn(T))
           part(n) == ProjectLinks({i \in T : Row[i].project = ps[n]}, gap)
           Val(u, n) == IF n = 0 THEN <<>> ELSE u[n - 1] \o part(n)
           U == CHOOSE u : u = [n \in 0..N |-> Val(u, n)]
           none == <<>>
           step == [x \in (1..N) \X V |-> x[2] \o part(x[1])]
<1>1. N \in Nat /\ \A i, j \in 1..N : ps[i] = ps[j] => i = j
  <2> DEFINE f == [i \in T |-> Row[i].project]
             M == Projects(T)
             R == {p \in M \X M : p[1] < p[2]}
             before == [x \in M |-> {y \in M : Less(y, x)}]
             pick(n) == CHOOSE x \in M : Cardinality({y \in M : Less(y, x)}) = n - 1
  <2>1. IsFiniteSet(T)
    BY EventIds, FS_Subset
  <2>2. IsFiniteSet({f[i] : i \in T})
    BY <2>1, ImageFinite
  <2>3. {f[i] : i \in T} = M
    BY DEF Projects
  <2>4. M \subseteq Nat
    BY EventIds DEF Projects
  <2>5. ps = [n \in 1..Cardinality(M) |-> pick(n)]
    BY DEF Sorted
  <2> HIDE DEF M, ps
  <2>6. \A x, y \in M : <<x, y>> \in R <=> x < y
    OBVIOUS
  <2> HIDE DEF R
  <2>7. Ranks(M, R)
    BY <2>4, <2>6 DEF Ranks
  <2>8. \A x \in M : before[x] = {y \in M : <<y, x>> \in R} /\ before[x] = {y \in M : Less(y, x)}
    BY <2>6 DEF Less
  <2> HIDE DEF before
  <2>9. ASSUME NEW n \in 1..Cardinality(M), NEW x \in M, Cardinality(before[x]) = n - 1
        PROVE  pick(n) \in M /\ Cardinality(before[pick(n)]) = n - 1
    <3>1. \E z \in M : Cardinality({y \in M : Less(y, z)}) = n - 1
      BY <2>8, <2>9
    <3>2. pick(n) \in M /\ Cardinality({y \in M : Less(y, pick(n))}) = n - 1
      BY <3>1
    <3> HIDE DEF pick
    <3> QED
      BY <2>8, <3>2
  <2> HIDE DEF pick
  <2>10. ps = [n \in 1..Cardinality(M) |-> ps[n]] /\ \A n \in 1..Cardinality(M) : ps[n] = pick(n)
    BY <2>5
  <2>11. Sorts(ps, M, before)
    BY <2>9, <2>10 DEF Sorts
  <2>12. IsFiniteSet(M)
    BY <2>2, <2>3
  <2>13. ps \in Seq(M) /\ \A i, j \in 1..Len(ps) : ps[i] = ps[j] => i = j
    BY <2>7, <2>8, <2>11, <2>12, SortedIs
  <2> QED
    BY <2>13
<1>2. Links(T, gap) = U[N]
  BY DEF Links, LinksOf
<1> HIDE DEF N, ps
<1>3. ASSUME NEW n
      PROVE  part(n) \in V /\ Phased(part(n)) /\ \A k \in 1..Len(part(n)) : Of(part(n)[k]) = ps[n]
  <2> DEFINE P == {i \in T : Row[i].project = ps[n]}
             W == {l \in LinkSet(P) : SharesThread(l)}
  <2>1. ProjectLinks(P, gap) \in Seq(W) /\ Phased(ProjectLinks(P, gap))
    <3>1. P \in SUBSET Ids
      OBVIOUS
    <3> HIDE DEF P
    <3> QED
      BY <3>1, ProjectLinksAre
  <2>2. W \subseteq LinkIn(T) /\ \A l \in W : Of(l) = ps[n]
    <3> SUFFICES ASSUME NEW l \in W PROVE l \in LinkIn(T) /\ Of(l) = ps[n]
      OBVIOUS
    <3>0. l \in LinkSet(P) /\ SharesThread(l)
      OBVIOUS
    <3>1. l.from \in P /\ l.to \in P
      BY <3>0 DEF LinkSet
    <3>2. P \subseteq T
      OBVIOUS
    <3>3. l \in LinkSet(T)
      <4> HIDE DEF P
      <4> QED
        BY <3>0, <3>2 DEF LinkSet
    <3>4. Row[l.from].project = Row[l.to].project /\ Of(l) = ps[n]
      BY <3>1
    <3> QED
      BY <3>0, <3>3, <3>4 DEF LinkIn
  <2> HIDE DEF P, W, Of
  <2> DEFINE w == ProjectLinks(P, gap)
  <2> HIDE DEF w
  <2>3. w \in Seq(W) /\ Phased(w)
    BY <2>1 DEF w
  <2>4. w \in Seq(LinkIn(T)) /\ \A k \in 1..Len(w) : Of(w[k]) = ps[n]
    BY <2>2, <2>3
  <2>5. part(n) = w
    BY DEF P, w
  <2> HIDE DEF part
  <2> QED
    BY <2>3, <2>4, <2>5
<1> HIDE DEF part
<1>4. step \in [(1..N) \X V -> V]
  <2>1. \A a, b \in V : a \o b \in V
    OBVIOUS
  <2> HIDE DEF V
  <2>2. ASSUME NEW x \in (1..N) \X V PROVE x[2] \o part(x[1]) \in V
    <3>1. x[2] \in V
      OBVIOUS
    <3> QED
      BY <1>3, <2>1, <3>1
  <2> QED
    BY <2>2
<1>5. none \in V
  OBVIOUS
<1> HIDE DEF V, none
<1>6. PICK g \in [0..N -> V] : StepsTo(g, N, none, step)
  <2> HIDE DEF step, U, Val
  <2> QED
    BY <1>1, <1>4, <1>5, BoundedRecursion
<1>7. g = [n \in 0..N |-> Val(g, n)]
  <2>1. ASSUME NEW n \in 0..N, n # 0 PROVE g[n] = g[n - 1] \o part(n)
    <3>1. n \in 1..N /\ n - 1 \in 0..N
      BY <1>1, <2>1
    <3>2. <<n, g[n - 1]>> \in (1..N) \X V
      BY <3>1
    <3>3. step[<<n, g[n - 1]>>] = g[n - 1] \o part(n)
      BY <3>2
    <3> HIDE DEF step
    <3> QED
      BY <1>6, <3>1, <3>3 DEF StepsTo
  <2>2. \A n \in 0..N : g[n] = Val(g, n)
    BY <1>6, <2>1 DEF none, StepsTo
  <2> HIDE DEF Val
  <2> QED
    BY <2>2
<1>8. U = [n \in 0..N |-> Val(U, n)]
  <2> HIDE DEF Val
  <2> QED
    BY <1>7
<1> HIDE DEF U, step
<1>9. \A n \in 0..N : U[n] = Val(U, n)
  <2> HIDE DEF Val
  <2> QED
    BY <1>8
<1> HIDE DEF Of
<1> DEFINE Fine(n) == U[n] \in V /\ Phased(U[n]) /\ \A k \in 1..Len(U[n]) : \E j \in 1..n : Of(U[n][k]) = ps[j]
           Good == {n \in Nat : n <= N => Fine(n)}
<1>10. 0 \in Good
  <2>1. U[0] = <<>> /\ Len(<<>>) = 0 /\ U[0] \in V
    BY <1>1, <1>5, <1>9 DEF none
  <2>2. Phased(U[0]) /\ \A k \in 1..Len(U[0]) : \E j \in 1..0 : Of(U[0][k]) = ps[j]
    BY <2>1 DEF Phased
  <2> QED
    BY <2>1, <2>2
<1>11. ASSUME NEW n \in Nat, n \in Good PROVE n + 1 \in Good
  <2> SUFFICES ASSUME n + 1 <= N PROVE Fine(n + 1)
    BY <1>11
  <2> DEFINE u == U[n]
             p == part(n + 1)
  <2>1. Fine(n) /\ n + 1 \in 0..N /\ n + 1 # 0 /\ (n + 1) - 1 = n
    BY <1>1, <1>11
  <2>2. U[n + 1] = u \o p
    BY <1>9, <2>1
  <2>3. /\ u \in Seq(LinkIn(T)) /\ Phased(u)
        /\ \A k \in 1..Len(u) : \E j \in 1..n : Of(u[k]) = ps[j]
    BY <2>1 DEF V
  <2>4. p \in Seq(LinkIn(T)) /\ Phased(p) /\ \A k \in 1..Len(p) : Of(p[k]) = ps[n + 1]
    BY <1>3 DEF V
  <2> HIDE DEF u, p
  <2>5. \A i \in 1..Len(u), k \in 1..Len(p) : Of(u[i]) # Of(p[k])
    <3> SUFFICES ASSUME NEW i \in 1..Len(u), NEW k \in 1..Len(p), Of(u[i]) = Of(p[k]) PROVE FALSE
      OBVIOUS
    <3>1. PICK j \in 1..n : Of(u[i]) = ps[j]
      BY <2>3
    <3>2. Of(p[k]) = ps[n + 1]
      BY <2>4
    <3>3. j \in 1..N /\ n + 1 \in 1..N /\ j # n + 1
      BY <1>1, <2>1
    <3> QED
      BY <1>1, <3>1, <3>2, <3>3
  <2>6. Phased(u \o p)
    BY <2>3, <2>4, <2>5, PhasedTogether DEF Of
  <2>7. \A k \in 1..Len(u \o p) : \E j \in 1..(n + 1) : Of((u \o p)[k]) = ps[j]
    <3> SUFFICES ASSUME NEW k \in 1..Len(u \o p) PROVE \E j \in 1..(n + 1) : Of((u \o p)[k]) = ps[j]
      OBVIOUS
    <3>1. Len(u) \in Nat /\ Len(p) \in Nat /\ Len(u \o p) = Len(u) + Len(p)
      BY <2>3, <2>4
    <3>2. CASE k <= Len(u)
      <4>1. (u \o p)[k] = u[k] /\ k \in 1..Len(u)
        BY <2>3, <2>4, <3>1, <3>2
      <4>2. PICK j \in 1..n : Of(u[k]) = ps[j]
        BY <2>3, <4>1
      <4>3. j \in 1..(n + 1)
        OBVIOUS
      <4> QED
        BY <4>1, <4>2, <4>3
    <3>3. CASE ~(k <= Len(u))
      <4>1. (u \o p)[k] = p[k - Len(u)] /\ k - Len(u) \in 1..Len(p)
        BY <2>3, <2>4, <3>1, <3>3
      <4>2. Of(p[k - Len(u)]) = ps[n + 1] /\ n + 1 \in 1..(n + 1)
        BY <2>4, <4>1
      <4> QED
        BY <4>1, <4>2
    <3> QED
      BY <3>2, <3>3
  <2>8. u \o p \in V
    BY <2>3, <2>4 DEF V
  <2> QED
    BY <2>2, <2>6, <2>7, <2>8
<1>12. N \in Good
  <2> HIDE DEF Good
  <2> QED
    BY <1>1, <1>10, <1>11, SetInduction
<1> QED
  BY <1>1, <1>2, <1>12 DEF V

(* The forest: its trees are the atoms, each in one tree, of one project     *)
(* each, and an edge is within a tree.                                       *)
EdgesOn(T) == UNION {[D -> SUBSET Nat] : D \in SUBSET (SUBSET T)}

Splits(trees, T) ==
  /\ trees \subseteq SUBSET T /\ {} \notin trees
  /\ \A i \in T : \E t \in trees : i \in t
  /\ \A s, t \in trees : s \cap t # {} => s = t

ForestOf(T) ==
  {f \in [trees : SUBSET (SUBSET T), edges : EdgesOn(T)] :
     /\ Splits(f.trees, T)
     /\ \A t \in f.trees : \A i, j \in t : Row[i].project = Row[j].project
     /\ \A e \in DOMAIN f.edges : \E t \in f.trees : e \subseteq t}

LEMMA ForestStarts ==
  ASSUME NEW T
  PROVE  [trees |-> {{i} : i \in T}, edges |-> <<>>] \in ForestOf(T)
<1> DEFINE f == [trees |-> {{i} : i \in T}, edges |-> <<>>]
<1>1. <<>> \in EdgesOn(T) /\ DOMAIN <<>> = {}
  <2>1. <<>> \in [{} -> SUBSET Nat] /\ DOMAIN <<>> = {}
    OBVIOUS
  <2> QED
    BY <2>1 DEF EdgesOn
<1>2. Splits({{i} : i \in T}, T)
  BY DEF Splits
<1>3. \A t \in {{i} : i \in T} : \A i, j \in t : Row[i].project = Row[j].project
  OBVIOUS
<1>4. f.trees = {{i} : i \in T} /\ f.edges = <<>> /\ f \in [trees : SUBSET (SUBSET T), edges : EdgesOn(T)]
  BY <1>1
<1> HIDE DEF f
<1>5. \A e \in DOMAIN f.edges : \E t \in f.trees : e \subseteq t
  BY <1>1, <1>4
<1>6. f \in ForestOf(T)
  BY <1>2, <1>3, <1>4, <1>5 DEF ForestOf
<1> QED
  BY <1>6 DEF f

LEMMA EdgeGrows ==
  ASSUME NEW X, NEW Y, NEW f \in [trees : X, edges : Y], NEW e, NEW k
  PROVE  [f EXCEPT !.edges[e] = @ \cup {k}] =
           [trees |-> f.trees, edges |-> [f.edges EXCEPT ![e] = @ \cup {k}]]
OBVIOUS

Grown(g, f, l, T) ==
  /\ g \in ForestOf(T)
  /\ \A s \in f.trees : \E t \in g.trees : s \subseteq t
  /\ l.how # "weak" => \E t \in g.trees : {l.from, l.to} \subseteq t

(* A link leaves the forest, adds an artifact to an edge, or joins two trees.*)
LEMMA ForestGrows ==
  ASSUME NEW T, NEW f \in ForestOf(T), NEW l \in LinkIn(T)
  PROVE  Grown(ApplyCandidate(f, l), f, l, T)
<1> DEFINE s == TreeOf(f, l.from)
           t == TreeOf(f, l.to)
           e == {l.from, l.to}
<1>1. /\ f \in [trees : SUBSET (SUBSET T), edges : EdgesOn(T)] /\ Splits(f.trees, T)
      /\ \A u \in f.trees : \A i, j \in u : Row[i].project = Row[j].project
      /\ \A p \in DOMAIN f.edges : \E u \in f.trees : p \subseteq u
  BY DEF ForestOf
<1>2. /\ l.from \in T /\ l.to \in T /\ l.key \in Nat /\ Row[l.from].project = Row[l.to].project
      /\ l.how \in {"strong", "weak", "lineage"}
  BY DEF LinkIn, LinkSet
<1>3. s \in f.trees /\ l.from \in s /\ t \in f.trees /\ l.to \in t
  <2>1. \A i \in T : \E u \in f.trees : i \in u
    BY <1>1 DEF Splits
  <2> QED
    BY <1>2, <2>1 DEF TreeOf
<1> HIDE DEF s, t
<1>4. PICK D \in SUBSET (SUBSET T) : f.edges \in [D -> SUBSET Nat]
  BY <1>1 DEF EdgesOn
<1>5. DOMAIN f.edges = D
  BY <1>4
<1>6. f.trees \subseteq SUBSET T
  BY <1>1
<1>7. ASSUME l.how # "weak" => \E u \in f.trees : e \subseteq u PROVE Grown(f, f, l, T)
  BY <1>7 DEF Grown
<1>8. ASSUME e \in D PROVE \E u \in f.trees : e \subseteq u
  BY <1>1, <1>5, <1>8
<1>9. ASSUME e \in D PROVE Grown(AddArtifact(f, l), f, l, T)
  <2> DEFINE g == [f EXCEPT !.edges[e] = @ \cup {l.key}]
  <2>1. CASE AddArtifact(f, l) = f
    BY <1>7, <1>8, <1>9, <2>1
  <2>2. CASE AddArtifact(f, l) = g
    <3>1. g.trees = f.trees /\ g.edges = [f.edges EXCEPT ![e] = @ \cup {l.key}]
          /\ g = [trees |-> g.trees, edges |-> g.edges]
      <4> DEFINE h == [f.edges EXCEPT ![e] = @ \cup {l.key}]
      <4>1. f \in [trees : SUBSET (SUBSET T), edges : EdgesOn(T)]
        BY <1>1
      <4> HIDE DEF e
      <4>2. g = [trees |-> f.trees, edges |-> h]
        BY <4>1, EdgeGrows
      <4> HIDE DEF g, h
      <4>3. g.trees = f.trees /\ g.edges = h /\ g = [trees |-> g.trees, edges |-> g.edges]
        BY <4>2
      <4> QED
        BY <4>3 DEF h
    <3>2. g.edges \in [D -> SUBSET Nat]
      <4>1. f.edges[e] \cup {l.key} \in SUBSET Nat
        BY <1>2, <1>4, <1>9
      <4> HIDE DEF g, e
      <4> QED
        BY <1>4, <3>1, <4>1
    <3> HIDE DEF g
    <3>3. g.edges \in EdgesOn(T) /\ DOMAIN g.edges = D
      BY <3>2 DEF EdgesOn
    <3>4. g \in [trees : SUBSET (SUBSET T), edges : EdgesOn(T)]
      BY <1>6, <3>1, <3>3 DEF StepsTo
    <3>5. g \in ForestOf(T)
      BY <1>1, <1>5, <3>1, <3>3, <3>4 DEF ForestOf
    <3> QED
      BY <1>8, <1>9, <2>2, <3>1, <3>5 DEF Grown
  <2>3. AddArtifact(f, l) = f \/ AddArtifact(f, l) = g
    BY DEF AddArtifact
  <2> QED
    BY <2>1, <2>2, <2>3
<1>10. ASSUME e \notin D PROVE Grown(Join(f, l, s, t), f, l, T)
  <2>1. CASE s = t
    <3>1. Join(f, l, s, t) = f
      BY <2>1 DEF Join
    <3>2. e \subseteq s
      BY <1>3, <2>1
    <3> QED
      BY <1>3, <1>7, <3>1, <3>2
  <2>2. CASE s # t
    <3> DEFINE trees == (f.trees \ {s, t}) \cup {s \cup t}
               edges == [p \in D \cup {e} |-> IF p = e THEN {l.key} ELSE f.edges[p]]
               g == [trees |-> trees, edges |-> edges]
    <3>1. Join(f, l, s, t) = g
      BY <1>5, <2>2 DEF Join
    <3>2. edges \in [D \cup {e} -> SUBSET Nat]
      <4> HIDE DEF e
      <4> QED
        BY <1>2, <1>4
    <3>3. e \in SUBSET T
      BY <1>2
    <3>4. edges \in EdgesOn(T) /\ DOMAIN edges = D \cup {e}
      <4> HIDE DEF edges, e
      <4> QED
        BY <3>2, <3>3 DEF EdgesOn
    <3> HIDE DEF edges
    <3>5. Splits(trees, T)
      <4>1. trees \subseteq SUBSET T /\ {} \notin trees
        BY <1>1, <1>3 DEF Splits
      <4>2. ASSUME NEW i \in T PROVE \E u \in trees : i \in u
        <5>1. PICK u \in f.trees : i \in u
          BY <1>1 DEF Splits
        <5>2. CASE u \in {s, t}
          <6>1. s \cup t \in trees /\ i \in s \cup t
            BY <5>1, <5>2
          <6> HIDE DEF trees
          <6> QED
            BY <6>1
        <5>3. CASE u \notin {s, t}
          BY <5>1, <5>3
        <5> QED
          BY <5>2, <5>3
      <4>3. \A u, v \in f.trees : u \cap v # {} => u = v
        BY <1>1 DEF Splits
      <4>4. \A u \in f.trees \ {s, t} : u \cap (s \cup t) = {}
        BY <1>3, <4>3
      <4>5. ASSUME NEW u \in trees, NEW v \in trees, u \cap v # {} PROVE u = v
        <5>1. \A x \in trees : x \in f.trees \ {s, t} \/ x = s \cup t
          OBVIOUS
        <5>2. CASE u \in f.trees \ {s, t} /\ v \in f.trees \ {s, t}
          BY <4>3, <4>5, <5>2
        <5>3. CASE u = s \cup t /\ v \in f.trees \ {s, t}
          BY <4>4, <4>5, <5>3
        <5>4. CASE v = s \cup t /\ u \in f.trees \ {s, t}
          BY <4>4, <4>5, <5>4
        <5> HIDE DEF trees
        <5> QED
          BY <5>1, <5>2, <5>3, <5>4
      <4> QED
        BY <4>1, <4>2, <4>5 DEF Splits
    <3>6. \A u \in trees : \A i, j \in u : Row[i].project = Row[j].project
      <4>1. \A i, j \in s \cup t : Row[i].project = Row[j].project
        <5>1. \A i \in s : Row[i].project = Row[l.from].project
          BY <1>1, <1>3
        <5>2. \A i \in t : Row[i].project = Row[l.to].project
          BY <1>1, <1>3
        <5> QED
          BY <1>2, <5>1, <5>2
      <4> QED
        BY <1>1, <4>1
    <3>7. \A u \in f.trees : \E v \in trees : u \subseteq v
      <4> SUFFICES ASSUME NEW u \in f.trees PROVE \E v \in trees : u \subseteq v
        OBVIOUS
      <4>1. CASE u \in {s, t}
        <5>1. s \cup t \in trees /\ u \subseteq s \cup t
          BY <4>1
        <5> HIDE DEF trees
        <5> QED
          BY <5>1
      <4>2. CASE u \notin {s, t}
        BY <4>2
      <4> QED
        BY <4>1, <4>2
    <3>8. s \cup t \in trees /\ e \subseteq s \cup t
      BY <1>3
    <3> HIDE DEF trees
    <3>9. \A p \in DOMAIN edges : \E u \in trees : p \subseteq u
      <4> SUFFICES ASSUME NEW p \in D \cup {e} PROVE \E u \in trees : p \subseteq u
        BY <3>4
      <4>1. CASE p \in D
        <5>1. PICK u \in f.trees : p \subseteq u
          BY <1>1, <1>5, <4>1
        <5>2. PICK v \in trees : u \subseteq v
          BY <3>7
        <5> QED
          BY <5>1, <5>2
      <4>2. CASE p = e
        BY <3>8, <4>2
      <4> QED
        BY <4>1, <4>2
    <3>10. g.trees = trees /\ g.edges = edges /\ g \in [trees : SUBSET (SUBSET T), edges : EdgesOn(T)]
      BY <3>4, <3>5 DEF Splits
    <3> HIDE DEF g
    <3>11. g \in ForestOf(T)
      BY <3>5, <3>6, <3>9, <3>10 DEF ForestOf
    <3> QED
      BY <3>1, <3>7, <3>8, <3>10, <3>11 DEF Grown
  <2> QED
    BY <2>1, <2>2
<1>11. ApplyCandidate(f, l) =
         IF l.how = "weak" /\ ~CanWeaklyJoin(s, t) THEN f
         ELSE IF e \in D THEN AddArtifact(f, l) ELSE Join(f, l, s, t)
  BY <1>5 DEF ApplyCandidate, ApplyBetween, s, t
<1> HIDE DEF e
<1> QED
  BY <1>7, <1>9, <1>10, <1>11

Lies(f, l) == l.how # "weak" => \E t \in f.trees : {l.from, l.to} \subseteq t

(* The forests that buildGraph goes through, link by link.                   *)
Grows(T, links, U) ==
  /\ U[0] = [trees |-> {{i} : i \in T}, edges |-> <<>>]
  /\ \A n \in 1..Len(links) : U[n] = ApplyCandidate(U[n - 1], links[n])
  /\ \A n \in 0..Len(links) : U[n] \in ForestOf(T) /\ \A m \in 1..n : Lies(U[n], links[m])
  /\ U[Len(links)] = GraphOver(T, links)

LEMMA GraphGrows ==
  ASSUME NEW T, NEW links \in Seq(LinkIn(T))
  PROVE  \E U : Grows(T, links, U)
<1> DEFINE N == Len(links)
           V == ForestOf(T)
           none == [trees |-> {{i} : i \in T}, edges |-> <<>>]
           Val(u, n) == IF n = 0 THEN none ELSE ApplyCandidate(u[n - 1], links[n])
           U == CHOOSE u : u = [n \in 0..N |-> Val(u, n)]
           step == [x \in (1..N) \X V |-> ApplyCandidate(x[2], links[x[1]])]
<1>1. N \in Nat /\ \A n \in 1..N : links[n] \in LinkIn(T)
  OBVIOUS
<1>2. GraphOver(T, links) = U[N]
  BY DEF GraphOver
<1>3. ASSUME NEW f \in V, NEW n \in 1..N
      PROVE  Grown(ApplyCandidate(f, links[n]), f, links[n], T)
  BY <1>1, ForestGrows
<1>4. step \in [(1..N) \X V -> V]
  <2>1. ASSUME NEW x \in (1..N) \X V PROVE ApplyCandidate(x[2], links[x[1]]) \in V
    BY <1>3 DEF Grown
  <2> HIDE DEF V
  <2> QED
    BY <2>1
<1>5. none \in V
  BY ForestStarts
<1> HIDE DEF V, none, N
<1>6. PICK g \in [0..N -> V] : StepsTo(g, N, none, step)
  <2> HIDE DEF step, U, Val
  <2> QED
    BY <1>1, <1>4, <1>5, BoundedRecursion
<1>7. g = [n \in 0..N |-> Val(g, n)]
  <2>1. ASSUME NEW n \in 0..N, n # 0 PROVE g[n] = ApplyCandidate(g[n - 1], links[n])
    <3>1. n \in 1..N /\ n - 1 \in 0..N
      BY <1>1, <2>1
    <3>2. <<n, g[n - 1]>> \in (1..N) \X V
      BY <3>1
    <3>3. step[<<n, g[n - 1]>>] = ApplyCandidate(g[n - 1], links[n])
      BY <3>2
    <3> HIDE DEF step
    <3> QED
      BY <1>6, <3>1, <3>3 DEF StepsTo
  <2>2. \A n \in 0..N : g[n] = Val(g, n)
    BY <1>6, <2>1 DEF StepsTo
  <2> HIDE DEF Val
  <2> QED
    BY <2>2
<1>8. U = [n \in 0..N |-> Val(U, n)]
  <2> HIDE DEF Val
  <2> QED
    BY <1>7
<1> HIDE DEF U, step
<1>9. \A n \in 0..N : U[n] = Val(U, n)
  <2> HIDE DEF Val
  <2> QED
    BY <1>8
<1> DEFINE Fine(n) == U[n] \in V /\ \A m \in 1..n : Lies(U[n], links[m])
           Good == {n \in Nat : n <= N => Fine(n)}
<1>10. 0 \in Good
  <2>1. U[0] = none
    BY <1>1, <1>9
  <2> QED
    BY <1>5, <2>1
<1>11. ASSUME NEW n \in Nat, n \in Good PROVE n + 1 \in Good
  <2> SUFFICES ASSUME n + 1 <= N PROVE Fine(n + 1)
    BY <1>11
  <2>1. Fine(n) /\ n + 1 \in 0..N /\ n + 1 # 0 /\ (n + 1) - 1 = n /\ n + 1 \in 1..N
    BY <1>1, <1>11
  <2>2. U[n + 1] = ApplyCandidate(U[n], links[n + 1])
    BY <1>9, <2>1
  <2>3. Grown(U[n + 1], U[n], links[n + 1], T)
    BY <1>3, <2>1, <2>2
  <2>4. ASSUME NEW m \in 1..(n + 1) PROVE Lies(U[n + 1], links[m])
    <3>1. CASE m = n + 1
      BY <2>3, <3>1 DEF Grown, Lies
    <3>2. CASE m # n + 1
      <4>1. Lies(U[n], links[m])
        BY <2>1, <3>2
      <4> QED
        BY <2>3, <4>1 DEF Grown, Lies
    <3> QED
      BY <3>1, <3>2
  <2> QED
    BY <2>3, <2>4 DEF Grown, V
<1>12. \A n \in 0..N : Fine(n)
  <2>1. Nat \subseteq Good
    <3> HIDE DEF Good
    <3> QED
      BY <1>10, <1>11, SetInduction
  <2> QED
    BY <1>1, <2>1
<1>13. U[0] = none /\ \A n \in 1..N : U[n] = ApplyCandidate(U[n - 1], links[n])
  BY <1>1, <1>9
<1>14. Grows(T, links, U)
  <2> HIDE DEF Good
  <2> QED
    BY <1>2, <1>12, <1>13 DEF Grows, V, N, none
<1> QED
  BY <1>14

LEMMA GraphOverIs ==
  ASSUME NEW T, NEW links \in Seq(LinkIn(T))
  PROVE  /\ GraphOver(T, links) \in ForestOf(T)
         /\ \A l \in ToSet(links) : Lies(GraphOver(T, links), l)
<1>1. PICK U : Grows(T, links, U)
  BY GraphGrows
<1> DEFINE N == Len(links)
<1>2. N \in Nat /\ N \in 0..N
  OBVIOUS
<1>3. U[N] \in ForestOf(T) /\ (\A m \in 1..N : Lies(U[N], links[m])) /\ U[N] = GraphOver(T, links)
  BY <1>1, <1>2 DEF Grows
<1>4. ToSet(links) = {links[n] : n \in 1..N}
  BY DEF ToSet
<1> QED
  BY <1>3, <1>4

LEMMA GraphIs ==
  ASSUME EventBounds, WorkBounds, NEW T \in SUBSET Ids, NEW gap
  PROVE  /\ BuildGraph(T, gap) \in ForestOf(T)
         /\ \A l \in ToSet(Links(T, gap)) : Lies(BuildGraph(T, gap), l)
<1>1. Links(T, gap) \in Seq(LinkIn(T))
  BY LinksAre
<1> QED
  BY <1>1, GraphOverIs DEF BuildGraph

(* What ties a set together: a pair leads out of each proper part of it.     *)
Crosses(p, D) == p \cap D # {} /\ ~(p \subseteq D)

Whole(t, pairs) ==
  \A D \in SUBSET t : D # {} /\ D # t => \E p \in pairs : p \subseteq t /\ Crosses(p, D)

(* Two sets that are whole and a pair between them are whole together.       *)
LEMMA WholeTogether ==
  ASSUME NEW s, NEW t, s \cap t = {}, NEW pairs, Whole(s, pairs), Whole(t, pairs),
         NEW e \in pairs, e \subseteq s \cup t, e \cap s # {}, e \cap t # {}
  PROVE  Whole(s \cup t, pairs)
<1> SUFFICES ASSUME NEW D \in SUBSET (s \cup t), D # {}, D # s \cup t
             PROVE  \E p \in pairs : p \subseteq s \cup t /\ Crosses(p, D)
  BY DEF Whole
<1>1. ASSUME NEW u \in {s, t}, D \cap u # {}, D \cap u # u
      PROVE  \E p \in pairs : p \subseteq s \cup t /\ Crosses(p, D)
  <2>1. D \cap u \in SUBSET u /\ Whole(u, pairs)
    OBVIOUS
  <2>2. PICK p \in pairs : p \subseteq u /\ Crosses(p, D \cap u)
    BY <1>1, <2>1 DEF Whole
  <2>3. Crosses(p, D) /\ p \subseteq s \cup t
    BY <2>2 DEF Crosses
  <2> QED
    BY <2>3
<1>2. CASE D \cap s \in {{}, s} /\ D \cap t \in {{}, t}
  <2>1. D = s \/ D = t
    BY <1>2
  <2>2. Crosses(e, D)
    BY <2>1 DEF Crosses
  <2> QED
    BY <2>2
<1> QED
  BY <1>1, <1>2

(* A split into whole sets that no pair leads out of is the components.      *)
LEMMA ComponentsAre ==
  ASSUME NEW S, NEW pairs, NEW trees, Splits(trees, S),
         \A p \in pairs : \E t \in trees : p \subseteq t,
         \A t \in trees : Whole(t, pairs)
  PROVE  Components(S, pairs) = trees
<1> DEFINE K == ClosedIn(S, pairs)
<1>1. \A D : D \in K <=> D \in SUBSET S /\ D # {} /\ \A p \in pairs : p \cap D = {} \/ p \subseteq D
  BY DEF ClosedIn
<1>2. Components(S, pairs) = {C \in K : \A D \in K : D \subseteq C => D = C}
  BY DEF Components, LeastOf
<1> HIDE DEF K
<1>3. ASSUME NEW t \in trees PROVE t \in K
  <2>1. t \in SUBSET S /\ t # {}
    BY DEF Splits
  <2>2. ASSUME NEW p \in pairs, p \cap t # {} PROVE p \subseteq t
    <3>1. PICK u \in trees : p \subseteq u
      OBVIOUS
    <3>2. u = t
      BY <2>2, <3>1 DEF Splits
    <3> QED
      BY <3>1, <3>2
  <2> QED
    BY <1>1, <2>1, <2>2
<1>4. ASSUME NEW t \in trees, NEW D \in K, D \subseteq t PROVE D = t
  <2> SUFFICES ASSUME D # t PROVE FALSE
    OBVIOUS
  <2>1. D # {} /\ \A p \in pairs : p \cap D = {} \/ p \subseteq D
    BY <1>1
  <2>2. PICK p \in pairs : Crosses(p, D)
    BY <1>4, <2>1 DEF Whole
  <2> QED
    BY <2>1, <2>2 DEF Crosses
<1>5. ASSUME NEW C \in K, \A D \in K : D \subseteq C => D = C PROVE C \in trees
  <2>1. C \in SUBSET S /\ C # {} /\ \A p \in pairs : p \cap C = {} \/ p \subseteq C
    BY <1>1
  <2>2. PICK x \in C : x \in S
    BY <2>1
  <2>3. PICK t \in trees : x \in t
    BY <2>2 DEF Splits
  <2>4. t \in K
    BY <1>3
  <2>5. C \cap t \in K
    <3>1. C \cap t \in SUBSET S /\ C \cap t # {}
      BY <2>1, <2>2, <2>3
    <3>2. \A p \in pairs : p \cap t = {} \/ p \subseteq t
      BY <1>1, <2>4
    <3>3. \A p \in pairs : p \cap (C \cap t) = {} \/ p \subseteq C \cap t
      BY <2>1, <3>2
    <3> QED
      BY <1>1, <3>1, <3>3
  <2>6. C \cap t = C
    BY <1>5, <2>5
  <2>7. C = t
    BY <1>4, <2>6
  <2> QED
    BY <2>7
<1> QED
  BY <1>2, <1>3, <1>4, <1>5

(* Every element is in a component, and components do not overlap.           *)
LEMMA ComponentsCover ==
  ASSUME NEW S, NEW pairs, pairs \subseteq SUBSET S, NEW x \in S
  PROVE  \E C \in Components(S, pairs) : x \in C
<1> DEFINE K == ClosedIn(S, pairs)
           C == {y \in S : \A D \in K : x \in D => y \in D}
<1>1. \A D : D \in K <=> D \in SUBSET S /\ D # {} /\ \A p \in pairs : p \cap D = {} \/ p \subseteq D
  BY DEF ClosedIn
<1>2. Components(S, pairs) = {B \in K : \A D \in K : D \subseteq B => D = B}
  BY DEF Components, LeastOf
<1> HIDE DEF K
<1>3. C \in SUBSET S /\ x \in C /\ \A y \in C : \A D \in K : x \in D => y \in D
  OBVIOUS
<1>4. ASSUME NEW D \in K, x \in D PROVE C \subseteq D
  BY <1>4
<1>5. ASSUME NEW y \in S, \A D \in K : x \in D => y \in D PROVE y \in C
  BY <1>5
<1> HIDE DEF C
<1>6. C \in K
  <2>1. ASSUME NEW p \in pairs, p \cap C # {} PROVE p \subseteq C
    <3>1. PICK y \in C : y \in p
      BY <2>1
    <3>2. ASSUME NEW z \in p PROVE z \in C
      <4>1. z \in S
        OBVIOUS
      <4>2. ASSUME NEW D \in K, x \in D PROVE z \in D
        <5>1. y \in D
          BY <1>3, <4>2
        <5>2. p \subseteq D
          BY <1>1, <3>1, <5>1
        <5> QED
          BY <5>2
      <4> QED
        BY <1>5, <4>1, <4>2
    <3> QED
      BY <3>2
  <2> QED
    BY <1>1, <1>3, <2>1
<1>7. ASSUME NEW D \in K, D \subseteq C PROVE D = C
  <2>1. D \in SUBSET S /\ D # {} /\ \A p \in pairs : p \cap D = {} \/ p \subseteq D
    BY <1>1
  <2>2. CASE x \in D
    BY <1>4, <1>7, <2>2
  <2>3. CASE x \notin D
    <3>1. S \ D \in K
      <4>1. S \ D \in SUBSET S /\ S \ D # {}
        BY <2>3
      <4>2. ASSUME NEW p \in pairs PROVE p \cap (S \ D) = {} \/ p \subseteq S \ D
        <5>1. p \subseteq S
          OBVIOUS
        <5>2. p \cap D = {} \/ p \subseteq D
          BY <2>1
        <5> QED
          BY <5>1, <5>2
      <4> QED
        BY <1>1, <4>1, <4>2
    <3>2. C \subseteq S \ D
      BY <1>4, <2>3, <3>1
    <3> QED
      BY <1>7, <2>1, <3>2
  <2> QED
    BY <2>2, <2>3
<1> QED
  BY <1>2, <1>3, <1>6, <1>7

(* A set that no pair leads out of contains each component it meets.         *)
LEMMA ComponentsWithin ==
  ASSUME NEW S, NEW pairs, NEW C \in Components(S, pairs), NEW D,
         \A p \in pairs : p \cap D = {} \/ p \subseteq D, C \cap D # {}
  PROVE  C \subseteq D
<1> DEFINE K == ClosedIn(S, pairs)
<1>1. \A B : B \in K <=> B \in SUBSET S /\ B # {} /\ \A p \in pairs : p \cap B = {} \/ p \subseteq B
  BY DEF ClosedIn
<1>2. C \in K /\ \A B \in K : B \subseteq C => B = C
  BY DEF Components, LeastOf
<1> HIDE DEF K
<1>3. C \cap D \in K
  <2>1. C \in SUBSET S /\ \A p \in pairs : p \cap C = {} \/ p \subseteq C
    BY <1>1, <1>2
  <2>2. \A p \in pairs : p \cap (C \cap D) = {} \/ p \subseteq C \cap D
    BY <2>1
  <2> QED
    BY <1>1, <2>1, <2>2
<1> QED
  BY <1>2, <1>3

(* The threads of the atoms of a set are tied by sets of atoms in it.        *)
Tied(t, classes) ==
  \A D \in SUBSET Owners(t) : D # {} /\ D # Owners(t) =>
    \E c \in classes : \E i, j \in c \cap t : Owner(i) \cap D # {} /\ ~(Owner(j) \subseteq D)

LEMMA TiedInClass ==
  ASSUME NEW t, NEW classes, NEW c \in classes, t \subseteq c
  PROVE  Tied(t, classes)
<1> SUFFICES ASSUME NEW D \in SUBSET Owners(t), D # {}, D # Owners(t)
             PROVE  \E i, j \in c \cap t : Owner(i) \cap D # {} /\ ~(Owner(j) \subseteq D)
  BY DEF Tied
<1>1. PICK o \in D : o \in Owners(t)
  OBVIOUS
<1>2. PICK p \in Owners(t) : p \notin D
  OBVIOUS
<1>3. PICK i \in t : o \in Owner(i)
  BY <1>1 DEF Owners
<1>4. PICK j \in t : p \in Owner(j)
  BY <1>2 DEF Owners
<1>5. i \in c \cap t /\ j \in c \cap t
  OBVIOUS
<1>6. Owner(i) \cap D # {} /\ ~(Owner(j) \subseteq D)
  BY <1>1, <1>2, <1>3, <1>4
<1> QED
  BY <1>5, <1>6

LEMMA TiedTogether ==
  ASSUME NEW s, NEW t, NEW classes, Tied(s, classes), Tied(t, classes), CanWeaklyJoin(s, t)
  PROVE  Tied(s \cup t, classes)
<1>1. Owners(s \cup t) = Owners(s) \cup Owners(t)
  BY DEF Owners
<1> SUFFICES ASSUME NEW D \in SUBSET (Owners(s) \cup Owners(t)), D # {},
                    D # Owners(s) \cup Owners(t)
             PROVE  \E c \in classes : \E i, j \in c \cap (s \cup t) :
                      Owner(i) \cap D # {} /\ ~(Owner(j) \subseteq D)
  BY <1>1 DEF Tied
<1>2. ASSUME NEW u \in {s, t}, D \cap Owners(u) # {}, D \cap Owners(u) # Owners(u)
      PROVE  \E c \in classes : \E i, j \in c \cap (s \cup t) :
               Owner(i) \cap D # {} /\ ~(Owner(j) \subseteq D)
  <2>1. D \cap Owners(u) \in SUBSET Owners(u) /\ Tied(u, classes)
    OBVIOUS
  <2>2. PICK c \in classes : \E i, j \in c \cap u :
          Owner(i) \cap (D \cap Owners(u)) # {} /\ ~(Owner(j) \subseteq D \cap Owners(u))
    BY <1>2, <2>1 DEF Tied
  <2>3. PICK i \in c \cap u : \E j \in c \cap u :
          Owner(i) \cap (D \cap Owners(u)) # {} /\ ~(Owner(j) \subseteq D \cap Owners(u))
    BY <2>2
  <2>4. PICK j \in c \cap u :
          Owner(i) \cap (D \cap Owners(u)) # {} /\ ~(Owner(j) \subseteq D \cap Owners(u))
    BY <2>3
  <2>5. Owner(j) \subseteq Owners(u)
    BY DEF Owners
  <2>6. Owner(i) \cap D # {} /\ ~(Owner(j) \subseteq D)
    BY <2>4, <2>5
  <2>7. i \in c \cap (s \cup t) /\ j \in c \cap (s \cup t)
    OBVIOUS
  <2> QED
    BY <2>6, <2>7
<1>3. CASE D \cap Owners(s) \in {{}, Owners(s)} /\ D \cap Owners(t) \in {{}, Owners(t)}
  <2>1. Owners(s) = {} \/ Owners(t) = {} \/ Owners(s) \cap Owners(t) # {}
    BY DEF CanWeaklyJoin
  <2> QED
    BY <1>3, <2>1
<1> QED
  BY <1>2, <1>3

(* A link changes nothing that membership depends on, or joins two trees by  *)
(* an edge, a weak one only trees that may be joined weakly.                 *)
Joins(g, f, l, s, t) ==
  /\ s # t /\ l.from \in s /\ l.to \in t
  /\ g.trees = (f.trees \ {s, t}) \cup {s \cup t}
  /\ DOMAIN g.edges = DOMAIN f.edges \cup {{l.from, l.to}}
  /\ l.how = "weak" => CanWeaklyJoin(s, t)

LEMMA StepOf ==
  ASSUME NEW T, NEW f \in ForestOf(T), NEW l \in LinkIn(T), NEW g, g = ApplyCandidate(f, l)
  PROVE  \/ g.trees = f.trees /\ DOMAIN g.edges = DOMAIN f.edges
         \/ \E s, t \in f.trees : Joins(g, f, l, s, t)
<1> DEFINE s == TreeOf(f, l.from)
           t == TreeOf(f, l.to)
           e == {l.from, l.to}
<1>1. f \in [trees : SUBSET (SUBSET T), edges : EdgesOn(T)] /\ Splits(f.trees, T)
  BY DEF ForestOf
<1>2. l.from \in T /\ l.to \in T
  BY DEF LinkIn, LinkSet
<1>3. s \in f.trees /\ l.from \in s /\ t \in f.trees /\ l.to \in t
  <2>1. \A i \in T : \E u \in f.trees : i \in u
    BY <1>1 DEF Splits
  <2> QED
    BY <1>2, <2>1 DEF TreeOf
<1>4. g = IF l.how = "weak" /\ ~CanWeaklyJoin(s, t) THEN f
          ELSE IF e \in DOMAIN f.edges THEN AddArtifact(f, l) ELSE Join(f, l, s, t)
  BY DEF ApplyCandidate, ApplyBetween
<1> HIDE DEF s, t, e
<1>5. AddArtifact(f, l).trees = f.trees /\ DOMAIN AddArtifact(f, l).edges = DOMAIN f.edges
  <2> DEFINE h == [f EXCEPT !.edges[e] = @ \cup {l.key}]
  <2>1. AddArtifact(f, l) = f \/ AddArtifact(f, l) = h
    BY DEF AddArtifact, e
  <2>2. h = [trees |-> f.trees, edges |-> [f.edges EXCEPT ![e] = @ \cup {l.key}]]
    BY <1>1, EdgeGrows
  <2> HIDE DEF h
  <2>3. h.trees = f.trees /\ DOMAIN h.edges = DOMAIN f.edges
    BY <2>2
  <2> QED
    BY <2>1, <2>3
<1>6. CASE (l.how = "weak" /\ ~CanWeaklyJoin(s, t)) \/ e \in DOMAIN f.edges \/ s = t
  <2>1. s = t => Join(f, l, s, t) = f
    BY DEF Join
  <2> QED
    BY <1>4, <1>5, <1>6, <2>1
<1>7. CASE ~(l.how = "weak" /\ ~CanWeaklyJoin(s, t)) /\ e \notin DOMAIN f.edges /\ s # t
  <2> DEFINE trees == (f.trees \ {s, t}) \cup {s \cup t}
             edges == [p \in DOMAIN f.edges \cup {e} |-> IF p = e THEN {l.key} ELSE f.edges[p]]
  <2>1. g = [trees |-> trees, edges |-> edges]
    BY <1>4, <1>7 DEF Join, e
  <2>2. DOMAIN edges = DOMAIN f.edges \cup {e}
    OBVIOUS
  <2> HIDE DEF trees, edges
  <2>3. g.trees = trees /\ DOMAIN g.edges = DOMAIN f.edges \cup {e}
    BY <2>1, <2>2
  <2>4. Joins(g, f, l, s, t)
    BY <1>3, <1>7, <2>3 DEF Joins, trees, e
  <2> QED
    BY <1>3, <2>4
<1> QED
  BY <1>6, <1>7

(* What is known of the trees after n links: each hangs together by its      *)
(* edges, its threads by strong links; and a tree that is not within what    *)
(* strong links tie together is of a project whose strong links are past.    *)
Late(t, links, n) ==
  \E m \in 1..n : links[m].how # "strong" /\ \A i \in t : Row[i].project = Row[links[m].from].project

Bound(f, classes, links, n) ==
  \A t \in f.trees :
    /\ Whole(t, DOMAIN f.edges) /\ Tied(t, classes)
    /\ (\E c \in classes : t \subseteq c) \/ Late(t, links, n)

LEMMA BoundStarts ==
  ASSUME NEW T, NEW pairs, pairs \subseteq SUBSET T, NEW links
  PROVE  Bound([trees |-> {{i} : i \in T}, edges |-> <<>>], Components(T, pairs), links, 0)
<1> SUFFICES ASSUME NEW i \in T
             PROVE  /\ Whole({i}, DOMAIN <<>>) /\ Tied({i}, Components(T, pairs))
                    /\ \E c \in Components(T, pairs) : {i} \subseteq c
  BY DEF Bound
<1>1. Whole({i}, DOMAIN <<>>)
  BY DEF Whole
<1>2. PICK c \in Components(T, pairs) : i \in c
  BY ComponentsCover
<1>3. Tied({i}, Components(T, pairs))
  BY <1>2, TiedInClass
<1> QED
  BY <1>1, <1>2, <1>3

LEMMA BoundKept ==
  ASSUME NEW T, NEW links \in Seq(LinkIn(T)), Phased(links),
         NEW pairs, pairs = PairsBy({"strong"}, links), pairs \subseteq SUBSET T,
         NEW n \in 0..(Len(links) - 1), NEW f \in ForestOf(T), NEW g \in ForestOf(T),
         g = ApplyCandidate(f, links[n + 1]), Bound(f, Components(T, pairs), links, n)
  PROVE  Bound(g, Components(T, pairs), links, n + 1)
<1> DEFINE K == Components(T, pairs)
           l == links[n + 1]
           e == {l.from, l.to}
<1>1. Len(links) \in Nat /\ n \in Nat /\ n + 1 \in 1..Len(links) /\ (n + 1) - 1 = n
  OBVIOUS
<1>2. l \in LinkIn(T)
  BY <1>1
<1>3. ASSUME NEW t, Late(t, links, n) PROVE Late(t, links, n + 1)
  <2>1. PICK m \in 1..n : links[m].how # "strong" /\ \A i \in t : Row[i].project = Row[links[m].from].project
    BY <1>3 DEF Late
  <2>2. m \in 1..(n + 1)
    BY <1>1
  <2> QED
    BY <2>1, <2>2 DEF Late
<1>4. l.how = "strong" => \A m \in 1..n : Row[links[m].from].project = Row[l.from].project => links[m].how = "strong"
  BY <1>1 DEF Phased
<1>5. \A c \in K : \A p \in pairs : p \cap c = {} \/ p \subseteq c
  BY DEF Components, LeastOf, ClosedIn
<1>6. \A b, c \in K : b \cap c # {} => b = c
  <2> SUFFICES ASSUME NEW b \in K, NEW c \in K, b \cap c # {} PROVE b = c
    OBVIOUS
  <2>1. b \subseteq c
    BY <1>5, ComponentsWithin
  <2>2. c \subseteq b
    BY <1>5, ComponentsWithin
  <2> QED
    BY <2>1, <2>2
<1>7. l.how = "strong" => e \in pairs
  <2>1. l \in ToSet(links)
    BY <1>1 DEF ToSet
  <2> QED
    BY <2>1 DEF PairsBy
<1>8. /\ Row[l.from].project = Row[l.to].project /\ SharesThread(l)
      /\ l.how \in {"strong", "weak", "lineage"}
  BY <1>2 DEF LinkIn, LinkSet
<1> HIDE DEF K, l
<1>9. \A t \in f.trees : /\ Whole(t, DOMAIN f.edges) /\ Tied(t, K)
                         /\ (\E c \in K : t \subseteq c) \/ Late(t, links, n)
  BY DEF Bound, K
<1>10. CASE g.trees = f.trees /\ DOMAIN g.edges = DOMAIN f.edges
  <2>1. \A t \in f.trees : /\ Whole(t, DOMAIN g.edges) /\ Tied(t, K)
                           /\ (\E c \in K : t \subseteq c) \/ Late(t, links, n + 1)
    BY <1>3, <1>9, <1>10
  <2> QED
    BY <1>10, <2>1 DEF Bound, K
<1>11. CASE \E s, t \in f.trees : Joins(g, f, l, s, t)
  <2>1. PICK s \in f.trees, t \in f.trees : Joins(g, f, l, s, t)
    BY <1>11
  <2>2. /\ s # t /\ l.from \in s /\ l.to \in t
        /\ g.trees = (f.trees \ {s, t}) \cup {s \cup t}
        /\ DOMAIN g.edges = DOMAIN f.edges \cup {e}
        /\ l.how = "weak" => CanWeaklyJoin(s, t)
    BY <2>1 DEF Joins
  <2>3. s \cap t = {}
    BY <2>2 DEF ForestOf, Splits
  <2>4. ASSUME NEW u \in f.trees PROVE Whole(u, DOMAIN g.edges)
    <3>1. Whole(u, DOMAIN f.edges) /\ DOMAIN f.edges \subseteq DOMAIN g.edges
      BY <1>9, <2>2
    <3> QED
      BY <3>1 DEF Whole
  <2>5. Whole(s \cup t, DOMAIN g.edges)
    <3>1. e \in DOMAIN g.edges /\ e \subseteq s \cup t /\ e \cap s # {} /\ e \cap t # {}
      BY <2>2
    <3> HIDE DEF e
    <3> QED
      BY <2>3, <2>4, <3>1, WholeTogether
  <2>6. CASE l.how = "strong"
    <3>1. ~Late(s, links, n) /\ ~Late(t, links, n)
      <4>1. ASSUME NEW u \in {s, t}, Late(u, links, n) PROVE FALSE
        <5>1. PICK m \in 1..n : links[m].how # "strong" /\ \A i \in u : Row[i].project = Row[links[m].from].project
          BY <4>1 DEF Late
        <5>2. Row[links[m].from].project = Row[l.from].project
          BY <1>8, <2>2, <5>1
        <5> QED
          BY <1>4, <2>6, <5>1, <5>2
      <4> QED
        BY <4>1
    <3>2. PICK b \in K : s \subseteq b
      BY <1>9, <3>1
    <3>3. PICK c \in K : t \subseteq c
      BY <1>9, <3>1
    <3>4. e \subseteq b
      <4>1. e \in pairs /\ e \cap b # {}
        BY <1>7, <2>2, <2>6, <3>2
      <4> QED
        BY <1>5, <4>1
    <3>5. l.to \in b /\ l.to \in c
      BY <2>2, <3>3, <3>4
    <3>6. b = c
      BY <1>6, <3>5
    <3>7. s \cup t \subseteq b
      BY <3>2, <3>3, <3>6
    <3>8. Tied(s \cup t, K)
      BY <3>7, TiedInClass
    <3> QED
      BY <1>3, <1>9, <2>2, <2>4, <2>5, <3>7, <3>8 DEF Bound, K
  <2>7. CASE l.how # "strong"
    <3>1. CanWeaklyJoin(s, t)
      <4>1. CASE l.how = "weak"
        BY <2>2, <4>1
      <4>2. CASE l.how = "lineage"
        <5>1. PICK o \in Owner(l.from) : o \in Owner(l.to)
          BY <1>8, <4>2 DEF SharesThread
        <5>2. o \in Owners(s) /\ o \in Owners(t)
          BY <2>2, <5>1 DEF Owners
        <5> QED
          BY <5>2 DEF CanWeaklyJoin
      <4> QED
        BY <1>8, <2>7, <4>1, <4>2
    <3>2. Tied(s \cup t, K)
      BY <1>9, <3>1, TiedTogether
    <3>3. Late(s \cup t, links, n + 1)
      <4>1. s \cup t \in g.trees /\ l.from \in s \cup t
        BY <2>2
      <4>2. \A i \in s \cup t : Row[i].project = Row[l.from].project
        BY <4>1 DEF ForestOf
      <4>3. n + 1 \in 1..(n + 1)
        BY <1>1
      <4> QED
        BY <2>7, <4>2, <4>3 DEF Late, l
    <3> QED
      BY <1>3, <1>9, <2>2, <2>4, <2>5, <3>2, <3>3 DEF Bound, K
  <2> QED
    BY <2>6, <2>7
<1>12. g = ApplyCandidate(f, l)
  BY DEF l
<1> QED
  BY <1>2, <1>10, <1>11, <1>12, StepOf

LEMMA GraphBound ==
  ASSUME NEW T, NEW links \in Seq(LinkIn(T)), Phased(links),
         NEW pairs, pairs = PairsBy({"strong"}, links), pairs \subseteq SUBSET T
  PROVE  Bound(GraphOver(T, links), Components(T, pairs), links, Len(links))
<1>1. PICK U : Grows(T, links, U)
  BY GraphGrows
<1> DEFINE N == Len(links)
           K == Components(T, pairs)
           Good == {n \in Nat : n <= N => Bound(U[n], K, links, n)}
<1>2. N \in Nat
  OBVIOUS
<1> HIDE DEF K
<1>3. 0 \in Good
  <2>1. U[0] = [trees |-> {{i} : i \in T}, edges |-> <<>>]
    BY <1>1 DEF Grows
  <2>2. Bound(U[0], K, links, 0)
    BY <2>1, BoundStarts DEF K
  <2> QED
    BY <2>2
<1>4. ASSUME NEW n \in Nat, n \in Good PROVE n + 1 \in Good
  <2> SUFFICES ASSUME n + 1 <= N PROVE Bound(U[n + 1], K, links, n + 1)
    OBVIOUS
  <2>1. Bound(U[n], K, links, n)
    BY <1>2, <1>4
  <2>2. n \in 0..(N - 1) /\ n \in 0..N /\ n + 1 \in 0..N /\ n + 1 \in 1..N /\ (n + 1) - 1 = n
    BY <1>2
  <2>3. U[n] \in ForestOf(T) /\ U[n + 1] \in ForestOf(T)
    BY <1>1, <2>2 DEF Grows
  <2>4. U[n + 1] = ApplyCandidate(U[n], links[n + 1])
    BY <1>1, <2>2 DEF Grows
  <2> QED
    BY <2>1, <2>2, <2>3, <2>4, BoundKept DEF K
<1>5. N \in Good
  <2> HIDE DEF Good
  <2> QED
    BY <1>2, <1>3, <1>4, SetInduction
<1>6. U[N] = GraphOver(T, links)
  BY <1>1 DEF Grows
<1> QED
  BY <1>2, <1>5, <1>6 DEF K

(* Clusters are connected by their edges, of one project each; strong links  *)
(* and threads do not lead out of one, and its threads are tied by strong    *)
(* links.                                                                    *)
LEMMA GraphIsThreads ==
  ASSUME EventBounds, WorkBounds, NEW T \in SUBSET Ids, NEW gap
  PROVE  ClustersAreThreadsOf(BuildGraph(T, gap), T, Links(T, gap))
<1> DEFINE links == Links(T, gap)
           pairs == PairsBy({"strong"}, links)
           K == Components(T, pairs)
           f == BuildGraph(T, gap)
<1>1. links \in Seq(LinkIn(T)) /\ Phased(links)
  BY LinksAre
<1>2. f \in ForestOf(T) /\ \A l \in ToSet(links) : Lies(f, l)
  BY GraphIs
<1>3. f = GraphOver(T, links)
  BY DEF BuildGraph
<1> HIDE DEF links, f
<1>4. \A l \in ToSet(links) : l \in LinkIn(T)
  BY <1>1 DEF ToSet
<1>5. pairs \subseteq SUBSET T
  <2> SUFFICES ASSUME NEW l \in ToSet(links) PROVE {l.from, l.to} \subseteq T
    BY DEF PairsBy
  <2>1. l \in LinkSet(T)
    BY <1>4 DEF LinkIn
  <2> QED
    BY <2>1 DEF LinkSet
<1>6. ASSUME NEW p \in PairsBy({"strong", "lineage"}, links) PROVE \E t \in f.trees : p \subseteq t
  <2>1. PICK l \in ToSet(links) : p = {l.from, l.to} /\ l.how \in {"strong", "lineage"}
    BY DEF PairsBy
  <2> QED
    BY <1>2, <2>1 DEF Lies
<1>7. pairs \subseteq PairsBy({"strong", "lineage"}, links)
  BY DEF PairsBy
<1> HIDE DEF pairs
<1>8. Bound(f, K, links, Len(links))
  BY <1>1, <1>3, <1>5, GraphBound DEF pairs
<1> HIDE DEF K
<1>9. EdgesExplain(f, T)
  <2>1. Splits(f.trees, T) /\ \A p \in DOMAIN f.edges : \E t \in f.trees : p \subseteq t
    BY <1>2 DEF ForestOf
  <2>2. \A t \in f.trees : Whole(t, DOMAIN f.edges)
    BY <1>8 DEF Bound
  <2>3. Components(T, DOMAIN f.edges) = f.trees
    BY <2>1, <2>2, ComponentsAre
  <2> QED
    BY <2>3 DEF EdgesExplain
<1>10. ASSUME NEW t \in f.trees PROVE Cardinality(Projects(t)) = 1
  <2>1. t # {} /\ \A i, j \in t : Row[i].project = Row[j].project
    BY <1>2 DEF ForestOf, Splits
  <2>2. PICK i \in t : TRUE
    BY <2>1
  <2>3. Projects(t) = {Row[i].project}
    BY <2>1, <2>2 DEF Projects
  <2> QED
    BY <2>3, FS_Singleton
<1>11. ASSUME NEW t \in f.trees PROVE ThreadsTied(t, K)
  <2> DEFINE X == UNION {{{o, p} : o, p \in Owners(s)} : s \in {x \in K : x \subseteq t}}
             G == Components(Owners(t), X)
  <2>1. ASSUME NEW C \in G PROVE C = Owners(t)
    <3>1. C \in SUBSET Owners(t) /\ C # {} /\ \A p \in X : p \cap C = {} \/ p \subseteq C
      BY DEF Components, LeastOf, ClosedIn
    <3> HIDE DEF X, G
    <3> SUFFICES ASSUME C # Owners(t) PROVE FALSE
      OBVIOUS
    <3>2. Tied(t, K)
      BY <1>8 DEF Bound
    <3>3. PICK c \in K : \E i, j \in c \cap t : Owner(i) \cap C # {} /\ ~(Owner(j) \subseteq C)
      BY <3>1, <3>2 DEF Tied
    <3>4. PICK i \in c \cap t : \E j \in c \cap t : Owner(i) \cap C # {} /\ ~(Owner(j) \subseteq C)
      BY <3>3
    <3>5. PICK j \in c \cap t : Owner(i) \cap C # {} /\ ~(Owner(j) \subseteq C)
      BY <3>4
    <3>6. c \subseteq t
      <4>1. ASSUME NEW p \in pairs PROVE p \cap t = {} \/ p \subseteq t
        <5>1. PICK u \in f.trees : p \subseteq u
          BY <1>6, <1>7
        <5>2. u \cap t # {} => u = t
          BY <1>2 DEF ForestOf, Splits
        <5> QED
          BY <5>1, <5>2
      <4>2. c \cap t # {} /\ c \in Components(T, pairs)
        BY <3>4 DEF K
      <4> QED
        BY <4>1, <4>2, ComponentsWithin
    <3>7. PICK o \in Owner(i) : o \in C
      BY <3>5
    <3>8. PICK p \in Owner(j) : p \notin C
      BY <3>5
    <3>9. o \in Owners(c) /\ p \in Owners(c)
      BY <3>4, <3>5, <3>7, <3>8 DEF Owners
    <3>10. {o, p} \in X
      BY <3>6, <3>9 DEF X
    <3> QED
      BY <3>1, <3>7, <3>8, <3>10
  <2>2. G \subseteq {Owners(t)}
    BY <2>1
  <2>3. Cardinality(G) <= 1
    <3> HIDE DEF G
    <3>1. CASE G = {}
      <4>1. Cardinality(G) = 0
        BY <3>1, FS_EmptySet
      <4> QED
        BY <4>1
    <3>2. CASE G = {Owners(t)}
      <4>1. Cardinality(G) = 1
        BY <3>2, FS_Singleton
      <4> QED
        BY <4>1
    <3> QED
      BY <2>2, <3>1, <3>2
  <2> QED
    BY <2>3 DEF ThreadsTied
<1>12. OneThreadEach(f.trees, links, K)
  BY <1>6, <1>10, <1>11 DEF OneThreadEach
<1>13. ClustersAreThreadsOf(f, T, links)
  BY <1>9, <1>12 DEF ClustersAreThreadsOf, K, pairs
<1> QED
  BY <1>13 DEF f, links

LEMMA LeastIs ==
  ASSUME NEW M, IsFiniteSet(M), M # {}, NEW R, Ranks(M, R)
  PROVE  \E x \in M : \A y \in M \ {x} : <<x, y>> \in R
<1>1. Cardinality(M) \in Nat /\ Cardinality(M) # 0
  BY FS_CardinalityType, FS_EmptySet
<1>2. 1 \in 1..Cardinality(M)
  BY <1>1
<1>3. PICK x \in M : Cardinality({y \in M : <<y, x>> \in R}) = 1 - 1
  BY <1>2, RanksTaken
<1>4. {y \in M : <<y, x>> \in R} = {}
  <2> DEFINE B == {y \in M : <<y, x>> \in R}
  <2>1. B \in SUBSET M /\ Cardinality(B) = 0
    BY <1>3
  <2> HIDE DEF B
  <2>2. IsFiniteSet(B)
    BY <2>1, FS_Subset
  <2> QED
    BY <2>1, <2>2, FS_EmptySet DEF B
<1>5. \A y \in M \ {x} : <<x, y>> \in R
  BY <1>4 DEF Ranks
<1> QED
  BY <1>5

LEMMA TurnsIn ==
  ASSUME EventBounds, WorkBounds, NEW T \in SUBSET Ids
  PROVE  LogicalTurns(T) \subseteq T
<1> DEFINE R == {p \in Ids \X Ids : Preferred(p[1], p[2])}
<1>1. \A i \in Ids : i \in Nat /\ Row[i].id = i /\ Row[i].ts \in Nat /\ Priority(i) \in Nat
  <2>1. \A r \in Rows : r.ts \in Nat
    BY DEF EventBounds, Rows
  <2>2. \A i : Priority(i) \in Nat
    BY DEF Priority
  <2> QED
    BY <2>1, <2>2, EventIds
<1>2. \A i, j \in Ids : <<i, j>> \in R <=>
        \/ Priority(i) < Priority(j)
        \/ Priority(i) = Priority(j) /\ (Row[i].ts < Row[j].ts \/ (Row[i].ts = Row[j].ts /\ i < j))
  BY <1>1 DEF Preferred, Older
<1>3. \A i, j \in Ids : <<i, j>> \in R <=> Preferred(i, j)
  OBVIOUS
<1> HIDE DEF R
<1>4. Ranks(Ids, R)
  <2>1. \A x \in Ids : <<x, x>> \notin R
    BY <1>1, <1>2
  <2>2. \A x, y, z \in Ids : <<x, y>> \in R /\ <<y, z>> \in R => <<x, z>> \in R
    BY <1>1, <1>2
  <2>3. ASSUME NEW x \in Ids, NEW y \in Ids PROVE x = y \/ <<x, y>> \in R \/ <<y, x>> \in R
    <3>1. /\ x \in Nat /\ y \in Nat /\ Row[x].ts \in Nat /\ Row[y].ts \in Nat
          /\ Priority(x) \in Nat /\ Priority(y) \in Nat
      BY <1>1
    <3> QED
      BY <1>2, <3>1
  <2> QED
    BY <2>1, <2>2, <2>3 DEF Ranks
<1>5. ASSUME NEW Q \in SUBSET Ids, Q # {} PROVE Representative(Q) \in Q
  <2>1. IsFiniteSet(Q) /\ Ranks(Q, R)
    BY <1>4, EventIds, FS_Subset DEF Ranks
  <2>2. \E x \in Q : \A y \in Q \ {x} : <<x, y>> \in R
    BY <1>5, <2>1, LeastIs
  <2>3. \E x \in Q : \A y \in Q \ {x} : Preferred(x, y)
    BY <1>3, <2>2
  <2> QED
    BY <2>3 DEF Representative
<1>6. ASSUME NEW i \in T PROVE Representative(Copies(i, T)) \in T
  <2>1. i \in Copies(i, T) /\ Copies(i, T) \subseteq T
    BY DEF Copies
  <2> QED
    BY <1>5, <2>1
<1> QED
  BY <1>6 DEF LogicalTurns

Once(s) == \A i, j \in 1..Len(s) : s[i] = s[j] => i = j

Lists(s, M) == s \in Seq(M) /\ Len(s) = Cardinality(M) /\ ToSet(s) = M /\ Once(s)

LEMMA ListsJoin ==
  ASSUME NEW A, NEW B, IsFiniteSet(A), IsFiniteSet(B), A \cap B = {},
         NEW s, Lists(s, A), NEW t, Lists(t, B)
  PROVE  /\ Lists(s \o t, A \cup B)
         /\ SubSeq(s \o t, 1, Len(s)) = s
<1>1. s \in Seq(A \cup B) /\ t \in Seq(A \cup B) /\ Len(s) \in Nat /\ Len(t) \in Nat
  BY DEF Lists
<1>2. s \o t \in Seq(A \cup B) /\ Len(s \o t) = Len(s) + Len(t)
  BY <1>1
<1>3. \A i \in 1..Len(s \o t) : (s \o t)[i] = IF i <= Len(s) THEN s[i] ELSE t[i - Len(s)]
  BY <1>1
<1>4. /\ \A i \in 1..Len(s) : s[i] \in A
      /\ \A i \in 1..Len(t) : t[i] \in B
  BY DEF Lists
<1>5. Cardinality(A \cup B) = Cardinality(A) + Cardinality(B)
  <2>1. Cardinality(A \cup B) = Cardinality(A) + Cardinality(B) - Cardinality(A \cap B)
    BY FS_Union
  <2>2. Cardinality(A \cap B) = 0 /\ Cardinality(A) \in Nat /\ Cardinality(B) \in Nat
    BY FS_EmptySet, FS_CardinalityType
  <2> QED
    BY <2>1, <2>2
<1> DEFINE u == s \o t
<1>6. ToSet(u) = A \cup B
  <2>1. /\ \A x \in A : \E i \in 1..Len(s) : s[i] = x
        /\ \A x \in B : \E i \in 1..Len(t) : t[i] = x
    BY ElementsOf DEF Lists
  <2>2. ToSet(u) \subseteq A \cup B /\ \A i \in 1..Len(u) : u[i] \in ToSet(u)
    BY <1>2, ElementsOf
  <2>3. ASSUME NEW x \in A PROVE x \in ToSet(u)
    <3>1. PICK i \in 1..Len(s) : s[i] = x
      BY <2>1
    <3>2. i \in 1..Len(u) /\ u[i] = x
      BY <1>1, <1>2, <1>3, <3>1
    <3> QED
      BY <2>2, <3>2
  <2>4. ASSUME NEW x \in B PROVE x \in ToSet(u)
    <3>1. PICK i \in 1..Len(t) : t[i] = x
      BY <2>1
    <3>2. i + Len(s) \in 1..Len(u) /\ u[i + Len(s)] = x
      <4>1. i + Len(s) \in 1..Len(u) /\ ~(i + Len(s) <= Len(s)) /\ (i + Len(s)) - Len(s) = i
        BY <1>1, <1>2
      <4> QED
        BY <1>3, <3>1, <4>1
    <3> QED
      BY <2>2, <3>2
  <2> QED
    BY <2>2, <2>3, <2>4
<1>7. Once(u)
  <2> SUFFICES ASSUME NEW i \in 1..Len(u), NEW j \in 1..Len(u), u[i] = u[j] PROVE i = j
    BY DEF Once
  <2>1. CASE i <= Len(s) /\ j <= Len(s)
    <3>1. i \in 1..Len(s) /\ j \in 1..Len(s) /\ s[i] = s[j]
      BY <1>1, <1>2, <1>3, <2>1
    <3> QED
      BY <3>1 DEF Lists, Once
  <2>2. CASE ~(i <= Len(s)) /\ ~(j <= Len(s))
    <3>1. i - Len(s) \in 1..Len(t) /\ j - Len(s) \in 1..Len(t) /\ t[i - Len(s)] = t[j - Len(s)]
      BY <1>1, <1>2, <1>3, <2>2
    <3>2. i - Len(s) = j - Len(s)
      BY <3>1 DEF Lists, Once
    <3> QED
      BY <1>1, <1>2, <3>2
  <2>3. CASE i <= Len(s) /\ ~(j <= Len(s))
    <3>1. i \in 1..Len(s) /\ j - Len(s) \in 1..Len(t) /\ s[i] = t[j - Len(s)]
      BY <1>1, <1>2, <1>3, <2>3
    <3> QED
      BY <1>4, <3>1
  <2>4. CASE ~(i <= Len(s)) /\ j <= Len(s)
    <3>1. j \in 1..Len(s) /\ i - Len(s) \in 1..Len(t) /\ s[j] = t[i - Len(s)]
      BY <1>1, <1>2, <1>3, <2>4
    <3> QED
      BY <1>4, <3>1
  <2> QED
    BY <2>1, <2>2, <2>3, <2>4
<1>8. SubSeq(u, 1, Len(s)) = s
  <2>1. Len(SubSeq(u, 1, Len(s))) = Len(s) /\ SubSeq(u, 1, Len(s)) \in Seq(A \cup B)
    BY <1>1, <1>2
  <2>2. \A i \in 1..Len(s) : SubSeq(u, 1, Len(s))[i] = s[i]
    BY <1>1, <1>2, <1>3
  <2> HIDE DEF u
  <2> QED
    BY <1>1, <2>1, <2>2
<1> QED
  BY <1>2, <1>5, <1>6, <1>7, <1>8 DEF Lists

LEMMA FirstLists ==
  ASSUME NEW M, IsFiniteSet(M), NEW s, Lists(s, M), NEW n \in Nat
  PROVE  /\ First(s, n) \in Seq(M) /\ Once(First(s, n))
         /\ Len(First(s, n)) = IF n < Len(s) THEN n ELSE Len(s)
<1>1. s \in Seq(M) /\ Once(s)
  BY DEF Lists
<1>2. /\ First(s, n) \in Seq(M)
      /\ Len(First(s, n)) = IF n < Len(s) THEN n ELSE Len(s)
      /\ \A i \in 1..Len(First(s, n)) : i \in 1..Len(s) /\ First(s, n)[i] = s[i]
  BY <1>1, FirstOf
<1>3. Once(First(s, n))
  BY <1>1, <1>2 DEF Once
<1> QED
  BY <1>2, <1>3

LEMMA OnceLists ==
  ASSUME NEW M, IsFiniteSet(M), NEW s \in Seq(M), Once(s)
  PROVE  Lists(s, ToSet(s)) /\ ToSet(s) \subseteq M /\ IsFiniteSet(ToSet(s))
<1> DEFINE T == ToSet(s)
           N == Len(s)
<1>1. /\ T \subseteq M /\ \A x : x \in T <=> \E i \in 1..N : s[i] = x
      /\ \A i \in 1..N : s[i] \in T
      /\ N \in Nat
  BY ElementsOf
<1>2. s = [i \in 1..N |-> s[i]]
  OBVIOUS
<1> HIDE DEF T, N
<1>3. s \in Seq(T) /\ s \in [1..N -> T]
  BY <1>1, <1>2
<1>4. s \in Bijection(1..N, T)
  <2>1. s \in Surjection(1..N, T)
    BY <1>1, <1>3 DEF Surjection
  <2>2. s \in Injection(1..N, T)
    BY <1>3 DEF Once, Injection, IsInjective, N
  <2> QED
    BY <2>1, <2>2 DEF Bijection
<1>5. IsFiniteSet(1..N) /\ Cardinality(1..N) = N
  BY <1>1, FS_Interval
<1>6. IsFiniteSet(T) /\ Cardinality(T) = N
  <2>1. IsFiniteSet(T)
    BY <1>1, FS_Subset
  <2>2. Cardinality(1..N) = Cardinality(T)
    BY <1>4, <1>5, FS_Surjection DEF Bijection
  <2> QED
    BY <1>5, <2>1, <2>2
<1> QED
  BY <1>1, <1>3, <1>6 DEF Lists, T, N

LEMMA ByWorkLists ==
  ASSUME EventBounds, WorkBounds, NEW T \in SUBSET Ids
  PROVE  Lists(ByWork(T), T)
<1> DEFINE a == ByWork(T)
<1>1. a \in Seq(T) /\ Once(a) /\ \A x \in T : \E i \in 1..Len(a) : a[i] = x
  BY ByWorkIs DEF Once
<1>2. IsFiniteSet(T)
  BY EventIds, FS_Subset
<1> HIDE DEF a
<1>3. Lists(a, ToSet(a))
  BY <1>1, <1>2, OnceLists
<1>4. ToSet(a) = T
  <2>1. ToSet(a) \subseteq T /\ \A x : x \in ToSet(a) <=> \E i \in 1..Len(a) : a[i] = x
    BY <1>1, ElementsOf
  <2> QED
    BY <1>1, <2>1
<1> QED
  BY <1>3, <1>4 DEF a

(* Clusters with no member in common.                                        *)
Apart(M) ==
  /\ IsFiniteSet(M)
  /\ \A c \in M : c.ids \in SUBSET Ids /\ c.ids # {}
  /\ \A c, d \in M : c.ids \cap d.ids # {} => c = d

LEMMA LeastId ==
  ASSUME EventBounds, WorkBounds, NEW T \in SUBSET Ids, T # {}
  PROVE  \E i \in T : \A j \in T : i <= j
<1> DEFINE R == {p \in Ids \X Ids : p[1] < p[2]}
<1>1. IsFiniteSet(T) /\ T \subseteq Nat
  BY EventIds, FS_Subset
<1>2. \A i, j \in T : <<i, j>> \in R <=> i < j
  OBVIOUS
<1> HIDE DEF R
<1>3. Ranks(T, R)
  <2>1. \A x \in T : <<x, x>> \notin R
    BY <1>1, <1>2
  <2>2. \A x, y, z \in T : <<x, y>> \in R /\ <<y, z>> \in R => <<x, z>> \in R
    BY <1>1, <1>2
  <2>3. ASSUME NEW x \in T, NEW y \in T PROVE x = y \/ <<x, y>> \in R \/ <<y, x>> \in R
    <3>1. x \in Nat /\ y \in Nat
      BY <1>1
    <3> QED
      BY <1>2, <3>1
  <2> QED
    BY <2>1, <2>2, <2>3 DEF Ranks
<1>4. \E x \in T : \A y \in T \ {x} : <<x, y>> \in R
  <2>1. IsFiniteSet(T)
    BY <1>1
  <2> QED
    BY <1>3, <2>1, LeastIs
<1>41. PICK x \in T : \A y \in T \ {x} : <<x, y>> \in R
  BY <1>4
<1>5. ASSUME NEW y \in T PROVE x <= y
  <2>1. x \in Nat /\ y \in Nat
    BY <1>1
  <2>2. x = y \/ x < y
    BY <1>2, <1>41
  <2> QED
    BY <2>1, <2>2
<1> QED
  BY <1>5

LEMMA RankKeyIs ==
  ASSUME EventBounds, WorkBounds, NEW c, c.ids \in SUBSET Ids, c.ids # {}, NEW q, q.until \in Int, NEW demoted
  PROVE  /\ RankKey(c, q, demoted) \in [1..7 -> Int]
         /\ RankKey(c, q, demoted)[7] \in c.ids
<1> DEFINE least == CHOOSE i \in c.ids : \A j \in c.ids : i <= j
           age == MedianAge(ByWork(c.ids), q.until)
           k == RankKey(c, q, demoted)
           f1 == Flag(c \notin demoted)
           f2 == Flag(q.hint # {} /\ Mentions(c.ids, q.hint))
           f3 == Flag(RecentActivity(c.ids, q.until))
           f4 == Flag(OpenLoop(c))
<1>1. least \in c.ids /\ least \in Int
  <2>1. \E i \in c.ids : \A j \in c.ids : i <= j
    BY LeastId
  <2>2. least \in c.ids
    BY <2>1
  <2> QED
    BY <2>2, EventIds
<1>2. age \in Int
  <2> DEFINE s == ByWork(c.ids)
  <2>1. s \in Seq(c.ids) /\ Len(s) >= 1
    BY ByWorkIs
  <2> HIDE DEF s
  <2>2. Len(s) \in Nat
    BY <2>1
  <2>3. (Len(s) + 1) \div 2 \in 1..Len(s) /\ (Len(s) \div 2) + 1 \in 1..(Len(s) + 1)
    BY <2>1, <2>2
  <2>4. CASE (Len(s) \div 2) + 1 \in 1..Len(s)
    <3>1. s[(Len(s) + 1) \div 2] \in Ids /\ s[(Len(s) \div 2) + 1] \in Ids
      BY <2>1, <2>3, <2>4
    <3>2. Row[s[(Len(s) + 1) \div 2]].occ \in Int /\ Row[s[(Len(s) \div 2) + 1]].occ \in Int
      BY <3>1, EventIds
    <3> QED
      BY <3>2 DEF MedianAge, s
  <2>5. (Len(s) \div 2) + 1 \in 1..Len(s)
    BY <2>1, <2>2
  <2> QED
    BY <2>4, <2>5
<1>3. f1 \in Int /\ f2 \in Int /\ f3 \in Int /\ f4 \in Int
  BY DEF Flag
<1>4. -Cardinality(c.ids) \in Int
  <2>1. Cardinality(c.ids) \in Nat
    BY EventIds, FS_Subset, FS_CardinalityType
  <2> QED
    BY <2>1
<1> DEFINE f5 == -Cardinality(c.ids)
<1>5. k = <<f1, f2, f3, f4, f5, age, least>>
  BY DEF RankKey
<1>6. f5 \in Int
  BY <1>4
<1> HIDE DEF f1, f2, f3, f4, f5, age, least, k
<1>7. k \in [1..7 -> Int] /\ k[7] = least
  BY <1>1, <1>2, <1>3, <1>5, <1>6
<1> QED
  BY <1>1, <1>7 DEF k

LEMMA RankIs ==
  ASSUME EventBounds, WorkBounds, NEW M, Apart(M), NEW q, q.until \in Int, NEW demoted
  PROVE  Lists(RankClusters(M, q, demoted), M)
<1> DEFINE key == [c \in M |-> RankKey(c, q, demoted)]
           R == {p \in M \X M : LexLess(key[p[1]], key[p[2]])}
           before == [x \in M |-> {y \in M : LexLess(RankKey(y, q, demoted), RankKey(x, q, demoted))}]
           s == RankClusters(M, q, demoted)
<1>1. IsFiniteSet(M) /\ \A c \in M : c.ids \in SUBSET Ids /\ c.ids # {}
  BY DEF Apart
<1>2. key \in [M -> [1..7 -> Int]]
  <2>1. \A c \in M : RankKey(c, q, demoted) \in [1..7 -> Int]
    BY <1>1, RankKeyIs
  <2> QED
    BY <2>1
<1>3. ASSUME NEW x \in M, NEW y \in M, key[x] = key[y] PROVE x = y
  <2>1. RankKey(x, q, demoted)[7] \in x.ids /\ RankKey(y, q, demoted)[7] \in y.ids
    BY <1>1, RankKeyIs
  <2>2. x.ids \cap y.ids # {}
    BY <1>3, <2>1
  <2> QED
    BY <2>2 DEF Apart
<1>4. \A x, y \in M : <<x, y>> \in R <=> LexLess(key[x], key[y])
  OBVIOUS
<1>5. \A x \in M : key[x] = RankKey(x, q, demoted)
  OBVIOUS
<1> HIDE DEF key, R
<1>6. Ranks(M, R)
  <2>1. 7 \in Nat
    OBVIOUS
  <2> QED
    BY <1>2, <1>3, <1>4, <2>1, LexRanks
<1>7. \A x \in M : before[x] = {y \in M : <<y, x>> \in R}
  BY <1>4, <1>5
<1>8. Sorts(s, M, before)
  <2> DEFINE pick(n) == CHOOSE x \in M : Cardinality({y \in M : LexLess(RankKey(y, q, demoted), RankKey(x, q, demoted))}) = n - 1
  <2>1. s = [n \in 1..Cardinality(M) |-> pick(n)]
    BY DEF RankClusters, Sorted
  <2>2. ASSUME NEW n \in 1..Cardinality(M), NEW x \in M, Cardinality(before[x]) = n - 1
       PROVE  pick(n) \in M /\ Cardinality(before[pick(n)]) = n - 1
    <3>1. \A z \in M : before[z] = {y \in M : LexLess(RankKey(y, q, demoted), RankKey(z, q, demoted))}
      OBVIOUS
    <3>2. \E z \in M : Cardinality({y \in M : LexLess(RankKey(y, q, demoted), RankKey(z, q, demoted))}) = n - 1
      BY <2>2, <3>1
    <3> QED
      BY <3>1, <3>2
  <2> HIDE DEF pick, before, s
  <2>3. s = [n \in 1..Cardinality(M) |-> s[n]] /\ \A n \in 1..Cardinality(M) : s[n] = pick(n)
    BY <2>1
  <2> QED
    BY <2>2, <2>3 DEF Sorts
<1> HIDE DEF before, s
<1>9. /\ s \in Seq(M) /\ Len(s) = Cardinality(M) /\ ToSet(s) = M
      /\ \A i, j \in 1..Len(s) : s[i] = s[j] => i = j
  <2>1. IsFiniteSet(M)
    BY <1>1
  <2> QED
    BY <1>6, <1>7, <1>8, <2>1, SortedIs
<1> QED
  BY <1>9 DEF s, Lists, Once

LEMMA DerivedAre ==
  ASSUME EventBounds, WorkBounds, NEW trees \in SUBSET (SUBSET Ids), {} \notin trees,
         \A s, t \in trees : s \cap t # {} => s = t, NEW edges
  PROVE  /\ Apart(DeriveClusters(trees, edges))
         /\ {c.ids : c \in DeriveClusters(trees, edges)} = trees
         /\ \A c \in DeriveClusters(trees, edges) : c = DeriveCluster(c.ids, edges)
<1> DEFINE f == [t \in trees |-> DeriveCluster(t, edges)]
           M == DeriveClusters(trees, edges)
<1>1. IsFiniteSet(trees)
  BY EventIds, FS_SUBSET, FS_Subset
<1>2. M = {f[t] : t \in trees}
  BY DEF DeriveClusters
<1>3. \A t \in trees : f[t].ids = t /\ f[t] = DeriveCluster(t, edges)
  BY DEF DeriveCluster
<1> HIDE DEF f
<1>4. IsFiniteSet(M)
  BY <1>1, <1>2, ImageFinite
<1> HIDE DEF M
<1>5. ASSUME NEW c \in M PROVE c.ids \in SUBSET Ids /\ c.ids # {} /\ c.ids \in trees /\ c = f[c.ids]
  <2>1. PICK t \in trees : c = f[t]
    BY <1>2
  <2>2. c.ids = t
    BY <1>3, <2>1
  <2> QED
    BY <2>1, <2>2
<1>6. \A c, d \in M : c.ids \cap d.ids # {} => c = d
  BY <1>5
<1>7. {c.ids : c \in M} = trees
  BY <1>2, <1>3
<1> QED
  BY <1>3, <1>4, <1>5, <1>6, <1>7 DEF Apart, M

LEMMA ApartPart ==
  ASSUME NEW M, Apart(M), NEW D \in SUBSET M PROVE Apart(D)
BY FS_Subset DEF Apart

(* How many atoms the first clusters of a list have.                         *)
SizesTo(f, s) ==
  f[0] = 0 /\ \A n \in 1..Len(s) : f[n] = f[n - 1] + Cardinality(s[n].ids)

LEMMA SizeSteps ==
  ASSUME NEW M, \A c \in M : IsFiniteSet(c.ids), NEW s \in Seq(M)
  PROVE  \E f \in [0..Len(s) -> Nat] : SizesTo(f, s) /\ SizeOf(s) = f[Len(s)]
<1> DEFINE N == Len(s)
           Val(u, n) == IF n = 0 THEN 0 ELSE u[n - 1] + Cardinality(s[n].ids)
           U == CHOOSE u : u = [n \in 0..N |-> Val(u, n)]
           step == [x \in (1..N) \X Nat |-> x[2] + Cardinality(s[x[1]].ids)]
<1>1. N \in Nat /\ \A n \in 1..N : s[n] \in M
  OBVIOUS
<1>2. SizeOf(s) = U[N]
  BY DEF SizeOf
<1>3. ASSUME NEW n \in 1..N PROVE Cardinality(s[n].ids) \in Nat
  <2>1. IsFiniteSet(s[n].ids)
    BY <1>1
  <2> QED
    BY <2>1, FS_CardinalityType
<1> HIDE DEF N
<1>4. step \in [(1..N) \X Nat -> Nat]
  <2>1. ASSUME NEW x \in (1..N) \X Nat PROVE x[2] + Cardinality(s[x[1]].ids) \in Nat
    <3>1. x[1] \in 1..N /\ x[2] \in Nat
      OBVIOUS
    <3>2. Cardinality(s[x[1]].ids) \in Nat
      BY <1>3, <3>1
    <3> QED
      BY <3>1, <3>2
  <2> QED
    BY <2>1
<1>5. 0 \in Nat
  OBVIOUS
<1>6. PICK g \in [0..N -> Nat] : StepsTo(g, N, 0, step)
  <2> HIDE DEF step, U, Val
  <2> QED
    BY <1>1, <1>4, <1>5, BoundedRecursion
<1>7. ASSUME NEW n \in 1..N PROVE g[n] = g[n - 1] + Cardinality(s[n].ids)
  <2>1. n - 1 \in 0..N
    BY <1>1
  <2>2. <<n, g[n - 1]>> \in (1..N) \X Nat
    BY <2>1
  <2>3. step[<<n, g[n - 1]>>] = g[n - 1] + Cardinality(s[n].ids)
    BY <2>2
  <2> HIDE DEF step
  <2> QED
    BY <1>6, <2>3 DEF StepsTo
<1>8. g = [n \in 0..N |-> Val(g, n)]
  <2>1. \A n \in 0..N : n # 0 => n \in 1..N
    BY <1>1
  <2>2. \A n \in 0..N : g[n] = Val(g, n)
    BY <1>6, <1>7, <2>1 DEF StepsTo
  <2> HIDE DEF Val
  <2> QED
    BY <2>2
<1>9. U = [n \in 0..N |-> Val(U, n)]
  <2> HIDE DEF Val
  <2> QED
    BY <1>8
<1> HIDE DEF U, step
<1>10. \A n \in 0..N : U[n] = Val(U, n)
  <2> HIDE DEF Val
  <2> QED
    BY <1>9
<1> DEFINE Good == {n \in Nat : n <= N => U[n] = g[n]}
<1>11. 0 \in Good
  <2>1. U[0] = 0 /\ g[0] = 0
    BY <1>1, <1>6, <1>10 DEF StepsTo
  <2> QED
    BY <2>1
<1>12. ASSUME NEW n \in Nat, n \in Good PROVE n + 1 \in Good
  <2> SUFFICES ASSUME n + 1 <= N PROVE U[n + 1] = g[n + 1]
    BY <1>12
  <2>1. U[n] = g[n] /\ n + 1 \in 0..N /\ n + 1 # 0 /\ (n + 1) - 1 = n /\ n + 1 \in 1..N
    BY <1>1, <1>12
  <2>2. U[n + 1] = U[n] + Cardinality(s[n + 1].ids)
    BY <1>10, <2>1
  <2> QED
    BY <1>7, <2>1, <2>2
<1>13. N \in Good
  <2> HIDE DEF Good
  <2> QED
    BY <1>1, <1>11, <1>12, SetInduction
<1>14. U[N] = g[N]
  BY <1>1, <1>13
<1>15. SizesTo(g, s)
  BY <1>6, <1>7 DEF SizesTo, StepsTo, N
<1> QED
  BY <1>2, <1>14, <1>15 DEF N

LEMMA SizesAre ==
  ASSUME NEW M, \A c \in M : IsFiniteSet(c.ids), NEW s \in Seq(M)
  PROVE  \E f \in [0..Len(s) -> Nat] :
           /\ SizesTo(f, s) /\ SizeOf(s) = f[Len(s)]
           /\ \A n \in 1..Len(s) : SizeOf(First(s, n)) = f[n]
<1>1. PICK f \in [0..Len(s) -> Nat] : SizesTo(f, s) /\ SizeOf(s) = f[Len(s)]
  BY SizeSteps
<1>2. ASSUME NEW n \in 1..Len(s) PROVE SizeOf(First(s, n)) = f[n]
  <2> DEFINE t == First(s, n)
  <2>1. n \in Nat /\ n <= Len(s) /\ Len(s) \in Nat
    OBVIOUS
  <2>2. /\ t \in Seq(M) /\ Len(t) = n
        /\ \A i \in 1..n : t[i] = s[i]
    <3>1. /\ t \in Seq(M) /\ Len(t) = IF n < Len(s) THEN n ELSE Len(s)
          /\ \A i \in 1..Len(t) : t[i] = s[i]
      BY <2>1, FirstOf
    <3> QED
      BY <2>1, <3>1
  <2> HIDE DEF t
  <2>3. PICK g \in [0..n -> Nat] : SizesTo(g, t) /\ SizeOf(t) = g[n]
    BY <2>2, SizeSteps
  <2> DEFINE Good == {m \in Nat : m <= n => g[m] = f[m]}
  <2>4. 0 \in Good
    BY <1>1, <2>3 DEF SizesTo
  <2>5. ASSUME NEW m \in Nat, m \in Good PROVE m + 1 \in Good
    <3> SUFFICES ASSUME m + 1 <= n PROVE g[m + 1] = f[m + 1]
      BY <2>5
    <3>1. m + 1 \in 1..n /\ m + 1 \in 1..Len(s) /\ (m + 1) - 1 = m /\ g[m] = f[m]
      BY <2>1, <2>5
    <3>2. g[m + 1] = g[m] + Cardinality(t[m + 1].ids)
      BY <2>2, <2>3, <3>1 DEF SizesTo
    <3>3. f[m + 1] = f[m] + Cardinality(s[m + 1].ids)
      BY <1>1, <3>1 DEF SizesTo
    <3> QED
      BY <2>2, <3>1, <3>2, <3>3
  <2>6. n \in Good
    <3> HIDE DEF Good
    <3> QED
      BY <2>1, <2>4, <2>5, SetInduction
  <2> QED
    BY <2>3, <2>6 DEF t
<1> QED
  BY <1>1, <1>2

(* Parts that are disjoint have as many elements as all their sizes say.     *)
LEMMA PartsCount ==
  ASSUME NEW N \in Nat, NEW k \in [1..N -> SUBSET Ids], IsFiniteSet(Ids),
         \A i, j \in 1..N : k[i] \cap k[j] # {} => i = j,
         NEW b \in [0..N -> Nat], b[0] = 0, \A n \in 1..N : b[n] = b[n - 1] + Cardinality(k[n])
  PROVE  Cardinality(UNION {k[n] : n \in 1..N}) = b[N]
<1> DEFINE U(n) == UNION {k[m] : m \in 1..n}
           Good == {n \in Nat : n <= N => IsFiniteSet(U(n)) /\ Cardinality(U(n)) = b[n]}
<1>1. 0 \in Good
  <2>1. U(0) = {}
    OBVIOUS
  <2> QED
    BY <2>1, FS_EmptySet
<1>2. ASSUME NEW n \in Nat, n \in Good PROVE n + 1 \in Good
  <2> SUFFICES ASSUME n + 1 <= N PROVE IsFiniteSet(U(n + 1)) /\ Cardinality(U(n + 1)) = b[n + 1]
    BY <1>2
  <2>1. IsFiniteSet(U(n)) /\ Cardinality(U(n)) = b[n] /\ n + 1 \in 1..N /\ (n + 1) - 1 = n
    BY <1>2
  <2>2. 1..(n + 1) = (1..n) \cup {n + 1}
    BY <1>2
  <2>3. U(n + 1) = U(n) \cup k[n + 1]
    BY <2>2
  <2>4. U(n) \cap k[n + 1] = {}
    <3>1. \A m \in 1..n : m \in 1..N /\ m # n + 1
      BY <2>1
    <3>2. \A m \in 1..n : k[m] \cap k[n + 1] = {}
      BY <2>1, <3>1
    <3> QED
      BY <3>2
  <2>5. IsFiniteSet(k[n + 1])
    BY <2>1, FS_Subset
  <2>6. b[n + 1] = b[n] + Cardinality(k[n + 1])
    BY <2>1
  <2> DEFINE A == U(n)
             B == k[n + 1]
  <2>7. IsFiniteSet(A \cup B) /\ Cardinality(A \cup B) = Cardinality(A) + Cardinality(B)
    <3>1. IsFiniteSet(A) /\ IsFiniteSet(B) /\ A \cap B = {}
      BY <2>1, <2>4, <2>5
    <3> HIDE DEF A, B
    <3>2. /\ IsFiniteSet(A \cup B)
          /\ Cardinality(A \cup B) = Cardinality(A) + Cardinality(B) - Cardinality(A \cap B)
      BY <3>1, FS_Union
    <3>3. Cardinality(A \cap B) = 0 /\ Cardinality(A) \in Nat /\ Cardinality(B) \in Nat
      BY <3>1, FS_EmptySet, FS_CardinalityType
    <3> QED
      BY <3>2, <3>3
  <2> HIDE DEF U
  <2> QED
    BY <2>1, <2>3, <2>6, <2>7
<1>3. N \in Good
  <2> HIDE DEF Good
  <2> QED
    BY <1>1, <1>2, SetInduction
<1> QED
  BY <1>3

LEMMA NewestLeftIs ==
  ASSUME EventBounds, WorkBounds, NEW T \in SUBSET Ids, NEW d \in Nat, d <= Cardinality(T)
  PROVE  /\ NewestLeft(T, d) \subseteq T
         /\ Cardinality(NewestLeft(T, d)) = Cardinality(T) - d
         /\ \A i \in NewestLeft(T, d), j \in T : EarlierWork(i, j) => j \in NewestLeft(T, d)
<1> DEFINE s == ByWork(T)
           u == First(s, d)
           A == ToSet(u)
<1>1. IsFiniteSet(T) /\ Cardinality(T) \in Nat
  BY EventIds, FS_Subset, FS_CardinalityType
<1>2. Lists(s, T) /\ \A i, j \in 1..Len(s) : i < j => EarlierWork(s[i], s[j])
  BY ByWorkLists, ByWorkIs
<1>3. NewestLeft(T, d) = T \ A
  BY DEF NewestLeft
<1> HIDE DEF s
<1>4. s \in Seq(T) /\ Len(s) = Cardinality(T)
  BY <1>2 DEF Lists
<1>5. u \in Seq(T) /\ Once(u) /\ Len(u) = d
  <2>1. /\ u \in Seq(T) /\ Once(u)
        /\ Len(u) = IF d < Len(s) THEN d ELSE Len(s)
    BY <1>1, <1>2, FirstLists
  <2> QED
    BY <1>1, <1>4, <2>1
<1>6. \A i \in 1..d : i \in 1..Len(s) /\ u[i] = s[i]
  BY <1>4, <1>5, FirstOf
<1> HIDE DEF u
<1>7. Lists(u, A) /\ A \subseteq T /\ IsFiniteSet(A)
  BY <1>1, <1>5, OnceLists
<1>8. Cardinality(A) = d
  BY <1>5, <1>7 DEF Lists
<1>9. \A x : x \in A <=> \E i \in 1..d : u[i] = x
  BY <1>5, ElementsOf
<1> HIDE DEF A
<1>10. Cardinality(T \ A) = Cardinality(T) - d
  <2>1. T \cap A = A
    BY <1>7
  <2> QED
    BY <1>1, <1>8, <2>1, FS_Difference
<1>11. ASSUME NEW i \in T \ A, NEW j \in T, EarlierWork(i, j) PROVE j \in T \ A
  <2> SUFFICES ASSUME j \in A PROVE FALSE
    OBVIOUS
  <2>1. PICK m \in 1..d : s[m] = j
    BY <1>6, <1>9
  <2>2. PICK n \in 1..Len(s) : s[n] = i
    <3>1. ToSet(s) = T /\ s \in Seq(T)
      BY <1>2 DEF Lists
    <3> QED
      BY <3>1, ElementsOf
  <2>3. n \notin 1..d
    BY <1>6, <1>9, <1>11, <2>2
  <2>4. m < n /\ m \in 1..Len(s) /\ n \in 1..Len(s)
    <3>1. n \in Nat /\ m \in Nat /\ n >= 1
      BY <1>4
    <3> QED
      BY <1>6, <2>1, <2>2, <2>3, <3>1
  <2>5. EarlierWork(j, i)
    BY <1>2, <2>1, <2>2, <2>4
  <2>6. i \in Nat /\ j \in Nat /\ Row[i].occ \in Nat /\ Row[j].occ \in Nat
    BY EventIds
  <2> QED
    BY <1>11, <2>5, <2>6 DEF EarlierWork
<1> QED
  BY <1>3, <1>10, <1>11

(* What is cut from M: of some of its sets the last elements.                *)
TailOfOne(k, M) ==
  \E c \in M : k \subseteq c.ids /\ \A i \in k, j \in c.ids : EarlierWork(i, j) => j \in k

LEMMA TruncateIs ==
  ASSUME EventBounds, WorkBounds, NEW M, Apart(M), NEW s, Lists(s, M), NEW limit \in Nat
  PROVE  /\ Truncate(s, limit) \in SUBSET (SUBSET Ids) /\ {} \notin Truncate(s, limit)
         /\ \A k, l \in Truncate(s, limit) : k \cap l # {} => k = l
         /\ \A k \in Truncate(s, limit) : TailOfOne(k, M)
         /\ Cardinality(UNION Truncate(s, limit)) = Smallest(limit, SizeOf(s))
         /\ \A n \in 1..Len(s) :
              s[n].ids \cap UNION Truncate(s, limit) # {} =>
                \A m \in 1..(n - 1) : s[m].ids \subseteq UNION Truncate(s, limit)
<1> DEFINE N == Len(s)
           part(n) == NewestLeft(s[n].ids, Drop(s, n, limit))
           k == [n \in 1..N |-> part(n)]
           K == Truncate(s, limit)
<1>1. s \in Seq(M) /\ N \in Nat /\ Once(s) /\ \A n \in 1..N : s[n] \in M
  BY DEF Lists
<1>2. \A c \in M : IsFiniteSet(c.ids) /\ c.ids \in SUBSET Ids /\ c.ids # {}
  BY EventIds, FS_Subset DEF Apart
<1>3. PICK f \in [0..N -> Nat] :
        /\ SizesTo(f, s) /\ SizeOf(s) = f[N]
        /\ \A n \in 1..N : SizeOf(First(s, n)) = f[n]
  BY <1>1, <1>2, SizesAre
<1> HIDE DEF N
<1> DEFINE b == [n \in 0..N |-> IF f[n] < limit THEN f[n] ELSE limit]
<1>4. ASSUME NEW n \in 1..N
      PROVE  /\ f[n - 1] \in Nat /\ f[n] \in Nat /\ Cardinality(s[n].ids) \in Nat
             /\ f[n] = f[n - 1] + Cardinality(s[n].ids)
             /\ Drop(s, n, limit) \in Nat /\ Drop(s, n, limit) <= Cardinality(s[n].ids)
             /\ b[n] = b[n - 1] + (Cardinality(s[n].ids) - Drop(s, n, limit))
             /\ f[n] <= limit => Drop(s, n, limit) = 0
             /\ f[n - 1] >= limit => Drop(s, n, limit) = Cardinality(s[n].ids)
  <2> DEFINE z == Cardinality(s[n].ids)
  <2>1. z \in Nat
    BY <1>1, <1>2, FS_CardinalityType
  <2>2. n \in 0..N /\ n - 1 \in 0..N
    BY <1>1
  <2>3. f[n - 1] \in Nat /\ f[n] \in Nat /\ f[n] = f[n - 1] + z
    BY <1>3, <2>2 DEF SizesTo, N
  <2>4. Drop(s, n, limit) = Largest(0, Smallest(z, f[n] - limit))
    BY <1>3 DEF Drop
  <2> HIDE DEF z
  <2>5. Drop(s, n, limit) = IF z < f[n] - limit THEN z ELSE IF f[n] > limit THEN f[n] - limit ELSE 0
    BY <2>1, <2>3, <2>4 DEF Largest, Smallest
  <2>6. /\ b[n] = IF f[n] < limit THEN f[n] ELSE limit
        /\ b[n - 1] = IF f[n - 1] < limit THEN f[n - 1] ELSE limit
    BY <2>2
  <2> HIDE DEF b
  <2>7. /\ Drop(s, n, limit) \in Nat /\ Drop(s, n, limit) <= z
        /\ b[n] = b[n - 1] + (z - Drop(s, n, limit))
        /\ f[n] <= limit => Drop(s, n, limit) = 0
        /\ f[n - 1] >= limit => Drop(s, n, limit) = z
    BY <2>1, <2>3, <2>5, <2>6
  <2> QED
    BY <2>1, <2>3, <2>7 DEF z
<1>5. ASSUME NEW n \in 1..N
      PROVE  /\ k[n] \subseteq s[n].ids /\ k[n] \in SUBSET Ids
             /\ Cardinality(k[n]) = Cardinality(s[n].ids) - Drop(s, n, limit)
             /\ \A i \in k[n], j \in s[n].ids : EarlierWork(i, j) => j \in k[n]
  <2>1. s[n].ids \in SUBSET Ids
    BY <1>1, <1>2
  <2>2. k[n] = NewestLeft(s[n].ids, Drop(s, n, limit))
    OBVIOUS
  <2> HIDE DEF k
  <2>3. Drop(s, n, limit) \in Nat /\ Drop(s, n, limit) <= Cardinality(s[n].ids)
    BY <1>4
  <2>4. /\ k[n] \subseteq s[n].ids
        /\ Cardinality(k[n]) = Cardinality(s[n].ids) - Drop(s, n, limit)
        /\ \A i \in k[n], j \in s[n].ids : EarlierWork(i, j) => j \in k[n]
    BY <2>1, <2>2, <2>3, NewestLeftIs
  <2> QED
    BY <2>1, <2>4
<1>6. K = {k[n] : n \in 1..N} \ {{}}
  <2>1. DOMAIN s = 1..N
    BY <1>1 DEF N
  <2> QED
    BY <2>1 DEF Truncate
<1> HIDE DEF k, K
<1>7. ASSUME NEW i \in 1..N, NEW j \in 1..N, s[i].ids \cap s[j].ids # {} PROVE i = j
  <2>1. s[i] = s[j]
    BY <1>1, <1>7 DEF Apart
  <2> QED
    BY <1>1, <2>1 DEF Once, N
<1>8. \A i, j \in 1..N : k[i] \cap k[j] # {} => i = j
  BY <1>5, <1>7
<1>9. UNION K = UNION {k[n] : n \in 1..N}
  BY <1>6
<1>10. Cardinality(UNION K) = Smallest(limit, SizeOf(s))
  <2>1. k \in [1..N -> SUBSET Ids]
    <3>1. k = [n \in 1..N |-> k[n]]
      BY DEF k
    <3> QED
      BY <1>5, <3>1
  <2>2. b \in [0..N -> Nat]
    BY <1>3
  <2>3. b[0] = 0
    BY <1>1, <1>3 DEF SizesTo
  <2>4. b[N] = Smallest(limit, SizeOf(s))
    <3>1. b[N] = IF f[N] < limit THEN f[N] ELSE limit
      BY <1>1
    <3>2. f[N] \in Nat
      BY <1>1, <1>3
    <3> HIDE DEF b
    <3> QED
      BY <1>3, <3>1, <3>2 DEF Smallest
  <2> HIDE DEF b
  <2>5. \A n \in 1..N : b[n] = b[n - 1] + Cardinality(k[n])
    BY <1>4, <1>5
  <2>6. IsFiniteSet(Ids)
    BY EventIds
  <2>7. Cardinality(UNION {k[n] : n \in 1..N}) = b[N]
    BY <1>1, <1>8, <2>1, <2>2, <2>3, <2>5, <2>6, PartsCount
  <2> QED
    BY <1>9, <2>4, <2>7
<1>11. ASSUME NEW n \in 1..N, s[n].ids \cap UNION K # {}, NEW m \in 1..(n - 1)
       PROVE  s[m].ids \subseteq UNION K
  <2>1. PICK i \in s[n].ids : i \in UNION K
    BY <1>11
  <2>2. PICK l \in 1..N : i \in k[l]
    BY <1>9, <2>1
  <2>3. l = n
    BY <1>5, <1>7, <2>1, <2>2
  <2>4. f[n - 1] < limit
    <3>1. k[n] # {} /\ IsFiniteSet(k[n])
      BY <1>5, <2>2, <2>3, EventIds, FS_Subset
    <3>2. Cardinality(k[n]) # 0
      BY <3>1, FS_EmptySet
    <3>3. /\ f[n - 1] \in Nat /\ Cardinality(s[n].ids) \in Nat
          /\ f[n - 1] >= limit => Drop(s, n, limit) = Cardinality(s[n].ids)
      BY <1>4
    <3>4. Cardinality(k[n]) = Cardinality(s[n].ids) - Drop(s, n, limit)
      BY <1>5
    <3> HIDE DEF b
    <3> QED
      BY <3>2, <3>3, <3>4
  <2> DEFINE Low == {d \in Nat : d <= n - 1 => f[(n - 1) - d] < limit}
  <2>5. 0 \in Low
    BY <2>4
  <2>6. ASSUME NEW d \in Nat, d \in Low PROVE d + 1 \in Low
    <3> SUFFICES ASSUME d + 1 <= n - 1 PROVE f[(n - 1) - (d + 1)] < limit
      BY <2>6
    <3> DEFINE p == (n - 1) - d
    <3>1. p \in 1..N /\ (n - 1) - (d + 1) = p - 1 /\ d <= n - 1
      BY <1>1
    <3>2. f[p] < limit
      BY <2>6, <3>1
    <3> HIDE DEF p
    <3>3. f[p - 1] \in Nat /\ f[p] = f[p - 1] + Cardinality(s[p].ids) /\ Cardinality(s[p].ids) \in Nat
      BY <1>4, <3>1
    <3> QED
      BY <3>1, <3>2, <3>3
  <2>7. Nat \subseteq Low
    <3> HIDE DEF Low
    <3> QED
      BY <2>5, <2>6, SetInduction
  <2>8. f[m] < limit /\ m \in 1..N
    <3>1. (n - 1) - m \in Nat /\ (n - 1) - m <= n - 1 /\ (n - 1) - ((n - 1) - m) = m /\ m \in 1..N
      BY <1>1
    <3>2. (n - 1) - m \in Low
      BY <2>7, <3>1
    <3> QED
      BY <3>1, <3>2
  <2>9. Drop(s, m, limit) = 0 /\ Cardinality(s[m].ids) \in Nat
    <3>1. f[m] \in Nat /\ Cardinality(s[m].ids) \in Nat /\ (f[m] <= limit => Drop(s, m, limit) = 0)
      BY <1>4, <2>8
    <3> HIDE DEF b
    <3> QED
      BY <2>8, <3>1
  <2>10. k[m] = s[m].ids
    <3>0. Cardinality(k[m]) = Cardinality(s[m].ids) - Drop(s, m, limit)
      BY <1>5, <2>8
    <3>1. Cardinality(k[m]) = Cardinality(s[m].ids)
      BY <2>9, <3>0
    <3>2. IsFiniteSet(s[m].ids) /\ k[m] \in SUBSET s[m].ids
      BY <1>1, <1>2, <1>5, <2>8
    <3> QED
      BY <3>1, <3>2, FS_Subset
  <2> QED
    BY <1>9, <2>8, <2>10
<1>12. K \in SUBSET (SUBSET Ids) /\ {} \notin K
  BY <1>5, <1>6
<1>13. \A x, y \in K : x \cap y # {} => x = y
  BY <1>6, <1>8
<1>14. \A x \in K : TailOfOne(x, M)
  <2> SUFFICES ASSUME NEW n \in 1..N PROVE TailOfOne(k[n], M)
    BY <1>6
  <2>1. s[n] \in M
    BY <1>1
  <2> QED
    BY <1>5, <2>1 DEF TailOfOne
<1> QED
  BY <1>10, <1>11, <1>12, <1>13, <1>14 DEF K, N

LEMMA KeptCount ==
  ASSUME EventBounds, WorkBounds, NEW M, Apart(M), NEW s, Lists(s, M)
  PROVE  SizeOf(s) \in Nat /\ Cardinality(UNION {c.ids : c \in M}) = SizeOf(s)
<1> DEFINE N == Len(s)
           k == [n \in 1..N |-> s[n].ids]
<1>1. s \in Seq(M) /\ N \in Nat /\ Once(s) /\ \A n \in 1..N : s[n] \in M
  BY DEF Lists
<1>2. \A c \in M : IsFiniteSet(c.ids) /\ c.ids \in SUBSET Ids /\ c.ids # {}
  BY EventIds, FS_Subset DEF Apart
<1>3. PICK f \in [0..N -> Nat] : SizesTo(f, s) /\ SizeOf(s) = f[N]
  BY <1>1, <1>2, SizesAre
<1>4. ASSUME NEW i \in 1..N, NEW j \in 1..N, k[i] \cap k[j] # {} PROVE i = j
  <2>1. s[i] = s[j]
    BY <1>1, <1>4 DEF Apart
  <2> QED
    BY <1>1, <2>1 DEF Once
<1>5. k \in [1..N -> SUBSET Ids]
  BY <1>1, <1>2
<1>6. f[0] = 0 /\ \A n \in 1..N : f[n] = f[n - 1] + Cardinality(k[n])
  BY <1>3 DEF SizesTo
<1>7. IsFiniteSet(Ids)
  BY EventIds
<1>8. UNION {c.ids : c \in M} = UNION {k[n] : n \in 1..N}
  <2>1. \A c \in M : \E n \in 1..N : s[n] = c
    <3>1. ToSet(s) = M
      BY DEF Lists
    <3> QED
      BY <1>1, <3>1, ElementsOf
  <2> QED
    BY <1>1, <2>1, SMTT(30)
<1> HIDE DEF k, N
<1>9. Cardinality(UNION {k[n] : n \in 1..N}) = f[N]
  BY <1>1, <1>3, <1>4, <1>5, <1>6, <1>7, PartsCount
<1>10. f[N] \in Nat
  BY <1>1, <1>3
<1> QED
  BY <1>3, <1>8, <1>9, <1>10

LEMMA SoonestIn ==
  ASSUME EventBounds, WorkBounds, NEW T \in SUBSET Ids
  PROVE  Soonest(T) \subseteq T
<1> DEFINE s == ByWork(T)
<1>1. s \in Seq(T)
  BY ByWorkIs
<1>2. Soonest(T) = IF s = <<>> THEN {} ELSE {Head(s)}
  BY DEF Soonest
<1> HIDE DEF s
<1>3. s # <<>> => Head(s) \in T
  BY <1>1
<1> QED
  BY <1>2, <1>3

HintKinds == {"question", "reply", "todo", "followup"}

LEMMA ResolvedIn ==
  ASSUME EventBounds, WorkBounds, NEW T \in SUBSET Ids, NEW i \in T, NEW kind \in HintKinds
  PROVE  ResolvedBy(T, i, kind) \subseteq T
<1>1. LaterTalk(T, i) \subseteq T
  BY DEF LaterTalk
<1>2. /\ {j \in LaterTalk(T, i) : ~Row[j].asks} \in SUBSET T
      /\ {j \in LaterTalk(T, i) : Row[j].user} \in SUBSET T
      /\ {j \in T : EarlierWork(i, j) /\ Row[j].changes \cap Weak(i) # {}} \in SUBSET T
  BY <1>1
<1>3. \A D \in SUBSET T : Soonest(D) \subseteq D
  BY SoonestIn
<1>4. CASE kind = "question"
  <2> DEFINE D == {j \in LaterTalk(T, i) : ~Row[j].asks}
  <2>1. D \in SUBSET T
    BY <1>2
  <2>2. ResolvedBy(T, i, kind) = IF Row[i].answered THEN {i} ELSE Soonest(D)
    BY <1>4 DEF ResolvedBy
  <2> HIDE DEF D
  <2> QED
    BY <1>3, <2>1, <2>2
<1>5. CASE kind = "reply"
  <2> DEFINE D == {j \in LaterTalk(T, i) : Row[j].user}
  <2>1. D \in SUBSET T
    BY <1>2
  <2>2. ResolvedBy(T, i, kind) = Soonest(D)
    BY <1>5 DEF ResolvedBy
  <2> HIDE DEF D
  <2> QED
    BY <1>3, <2>1, <2>2
<1>6. CASE kind = "todo"
  <2> DEFINE D == {j \in T : EarlierWork(i, j) /\ Row[j].changes \cap Weak(i) # {}}
  <2>1. D \in SUBSET T
    BY <1>2
  <2>2. ResolvedBy(T, i, kind) = Soonest(D)
    BY <1>6 DEF ResolvedBy
  <2> HIDE DEF D
  <2> QED
    BY <1>3, <2>1, <2>2
<1>7. CASE kind = "followup"
  BY <1>7 DEF ResolvedBy
<1> QED
  BY <1>4, <1>5, <1>6, <1>7 DEF HintKinds

(* What comes later is the same in the tail of a cluster.                    *)
LEMMA ResolvedSame ==
  ASSUME NEW T, NEW k, k \subseteq T, NEW i \in k, \A j \in T : EarlierWork(i, j) => j \in k,
         NEW kind \in HintKinds
  PROVE  ResolvedBy(k, i, kind) = ResolvedBy(T, i, kind)
<1>1. LaterTalk(k, i) = LaterTalk(T, i)
  BY DEF LaterTalk
<1>2. {j \in k : EarlierWork(i, j) /\ Row[j].changes \cap Weak(i) # {}}
        = {j \in T : EarlierWork(i, j) /\ Row[j].changes \cap Weak(i) # {}}
  OBVIOUS
<1> QED
  BY <1>1, <1>2 DEF ResolvedBy, HintKinds

HintOf(S_, i, k) == [atom |-> i, kind |-> k, by |-> ResolvedBy(S_, i, k)]

LEMMA HintsAre ==
  ASSUME EventBounds, WorkBounds, NEW T \in SUBSET Ids
  PROVE  /\ \A h \in EnrichHints(T) : \E i \in T, k \in HintKinds : k \in Row[i].loops /\ h = HintOf(T, i, k)
         /\ \A i \in T : \A k \in Row[i].loops : HintOf(T, i, k) \in EnrichHints(T)
         /\ \A h \in EnrichHints(T) : h.atom \in T /\ h.by \subseteq T
<1>1. \A i \in T : Row[i].loops \subseteq HintKinds
  BY EventIds DEF WorkBounds, HintKinds
<1>2. EnrichHints(T) = UNION {{HintOf(T, i, k) : k \in Row[i].loops} : i \in T}
  BY DEF EnrichHints, HintOf
<1>3. \A i \in T, k \in HintKinds : HintOf(T, i, k).atom = i /\ HintOf(T, i, k).by \subseteq T
  BY ResolvedIn DEF HintOf
<1>4. ASSUME NEW h \in EnrichHints(T)
      PROVE  \E i \in T, k \in HintKinds : k \in Row[i].loops /\ h = HintOf(T, i, k)
  <2>1. PICK i \in T : h \in {HintOf(T, i, k) : k \in Row[i].loops}
    BY <1>2
  <2>2. PICK k \in Row[i].loops : h = HintOf(T, i, k)
    BY <2>1
  <2> QED
    BY <1>1, <2>2
<1>5. ASSUME NEW i \in T, NEW k \in Row[i].loops PROVE HintOf(T, i, k) \in EnrichHints(T)
  BY <1>2
<1>6. ASSUME NEW h \in EnrichHints(T) PROVE h.atom \in T /\ h.by \subseteq T
  BY <1>3, <1>4
<1> QED
  BY <1>4, <1>5, <1>6

(* What a cluster says of its members.                                       *)
LEMMA ClusterTells ==
  ASSUME EventBounds, WorkBounds, NEW T \in SUBSET Ids, NEW edges, NEW c, c = DeriveCluster(T, edges)
  PROVE  /\ c.ids = T /\ c.hints = EnrichHints(T)
         /\ \A h \in c.hints : h.atom \in T /\ h.by \subseteq T
         /\ UNION c.edges \subseteq T
<1>1. c.ids = T /\ c.hints = EnrichHints(T) /\ c.edges = EdgesWithin(edges, T)
  BY DEF DeriveCluster
<1>2. UNION EdgesWithin(edges, T) \subseteq T
  BY DEF EdgesWithin
<1> QED
  BY <1>1, <1>2, HintsAre

IsResponse(r) ==
  r = [seen |-> r.seen, turns |-> r.turns, clusters |-> r.clusters, total |-> r.total,
       since |-> r.since, until |-> r.until, truncated |-> r.truncated, all |-> r.all]

(* What every answer is: its clusters are listed once each and disjoint, and *)
(* the limit was applied as it should be.                                    *)
Sound(r, q, T) ==
  /\ IsResponse(r) /\ r.since = q.since /\ r.until = q.until
  /\ Lists(r.clusters, ToSet(r.clusters)) /\ Apart(ToSet(r.clusters))
  /\ \A c \in ToSet(r.clusters) : c.hints = EnrichHints(c.ids)
  /\ KeptOf(r) \subseteq T /\ Cardinality(KeptOf(r)) \in 0..q.limit
  /\ LimitHonest(r, q.limit, KeptOf(r))

LEMMA RankedIs ==
  ASSUME EventBounds, WorkBounds, NEW T \in SUBSET Ids, NEW graph \in ForestOf(T),
         NEW q, q.until \in Int
  PROVE  \E M : /\ M \subseteq DeriveClusters(graph.trees, graph.edges)
                /\ Lists(Ranked(graph, q), M) /\ Apart(M)
                /\ \A c \in M : c.ids \subseteq T /\ c = DeriveCluster(c.ids, graph.edges)
                /\ q.hint = {} => UNION {c.ids : c \in M} = T
<1> DEFINE D == DeriveClusters(graph.trees, graph.edges)
           M == {c \in D : Mentions(c.ids, q.hint)}
<1>1. graph.trees \in SUBSET (SUBSET T) /\ Splits(graph.trees, T)
  BY DEF ForestOf
<1>2. /\ Apart(D) /\ {c.ids : c \in D} = graph.trees
      /\ \A c \in D : c = DeriveCluster(c.ids, graph.edges)
  <2>1. graph.trees \in SUBSET (SUBSET Ids) /\ {} \notin graph.trees
        /\ \A s, t \in graph.trees : s \cap t # {} => s = t
    BY <1>1 DEF Splits
  <2> QED
    BY <2>1, DerivedAre
<1> HIDE DEF D
<1>3. Apart(M)
  <2>1. M \in SUBSET D
    OBVIOUS
  <2> HIDE DEF M
  <2> QED
    BY <1>2, <2>1, ApartPart
<1>4. Ranked(graph, q) = RankClusters(M, q, {})
  BY DEF Ranked, D
<1>5. q.hint = {} => UNION {c.ids : c \in M} = T
  <2> SUFFICES ASSUME q.hint = {} PROVE UNION {c.ids : c \in M} = T
    OBVIOUS
  <2>1. \A c \in D : c.ids # {} => Mentions(c.ids, q.hint)
    BY DEF Mentions
  <2>2. M = D
    BY <1>2, <2>1 DEF Apart
  <2>3. UNION graph.trees = T
    BY <1>1 DEF Splits
  <2> QED
    BY <1>2, <2>2, <2>3
<1>6. \A c \in M : c.ids \subseteq T /\ c = DeriveCluster(c.ids, graph.edges)
  BY <1>1, <1>2
<1> HIDE DEF M
<1>7. Lists(Ranked(graph, q), M)
  BY <1>3, <1>4, RankIs
<1>8. M \subseteq D
  BY DEF M
<1> QED
  BY <1>3, <1>5, <1>6, <1>7, <1>8 DEF D

LEMMA CutIs ==
  ASSUME EventBounds, WorkBounds, NEW T \in SUBSET Ids, NEW graph \in ForestOf(T), NEW seen,
         NEW q, q.until \in Int, q.limit \in Nat
  PROVE  /\ Sound(CutGraph(seen, T, graph, q), q, T)
         /\ CutGraph(seen, T, graph, q).seen = seen /\ CutGraph(seen, T, graph, q).turns = T
         /\ q.hint = {} /\ ~CutGraph(seen, T, graph, q).truncated => KeptOf(CutGraph(seen, T, graph, q)) = T
<1> DEFINE s == Ranked(graph, q)
           r == CutGraph(seen, T, graph, q)
           edges == graph.edges
<1>1. PICK M : /\ Lists(s, M) /\ Apart(M)
               /\ \A c \in M : c.ids \subseteq T /\ c = DeriveCluster(c.ids, edges)
               /\ q.hint = {} => UNION {c.ids : c \in M} = T
  BY RankedIs
<1> HIDE DEF s, edges
<1>2. SizeOf(s) \in Nat /\ Cardinality(UNION {c.ids : c \in M}) = SizeOf(s)
  BY <1>1, KeptCount
<1>3. ToSet(s) = M /\ s \in Seq(M) /\ DOMAIN s = 1..Len(s)
  BY <1>1 DEF Lists
<1>4. \A c \in M : c.ids \in SUBSET Ids /\ c = DeriveCluster(c.ids, edges)
  BY <1>1
<1>5. \A c \in M : (\A h \in c.hints : h.atom \in c.ids /\ h.by \subseteq c.ids) /\ UNION c.edges \subseteq c.ids
  BY <1>4, ClusterTells
<1>6. CASE SizeOf(s) <= q.limit
  <2>1. r = Response(seen, T, s, s, q, FALSE)
    BY <1>6 DEF CutGraph, Cut, s
  <2>2. /\ IsResponse(r) /\ r.since = q.since /\ r.until = q.until /\ r.clusters = s /\ r.all = s
        /\ r.seen = seen /\ r.turns = T
    BY <2>1 DEF Response, IsResponse
  <2> HIDE DEF r
  <2>3. KeptOf(r) = UNION {c.ids : c \in M}
    BY <1>3, <2>2 DEF KeptOf
  <2>4. Cardinality(KeptOf(r)) = Smallest(q.limit, SizeOf(s)) /\ Cardinality(KeptOf(r)) \in 0..q.limit
    BY <1>2, <1>6, <2>3 DEF Smallest
  <2>5. \A n \in 1..Len(s) : s[n].ids \subseteq KeptOf(r)
    BY <1>3, <2>3
  <2>6. LimitHonest(r, q.limit, KeptOf(r))
    <3>1. UNION {h.by : h \in HintsOf(s, KeptOf(r))} \subseteq KeptOf(r)
      <4> SUFFICES ASSUME NEW h \in HintsOf(s, KeptOf(r)) PROVE h.by \subseteq KeptOf(r)
        OBVIOUS
      <4>1. PICK c \in M : h \in c.hints
        BY <1>3 DEF HintsOf
      <4> QED
        BY <1>5, <2>3, <4>1
    <3>2. \A n \in DOMAIN s : \A m \in 1..(n - 1) : s[m].ids \subseteq KeptOf(r)
      BY <1>3, <2>5
    <3>3. \A c \in ToSet(s) : UNION c.edges \subseteq c.ids
      BY <1>3, <1>5
    <3> QED
      BY <2>2, <2>4, <3>1, <3>2, <3>3 DEF LimitHonest
  <2>7. KeptOf(r) \subseteq T
    BY <1>1, <2>3
  <2>8. \A c \in M : c.hints = EnrichHints(c.ids)
    BY <1>4, ClusterTells
  <2>9. Sound(r, q, T)
    BY <1>1, <1>3, <2>2, <2>4, <2>6, <2>7, <2>8 DEF Sound
  <2> QED
    BY <1>1, <2>2, <2>3, <2>9 DEF r
<1>7. CASE ~(SizeOf(s) <= q.limit)
  <2> DEFINE K == Truncate(s, q.limit)
             E == DeriveClusters(K, edges)
             t == RankClusters(E, q, {})
  <2>1. r = Response(seen, T, s, t, q, TRUE)
    BY <1>7 DEF CutGraph, Cut, s, edges
  <2>2. /\ IsResponse(r) /\ r.since = q.since /\ r.until = q.until /\ r.clusters = t /\ r.all = s
        /\ r.seen = seen /\ r.turns = T /\ r.truncated = TRUE
    BY <2>1 DEF Response, IsResponse
  <2>3. /\ K \in SUBSET (SUBSET Ids) /\ {} \notin K
        /\ \A k, l \in K : k \cap l # {} => k = l
        /\ \A k \in K : TailOfOne(k, M)
        /\ Cardinality(UNION K) = Smallest(q.limit, SizeOf(s))
        /\ \A n \in 1..Len(s) :
             s[n].ids \cap UNION K # {} => \A m \in 1..(n - 1) : s[m].ids \subseteq UNION K
    <3>1. Lists(s, M) /\ Apart(M) /\ q.limit \in Nat
      BY <1>1
    <3> DEFINE lim == q.limit
               cut == Truncate(s, lim)
    <3>2. lim \in Nat
      BY <3>1
    <3> HIDE DEF lim
    <3>3. /\ cut \in SUBSET (SUBSET Ids) /\ {} \notin cut
          /\ \A k, l \in cut : k \cap l # {} => k = l
          /\ \A k \in cut : TailOfOne(k, M)
          /\ Cardinality(UNION cut) = Smallest(lim, SizeOf(s))
          /\ \A n \in 1..Len(s) :
               s[n].ids \cap UNION cut # {} => \A m \in 1..(n - 1) : s[m].ids \subseteq UNION cut
      <4> HIDE DEF E, t, K, r
      <4> QED
        BY <3>1, <3>2, TruncateIs
    <3> HIDE DEF cut
    <3>4. K = cut /\ lim = q.limit
      BY DEF cut, lim
    <3> HIDE DEF K
    <3> QED
      BY <3>3, <3>4
  <2> HIDE DEF K, r
  <2>4. /\ Apart(E) /\ {c.ids : c \in E} = K
        /\ \A c \in E : c = DeriveCluster(c.ids, edges)
    BY <2>3, DerivedAre
  <2> HIDE DEF E
  <2>5. Lists(t, E) /\ ToSet(t) = E
    BY <2>4, RankIs DEF Lists
  <2>6. KeptOf(r) = UNION K
    BY <2>2, <2>4, <2>5 DEF KeptOf
  <2> HIDE DEF t
  <2>7. Cardinality(KeptOf(r)) = Smallest(q.limit, SizeOf(s)) /\ Cardinality(KeptOf(r)) \in 0..q.limit
    BY <1>2, <1>7, <2>3, <2>6 DEF Smallest
  <2>8. \A k \in K : \E c \in M : k \subseteq c.ids /\ \A i \in k, j \in c.ids : EarlierWork(i, j) => j \in k
    BY <2>3 DEF TailOfOne
  <2>9. \A c \in E : c.ids \in K /\ c.ids \in SUBSET Ids /\ c.hints = EnrichHints(c.ids)
              /\ (\A h \in c.hints : h.atom \in c.ids /\ h.by \subseteq c.ids) /\ UNION c.edges \subseteq c.ids
    <3>1. ASSUME NEW c \in E PROVE c.ids \in K /\ c.ids \in SUBSET Ids
      <4>1. c.ids \in {d.ids : d \in E}
        OBVIOUS
      <4>2. {d.ids : d \in E} = K
        BY <2>4
      <4>3. c.ids \in K
        BY <4>1, <4>2
      <4> QED
        BY <2>3, <4>3
    <3> QED
      BY <2>4, <3>1, ClusterTells
  <2>10. \A c \in M : c.hints = EnrichHints(c.ids)
    BY <1>4, ClusterTells
  <2>11. \A k \in K : \E c \in E : c.ids = k
    BY <2>4
  <2>12. HintsOf(t, KeptOf(r)) \subseteq HintsOf(s, KeptOf(r))
    <3> SUFFICES ASSUME NEW h \in HintsOf(t, KeptOf(r)) PROVE h \in HintsOf(s, KeptOf(r))
      OBVIOUS
    <3>1. PICK e \in E : h \in e.hints
      BY <2>5 DEF HintsOf
    <3>2. PICK c \in M : e.ids \subseteq c.ids /\ \A i \in e.ids, j \in c.ids : EarlierWork(i, j) => j \in e.ids
      BY <2>8, <2>9
    <3>3. PICK i \in e.ids, k \in HintKinds : k \in Row[i].loops /\ h = HintOf(e.ids, i, k)
      BY <2>9, <3>1, HintsAre
    <3>4. ResolvedBy(e.ids, i, k) = ResolvedBy(c.ids, i, k)
      BY <3>2, ResolvedSame
    <3>5. h = HintOf(c.ids, i, k)
      BY <3>3, <3>4 DEF HintOf
    <3>6. h \in c.hints
      BY <1>4, <2>10, <3>2, <3>3, <3>5, HintsAre
    <3>7. h.atom \in KeptOf(r)
      BY DEF HintsOf
    <3> QED
      BY <1>3, <3>6, <3>7 DEF HintsOf
  <2>13. HintsOf(s, KeptOf(r)) \subseteq HintsOf(t, KeptOf(r))
    <3> SUFFICES ASSUME NEW h \in HintsOf(s, KeptOf(r)) PROVE h \in HintsOf(t, KeptOf(r))
      OBVIOUS
    <3>1. PICK c \in M : h \in c.hints
      BY <1>3 DEF HintsOf
    <3>2. h.atom \in UNION K
      BY <2>6 DEF HintsOf
    <3>3. PICK i \in c.ids, k \in HintKinds : k \in Row[i].loops /\ h = HintOf(c.ids, i, k)
      BY <1>4, <2>10, <3>1, HintsAre
    <3>4. h.atom = i
      BY <3>3 DEF HintOf
    <3>5. PICK l \in K : i \in l
      BY <3>2, <3>4
    <3>6. PICK d \in M : l \subseteq d.ids /\ \A a \in l, j \in d.ids : EarlierWork(a, j) => j \in l
      BY <2>8
    <3>7. d = c
      BY <1>1, <3>3, <3>5, <3>6 DEF Apart
    <3>8. ResolvedBy(l, i, k) = ResolvedBy(c.ids, i, k)
      BY <3>5, <3>6, <3>7, ResolvedSame
    <3>9. h = HintOf(l, i, k)
      BY <3>3, <3>8 DEF HintOf
    <3>10. PICK e \in E : e.ids = l
      BY <2>11
    <3>11. h \in e.hints
      BY <2>9, <3>3, <3>5, <3>9, <3>10, HintsAre
    <3> QED
      BY <2>5, <2>6, <3>2, <3>11 DEF HintsOf
  <2>14. UNION {h.by : h \in HintsOf(t, KeptOf(r))} \subseteq KeptOf(r)
    <3> SUFFICES ASSUME NEW h \in HintsOf(t, KeptOf(r)) PROVE h.by \subseteq KeptOf(r)
      OBVIOUS
    <3>1. PICK e \in E : h \in e.hints
      BY <2>5 DEF HintsOf
    <3> QED
      BY <2>6, <2>9, <3>1
  <2>15. LimitHonest(r, q.limit, KeptOf(r))
    <3>1. \A n \in DOMAIN s : s[n].ids \cap KeptOf(r) # {} => \A m \in 1..(n - 1) : s[m].ids \subseteq KeptOf(r)
      BY <1>3, <2>3, <2>6
    <3>2. HintsOf(t, KeptOf(r)) = HintsOf(s, KeptOf(r))
      BY <2>12, <2>13
    <3>3. \A c \in ToSet(t) : UNION c.edges \subseteq c.ids
      BY <2>5, <2>9
    <3> QED
      BY <2>2, <2>7, <2>14, <3>1, <3>2, <3>3 DEF LimitHonest
  <2>16. KeptOf(r) \subseteq T
    BY <1>1, <2>6, <2>8
  <2>17. Sound(r, q, T)
    BY <2>2, <2>4, <2>5, <2>7, <2>9, <2>15, <2>16 DEF Sound
  <2> QED
    BY <2>2, <2>17 DEF r
<1> QED
  BY <1>6, <1>7

(* The clusters of an answer in another order are as sound.                  *)
LEMMA SoundAgain ==
  ASSUME NEW q, NEW T, NEW b, Sound(b, q, T), NEW r, IsResponse(r), r.since = b.since,
         r.until = b.until, r.all = b.all, Lists(r.clusters, ToSet(b.clusters))
  PROVE  Sound(r, q, T) /\ KeptOf(r) = KeptOf(b)
<1>1. ToSet(r.clusters) = ToSet(b.clusters)
  BY DEF Lists
<1>2. KeptOf(r) = KeptOf(b)
  BY <1>1 DEF KeptOf
<1>3. \A k : HintsOf(r.clusters, k) = HintsOf(b.clusters, k)
  BY <1>1 DEF HintsOf
<1>4. LimitHonest(r, q.limit, KeptOf(r))
  BY <1>1, <1>2, <1>3 DEF Sound, LimitHonest
<1> QED
  BY <1>1, <1>2, <1>4 DEF Sound

(* What a pass over the ledger answers.                                      *)
IsAnswer(r, q) ==
  /\ Sound(r, q, r.turns) /\ r.seen \in SUBSET Ids /\ r.turns \in SUBSET Ids
  /\ q.hint = {} /\ ~r.truncated => KeptOf(r) = r.turns

LEMMA BuiltIs ==
  ASSUME EventBounds, WorkBounds, NEW events \in SUBSET Rows, NEW q, q.until \in Int, q.limit \in Nat
  PROVE  IsAnswer(BuildRecentWorkContext(events, q), q)
<1> DEFINE b == BuildRecentWorkContext(events, q)
           seen == AtomsOf(events, q)
           T == LogicalTurns(seen)
           graph == BuildGraph(T, q.gap)
<1>1. b = CutGraph(seen, T, graph, q)
  BY DEF BuildRecentWorkContext, BuildFrom, BuildOver
<1>2. seen \in SUBSET Ids
  BY DEF AtomsOf, Ids
<1> HIDE DEF seen
<1>3. T \in SUBSET Ids
  BY <1>2, TurnsIn
<1> HIDE DEF T
<1>4. graph \in ForestOf(T)
  BY <1>3, GraphIs
<1> HIDE DEF graph, b
<1>5. /\ Sound(b, q, T) /\ b.seen = seen /\ b.turns = T
      /\ q.hint = {} /\ ~b.truncated => KeptOf(b) = T
  BY <1>1, <1>3, <1>4, CutIs
<1>6. IsAnswer(b, q)
  BY <1>2, <1>3, <1>5 DEF IsAnswer
<1> QED
  BY <1>6 DEF b

LEMMA WarnedIs ==
  ASSUME NEW q, NEW b, IsAnswer(b, q), NEW input, NEW cap
  PROVE  /\ IsAnswer(WarnedWith(b, input, cap), q)
         /\ WarnedWith(b, input, cap).clusters = b.clusters /\ WarnedWith(b, input, cap).seen = b.seen
<1> DEFINE x == Enough(input, cap) \/ input.reason # "none"
           cut == b.truncated \/ Enough(input, cap) \/ input.reason # "none"
           r == WarnedWith(b, input, cap)
<1>1. IsResponse(b) /\ Sound(b, q, b.turns)
  BY DEF IsAnswer, Sound
<1>2. r = [b EXCEPT !.truncated = cut]
  BY DEF WarnedWith
<1>3. b = [seen |-> b.seen, turns |-> b.turns, clusters |-> b.clusters, total |-> b.total,
           since |-> b.since, until |-> b.until, truncated |-> b.truncated, all |-> b.all]
  BY <1>1 DEF IsResponse
<1>4. ~cut => ~b.truncated
  OBVIOUS
<1> HIDE DEF cut, r
<1>5. r = [seen |-> b.seen, turns |-> b.turns, clusters |-> b.clusters, total |-> b.total,
           since |-> b.since, until |-> b.until, truncated |-> cut, all |-> b.all]
  <2> DEFINE v == [seen |-> b.seen, turns |-> b.turns, clusters |-> b.clusters, total |-> b.total,
           since |-> b.since, until |-> b.until, truncated |-> b.truncated, all |-> b.all]
  <2>1. [v EXCEPT !.truncated = cut]
          = [seen |-> b.seen, turns |-> b.turns, clusters |-> b.clusters, total |-> b.total,
             since |-> b.since, until |-> b.until, truncated |-> cut, all |-> b.all]
    OBVIOUS
  <2>2. b = v
    BY <1>3
  <2> HIDE DEF v
  <2> QED
    BY <1>2, <2>1, <2>2
<1>6. /\ r.seen = b.seen /\ r.turns = b.turns /\ r.clusters = b.clusters /\ r.since = b.since
      /\ r.until = b.until /\ r.truncated = cut /\ r.all = b.all
  BY <1>5
<1>7. IsResponse(r)
  <2>1. r.total = b.total
    BY <1>5
  <2> QED
    BY <1>5, <1>6, <2>1 DEF IsResponse
<1>8. Lists(r.clusters, ToSet(b.clusters))
  BY <1>1, <1>6 DEF Sound
<1>9. Sound(r, q, b.turns) /\ KeptOf(r) = KeptOf(b)
  BY <1>1, <1>6, <1>7, <1>8, SoundAgain
<1>10. IsAnswer(r, q)
  BY <1>4, <1>6, <1>9 DEF IsAnswer
<1> QED
  BY <1>6, <1>10 DEF r

InputFor(rows, q) == QueryClusterEvents(rows, FilterOf(q), q.limit * Overfetch)

(* A call, and the window it is answered for.                                *)
IsCall(p) ==
  /\ p = [at |-> p.at, window |-> p.window, since |-> p.since, until |-> p.until, by |-> p.by,
          size |-> p.size, reps |-> p.reps, limit |-> p.limit, gap |-> p.gap, hint |-> p.hint,
          scans |-> p.scans, keeps |-> p.keeps]
  /\ p.window \in {<<>>} \cup Int \X Int /\ p.limit \in Nat
  /\ p.window # <<>> => p.window[1] < p.window[2]

LEMMA WithinIs ==
  ASSUME NEW p, IsCall(p), NEW w
  PROVE  Within(p, w) =
           [at |-> p.at, window |-> <<>>, since |-> w[1], until |-> w[2], by |-> p.by,
            size |-> p.size, reps |-> p.reps, limit |-> p.limit, gap |-> p.gap, hint |-> p.hint,
            scans |-> p.scans, keeps |-> p.keeps]
<1> DEFINE v == [at |-> p.at, window |-> p.window, since |-> p.since, until |-> p.until, by |-> p.by,
          size |-> p.size, reps |-> p.reps, limit |-> p.limit, gap |-> p.gap, hint |-> p.hint,
          scans |-> p.scans, keeps |-> p.keeps]
           a == [v EXCEPT !.window = <<>>]
           b == [a EXCEPT !.since = w[1]]
           c == [b EXCEPT !.until = w[2]]
<1>1. p = v
  BY DEF IsCall
<1>2. a = [at |-> p.at, window |-> <<>>, since |-> p.since, until |-> p.until, by |-> p.by,
          size |-> p.size, reps |-> p.reps, limit |-> p.limit, gap |-> p.gap, hint |-> p.hint,
          scans |-> p.scans, keeps |-> p.keeps]
  OBVIOUS
<1>3. [v EXCEPT !.window = <<>>, !.since = w[1], !.until = w[2]] = c
  <2> HIDE DEF v
  <2> QED
    OBVIOUS
<1> HIDE DEF v
<1>4. Within(p, w) = c
  BY <1>1, <1>3 DEF Within
<1> HIDE DEF a
<1>5. b = [at |-> p.at, window |-> <<>>, since |-> w[1], until |-> p.until, by |-> p.by,
          size |-> p.size, reps |-> p.reps, limit |-> p.limit, gap |-> p.gap, hint |-> p.hint,
          scans |-> p.scans, keeps |-> p.keeps]
  BY <1>2
<1> HIDE DEF b
<1>6. c = [at |-> p.at, window |-> <<>>, since |-> w[1], until |-> w[2], by |-> p.by,
          size |-> p.size, reps |-> p.reps, limit |-> p.limit, gap |-> p.gap, hint |-> p.hint,
          scans |-> p.scans, keeps |-> p.keeps]
  BY <1>5
<1> QED
  BY <1>4, <1>6

(* The answer of a call is that of one pass over the window it says, but for *)
(* the order of its clusters.                                                *)
Recent(r, rows, p) ==
  LET w == <<r.since, r.until>>
  IN  /\ w \in Int \X Int /\ w[1] < w[2]
      /\ IsAnswer(r, Within(p, w))
      /\ ToSet(r.clusters) = ToSet(RunPass(rows, Within(p, w)).clusters)
      /\ r.seen = RunPass(rows, Within(p, w)).seen

LEMMA DemotedIs ==
  ASSUME EventBounds, WorkBounds, NEW rows, NEW p, NEW wide, Recent(wide, rows, p),
         NEW q, q.until \in Int, NEW now_
  PROVE  /\ Recent(Demote(wide, q, now_), rows, p)
         /\ Demote(wide, q, now_).since = wide.since /\ Demote(wide, q, now_).until = wide.until
         /\ Demote(wide, q, now_).truncated = wide.truncated
         /\ Demote(wide, q, now_).clusters
              = RankClusters(ToSet(wide.clusters), q, {c \in ToSet(wide.clusters) : Noise(c, now_)})
<1> DEFINE M == ToSet(wide.clusters)
           s == RankClusters(M, q, {c \in M : Noise(c, now_)})
           r == Demote(wide, q, now_)
           w == <<wide.since, wide.until>>
           qw == Within(p, w)
<1>1. /\ w \in Int \X Int /\ w[1] < w[2] /\ IsAnswer(wide, qw)
      /\ M = ToSet(RunPass(rows, qw).clusters) /\ wide.seen = RunPass(rows, qw).seen
  BY DEF Recent
<1>2. Sound(wide, qw, wide.turns) /\ Apart(M) /\ IsResponse(wide)
  BY <1>1 DEF IsAnswer, Sound
<1>3. r = [wide EXCEPT !.clusters = s]
  BY DEF Demote
<1>4. Lists(s, M)
  <2> HIDE DEF M
  <2> QED
    BY <1>2, RankIs
<1> HIDE DEF s, r, qw
<1>5. r = [seen |-> wide.seen, turns |-> wide.turns, clusters |-> s, total |-> wide.total,
           since |-> wide.since, until |-> wide.until, truncated |-> wide.truncated,
           all |-> wide.all]
  <2> DEFINE v == [seen |-> wide.seen, turns |-> wide.turns, clusters |-> wide.clusters,
                   total |-> wide.total, since |-> wide.since, until |-> wide.until,
                   truncated |-> wide.truncated, all |-> wide.all]
  <2>1. [v EXCEPT !.clusters = s]
          = [seen |-> wide.seen, turns |-> wide.turns, clusters |-> s, total |-> wide.total,
             since |-> wide.since, until |-> wide.until, truncated |-> wide.truncated,
             all |-> wide.all]
    OBVIOUS
  <2>2. wide = v
    BY <1>2 DEF IsResponse
  <2> HIDE DEF v
  <2> QED
    BY <1>3, <2>1, <2>2
<1>6. /\ r.seen = wide.seen /\ r.turns = wide.turns /\ r.clusters = s /\ r.since = wide.since
      /\ r.until = wide.until /\ r.truncated = wide.truncated /\ r.all = wide.all
      /\ r.total = wide.total
  BY <1>5
<1>7. IsResponse(r)
  BY <1>5, <1>6 DEF IsResponse
<1>8. Sound(r, qw, wide.turns) /\ KeptOf(r) = KeptOf(wide)
  BY <1>2, <1>4, <1>6, <1>7, SoundAgain
<1>9. IsAnswer(r, qw)
  BY <1>1, <1>6, <1>8 DEF IsAnswer
<1>10. ToSet(r.clusters) = M
  BY <1>4, <1>6 DEF Lists
<1>11. <<r.since, r.until>> = w
  BY <1>6
<1>12. Recent(r, rows, p)
  BY <1>1, <1>6, <1>9, <1>10, <1>11 DEF Recent, qw
<1> QED
  BY <1>6, <1>12 DEF r, s

LEMMA PairsAre == \A w \in Int \X Int : w # <<>>
<1> SUFFICES ASSUME NEW a \in Int, NEW b \in Int PROVE <<a, b>> # <<>>
  OBVIOUS
<1>1. Len(<<a, b>>) = 2 /\ Len(<<>>) = 0
  OBVIOUS
<1> QED
  BY <1>1

IsSeq(s) == s \in Seq(ToSet(s))

LEMMA SeqJoin ==
  ASSUME NEW s, NEW t, IsSeq(s), IsSeq(t)
  PROVE  /\ IsSeq(s \o t) /\ Len(s \o t) = Len(s) + Len(t)
         /\ \A i \in 1..Len(s) : (s \o t)[i] = s[i]
         /\ \A i \in 1..Len(t) : (s \o t)[Len(s) + i] = t[i]
<1> DEFINE V == ToSet(s) \cup ToSet(t)
           u == s \o t
<1>1. s \in Seq(V) /\ t \in Seq(V)
  BY DEF IsSeq
<1> HIDE DEF V
<1>2. u \in Seq(V) /\ Len(u) = Len(s) + Len(t) /\ Len(s) \in Nat /\ Len(t) \in Nat
  BY <1>1
<1>3. \A i \in 1..Len(u) : u[i] = IF i <= Len(s) THEN s[i] ELSE t[i - Len(s)]
  BY <1>1
<1> HIDE DEF u
<1>4. \A i \in 1..Len(s) : u[i] = s[i]
  BY <1>2, <1>3
<1>5. ASSUME NEW i \in 1..Len(t) PROVE u[Len(s) + i] = t[i]
  <2>1. Len(s) + i \in 1..Len(u) /\ ~(Len(s) + i <= Len(s)) /\ (Len(s) + i) - Len(s) = i
    BY <1>2
  <2> QED
    BY <1>3, <2>1
<1>6. IsSeq(u)
  <2>1. \A i \in 1..Len(u) : u[i] \in ToSet(u)
    BY <1>2, ElementsOf
  <2>2. u = [i \in 1..Len(u) |-> u[i]]
    BY <1>2
  <2> DEFINE X == ToSet(u)
  <2>3. \A i \in 1..Len(u) : u[i] \in X
    BY <2>1
  <2> HIDE DEF X
  <2>4. u \in Seq(X)
    BY <1>2, <2>2, <2>3
  <2> QED
    BY <2>4 DEF IsSeq, X
<1> QED
  BY <1>2, <1>4, <1>5, <1>6 DEF u

LEMMA SeqIs == ASSUME NEW V, NEW s \in Seq(V) PROVE IsSeq(s)
<1> DEFINE X == ToSet(s)
<1>1. s = [i \in 1..Len(s) |-> s[i]] /\ Len(s) \in Nat /\ \A i \in 1..Len(s) : s[i] \in X
  BY ElementsOf
<1> HIDE DEF X
<1>2. s \in Seq(X)
  BY <1>1
<1> QED
  BY <1>2 DEF IsSeq, X
=============================================================================
