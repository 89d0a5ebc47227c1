------------------------------ MODULE ToolsProofs ------------------------------
(* Theorems about the tools that read the ledger: the log, atoms, single    *)
(* queries, searches, the window of the clustering, what discovery shows of *)
(* it, its pages, and the chained waits.                                    *)
EXTENDS MCTools, LedgerProofs

--------------------------------------------------------------------------------
(* The log of calls: the ring holds the newest calls in the order they were *)
(* made, under the ids they were given, each with its fate so far.          *)

FateSet ==
  [tool : Used, given : {L!Arguments[t] : t \in Used}, began : 0..LastMs, ended : Int \cup {None},
   status : {"pending", "ok", "error"}]

EntrySet ==
  [id : Nat, ts : 0..LastMs, tool : Used, args : {L!projectArgs(t, L!Arguments[t]) : t \in Used},
   result : {None, L!projectError} \cup {L!projectResult(t) : t \in Used},
   duration : Int \cup {None}, status : {"pending", "ok", "error"}]

LogTypes ==
  /\ calls \in Seq(EntrySet) /\ fates \in Seq(FateSet)
  /\ calling \subseteq 1..Len(fates) /\ ms \in 0..LastMs /\ nextCallId = Len(fates) + 1

Ring ==
  /\ Len(calls) = IF Len(fates) < MaxCalls THEN Len(fates) ELSE MaxCalls
  /\ \A i \in 1..Len(calls) :
       /\ calls[i].id = Len(fates) - Len(calls) + i
       /\ L!Told(calls[i]) = L!Fate(fates[calls[i].id])

LogInv == LogTypes /\ Ring

LEMMA LogAmong == ASSUME NEW s, NEW T PROVE L!Among(s, T) = Among(s, T)
BY DEF L!Among, Among

LEMMA LogStart == L!Init => LogInv
<1> SUFFICES ASSUME L!Init PROVE LogInv
  OBVIOUS
<1>1. calls = <<>> /\ fates = <<>> /\ calling = {} /\ ms = 0 /\ nextCallId = 1
  BY DEF L!Init
<1>2. MaxCalls \in Nat \ {0} /\ LastMs \in Nat
  BY ToolBounds DEF L!LogBounds
<1> QED
  BY <1>1, <1>2 DEF LogInv, LogTypes, Ring

LEMMA LogBegins ==
  ASSUME LogInv, NEW tool_ \in Used, L!Begin(tool_, L!Arguments[tool_])
  PROVE  LogInv'
<1> DEFINE e == L!Entry(nextCallId, tool_, L!Arguments[tool_])
           f == [tool |-> tool_, given |-> L!Arguments[tool_], began |-> ms,
                 ended |-> None, status |-> "pending"]
           c == Append(calls, e)
           d == IF Len(c) > MaxCalls THEN Len(c) - MaxCalls ELSE 0
<1>1. /\ calls' = SubSeq(c, 1 + d, Len(c)) /\ fates' = Append(fates, f)
      /\ calling' = calling \cup {nextCallId} /\ nextCallId' = nextCallId + 1 /\ ms' = ms
  BY DEF L!Begin, L!Newest
<1>2. e \in EntrySet /\ f \in FateSet
  BY DEF LogInv, LogTypes, EntrySet, FateSet, L!Entry
<1>3. e.id = Len(fates) + 1 /\ L!Told(e) = L!Fate(f)
  BY DEF LogInv, LogTypes, L!Entry, L!Told, L!Fate
<1>4. MaxCalls \in Nat \ {0}
  BY ToolBounds DEF L!LogBounds
<1> HIDE DEF e, f
<1>5. calls \in Seq(EntrySet) /\ fates \in Seq(FateSet)
  BY DEF LogInv, LogTypes
<1>6. /\ c \in Seq(EntrySet) /\ Len(c) = Len(calls) + 1 /\ c[Len(calls) + 1] = e
      /\ \A i \in 1..Len(calls) : c[i] = calls[i]
  BY <1>2, <1>5
<1> HIDE DEF c
<1>7. d \in Nat /\ d <= Len(c) /\ (Len(c) <= MaxCalls => d = 0)
      /\ (Len(c) > MaxCalls => d = Len(c) - MaxCalls)
  BY <1>4, <1>6
<1> HIDE DEF d
<1>8. /\ calls' \in Seq(EntrySet) /\ Len(calls') = Len(c) - d
      /\ \A i \in 1..(Len(c) - d) : calls'[i] = c[d + i]
  BY <1>1, <1>6, <1>7
<1>9. /\ fates' \in Seq(FateSet) /\ Len(fates') = Len(fates) + 1 /\ fates'[Len(fates) + 1] = f
      /\ \A i \in 1..Len(fates) : fates'[i] = fates[i]
  BY <1>1, <1>2, <1>5
<1>10. LogTypes'
  <2>1. Len(fates) \in Nat /\ calling \subseteq 1..Len(fates) /\ nextCallId = Len(fates) + 1
        /\ ms \in 0..LastMs
    BY <1>5 DEF LogInv, LogTypes
  <2>3. nextCallId' = Len(fates') + 1 /\ nextCallId = Len(fates')
    BY <2>1, <1>1, <1>9
  <2>2. calling' \subseteq 1..Len(fates') /\ nextCallId' = Len(fates') + 1
    <3>1. \A k \in 1..Len(fates) : k \in 1..Len(fates')
      BY <2>1, <1>9
    <3>2. nextCallId \in 1..Len(fates')
      BY <2>1, <2>3, <1>9
    <3> QED
      BY <3>1, <3>2, <2>1, <2>3, <1>1
  <2> QED
    BY <2>1, <2>2, <1>1, <1>8, <1>9 DEF LogTypes
<1>11. /\ Len(calls) \in Nat /\ Len(fates) \in Nat
       /\ Len(calls) = IF Len(fates) < MaxCalls THEN Len(fates) ELSE MaxCalls
  BY <1>5 DEF LogInv, Ring
<1>12. Len(calls') = IF Len(fates') < MaxCalls THEN Len(fates') ELSE MaxCalls
  BY <1>4, <1>6, <1>7, <1>8, <1>9, <1>11
<1>13. ASSUME NEW i \in 1..Len(calls')
       PROVE  /\ calls'[i].id = Len(fates') - Len(calls') + i
              /\ L!Told(calls'[i]) = L!Fate(fates'[calls'[i].id])
  <2>1. d + i \in 1..(Len(calls) + 1) /\ calls'[i] = c[d + i]
    BY <1>6, <1>7, <1>8
  <2>2. CASE d + i = Len(calls) + 1
    <3>1. calls'[i] = e
      BY <2>1, <2>2, <1>6
    <3>2. Len(fates) + 1 = Len(fates') - Len(calls') + i
      BY <2>2, <1>6, <1>7, <1>8, <1>9, <1>11
    <3> QED
      BY <3>1, <3>2, <1>3, <1>9
  <2>3. CASE d + i # Len(calls) + 1
    <3>4. d + i \in 1..Len(calls)
      <4>1. d + i >= 1 /\ d + i <= Len(calls) + 1 /\ d + i \in Int /\ Len(calls) \in Nat
        BY <2>1, <1>7, <1>11
      <4> QED
        BY <4>1, <2>3
    <3>1. d + i \in 1..Len(calls) /\ calls'[i] = calls[d + i]
      BY <2>1, <3>4, <1>6
    <3>2. /\ calls[d + i].id = Len(fates) - Len(calls) + (d + i)
          /\ L!Told(calls[d + i]) = L!Fate(fates[calls[d + i].id])
      BY <3>1 DEF LogInv, Ring
    <3>3. /\ Len(fates) - Len(calls) + (d + i) = Len(fates') - Len(calls') + i
          /\ Len(fates) - Len(calls) + (d + i) \in 1..Len(fates)
      BY <3>1, <1>4, <1>6, <1>7, <1>8, <1>9, <1>11, SMTT(30)
    <3> QED
      BY <3>1, <3>2, <3>3, <1>9
  <2> QED
    BY <2>2, <2>3
<1> QED
  BY <1>10, <1>12, <1>13 DEF LogInv, Ring

LEMMA LogEnds ==
  ASSUME LogInv, NEW id \in calling, NEW status_ \in {"ok", "error"},
         NEW result_ \in {L!projectError} \cup {L!projectResult(t) : t \in Used},
         L!End(id, status_, result_)
  PROVE  LogInv'
<1> DEFINE h(i) == [calls[i] EXCEPT !.status = status_, !.result = result_,
                      !.duration = IF ms > calls[i].ts THEN ms - calls[i].ts ELSE 0]
           g == [fates[id] EXCEPT !.ended = ms, !.status = status_]
<1>1. /\ calls \in Seq(EntrySet) /\ fates \in Seq(FateSet) /\ ms \in 0..LastMs /\ LastMs \in Nat
      /\ Len(calls) \in Nat /\ Len(fates) \in Nat /\ DOMAIN calls = 1..Len(calls)
      /\ DOMAIN fates = 1..Len(fates) /\ id \in 1..Len(fates)
      /\ None \notin Int
  <2>1. None \notin Int /\ LastMs \in Nat
    BY ToolBounds DEF L!LogBounds
  <2> QED
    BY <2>1 DEF LogInv, LogTypes
<1>2. /\ calls' = [i \in DOMAIN calls |-> IF i \in L!EntriesOf(id) THEN h(i) ELSE calls[i]]
      /\ calling' = calling \ {id} /\ nextCallId' = nextCallId /\ ms' = ms
      /\ fates' = [fates EXCEPT ![id].ended = ms, ![id].status = status_]
  BY DEF L!End, L!Settle
<1>3. ASSUME NEW i \in 1..Len(calls)
      PROVE  /\ h(i) \in EntrySet /\ h(i).id = calls[i].id /\ h(i).ts = calls[i].ts
             /\ h(i).tool = calls[i].tool /\ h(i).status = status_
             /\ h(i).duration = IF ms > calls[i].ts THEN ms - calls[i].ts ELSE 0
  <2>1. calls[i] \in EntrySet
    BY <1>1
  <2> DEFINE x == calls[i]
  <2> HIDE DEF x
  <2>2. x \in EntrySet
    BY <2>1 DEF x
  <2>3. (IF ms > x.ts THEN ms - x.ts ELSE 0) \in Int
    BY <1>1, <2>2 DEF EntrySet
  <2>4. h(i) = [x EXCEPT !.status = status_, !.result = result_,
                         !.duration = IF ms > x.ts THEN ms - x.ts ELSE 0]
    BY DEF x
  <2> HIDE DEF h
  <2> QED
    BY <2>2, <2>3, <2>4 DEF EntrySet, x
<1>4. /\ g \in FateSet /\ g.tool = fates[id].tool /\ g.began = fates[id].began
      /\ g.ended = ms /\ g.status = status_
  <2> DEFINE x == fates[id]
  <2>1. x \in FateSet /\ ms \in Int \cup {None}
    BY <1>1
  <2>2. g = [x EXCEPT !.ended = ms, !.status = status_]
    OBVIOUS
  <2> HIDE DEF x, g
  <2>3. g \in FateSet /\ g.tool = x.tool /\ g.began = x.began /\ g.ended = ms /\ g.status = status_
    BY <2>1, <2>2 DEF FateSet
  <2> QED
    BY <2>3 DEF x
<1>5. fates' = [fates EXCEPT ![id] = g]
  BY <1>1, <1>2
<1> HIDE DEF h, g
<1>6. /\ calls' \in Seq(EntrySet) /\ Len(calls') = Len(calls)
      /\ \A i \in 1..Len(calls) : calls'[i] = IF calls[i].id = id THEN h(i) ELSE calls[i]
  <2>1. ASSUME NEW i \in 1..Len(calls)
        PROVE  calls'[i] = (IF calls[i].id = id THEN h(i) ELSE calls[i]) /\ calls'[i] \in EntrySet
    <3>1. calls'[i] = IF calls[i].id = id THEN h(i) ELSE calls[i]
      BY <1>1, <1>2 DEF L!EntriesOf
    <3> QED
      BY <3>1, <1>1, <1>3
  <2>2. DOMAIN calls' = 1..Len(calls) /\ calls' = [i \in 1..Len(calls) |-> calls'[i]]
    BY <1>1, <1>2
  <2> QED
    BY <2>1, <2>2, <1>1
<1>7. /\ fates' \in Seq(FateSet) /\ Len(fates') = Len(fates) /\ fates'[id] = g
      /\ \A n \in 1..Len(fates) : n # id => fates'[n] = fates[n]
  BY <1>1, <1>4, <1>5
<1>8. LogTypes'
  BY <1>1, <1>2, <1>6, <1>7 DEF LogInv, LogTypes
<1>9. ASSUME NEW i \in 1..Len(calls)
      PROVE  /\ calls'[i].id = Len(fates') - Len(calls') + i
             /\ L!Told(calls'[i]) = L!Fate(fates'[calls'[i].id])
  <2>1. /\ calls[i].id = Len(fates) - Len(calls) + i /\ calls[i].id \in 1..Len(fates)
        /\ L!Told(calls[i]) = L!Fate(fates[calls[i].id])
    <3>1. /\ calls[i].id = Len(fates) - Len(calls) + i
          /\ L!Told(calls[i]) = L!Fate(fates[calls[i].id])
      BY DEF LogInv, Ring
    <3>2. Len(calls) <= Len(fates)
      <4>1. MaxCalls \in Nat
        BY ToolBounds DEF L!LogBounds
      <4> QED
        BY <4>1, <1>1 DEF LogInv, Ring
    <3> QED
      BY <3>1, <3>2, <1>1
  <2>2. CASE calls[i].id = id
    <3>1. calls'[i] = h(i) /\ calls'[i].id = id
      BY <1>3, <1>6, <2>2
    <3>2. calls[i].tool = fates[id].tool /\ calls[i].ts = fates[id].began
      BY <2>1, <2>2 DEF L!Told, L!Fate
    <3>3. L!Told(h(i)) = L!Fate(g)
      <4>1. g.ended # None
        BY <1>1, <1>4
      <4>2. L!Fate(g) = [tool |-> g.tool, began |-> g.began, status |-> g.status,
                         duration |-> IF g.ended > g.began THEN g.ended - g.began ELSE 0]
        BY <4>1 DEF L!Fate
      <4>3. L!Told(h(i)) = [tool |-> h(i).tool, began |-> h(i).ts, status |-> h(i).status,
                            duration |-> h(i).duration]
        BY DEF L!Told
      <4> QED
        BY <4>2, <4>3, <3>2, <1>3, <1>4
    <3> QED
      BY <3>1, <3>3, <2>1, <2>2, <1>6, <1>7
  <2>3. CASE calls[i].id # id
    BY <2>1, <2>3, <1>6, <1>7
  <2> QED
    BY <2>2, <2>3
<1>10. Ring'
  BY <1>6, <1>7, <1>9 DEF LogInv, Ring
<1> QED
  BY <1>8, <1>10 DEF LogInv

LEMMA LogStep ==
  ASSUME LogInv, [L!Next]_(L!logVars)
  PROVE  LogInv'
<1>1. ASSUME NEW t \in Used, L!Begin(t, L!Arguments[t]) PROVE LogInv'
  BY <1>1, LogBegins
<1>2. ASSUME NEW id \in calling, L!Finish(id) PROVE LogInv'
  <2>1. fates[id].tool \in Used
    <3>1. fates[id] \in FateSet
      BY DEF LogInv, LogTypes
    <3> QED
      BY <3>1 DEF FateSet
  <2>2. CASE L!End(id, "ok", L!projectResult(fates[id].tool))
    BY <2>1, <2>2, LogEnds
  <2>3. CASE L!End(id, "error", L!projectError)
    BY <2>3, LogEnds
  <2> QED
    BY <1>2, <2>2, <2>3 DEF L!Finish
<1>3. ASSUME NEW id \in calling, L!Fail(id) PROVE LogInv'
  BY <1>3, LogEnds DEF L!Fail
<1>4. CASE L!Clock
  <2>1. ms' \in 0..LastMs
    BY <1>4 DEF L!Clock
  <2> QED
    BY <2>1, <1>4 DEF L!Clock, LogInv, LogTypes, Ring
<1>5. CASE UNCHANGED L!logVars
  BY <1>5 DEF L!logVars, LogInv, LogTypes, Ring
<1> QED
  BY <1>1, <1>2, <1>3, <1>4, <1>5 DEF L!Next

LEMMA NothingPrivateLogged ==
  ASSUME LogInv PROVE L!NothingPrivate
<1>1. ASSUME NEW t PROVE L!Verbatim(t) \cap L!Private = {}
  BY DEF L!Verbatim, L!Private
<1>2. ASSUME NEW t, NEW given PROVE L!projectArgs(t, given).values \cap L!Private = {}
  BY <1>1 DEF L!projectArgs
<1>3. ASSUME NEW i \in DOMAIN calls PROVE calls[i].args.values \cap L!Private = {}
  <2>1. calls[i] \in EntrySet
    BY DEF LogInv, LogTypes
  <2>2. PICK t \in Used : calls[i].args = L!projectArgs(t, L!Arguments[t])
    BY <2>1 DEF EntrySet
  <2> QED
    BY <2>2, <1>2
<1> QED
  BY <1>2, <1>3 DEF L!NothingPrivate

LEMMA ReadsAreFates ==
  ASSUME LogInv PROVE L!ReadsTheNewest
<1> DEFINE told == [id \in DOMAIN fates |-> L!Fate(fates[id])]
           kept == L!Newest(told)
           read(since_, status_) == L!Read(since_, LastMs, {status_})
<1>1. /\ calls \in Seq(EntrySet) /\ fates \in Seq(FateSet) /\ LastMs \in Nat
      /\ Len(calls) \in Nat /\ Len(fates) \in Nat /\ DOMAIN calls = 1..Len(calls)
      /\ DOMAIN fates = 1..Len(fates) /\ MaxCalls \in Nat \ {0}
      /\ Len(calls) = IF Len(fates) < MaxCalls THEN Len(fates) ELSE MaxCalls
  BY ToolBounds DEF LogInv, LogTypes, Ring, L!LogBounds
<1> DEFINE A == {L!Fate(fates[id]) : id \in DOMAIN fates}
<1>2. /\ told \in Seq(A) /\ Len(told) = Len(fates)
      /\ \A id \in 1..Len(fates) : told[id] = L!Fate(fates[id])
  BY <1>1
<1> HIDE DEF told, A
<1>3. /\ kept \in Seq(A) /\ Len(kept) = Len(calls)
      /\ \A i \in 1..Len(calls) : kept[i] = told[Len(fates) - Len(calls) + i]
  <2> DEFINE d == IF Len(told) > MaxCalls THEN Len(told) - MaxCalls ELSE 0
  <2>1. kept = SubSeq(told, 1 + d, Len(told))
    BY DEF L!Newest
  <2>3. told \in Seq(A) /\ Len(told) = Len(fates)
    BY <1>2
  <2>2. d \in Nat /\ d = Len(fates) - Len(calls) /\ Len(fates) - d = Len(calls) /\ d <= Len(fates)
    <3>1. /\ Len(fates) \in Nat /\ MaxCalls \in Nat
          /\ Len(calls) = IF Len(fates) < MaxCalls THEN Len(fates) ELSE MaxCalls
      BY <1>1
    <3>2. d = IF Len(fates) > MaxCalls THEN Len(fates) - MaxCalls ELSE 0
      BY <2>3
    <3> DEFINE n == Len(fates)
               c == Len(calls)
    <3>3. n \in Nat /\ c = (IF n < MaxCalls THEN n ELSE MaxCalls)
          /\ d = IF n > MaxCalls THEN n - MaxCalls ELSE 0
      BY <3>1, <3>2
    <3> HIDE DEF d, n, c
    <3>4. d \in Nat /\ d = n - c /\ n - d = c /\ d <= n
      BY <3>1, <3>3
    <3> QED
      BY <3>4 DEF n, c
  <2> HIDE DEF d, kept
  <2>5. /\ kept \in Seq(A) /\ Len(kept) = Len(fates) - d
        /\ \A i \in 1..(Len(fates) - d) : kept[i] = told[d + i]
    BY <2>1, <2>2, <2>3, TailOf
  <2> QED
    BY <2>2, <2>5
<1> HIDE DEF kept
<1>4. ASSUME NEW i \in 1..Len(calls)
      PROVE  kept[i] = L!Told(calls[i]) /\ calls[i].ts \in 0..LastMs
  <2>1. /\ calls[i].id = Len(fates) - Len(calls) + i
        /\ L!Told(calls[i]) = L!Fate(fates[calls[i].id])
    BY DEF LogInv, Ring
  <2>2. Len(fates) - Len(calls) + i \in 1..Len(fates)
    BY <1>1
  <2>3. calls[i] \in EntrySet
    BY <1>1
  <2> QED
    BY <2>1, <2>2, <2>3, <1>2, <1>3 DEF EntrySet
<1>5. ASSUME NEW since_ \in 0..LastMs, NEW status_ \in {"pending", "ok", "error"}
      PROVE  [i \in DOMAIN read(since_, status_) |-> L!Told(read(since_, status_)[i])]
               = L!Among(kept, {f \in ToSet(kept) : f.began >= since_ /\ f.status = status_})
  <2> DEFINE U == {e \in ToSet(calls) : since_ <= e.ts /\ e.ts <= LastMs /\ e.status \in {status_}}
             T == {f \in ToSet(kept) : f.began >= since_ /\ f.status = status_}
             m == [e \in EntrySet |-> L!Told(e)]
  <2>1. ASSUME NEW i \in 1..Len(calls)
        PROVE  kept[i] = m[calls[i]] /\ (calls[i] \in U <=> kept[i] \in T)
    <3>1. calls[i] \in EntrySet /\ calls[i] \in ToSet(calls) /\ kept[i] \in ToSet(kept)
      BY <1>1, <1>3 DEF ToSet
    <3>2. kept[i].began = calls[i].ts /\ kept[i].status = calls[i].status
      <4>1. kept[i] = L!Told(calls[i])
        BY <1>4
      <4> QED
        BY <4>1 DEF L!Told
    <3>3. kept[i] = m[calls[i]]
      BY <3>1, <1>4
    <3> QED
      BY <3>1, <3>2, <3>3, <1>4
  <2>2. read(since_, status_) = Among(calls, U)
    BY LogAmong DEF L!Read, L!ToSet, ToSet
  <2> HIDE DEF U, T, m, read
  <2>3. Among(kept, T) = [i \in DOMAIN Among(calls, U) |-> m[Among(calls, U)[i]]]
    <3>1. calls \in Seq(EntrySet) /\ kept \in Seq(A) /\ Renames(m, calls, U, kept, T)
      BY <2>1, <1>1, <1>3 DEF Renames
    <3> QED
      BY <3>1, AmongMapped
  <2>4. Among(calls, U) \in Seq(EntrySet)
    BY <1>1, AmongPlaces
  <2>5. ASSUME NEW i \in DOMAIN Among(calls, U)
        PROVE  m[Among(calls, U)[i]] = L!Told(Among(calls, U)[i])
    <3>1. Among(calls, U)[i] \in EntrySet
      BY <2>4
    <3> QED
      BY <3>1 DEF m
  <2>6. Among(kept, T) = [i \in DOMAIN Among(calls, U) |-> L!Told(Among(calls, U)[i])]
    BY <2>3, <2>5
  <2>7. L!Among(kept, T) = Among(kept, T)
    BY LogAmong
  <2> QED
    BY <2>2, <2>6, <2>7 DEF T
<1> QED
  BY <1>5 DEF L!ReadsTheNewest, L!ToSet, ToSet, kept, told, read

(* The log of calls tells, of the newest calls, what each was and how it    *)
(* ended, and nothing of what was asked (mcp/request-log.ts), whichever     *)
(* calls run at once and in whatever order they end.                        *)
THEOREM LogIsTrue == ToolSpec => []LogTellsTheTruth
<1> DEFINE Inv == tool = "log" => LogInv
<1>1. ToolInit => Inv
  BY LogStart DEF ToolInit
<1>2. ASSUME Inv, [ToolNext]_toolVars PROVE Inv'
  <2>1. tool' = tool
    BY <1>2 DEF ToolNext, toolVars, Groups, Search, Atoms, Waits, Logs
  <2>2. tool = "log" => [L!Next]_(L!logVars)
    BY <1>2 DEF ToolNext, toolVars, Groups, Search, Atoms, Waits, Logs, logVars, L!logVars
  <2> QED
    BY <1>2, <2>1, <2>2, LogStep
<1>3. Inv => LogTellsTheTruth
  BY ReadsAreFates, NothingPrivateLogged DEF LogTellsTheTruth, L!LogTellsTheTruth
<1> QED
  BY <1>1, <1>2, <1>3, PTL DEF ToolSpec

--------------------------------------------------------------------------------
(* A read of atoms in pages. What is received is, up to an entry of the      *)
(* order in which the entries are processed, what exists of them.            *)

LEMMA AtomsRead ==
  /\ \A s, set : G!Among(s, set) = Among(s, set)
  /\ \A s : G!ToSet(s) = ToSet(s)
  /\ \A s, n : G!First(s, n) = First(s, n)
  /\ \A set : G!Cardinality(set) = Cardinality(set)
  /\ G!Rows = Rows /\ G!AllIds = {r.id : r \in Rows}
BY DEF G!Among, Among, G!ToSet, ToSet, G!First, First, G!Cardinality, Cardinality,
       G!Rows, Rows, G!AllIds

AtomIds(f) == {r.id : r \in f}

LEMMA ExistingIs ==
  ASSUME NEW f
  PROVE  /\ \A s : G!Existing(s, f) = Among(s, AtomIds(f))
         /\ \A x : G!Exists(f, x) <=> x \in AtomIds(f)
<1>1. \A s : G!Existing(s, f) = Among(s, AtomIds(f))
  BY AtomsRead DEF G!Existing, AtomIds
<1>2. \A x : G!Exists(f, x) <=> x \in AtomIds(f)
  BY DEF G!Exists, G!Ats, AtomIds
<1> QED
  BY <1>1, <1>2

(* Halving a batch fetches what the whole would have.                        *)
LEMMA FetchedIs ==
  ASSUME NEW rows, NEW ids \in Seq(G!AllIds)
  PROVE  G!GetByIds(rows, ids) = {r \in rows : r.id \in ToSet(ids)}
<1> DEFINE A == G!AllIds
           Left(s) == G!First(s, Len(s) \div 2)
           Right(s) == SubSeq(s, Len(s) \div 2 + 1, Len(s))
           Of(s) == {r \in rows : r.id \in G!ToSet(s)}
           Large(s) == Len(s) > 1 /\ G!BytesOf(rows, s) > QueryBytes
           Val(f, s) == IF Large(s) THEN f[Left(s)] \cup f[Right(s)] ELSE Of(s)
           U == CHOOSE f : f = [s \in Seq(A) |-> Val(f, s)]
           Direct == [s \in Seq(A) |-> Of(s)]
<1>1. ASSUME NEW s \in Seq(A), Large(s)
      PROVE  /\ Left(s) \in Seq(A) /\ Len(Left(s)) \in Nat /\ Len(Left(s)) < Len(s)
             /\ Right(s) \in Seq(A) /\ Len(Right(s)) \in Nat /\ Len(Right(s)) < Len(s)
             /\ Of(s) = Of(Left(s)) \cup Of(Right(s))
  <2> DEFINE k == Len(s) \div 2
             n == Len(s)
             a == SubSeq(s, 1, k)
             b == SubSeq(s, k + 1, n)
  <2>1. n \in Nat /\ k \in Nat /\ 0 < k /\ k < n
    BY <1>1
  <2> HIDE DEF k
  <2>2. Left(s) = a
    <3>1. G!First(s, k) = First(s, k)
      BY AtomsRead
    <3>2. First(s, k) = a
      BY <2>1 DEF First
    <3> QED
      BY <3>1, <3>2 DEF k
  <2>3. Right(s) = b
    BY DEF k
  <2>4. /\ a \in Seq(A) /\ Len(a) = k /\ \A i \in 1..k : a[i] = s[i]
        /\ b \in Seq(A) /\ Len(b) = n - k /\ \A i \in 1..(n - k) : b[i] = s[k + i]
    <3>1. a \in Seq(A) /\ Len(a) = k /\ \A i \in 1..k : a[i] = s[i]
      BY <2>1
    <3>2. 1 + k = k + 1 /\ k <= Len(s)
      BY <2>1
    <3>3. b \in Seq(A) /\ Len(b) = n - k /\ \A i \in 1..(n - k) : b[i] = s[k + i]
      BY <2>1, <3>2, TailOf
    <3> QED
      BY <3>1, <3>3
  <2> HIDE DEF a, b
  <2>5. ToSet(s) = ToSet(a) \cup ToSet(b)
    <3>1. ASSUME NEW i \in 1..n PROVE s[i] \in ToSet(a) \cup ToSet(b)
      <4>1. CASE i <= k
        <5>1. i \in 1..k
          BY <4>1, <2>1
        <5> QED
          BY <5>1, <2>4, ElementsOf
      <4>2. CASE ~(i <= k)
        <5>1. i - k \in 1..(n - k) /\ k + (i - k) = i
          BY <4>2, <2>1
        <5>2. b[i - k] = s[i]
          BY <5>1, <2>4
        <5> QED
          BY <5>1, <5>2, <2>4, ElementsOf
      <4> QED
        BY <4>1, <4>2
    <3>2. ASSUME NEW i \in 1..k PROVE a[i] \in ToSet(s)
      <4>1. i \in 1..Len(s)
        BY <2>1
      <4> QED
        BY <4>1, <2>4, ElementsOf
    <3>3. ASSUME NEW i \in 1..(n - k) PROVE b[i] \in ToSet(s)
      <4>1. k + i \in 1..Len(s)
        BY <2>1
      <4> QED
        BY <4>1, <2>4, ElementsOf
    <3>4. /\ \A x \in ToSet(a) : \E i \in 1..k : a[i] = x
          /\ \A x \in ToSet(b) : \E i \in 1..(n - k) : b[i] = x
          /\ \A x \in ToSet(s) : \E i \in 1..n : s[i] = x
      BY <2>4, ElementsOf
    <3> QED
      BY <3>1, <3>2, <3>3, <3>4
  <2>6. Of(s) = Of(a) \cup Of(b)
    BY <2>5, AtomsRead
  <2>7. Len(a) \in Nat /\ Len(a) < Len(s) /\ Len(b) \in Nat /\ Len(b) < Len(s)
    BY <2>1, <2>4
  <2> QED
    BY <2>2, <2>3, <2>4, <2>6, <2>7
<1> HIDE DEF Left, Right, Of, Large
<1>2. Direct = [s \in Seq(A) |-> Val(Direct, s)]
  <2>1. ASSUME NEW s \in Seq(A) PROVE Val(Direct, s) = Of(s)
    BY <1>1
  <2> QED
    BY <2>1
<1>3. U = [s \in Seq(A) |-> Val(U, s)]
  <2> HIDE DEF Val
  <2> QED
    BY <1>2
<1> HIDE DEF U
<1>4. ASSUME NEW s \in Seq(A) PROVE U[s] = Val(U, s)
  <2> HIDE DEF Val
  <2> QED
    BY <1>3
<1> DEFINE Good == {n \in Nat : \A s \in Seq(A) : Len(s) <= n => U[s] = Of(s)}
<1>5. ASSUME NEW n \in Nat, \A s \in Seq(A) : Len(s) < n => U[s] = Of(s)
      PROVE  \A s \in Seq(A) : Len(s) <= n => U[s] = Of(s)
  <2> SUFFICES ASSUME NEW s \in Seq(A), Len(s) <= n PROVE U[s] = Of(s)
    OBVIOUS
  <2>1. U[s] = Val(U, s)
    BY <1>4
  <2>2. CASE ~Large(s)
    BY <2>1, <2>2
  <2>3. CASE Large(s)
    <3>1. /\ Left(s) \in Seq(A) /\ Len(Left(s)) \in Nat /\ Len(Left(s)) < Len(s)
          /\ Right(s) \in Seq(A) /\ Len(Right(s)) \in Nat /\ Len(Right(s)) < Len(s)
          /\ Of(s) = Of(Left(s)) \cup Of(Right(s))
      BY <1>1, <2>3
    <3>2. Len(s) \in Nat
      OBVIOUS
    <3>3. Len(Left(s)) < n /\ Len(Right(s)) < n
      BY <3>1, <3>2
    <3>4. U[Left(s)] = Of(Left(s)) /\ U[Right(s)] = Of(Right(s))
      BY <1>5, <3>1, <3>3
    <3> QED
      BY <2>1, <2>3, <3>1, <3>4
  <2> QED
    BY <2>2, <2>3
<1>6. 0 \in Good
  <2>1. \A s \in Seq(A) : ~(Len(s) < 0)
    OBVIOUS
  <2> QED
    BY <1>5, <2>1
<1>7. ASSUME NEW n \in Nat, n \in Good PROVE n + 1 \in Good
  <2>1. \A s \in Seq(A) : Len(s) < n + 1 => Len(s) <= n
    OBVIOUS
  <2>2. \A s \in Seq(A) : Len(s) < n + 1 => U[s] = Of(s)
    BY <1>7, <2>1
  <2>3. n + 1 \in Nat
    OBVIOUS
  <2>4. \A s \in Seq(A) : Len(s) <= n + 1 => U[s] = Of(s)
    BY <1>5, <2>2, <2>3
  <2> QED
    BY <2>3, <2>4
<1>8. Len(ids) \in Good
  <2>1. Len(ids) \in Nat
    OBVIOUS
  <2> HIDE DEF Good
  <2> QED
    BY <1>6, <1>7, <2>1, SetInduction
<1>9. U[ids] = Of(ids)
  <2>1. Len(ids) <= Len(ids)
    OBVIOUS
  <2> QED
    BY <1>8, <2>1
<1>10. G!GetByIds(rows, ids) = U[ids]
  BY DEF G!GetByIds, U, Left, Right, Of, Large
<1> QED
  BY <1>9, <1>10, AtomsRead DEF Of

(* What makes the order of the entries: every entry asked for, once where    *)
(* repetitions are dropped.                                                  *)
LEMMA ProcessOrderIs ==
  ASSUME EventBounds, NEW q, q.ids \in Seq(G!AllIds), NEW f \in SUBSET Rows
  PROVE  LET s == G!BuildProcessOrder(q, f)
         IN  /\ s \in Seq(ToSet(q.ids)) /\ Len(s) <= Len(q.ids)
             /\ Len(s) = IF q.prefer = "as_requested" THEN Len(q.ids) ELSE Cardinality(ToSet(q.ids))
<1> DEFINE ids == q.ids
           M == ToSet(ids)
           K == Len(ids)
<1>1. /\ K \in Nat /\ DOMAIN ids = 1..K /\ \A i \in 1..K : ids[i] \in M
      /\ \A x \in M : \E i \in 1..K : ids[i] = x
  BY ElementsOf
<1>2. IsFiniteSet(M) /\ Cardinality(M) \in Nat /\ Cardinality(M) <= K
  <2> DEFINE g == [i \in 1..K |-> ids[i]]
  <2>1. g \in Surjection(1..K, M)
    <3>1. g \in [1..K -> M]
      BY <1>1
    <3>2. \A x \in M : \E i \in 1..K : g[i] = x
      BY <1>1
    <3> HIDE DEF g, M, K
    <3> QED
      BY <3>1, <3>2 DEF Surjection
  <2>2. ExistsSurjection(1..K, M)
    BY <2>1 DEF ExistsSurjection
  <2>3. IsFiniteSet(1..K)
    BY <1>1, FS_Interval
  <2> HIDE DEF g, M, K
  <2>4. IsFiniteSet(M)
    BY <2>1, <2>3, FS_Surjection
  <2>5. Cardinality(M) <= K
    BY <1>1, <2>2, FS_SurjCardinalityBound
  <2> QED
    BY <2>4, <2>5, FS_CardinalityType
<1>3. ids \in Seq(M)
  BY <1>1
<1>4. CASE q.prefer = "as_requested"
  <2>1. G!BuildProcessOrder(q, f) = ids
    BY <1>4 DEF G!BuildProcessOrder
  <2> QED
    BY <1>1, <1>3, <1>4, <2>1
<1>5. CASE q.prefer # "as_requested"
  <2> DEFINE R == {p \in M \X M : G!NewestFirstBefore(ids, f, p[1], p[2])}
             N == Cardinality(M)
             t == G!NewestFirst(ids, f)
             at(x) == IF G!Ats(f, x) = {} THEN 0 ELSE CHOOSE z \in G!Ats(f, x) : TRUE
             occ(x) == G!Occurrence(ids, x)
  <2>1. \A x, y : G!NewestFirstBefore(ids, f, x, y)
                    <=> at(x) > at(y) \/ (at(x) = at(y) /\ occ(x) < occ(y))
    BY DEF G!NewestFirstBefore
  <2>2. ASSUME NEW x PROVE at(x) \in Int
    <3>1. G!Ats(f, x) \subseteq Int
      BY EventsBegin DEF G!Ats, Distinct, Point
    <3> QED
      BY <3>1
  <2>3. ASSUME NEW x \in M PROVE occ(x) \in 1..K /\ ids[occ(x)] = x
    <3>1. \E n \in DOMAIN ids : ids[n] = x /\ \A m \in 1..(n - 1) : ids[m] # x
      BY FirstPlace
    <3>2. /\ occ(x) \in DOMAIN ids /\ ids[occ(x)] = x
      BY <3>1 DEF G!Occurrence
    <3> QED
      BY <1>1, <3>2
  <2> HIDE DEF at, occ, M
  <2>4. Ranks(M, R)
    <3>1. ASSUME NEW x \in M, NEW y \in M
          PROVE  <<x, y>> \in R <=> at(x) > at(y) \/ (at(x) = at(y) /\ occ(x) < occ(y))
      BY <2>1
    <3>2. ASSUME NEW x \in M PROVE at(x) \in Int /\ occ(x) \in Int
      BY <2>2, <2>3, <1>1
    <3> HIDE DEF R
    <3>3. \A x \in M : <<x, x>> \notin R
      BY <3>1, <3>2
    <3>4. ASSUME NEW x \in M, NEW y \in M, NEW z \in M, <<x, y>> \in R, <<y, z>> \in R
          PROVE  <<x, z>> \in R
      BY <3>1, <3>2, <3>4
    <3>5. ASSUME NEW x \in M, NEW y \in M PROVE x = y \/ <<x, y>> \in R \/ <<y, x>> \in R
      <4>1. occ(x) = occ(y) => x = y
        BY <2>3
      <4> QED
        BY <3>1, <3>2, <4>1
    <3> QED
      BY <3>3, <3>4, <3>5 DEF Ranks
  <2>5. /\ DOMAIN t = 1..N
        /\ \A n \in 1..N :
             t[n] = CHOOSE x \in M : G!Cardinality({y \in M : G!NewestFirstBefore(ids, f, y, x)}) = n - 1
        /\ t = [n \in 1..N |-> t[n]]
    <3>1. G!ToSet(ids) = M
      BY AtomsRead DEF M
    <3>2. t = [n \in 1..G!Cardinality(M) |->
                 CHOOSE x \in M : G!Cardinality({y \in M : G!NewestFirstBefore(ids, f, y, x)}) = n - 1]
      BY <3>1 DEF G!NewestFirst, G!Sorted
    <3>3. \A set : G!Cardinality(set) = Cardinality(set)
      BY AtomsRead
    <3> HIDE DEF t
    <3>4. t = [n \in 1..N |->
                 CHOOSE x \in M : G!Cardinality({y \in M : G!NewestFirstBefore(ids, f, y, x)}) = n - 1]
      <4>1. 1..G!Cardinality(M) = 1..N
        BY <3>3
      <4> HIDE DEF N
      <4> QED
        BY <3>2, <4>1
    <3> DEFINE pick(n) == CHOOSE x \in M :
                            G!Cardinality({y \in M : G!NewestFirstBefore(ids, f, y, x)}) = n - 1
    <3>5. t = [n \in 1..N |-> pick(n)]
      BY <3>4
    <3> HIDE DEF pick, N
    <3>6. DOMAIN t = 1..N /\ (\A n \in 1..N : t[n] = pick(n)) /\ t = [n \in 1..N |-> t[n]]
      BY <3>5
    <3> QED
      BY <3>6 DEF pick
  <2>9. \A set : G!Cardinality(set) = Cardinality(set)
    BY AtomsRead
  <2> HIDE DEF t
  <2>6. ASSUME NEW n \in 1..N PROVE t[n] \in M
    <3>1. ASSUME NEW x \in M
          PROVE  {y \in M : <<y, x>> \in R} = {y \in M : G!NewestFirstBefore(ids, f, y, x)}
      OBVIOUS
    <3>2. PICK x \in M : Cardinality({y \in M : <<y, x>> \in R}) = n - 1
      <4> HIDE DEF R
      <4> QED
        BY <1>2, <2>4, RanksTaken
    <3>3. G!Cardinality({y \in M : G!NewestFirstBefore(ids, f, y, x)}) = n - 1
      BY <2>9, <3>1, <3>2
    <3> HIDE DEF R
    <3> QED
      BY <2>5, <3>3
  <2>7. t \in Seq(M) /\ Len(t) = N
    <3>1. t \in [1..N -> M]
      BY <2>5, <2>6
    <3> QED
      BY <1>2, <3>1
  <2>8. G!BuildProcessOrder(q, f) = t
    BY <1>5 DEF G!BuildProcessOrder, t
  <2> HIDE DEF R
  <2> QED
    BY <1>2, <1>5, <2>7, <2>8 DEF M
<1> QED
  BY <1>4, <1>5

(* One page of the answer, up to the n-th entry: the last, one that never    *)
(* fits, or one that the next page begins behind.                            *)
PageEnds(a, q, s, f, n) ==
  \/ n = Len(s) /\ a.next = {} /\ ~a.stuck
  \/ /\ n < Len(s) /\ a.next = {} /\ a.stuck
     /\ s[n + 1] \in AtomIds(f) /\ s[n + 1] \in Oversize
  \/ n \in 1..(Len(s) - 1) /\ a.next = {G!Cursor(q, s, f, n)}

IsPage(a, q, s, f, start, absent) ==
  /\ a.code = None /\ a.missing = absent
  /\ \E n \in start..Len(s) :
       a.ids = Among(SubSeq(s, start + 1, n), AtomIds(f)) /\ PageEnds(a, q, s, f, n)

LEMMA PagesAre ==
  ASSUME NEW T, NEW s \in Seq(T), NEW q, NEW f, NEW start \in 0..Len(s), NEW absent,
         NEW a \in G!Pages(q, s, f, start, absent)
  PROVE  IsPage(a, q, s, f, start, absent)
<1>1. Len(s) \in Nat
  OBVIOUS
<1>2. CASE a = G!Whole(s, f, start, absent)
  <2>1. /\ a.code = None /\ a.missing = absent /\ a.next = {} /\ ~a.stuck
        /\ a.ids = Among(SubSeq(s, start + 1, Len(s)), AtomIds(f))
    BY <1>2, ExistingIs DEF G!Whole, G!Page
  <2>2. Len(s) \in start..Len(s)
    BY <1>1
  <2>3. PageEnds(a, q, s, f, Len(s))
    BY <2>1 DEF PageEnds
  <2> QED
    BY <2>1, <2>2, <2>3 DEF IsPage
<1>3. ASSUME NEW i \in G!Caps(s, f, start), a = G!CappedAt(q, s, f, start, absent, i)
      PROVE  IsPage(a, q, s, f, start, absent)
  <2> DEFINE n == i - 1
             t == SubSeq(s, start + 1, n)
             e == Among(t, AtomIds(f))
  <2>1. /\ i \in (start + 1)..Len(s) /\ s[i] \in AtomIds(f)
        /\ s[i] \in Oversize \/ \E m \in (start + 1)..Len(s) : m < i /\ s[m] \in AtomIds(f)
    BY <1>3, ExistingIs DEF G!Caps, G!Entries
  <2>2. n \in start..Len(s) /\ n < Len(s) /\ n + 1 = i /\ n \in Nat /\ i \in Int
    BY <1>1, <2>1
  <2>3. /\ a.code = None /\ a.missing = absent /\ a.ids = e
        /\ a.next = IF e = <<>> THEN {} ELSE {G!Cursor(q, s, f, n)}
        /\ a.stuck <=> e = <<>>
    BY <1>3, ExistingIs DEF G!CappedAt, G!Page, G!ResumeAt
  <2>4. /\ t \in Seq(T) /\ Len(t) = n - start
        /\ \A k \in 1..(n - start) : t[k] = s[start + k]
    BY <1>1, <2>2
  <2> HIDE DEF t
  <2>5. PICK p : Places(p, e, t, AtomIds(f), Len(t))
    BY <2>4, AmongPlaces
  <2>6. CASE e = <<>>
    <3>1. s[i] \in Oversize
      <4> SUFFICES ASSUME NEW m \in (start + 1)..Len(s), m < i, s[m] \in AtomIds(f) PROVE FALSE
        BY <2>1
      <4>1. m - start \in 1..(n - start) /\ start + (m - start) = m
        BY <1>1, <2>2
      <4>2. t[m - start] \in AtomIds(f) /\ m - start \in 1..Len(t)
        BY <2>4, <4>1
      <4>3. Len(e) = 0
        BY <2>6
      <4> QED
        BY <2>5, <4>2, <4>3 DEF Places
    <3> HIDE DEF e, n
    <3>2. a.next = {} /\ a.stuck /\ s[n + 1] \in AtomIds(f) /\ s[n + 1] \in Oversize
      BY <2>1, <2>2, <2>3, <2>6, <3>1
    <3>3. n < Len(s) /\ n \in start..Len(s)
      BY <2>2
    <3> QED
      BY <2>3, <3>2, <3>3 DEF e, t, PageEnds, IsPage
  <2>7. CASE e # <<>>
    <3>1. n # start
      <4> SUFFICES ASSUME n = start PROVE FALSE
        OBVIOUS
      <4>1. Len(t) = 0
        BY <2>2, <2>4
      <4>2. e \in Seq(T)
        BY <2>4, AmongPlaces
      <4>3. p \in [1..Len(e) -> 1..0]
        BY <2>5, <4>1 DEF Places
      <4>4. Len(e) = 0
        <5> SUFFICES ASSUME Len(e) # 0 PROVE FALSE
          OBVIOUS
        <5>1. 1 \in 1..Len(e)
          BY <4>2
        <5>2. p[1] \in 1..0
          BY <4>3, <5>1
        <5> QED
          BY <5>2
      <4> QED
        BY <2>7, <4>2, <4>4
    <3>2. n \in 1..(Len(s) - 1)
      BY <1>1, <2>2, <3>1
    <3> HIDE DEF e, n
    <3>3. a.next = {G!Cursor(q, s, f, n)}
      BY <2>3, <2>7
    <3> QED
      BY <2>2, <2>3, <3>2, <3>3 DEF e, t, PageEnds, IsPage
  <2> QED
    BY <2>6, <2>7
<1>4. \/ a = G!Whole(s, f, start, absent)
      \/ \E i \in G!Caps(s, f, start) : a = G!CappedAt(q, s, f, start, absent, i)
  BY DEF G!Pages
<1> QED
  BY <1>2, <1>3, <1>4

(* F is what the first page fetched.                                         *)
Answered(F) ==
  LET s == G!BuildProcessOrder(request, F)
      K == AtomIds(F)
  IN  /\ F \subseteq ledger /\ \A r \in F : r.id \in ToSet(request.ids)
      /\ order = Among(s, K)
      /\ missing \in Nat /\ Len(order) + missing = Len(s)
      /\ \E n \in 0..Len(s) :
           /\ received = SoFar(s, K, n)
           /\ \A c \in cursor : c = G!Cursor(request, s, F, n) /\ n \in 1..(Len(s) - 1)
           /\ cursor = {} /\ refused = None =>
                /\ ~stuck => n = Len(s)
                /\ stuck => n < Len(s) /\ s[n + 1] \in K /\ s[n + 1] \in Oversize
      /\ refused \in {None, "STALE", "MISMATCH"}
      /\ refused = "STALE" => \E r \in ledger : r.id \in ToSet(request.ids) \ ToSet(order)

AtomInv ==
  /\ ledger \subseteq Rows
  /\ request = None => received = <<>> /\ missing = 0
  /\ request # None => request \in Asked /\ \E F : Answered(F)

AtomAssumed == EventBounds /\ G!AtomBounds

LEMMA AtomStart ==
  ASSUME G!Init
  PROVE  AtomInv
BY DEF G!Init, AtomInv

LEMMA AtomCaptures ==
  ASSUME AtomInv, G!Capture
  PROVE  AtomInv'
<1>1. PICK r \in G!Rows \ ledger : ledger' = G!AppendEvent(ledger, r)
  BY DEF G!Capture
<1>2. UNCHANGED <<request, cursor, received, missing, refused, stuck, order>>
  BY DEF G!Capture
<1>3. ledger \subseteq ledger' /\ ledger' \subseteq Rows
  BY <1>1, AtomsRead DEF G!AppendEvent, AtomInv
<1>4. ASSUME NEW F, Answered(F) PROVE Answered(F)'
  BY <1>2, <1>3, <1>4 DEF Answered
<1> QED
  BY <1>2, <1>3, <1>4 DEF AtomInv

LEMMA AtomKept ==
  ASSUME AtomInv, UNCHANGED G!vars
  PROVE  AtomInv'
<1>1. UNCHANGED <<ledger, request, cursor, received, missing, refused, stuck, order>>
  BY DEF G!vars
<1>2. ASSUME NEW F, Answered(F) PROVE Answered(F)'
  BY <1>1, <1>2 DEF Answered
<1> QED
  BY <1>1, <1>2 DEF AtomInv

(* The first page.                                                           *)
LEMMA AtomAsks ==
  ASSUME AtomAssumed, AtomInv, G!Ask
  PROVE  AtomInv'
<1>1. /\ request = None /\ UNCHANGED ledger /\ ledger \subseteq Rows
      /\ received = <<>> /\ missing = 0
  BY DEF G!Ask, AtomInv
<1>2. PICK q \in Asked :
        /\ request' = q
        /\ order' = G!Existing(G!BuildProcessOrder(q, G!GetByIds(ledger, q.ids)), ledger)
        /\ \E a \in G!FirstAnswers(q, G!GetByIds(ledger, q.ids)) : G!Receive(a)
  BY DEF G!Ask
<1>0. PICK F : F = G!GetByIds(ledger, q.ids)
  OBVIOUS
<1> DEFINE s == G!BuildProcessOrder(q, F)
           K == AtomIds(F)
           M == ToSet(q.ids)
           gone == G!Cardinality({i \in DOMAIN s : ~G!Exists(F, s[i])})
<1>3. PICK a \in G!FirstAnswers(q, F) : G!Receive(a)
  BY <1>0, <1>2
<1>4. q.ids \in Seq(G!AllIds) /\ q # None /\ EventBounds
  BY DEF AtomAssumed, G!AtomBounds
<1>5. F = {r \in ledger : r.id \in M}
  BY <1>0, <1>4, FetchedIs
<1>6. s \in Seq(M)
  <2>1. F \in SUBSET Rows
    BY <1>1, <1>5
  <2> QED
    BY <1>4, <2>1, ProcessOrderIs
<1>7. a \in G!Pages(q, s, F, 0, gone)
  BY <1>3 DEF G!FirstAnswers, G!FirstPages
<1>8. order' = Among(s, K)
  <2>1. order' = Among(s, AtomIds(ledger))
    BY <1>0, <1>2, ExistingIs
  <2>2. ASSUME NEW i \in 1..Len(s) PROVE s[i] \in AtomIds(ledger) <=> s[i] \in K
    <3>1. s[i] \in M
      BY <1>6
    <3> HIDE DEF s, M
    <3> QED
      BY <3>1, <1>5 DEF AtomIds
  <2> HIDE DEF s, K, M
  <2>3. Among(s, AtomIds(ledger)) = Among(s, K)
    BY <1>6, <2>2, AmongSame
  <2> QED
    BY <2>1, <2>3
<1>9. /\ gone = Cardinality({i \in 1..Len(s) : s[i] \notin K})
      /\ DOMAIN s = 1..Len(s) /\ Len(s) \in Nat
  <2>1. DOMAIN s = 1..Len(s) /\ Len(s) \in Nat
    BY <1>6
  <2> HIDE DEF s
  <2>2. {i \in DOMAIN s : ~G!Exists(F, s[i])} = {i \in 1..Len(s) : s[i] \notin K}
    BY <2>1, ExistingIs
  <2> QED
    BY <2>1, <2>2, AtomsRead
<1> HIDE DEF K, M, gone
<1>10. /\ received' = <<>> \o a.ids /\ missing' = 0 + a.missing
       /\ cursor' = a.next /\ refused' = a.code /\ stuck' = a.stuck
  BY <1>1, <1>3 DEF G!Receive
<1> HIDE DEF s
<1>11. IsPage(a, q, s, F, 0, gone)
  <2>1. 0 \in 0..Len(s)
    BY <1>9
  <2> QED
    BY <1>6, <1>7, <2>1, PagesAre
<1>12. /\ a.code = None /\ a.missing = gone
       /\ \E n \in 0..Len(s) : a.ids = SoFar(s, K, n) /\ PageEnds(a, q, s, F, n)
  <2>1. 0 + 1 = 1
    OBVIOUS
  <2> QED
    BY <1>11, <2>1 DEF IsPage, SoFar, K
<1>13. PICK n \in 0..Len(s) : a.ids = SoFar(s, K, n) /\ PageEnds(a, q, s, F, n)
  BY <1>12
<1>14. received' = SoFar(s, K, n)
  <2>1. a.ids = SoFar(s, K, n)
    BY <1>13
  <2>2. \A m \in 0..Len(s) : SoFar(s, K, m) \in Seq(M)
    BY <1>6, SoFarIs
  <2>3. <<>> \o a.ids = a.ids
    BY <2>1, <2>2, ConcatEmptySeq
  <2> QED
    BY <1>10, <2>1, <2>3
<1>15. missing' \in Nat /\ Len(order') + missing' = Len(s)
  <2>1. gone \in Nat /\ Len(Among(s, K)) + gone = Len(s)
    BY <1>6, <1>9, SoFarCounts
  <2>2. missing' = gone
    BY <1>10, <1>12, <2>1
  <2> QED
    BY <1>8, <2>1, <2>2
<1>16. None \notin {"STALE", "MISMATCH"}
  BY DEF AtomAssumed, G!AtomBounds
<1>17. Answered(F)'
  <2>1. F \subseteq ledger' /\ \A r \in F : r.id \in ToSet(request'.ids)
    BY <1>1, <1>2, <1>5 DEF M
  <2>2. refused' = None /\ request' = q
    BY <1>2, <1>10, <1>12
  <2>3. /\ \A c \in cursor' : c = G!Cursor(q, s, F, n) /\ n \in 1..(Len(s) - 1)
        /\ cursor' = {} => /\ ~stuck' => n = Len(s)
                           /\ stuck' => n < Len(s) /\ s[n + 1] \in K /\ s[n + 1] \in Oversize
    BY <1>10, <1>13 DEF PageEnds, K
  <2>4. s = G!BuildProcessOrder(request', F)
    BY <2>2 DEF s
  <2>5. /\ \A c \in cursor' : c = G!Cursor(request', s, F, n) /\ n \in 1..(Len(s) - 1)
        /\ refused' # "STALE" /\ refused' \in {None, "STALE", "MISMATCH"}
    BY <1>16, <2>2, <2>3
  <2> QED
    BY <1>8, <1>13, <1>14, <1>15, <2>1, <2>3, <2>4, <2>5 DEF Answered, K
<1> QED
  BY <1>1, <1>2, <1>4, <1>17 DEF AtomInv

(* A page that follows.                                                      *)
LEMMA AtomGoesOn ==
  ASSUME AtomAssumed, AtomInv, G!AskOn
  PROVE  AtomInv'
<1>1. /\ request # None /\ request \in Asked /\ UNCHANGED <<ledger, request, order>>
      /\ ledger \subseteq Rows
  BY DEF G!AskOn, AtomInv
<1>2. PICK F : Answered(F)
  BY <1>1 DEF AtomInv
<1>3. PICK ask : ask = request
  OBVIOUS
<1>4. PICK c \in cursor, q \in {ask, [ask EXCEPT !.view = "other"]} :
        \E a \in G!NextAnswers(q, G!GetByIds(ledger, q.ids), c) : G!Receive(a)
  BY <1>3 DEF G!AskOn
<1>5. PICK f : f = G!GetByIds(ledger, q.ids)
  OBVIOUS
<1>6. PICK a \in G!NextAnswers(q, f, c) : G!Receive(a)
  BY <1>4, <1>5
<1> DEFINE s == G!BuildProcessOrder(ask, F)
           t == G!BuildProcessOrder(q, f)
           K == AtomIds(F)
           M == ToSet(ask.ids)
<1>7. ask.ids \in Seq(G!AllIds) /\ Len(ask.ids) <= MaxIndex /\ MaxIndex \in Nat /\ EventBounds
  BY <1>1, <1>3 DEF AtomAssumed, G!AtomBounds
<1>8. /\ F \subseteq ledger /\ \A r \in F : r.id \in M
      /\ order = Among(s, K) /\ missing \in Nat /\ Len(order) + missing = Len(s)
  BY <1>2, <1>3 DEF Answered
<1>9. PICK n \in 0..Len(s) :
        /\ received = SoFar(s, K, n)
        /\ \A e \in cursor : e = G!Cursor(ask, s, F, n) /\ n \in 1..(Len(s) - 1)
  BY <1>2, <1>3 DEF Answered
<1>10. s \in Seq(M) /\ Len(s) <= MaxIndex /\ Len(s) \in Nat
  <2>1. F \in SUBSET Rows
    BY <1>1, <1>8
  <2>2. s \in Seq(M) /\ Len(s) <= Len(ask.ids)
    BY <1>7, <2>1, ProcessOrderIs
  <2> HIDE DEF s, M
  <2> QED
    BY <1>7, <2>2
<1> HIDE DEF s, t, K, M
<1>19. \A b \in 0..Len(s) : \A m \in 0..Len(s) :
         m <= b => SoFar(s, K, b) = SoFar(s, K, m) \o Among(SubSeq(s, m + 1, b), K)
  <2>1. SoFarRule(s, K)
    BY <1>10, SoFarIs
  <2> HIDE DEF SoFar
  <2> QED
    BY <2>1 DEF SoFarRule
<1>11. /\ c.request = ask /\ c.process = G!ProcessDigest(s, F) /\ c.index = n
       /\ n \in 1..(Len(s) - 1)
  BY <1>9 DEF G!Cursor
<1>12. G!Decodes(c)
  BY <1>7, <1>10, <1>11 DEF G!Decodes
<1>13. /\ received' = received \o a.ids /\ missing' = missing + a.missing
       /\ cursor' = a.next /\ refused' = a.code /\ stuck' = a.stuck
  BY <1>6 DEF G!Receive
<1>14. /\ received \in Seq(M) /\ \A m \in 0..Len(s) : SoFar(s, K, m) \in Seq(M)
  BY <1>9, <1>10, SoFarIs
<1>15. ASSUME NEW m \in 0..Len(s),
              received' = SoFar(s, K, m), missing' = missing,
              \A e \in cursor' : e = G!Cursor(ask, s, F, m) /\ m \in 1..(Len(s) - 1),
              cursor' = {} /\ refused' = None =>
                /\ ~stuck' => m = Len(s)
                /\ stuck' => m < Len(s) /\ s[m + 1] \in K /\ s[m + 1] \in Oversize,
              refused' \in {None, "STALE", "MISMATCH"},
              refused' = "STALE" => \E r \in ledger : r.id \in M \ ToSet(order)
       PROVE  AtomInv'
  <2>1. Answered(F)'
    <3>1. s = G!BuildProcessOrder(request', F) /\ M = ToSet(request'.ids) /\ request' = ask
      BY <1>1, <1>3 DEF s, M
    <3>2. /\ F \subseteq ledger' /\ \A r \in F : r.id \in ToSet(request'.ids)
          /\ order' = Among(s, K) /\ missing' \in Nat /\ Len(order') + missing' = Len(s)
      BY <1>1, <1>8, <1>15, <3>1
    <3>3. refused' = "STALE" => \E r \in ledger' : r.id \in ToSet(request'.ids) \ ToSet(order')
      BY <1>1, <1>15, <3>1
    <3>4. \A e \in cursor' : e = G!Cursor(request', s, F, m) /\ m \in 1..(Len(s) - 1)
      BY <1>15, <3>1
    <3> QED
      BY <1>15, <3>1, <3>2, <3>3, <3>4 DEF Answered, K
  <2> QED
    BY <1>1, <2>1 DEF AtomInv
<1>16. ASSUME NEW code \in {"STALE", "MISMATCH"}, a = G!Refusal(code),
              code = "STALE" => \E r \in ledger : r.id \in M \ ToSet(order)
       PROVE  AtomInv'
  <2>1. a.code = code /\ a.ids = <<>> /\ a.missing = 0 /\ a.next = {}
    BY <1>16 DEF G!Refusal
  <2>2. received' = received
    <3>1. received \o <<>> = received
      BY <1>14, ConcatEmptySeq
    <3> QED
      BY <1>13, <2>1, <3>1
  <2>3. missing' = missing /\ cursor' = {} /\ refused' = code /\ code # None
    BY <1>8, <1>13, <2>1 DEF AtomAssumed, G!AtomBounds
  <2> QED
    BY <1>9, <1>15, <1>16, <2>2, <2>3
<1>17. CASE q # ask
  <2>1. a = G!Refusal("MISMATCH")
    BY <1>6, <1>11, <1>12, <1>17 DEF G!NextAnswers, G!Continue
  <2> QED
    BY <1>16, <2>1
<1>18. CASE q = ask
  <2>1. f = {r \in ledger : r.id \in M}
    BY <1>5, <1>7, <1>18, FetchedIs DEF M
  <2>2. t \in Seq(M)
    <3>1. f \in SUBSET Rows
      BY <1>1, <2>1
    <3> QED
      BY <1>7, <1>18, <3>1, ProcessOrderIs DEF t, M
  <2>3. CASE c.process # G!ProcessDigest(t, f) \/ n >= Len(t)
    <3>1. a = G!Refusal("STALE")
      BY <1>6, <1>11, <1>12, <1>18, <2>3 DEF G!NextAnswers, G!Continue, t
    <3>2. \E r \in ledger : r.id \in M \ ToSet(order)
      <4> SUFFICES ASSUME \A r \in f : r.id \in ToSet(order) PROVE FALSE
        BY <2>1
      <4>1. ToSet(order) \subseteq K
        <5>1. PICK p : Places(p, order, s, K, Len(s))
          BY <1>8, <1>10, AmongPlaces
        <5>2. order \in Seq(M)
          BY <1>8, <1>10, AmongPlaces
        <5>3. \A i \in 1..Len(order) : order[i] \in K
          BY <5>1 DEF Places
        <5> QED
          BY <5>2, <5>3, ElementsOf
      <4>2. ASSUME NEW r \in f PROVE r \in F
        <5>1. PICK x \in F : x.id = r.id
          BY <4>1 DEF K, AtomIds
        <5>2. x \in Rows /\ r \in Rows
          BY <1>1, <1>8, <2>1
        <5> QED
          BY <1>7, <5>1, <5>2, EventsBegin DEF Distinct
      <4>3. F = f
        BY <1>8, <2>1, <4>2
      <4>4. t = s
        BY <1>18, <4>3 DEF s, t
      <4> QED
        BY <1>10, <1>11, <2>3, <4>3, <4>4
    <3> QED
      BY <1>16, <3>1, <3>2
  <2>4. CASE ~(c.process # G!ProcessDigest(t, f) \/ n >= Len(t))
    <3>1. a \in G!Pages(ask, t, f, n, 0)
      BY <1>6, <1>11, <1>12, <1>18, <2>4 DEF G!NextAnswers, G!Continue, t
    <3>2. /\ DOMAIN t = DOMAIN s
          /\ \A i \in DOMAIN s : t[i] = s[i] /\ G!Ats(f, s[i]) = G!Ats(F, s[i])
      <4> DEFINE d(x, g) == [i \in DOMAIN x |-> <<x[i], G!Ats(g, x[i])>>]
      <4>1. d(s, F) = d(t, f)
        BY <1>11, <2>4 DEF G!ProcessDigest
      <4>2. DOMAIN d(s, F) = DOMAIN s /\ DOMAIN d(t, f) = DOMAIN t
        OBVIOUS
      <4>3. DOMAIN t = DOMAIN s
        BY <4>1, <4>2
      <4>4. ASSUME NEW i \in DOMAIN s PROVE t[i] = s[i] /\ G!Ats(f, s[i]) = G!Ats(F, s[i])
        <5>1. d(s, F)[i] = <<s[i], G!Ats(F, s[i])>>
          OBVIOUS
        <5>2. d(t, f)[i] = <<t[i], G!Ats(f, t[i])>>
          BY <4>3
        <5> HIDE DEF d
        <5>3. <<s[i], G!Ats(F, s[i])>> = <<t[i], G!Ats(f, t[i])>>
          BY <4>1, <5>1, <5>2
        <5> QED
          BY <5>3
      <4> QED
        BY <4>3, <4>4
    <3>3. t = s
      <4>1. Len(t) = Len(s) /\ \A i \in 1..Len(t) : t[i] = s[i]
        BY <1>10, <2>2, <3>2
      <4> QED
        BY <1>10, <2>2, <4>1, SeqEqual
    <3>4. ASSUME NEW i \in 1..Len(s) PROVE s[i] \in AtomIds(f) <=> s[i] \in K
      <4>1. G!Ats(f, s[i]) = G!Ats(F, s[i])
        BY <1>10, <3>2
      <4> QED
        BY <4>1, ExistingIs DEF G!Exists, K
    <3>5. \A m : G!Cursor(ask, s, f, m) = G!Cursor(ask, s, F, m)
      BY <1>11, <2>4, <3>3 DEF G!Cursor
    <3>6. IsPage(a, ask, s, f, n, 0)
      BY <1>10, <3>1, <3>3, PagesAre
    <3>7. a.code = None /\ a.missing = 0
      BY <3>6 DEF IsPage
    <3>8. PICK m \in n..Len(s) :
            a.ids = Among(SubSeq(s, n + 1, m), AtomIds(f)) /\ PageEnds(a, ask, s, f, m)
      BY <3>6 DEF IsPage
    <3>9. m \in 0..Len(s) /\ n <= m
      BY <1>9, <1>10
    <3>10. a.ids = Among(SubSeq(s, n + 1, m), K)
      <4> DEFINE w == SubSeq(s, n + 1, m)
      <4>1. w \in Seq(M) /\ Len(w) = m - n /\ \A i \in 1..(m - n) : w[i] = s[n + i] /\ n + i \in 1..Len(s)
        BY <1>10, <3>9
      <4> HIDE DEF w
      <4>2. \A i \in 1..Len(w) : w[i] \in AtomIds(f) <=> w[i] \in K
        BY <3>4, <4>1
      <4>3. Among(w, AtomIds(f)) = Among(w, K)
        BY <4>1, <4>2, AmongSame
      <4> QED
        BY <3>8, <4>3 DEF w
    <3>11. received' = SoFar(s, K, m)
      <4>1. SoFar(s, K, m) = SoFar(s, K, n) \o Among(SubSeq(s, n + 1, m), K)
        BY <1>19, <3>9
      <4> QED
        BY <1>9, <1>13, <3>10, <4>1
    <3>12. /\ \A e \in cursor' : e = G!Cursor(ask, s, F, m) /\ m \in 1..(Len(s) - 1)
           /\ cursor' = {} => /\ ~stuck' => m = Len(s)
                              /\ stuck' => m < Len(s) /\ s[m + 1] \in K /\ s[m + 1] \in Oversize
      <4>1. m < Len(s) => m + 1 \in 1..Len(s)
        BY <1>10, <3>9
      <4> QED
        BY <1>13, <3>4, <3>5, <3>8, <4>1 DEF PageEnds
    <3>13. missing' = missing /\ refused' = None
      BY <1>8, <1>13, <3>7
    <3>14. None # "STALE"
      BY DEF AtomAssumed, G!AtomBounds
    <3> QED
      BY <1>15, <3>9, <3>11, <3>12, <3>13, <3>14
  <2> QED
    BY <2>3, <2>4
<1> QED
  BY <1>17, <1>18

LEMMA AtomsHold ==
  ASSUME AtomAssumed, AtomInv
  PROVE  G!AtomsArriveOnce
<1> SUFFICES ASSUME request # None PROVE G!AtomsArriveOnce
  BY DEF G!AtomsArriveOnce
<1>1. request \in Asked /\ ledger \subseteq Rows
  BY DEF AtomInv
<1>2. PICK F : Answered(F)
  BY DEF AtomInv
<1> DEFINE s == G!BuildProcessOrder(request, F)
           K == AtomIds(F)
           M == ToSet(request.ids)
<1>3. /\ F \subseteq ledger /\ order = Among(s, K)
      /\ missing \in Nat /\ Len(order) + missing = Len(s)
      /\ refused \in {None, "STALE", "MISMATCH"}
      /\ refused = "STALE" => \E r \in ledger : r.id \in M \ ToSet(order)
  BY <1>2 DEF Answered
<1>4. PICK n \in 0..Len(s) :
        /\ received = SoFar(s, K, n)
        /\ cursor = {} /\ refused = None =>
             /\ ~stuck => n = Len(s)
             /\ stuck => n < Len(s) /\ s[n + 1] \in K /\ s[n + 1] \in Oversize
  BY <1>2 DEF Answered
<1>5. /\ s \in Seq(M) /\ Len(s) \in Nat
      /\ Len(s) = IF request.prefer = "as_requested" THEN Len(request.ids) ELSE Cardinality(M)
  <2>1. F \in SUBSET Rows /\ EventBounds /\ request.ids \in Seq(G!AllIds)
    BY <1>1, <1>3 DEF AtomAssumed, G!AtomBounds
  <2>2. /\ s \in Seq(M)
        /\ Len(s) = IF request.prefer = "as_requested" THEN Len(request.ids) ELSE Cardinality(M)
    BY <2>1, ProcessOrderIs
  <2> HIDE DEF s, M
  <2> QED
    BY <2>2
<1> HIDE DEF s, K, M
<1>6. /\ \A m \in 0..Len(s) : SoFar(s, K, m) \in Seq(M)
      /\ SoFar(s, K, Len(s)) = order
  BY <1>3, <1>5, SoFarIs
<1>13. SoFarRule(s, K)
  BY <1>5, SoFarIs
<1>7. \A m \in 0..Len(s) :
        /\ Among(SubSeq(s, m + 1, Len(s)), K) \in Seq(M)
        /\ order = SoFar(s, K, m) \o Among(SubSeq(s, m + 1, Len(s)), K)
  <2> SUFFICES ASSUME NEW m \in 0..Len(s)
               PROVE  /\ Among(SubSeq(s, m + 1, Len(s)), K) \in Seq(M)
                      /\ order = SoFar(s, K, m) \o Among(SubSeq(s, m + 1, Len(s)), K)
    OBVIOUS
  <2>1. SubSeq(s, m + 1, Len(s)) \in Seq(M)
    BY <1>5
  <2>2. Among(SubSeq(s, m + 1, Len(s)), K) \in Seq(M)
    BY <2>1, AmongPlaces
  <2>3. Len(s) \in 0..Len(s) /\ m <= Len(s)
    BY <1>5
  <2>4. SoFar(s, K, Len(s)) = SoFar(s, K, m) \o Among(SubSeq(s, m + 1, Len(s)), K)
    BY <1>13, <2>3 DEF SoFarRule
  <2> QED
    BY <1>6, <2>2, <2>4
<1>8. G!IsPrefix(received, order)
  <2> DEFINE after == Among(SubSeq(s, n + 1, Len(s)), K)
             L0 == Len(received)
  <2>1. received \in Seq(M) /\ after \in Seq(M) /\ order = received \o after
    BY <1>4, <1>6, <1>7
  <2> HIDE DEF after
  <2>2. L0 \in Nat /\ L0 <= Len(order)
    BY <2>1
  <2>3. SubSeq(received, 1, L0) = SubSeq(order, 1, L0)
    <3>1. CASE L0 = 0
      <4>1. SubSeq(received, 1, 0) = <<>> /\ SubSeq(order, 1, 0) = <<>>
        BY SubSeqEmpty
      <4> QED
        BY <3>1, <4>1
    <3>2. CASE L0 # 0
      <4>1. 1 \in 1..Len(received) /\ L0 \in 1..Len(received)
        BY <2>2, <3>2
      <4> QED
        BY <2>1, <4>1, SubSeqOfConcat1
    <3> QED
      BY <3>1, <3>2
  <2> QED
    BY <2>2, <2>3 DEF G!IsPrefix
<1>9. ASSUME cursor = {}, refused = None
      PROVE  IF stuck THEN order[Len(received) + 1] \in Oversize ELSE received = order
  <2>1. CASE ~stuck
    BY <1>4, <1>6, <1>9, <2>1
  <2>2. CASE stuck
    <3>1. n < Len(s) /\ s[n + 1] \in K /\ s[n + 1] \in Oversize
      BY <1>4, <1>9, <2>2
    <3>2. n + 1 \in 1..Len(s) /\ (n + 1) - 1 = n /\ n + 1 \in 0..Len(s)
      BY <1>5, <3>1
    <3>3. SoFar(s, K, n + 1) = Append(received, s[n + 1])
      <4>1. SoFar(s, K, n + 1) = Append(SoFar(s, K, (n + 1) - 1), s[n + 1])
        BY <1>13, <3>1, <3>2 DEF SoFarRule
      <4> QED
        BY <1>4, <3>2, <4>1
    <3> DEFINE x == s[n + 1]
               after == Among(SubSeq(s, (n + 1) + 1, Len(s)), K)
               u == Append(received, x)
    <3>4. received \in Seq(M) /\ after \in Seq(M) /\ order = u \o after /\ x \in M
      <4>1. received \in Seq(M)
        BY <1>4, <1>6
      <4>2. after \in Seq(M) /\ order = SoFar(s, K, n + 1) \o after
        BY <1>7, <3>2
      <4>3. x \in M
        BY <1>5, <3>2
      <4> QED
        BY <4>1, <4>2, <4>3, <3>3
    <3> HIDE DEF x, after
    <3>5. u \in Seq(M) /\ Len(received) + 1 \in 1..Len(u) /\ u[Len(received) + 1] = x
      BY <3>4
    <3>6. order[Len(received) + 1] = x
      <4> HIDE DEF u
      <4> QED
        BY <3>4, <3>5, Joined
    <3> QED
      BY <2>2, <3>1, <3>6 DEF x
  <2> QED
    BY <2>1, <2>2
<1>10. Len(order) + missing =
         IF request.prefer = "as_requested" THEN Len(request.ids)
                                            ELSE G!Cardinality(G!ToSet(request.ids))
  BY <1>3, <1>5, AtomsRead DEF M
<1>11. refused # "INVALID"
  BY <1>3 DEF AtomAssumed, G!AtomBounds
<1>12. refused = "STALE" => \E r \in ledger : r.id \in G!ToSet(request.ids) \ G!ToSet(order)
  BY <1>3, AtomsRead DEF M
<1> QED
  BY <1>8, <1>9, <1>10, <1>11, <1>12 DEF G!AtomsArriveOnce

(* The pages of a read of atoms add up to what was asked for, each atom once *)
(* (mcp/tools/get-atoms.ts, mcp/internal/get-atoms-continuation.ts), for     *)
(* every request, ledger and response ceiling, and a cursor is refused only  *)
(* when what it stands for has changed.                                      *)
THEOREM AtomsAddUp == ToolSpec => []AtomsArriveOnce
<1> DEFINE Inv == tool = "atoms" => AtomInv
<1>0. AtomAssumed
  BY EventsInOrder, ToolBounds DEF AtomAssumed
<1>1. ToolInit => Inv
  BY AtomStart DEF ToolInit
<1>2. ASSUME Inv, [ToolNext]_toolVars PROVE Inv'
  <2>1. tool' = tool
    BY <1>2 DEF ToolNext, toolVars, Groups, Search, Atoms, Waits, Logs
  <2>2. tool = "atoms" => [G!Next]_(G!vars)
    BY <1>2 DEF ToolNext, toolVars, Groups, Search, Atoms, Waits, Logs, shared, atomVars, G!vars
  <2> QED
    BY <1>0, <1>2, <2>1, <2>2, AtomCaptures, AtomKept, AtomAsks, AtomGoesOn DEF G!Next
<1>3. Inv => AtomsArriveOnce
  BY <1>0, AtomsHold DEF AtomsArriveOnce
<1> QED
  BY <1>1, <1>2, <1>3, PTL DEF ToolSpec

--------------------------------------------------------------------------------
(* The bounded queries. Two adapters agree on every query (QueriesAgree);  *)
(* the MRU resolver goes back window by window, and what it has not seen of  *)
(* the eligible rows is always ahead of it.                                  *)

(* Queries the resolver may make.                                            *)
Asks(rows, q) ==
  /\ EventBounds /\ StorageBounds /\ MruBounds /\ rows \subseteq Rows
  /\ Query(q) /\ q.order = "desc" /\ (q.post \/ q.scans \subseteq q.keeps)
  /\ \A c \in q.cursor : Point(c)

Behind(rows, q, before) ==
  {r \in rows : /\ r.class \in q.scans
                /\ q.since <= r.ts /\ r.ts < q.until
                /\ \A c \in before : Ahead("desc", c, r)}

MruSpots(q) == {q.cursor} \cup {{CursorOf(r)} : r \in Rows}

MruStates(q) == [row : SUBSET Rows, before : MruSpots(q), done : BOOLEAN]

(* What is open lies behind the cursor and leaves out nothing eligible.      *)
OpenAt(rows, q, before) ==
  /\ \A c \in before : Point(c)
  /\ Behind(rows, q, before) \subseteq Candidates(rows, q)
  /\ Eligible(rows, q) \subseteq Behind(rows, q, before)

Newest1(row, M) ==
  \E r \in M : row = {r} /\ \A x \in M : x = r \/ Older(x, r)

MruInv(rows, q, s) ==
  /\ s \in MruStates(q)
  /\ s.row # {} => Newest1(s.row, Eligible(rows, q))
  /\ s.row = {} /\ s.done => Eligible(rows, q) = {}
  /\ ~s.done => s.row = {} /\ OpenAt(rows, q, s.before)

LEMMA EligibleIs ==
  ASSUME NEW rows, NEW q, Asks(rows, q)
  PROVE  /\ Candidates(rows, q) \subseteq Rows /\ Distinct(Candidates(rows, q))
         /\ Eligible(rows, q) \subseteq Candidates(rows, q)
         /\ \A b : Behind(rows, q, b) \subseteq Rows /\ Distinct(Behind(rows, q, b))
         /\ Distinct(Rows)
<1>1. Candidates(rows, q) \subseteq Rows /\ \A b : Behind(rows, q, b) \subseteq Rows
  BY DEF Candidates, Behind, Asks
<1>2. Distinct(Rows)
  BY EventsBegin DEF Asks
<1>3. Distinct(Candidates(rows, q))
  BY <1>1, <1>2, DistinctIn
<1>4. \A b : Distinct(Behind(rows, q, b))
  BY <1>1, <1>2, DistinctIn
<1>5. Eligible(rows, q) \subseteq Candidates(rows, q)
  BY DEF Eligible
<1> QED
  BY <1>1, <1>2, <1>3, <1>4, <1>5

(* Going back to a candidate ahead of everything that is eligible.           *)
LEMMA MruMoves ==
  ASSUME NEW rows, NEW q, Asks(rows, q), NEW before, OpenAt(rows, q, before),
         NEW x \in Behind(rows, q, before),
         \A e \in Eligible(rows, q) : Ahead("desc", x, e)
  PROVE  OpenAt(rows, q, {CursorOf(x)}) /\ {CursorOf(x)} \in MruSpots(q)
<1>1. x \in Candidates(rows, q) /\ x \in Rows /\ Point(x)
  BY EligibleIs DEF OpenAt, Distinct
<1>2. Point(CursorOf(x)) /\ \A r : Ahead("desc", CursorOf(x), r) <=> Ahead("desc", x, r)
  BY <1>1 DEF Point, CursorOf, Ahead, Older
<1>3. ASSUME NEW r \in rows, Ahead("desc", x, r), NEW c \in q.cursor
      PROVE  Ahead("desc", c, r)
  <2>1. Ahead("desc", c, x)
    BY <1>1 DEF Candidates, Asks
  <2>2. Point(c) /\ Point(r)
    BY EligibleIs DEF Asks, Distinct
  <2> QED
    BY <1>1, <1>3, <2>1, <2>2, AheadIsOrder
<1>4. Behind(rows, q, {CursorOf(x)}) \subseteq Candidates(rows, q)
  <2> SUFFICES ASSUME NEW r \in Behind(rows, q, {CursorOf(x)}) PROVE r \in Candidates(rows, q)
    OBVIOUS
  <2>1. r \in rows /\ r.class \in q.scans /\ q.since <= r.ts /\ r.ts < q.until
        /\ Ahead("desc", x, r)
    BY <1>2 DEF Behind
  <2>2. \A c \in q.cursor : Ahead("desc", c, r)
    BY <1>3, <2>1
  <2> QED
    BY <2>1, <2>2 DEF Candidates, Asks
<1>5. Eligible(rows, q) \subseteq Behind(rows, q, {CursorOf(x)})
  <2> SUFFICES ASSUME NEW e \in Eligible(rows, q) PROVE e \in Behind(rows, q, {CursorOf(x)})
    OBVIOUS
  <2>1. Ahead("desc", CursorOf(x), e)
    BY <1>2
  <2> QED
    BY <2>1 DEF Eligible, Candidates, Behind
<1> QED
  BY <1>1, <1>2, <1>4, <1>5 DEF OpenAt, MruSpots

(* The query of one window.                                                  *)
LEMMA MruQuery ==
  ASSUME NEW rows, NEW q, Asks(rows, q), NEW before, NEW p,
         p = [q EXCEPT !.cursor = before, !.limit = MruCandidates]
  PROVE  /\ Query(p) /\ Fitting(p) /\ p.order = "desc" /\ p.limit = MruCandidates
         /\ Candidates(rows, p) = Behind(rows, q, before)
         /\ Matches(rows, p) = {r \in Behind(rows, q, before) : r.class \in q.keeps}
<1> DEFINE w == [scans |-> q.scans, keeps |-> q.keeps, post |-> q.post, since |-> q.since,
                 until |-> q.until, order |-> q.order, cursor |-> q.cursor, limit |-> q.limit]
<1>1. p = [scans |-> q.scans, keeps |-> q.keeps, post |-> q.post, since |-> q.since,
           until |-> q.until, order |-> q.order, cursor |-> before, limit |-> MruCandidates]
  <2> DEFINE v == [w EXCEPT !.cursor = before]
  <2>1. v = [scans |-> q.scans, keeps |-> q.keeps, post |-> q.post, since |-> q.since,
             until |-> q.until, order |-> q.order, cursor |-> before, limit |-> q.limit]
    OBVIOUS
  <2>2. [w EXCEPT !.cursor = before, !.limit = MruCandidates] = [v EXCEPT !.limit = MruCandidates]
    OBVIOUS
  <2> HIDE DEF v
  <2>3. [v EXCEPT !.limit = MruCandidates]
          = [scans |-> q.scans, keeps |-> q.keeps, post |-> q.post, since |-> q.since,
             until |-> q.until, order |-> q.order, cursor |-> before, limit |-> MruCandidates]
    BY <2>1
  <2>4. w = q
    BY DEF Asks, Query
  <2> HIDE DEF w
  <2> QED
    BY <2>2, <2>3, <2>4
<1>2. /\ p.scans = q.scans /\ p.keeps = q.keeps /\ p.post = q.post /\ p.since = q.since
      /\ p.until = q.until /\ p.order = q.order /\ p.cursor = before
      /\ p.limit = MruCandidates
  BY <1>1
<1>3. Query(p)
  BY <1>1, <1>2 DEF Query
<1>4. Fitting(p)
  <2>1. PageRows * MaxPages \in Nat /\ MruCandidates \in 1..(PageRows * MaxPages)
    BY MruBounds DEF Asks, StorageBounds
  <2> QED
    BY <1>2, <2>1 DEF Fitting, Asks
<1>5. Candidates(rows, p) = Behind(rows, q, before)
  BY <1>2 DEF Candidates, Behind, Asks
<1>6. Matches(rows, p) = {r \in Behind(rows, q, before) : r.class \in q.keeps}
  BY <1>2, <1>5 DEF Matches
<1> QED
  BY <1>2, <1>3, <1>4, <1>5, <1>6 DEF Asks

(* A window finds the newest eligible row, or there is none in it, and the   *)
(* search goes on behind it or is over.                                      *)
LEMMA MruKeeps ==
  ASSUME NEW rows, NEW q, Asks(rows, q), NEW s, MruInv(rows, q, s), ~s.done
  PROVE  MruInv(rows, q, MruWindow(rows, q, s))
<1> DEFINE b == s.before
           p == [q EXCEPT !.cursor = b, !.limit = MruCandidates]
           page == AdaptivePage(rows, p)
           a == page.answer
           K == {r \in ToSet(a.rows) : MruEligible(r)}
           fit == Among(a.rows, K)
           M == Matches(rows, p)
           El == Eligible(rows, q)
           B == Behind(rows, q, b)
           t == MruSeen(s, page, fit)
<1>1. OpenAt(rows, q, b) /\ s \in MruStates(q) /\ s.row = {}
  BY DEF MruInv
<1>0. p = [q EXCEPT !.cursor = b, !.limit = MruCandidates]
  OBVIOUS
<1>2. Query(p) /\ Fitting(p) /\ p.order = "desc" /\ p.limit = MruCandidates
      /\ Candidates(rows, p) = B /\ M = {r \in B : r.class \in q.keeps}
  <2> HIDE DEF p, b
  <2> QED
    BY <1>0, MruQuery, ZenonT(30) DEF B, M
<1>3. MruWindow(rows, q, s) = t
  BY DEF MruWindow, MruPage
<1> HIDE DEF p
<1>4. page.limit \in 1..MruCandidates /\ Exact(a, rows, p, page.limit)
  BY <1>2, PageIsExact DEF Asks
<1>5. El \subseteq M /\ \A r : r \in El <=> r \in M /\ MruEligible(r)
  <2>1. El \subseteq B /\ B \subseteq Candidates(rows, q)
    BY <1>1 DEF OpenAt
  <2> QED
    BY <1>2, <2>1 DEF Eligible
<1>6. Distinct(M) /\ Distinct(B) /\ B \subseteq Rows /\ M \subseteq B
  BY <1>2, EligibleIs, DistinctIn
<1> HIDE DEF M, El, B, b, page
<1>7. Begins(a.rows, M, "desc")
  BY <1>2, <1>4 DEF Exact, M
<1>8. Begins(fit, M \cap K, "desc") /\ ToSet(fit) = ToSet(a.rows) \cap K
  BY <1>7, AmongBegins
<1>9. ToSet(a.rows) \subseteq M /\ \A r : r \in ToSet(fit) <=> r \in ToSet(a.rows) /\ r \in El
  <2>1. ToSet(a.rows) \subseteq M
    BY <1>7, BeginsElements
  <2>2. ASSUME NEW r PROVE r \in ToSet(fit) <=> r \in ToSet(a.rows) /\ r \in El
    <3>1. r \in K <=> r \in ToSet(a.rows) /\ MruEligible(r)
      OBVIOUS
    <3>2. r \in ToSet(fit) <=> r \in ToSet(a.rows) /\ r \in K
      BY <1>8
    <3> HIDE DEF K, fit, a
    <3>3. r \in ToSet(a.rows) => r \in M
      BY <2>1
    <3> QED
      BY <3>1, <3>2, <3>3, <1>5
  <2> QED
    BY <2>1, <2>2
<1> HIDE DEF fit, K, t
<1>10. fit \in Seq(M \cap K) /\ Len(fit) \in Nat
       /\ \A x : x \in ToSet(fit) <=> \E i \in 1..Len(fit) : fit[i] = x
  BY <1>8, BeginsElements
<1>11. CASE fit # <<>>
  <2> DEFINE r == fit[1]
  <2>1. 1 \in 1..Len(fit) /\ Head(fit) = r
    BY <1>10, <1>11
  <2>2. r \in ToSet(fit)
    BY <1>10, <2>1
  <2>3. r \in El /\ r \in ToSet(a.rows) /\ r \in M
    BY <1>5, <1>9, <2>2
  <2>4. ASSUME NEW x \in El, x # r PROVE Ahead("desc", r, x)
    <3>1. x \in M
      BY <1>5
    <3>2. CASE Ahead("desc", x, r)
      <4>1. PICK i \in 1..Len(a.rows) : a.rows[i] = r
        BY <1>7, <2>3, BeginsElements
      <4>2. x \in ToSet(a.rows)
        BY <1>7, <3>1, <3>2, <4>1 DEF Begins
      <4>3. x \in ToSet(fit)
        BY <1>9, <4>2
      <4>4. PICK j \in 1..Len(fit) : fit[j] = x
        BY <1>10, <4>3
      <4>5. 1 < j
        <5>1. j # 1
          BY <2>4, <4>4
        <5> QED
          BY <1>10, <5>1
      <4> QED
        BY <1>8, <2>1, <4>4, <4>5 DEF Begins, InTurn
    <3> HIDE DEF r
    <3>3. Ahead("desc", r, x) \/ Ahead("desc", x, r) \/ r = x
      BY <1>6, <2>3, <3>1, AheadInDistinct
    <3> QED
      BY <2>4, <3>2, <3>3
  <2>5. t = [s EXCEPT !.row = {r}, !.done = TRUE]
    BY <1>11, <2>1 DEF MruSeen, t
  <2> HIDE DEF r
  <2>6. t = [row |-> {r}, before |-> s.before, done |-> TRUE]
    BY <1>1, <2>5 DEF MruStates
  <2>7. t.row = {r} /\ t.done /\ t.before = s.before
    BY <2>6
  <2>8. t \in MruStates(q)
    <3>1. r \in Rows
      BY <1>6, <2>3
    <3> QED
      BY <1>1, <2>6, <3>1 DEF MruStates
  <2>9. Newest1(t.row, El)
    BY <2>3, <2>4, <2>7 DEF Newest1, Ahead
  <2> QED
    BY <1>3, <2>7, <2>8, <2>9 DEF MruInv, El
<1>12. CASE fit = <<>>
  <2>1. \A e \in El : e \notin ToSet(a.rows)
    BY <1>9, <1>10, <1>12
  <2>2. ASSUME NEW x \in B, ToSet(a.rows) = Passed("desc", M, x),
               t = [s EXCEPT !.before = {CursorOf(x)}]
        PROVE  MruInv(rows, q, t)
    <3>1. \A e \in El : Ahead("desc", x, e)
      BY <1>5, <2>1, <2>2 DEF Passed
    <3>2. OpenAt(rows, q, {CursorOf(x)}) /\ {CursorOf(x)} \in MruSpots(q)
      BY <1>1, <3>1, MruMoves DEF B, El
    <3>3. t = [row |-> {}, before |-> {CursorOf(x)}, done |-> s.done]
      BY <1>1, <2>2 DEF MruStates
    <3>4. t.row = {} /\ t.before = {CursorOf(x)} /\ ~t.done
      BY <3>3
    <3>5. t \in MruStates(q)
      BY <1>1, <3>2, <3>3 DEF MruStates
    <3> QED
      BY <3>2, <3>4, <3>5 DEF MruInv
  <2>3. CASE a.kind = "scan_budget_exceeded"
    <3>1. PICK x \in B : a.cursor = {CursorOf(x)} /\ ToSet(a.rows) = Passed("desc", M, x)
      BY <1>2, <1>4, <2>3 DEF Exact, M
    <3>2. t = [s EXCEPT !.before = {CursorOf(x)}]
      BY <1>12, <2>3, <3>1 DEF MruSeen, t
    <3> QED
      BY <1>3, <2>2, <3>1, <3>2
  <2>4. CASE a.kind # "scan_budget_exceeded" /\ Len(a.rows) < page.limit
    <3>1. ToSet(a.rows) = M
      BY <1>4, <2>4 DEF Exact, M
    <3>2. El = {}
      BY <1>5, <2>1, <3>1
    <3>3. t = [s EXCEPT !.done = TRUE]
      BY <1>12, <2>4 DEF MruSeen, t
    <3>4. t = [row |-> {}, before |-> s.before, done |-> TRUE]
      BY <1>1, <3>3 DEF MruStates
    <3>5. t.row = {} /\ t.done /\ t \in MruStates(q)
      BY <1>1, <3>4 DEF MruStates
    <3> QED
      BY <1>3, <3>2, <3>5 DEF MruInv, El
  <2>5. CASE a.kind # "scan_budget_exceeded" /\ ~(Len(a.rows) < page.limit)
    <3>1. Len(a.rows) # 0
      BY <1>4, <2>5
    <3>2. Last(a.rows) \in M /\ ToSet(a.rows) = Passed("desc", M, Last(a.rows))
      BY <1>6, <1>7, <3>1, BeginsLast
    <3>3. t = [s EXCEPT !.before = {CursorOf(Last(a.rows))}]
      BY <1>12, <2>5 DEF MruSeen, t
    <3> QED
      BY <1>3, <1>6, <2>2, <3>2, <3>3
  <2> QED
    BY <2>3, <2>4, <2>5
<1> QED
  BY <1>11, <1>12

(* However many windows the resolver reads, what it says is true.            *)
LEMMA MruExact ==
  ASSUME NEW rows, NEW q, Asks(rows, q)
  PROVE  MruInv(rows, q, NewestMatching(rows, q))
<1> DEFINE V == {s \in MruStates(q) : MruInv(rows, q, s)}
           start == [row |-> {}, before |-> q.cursor, done |-> FALSE]
           Go(s) == IF s.done THEN s ELSE MruWindow(rows, q, s)
           step == [s \in V |-> Go(s)]
           Val(f, n) == IF n = 0 THEN start
                        ELSE IF f[n - 1].done THEN f[n - 1] ELSE MruWindow(rows, q, f[n - 1])
           U == CHOOSE f : f = [n \in Nat |-> Val(f, n)]
<1>1. start \in V
  <2>1. start \in MruStates(q)
    BY DEF MruStates, MruSpots
  <2>2. OpenAt(rows, q, q.cursor)
    <3>1. Behind(rows, q, q.cursor) = Candidates(rows, q)
      BY DEF Behind, Candidates, Asks
    <3> QED
      BY <3>1, EligibleIs DEF OpenAt, Asks
  <2>3. start.row = {} /\ ~start.done /\ start.before = q.cursor
    OBVIOUS
  <2> HIDE DEF start
  <2> QED
    BY <2>1, <2>2, <2>3 DEF MruInv
<1>2. ASSUME NEW s \in V PROVE Go(s) \in V
  <2>1. MruInv(rows, q, s)
    OBVIOUS
  <2>2. ~s.done => MruInv(rows, q, MruWindow(rows, q, s))
    BY <2>1, MruKeeps
  <2>3. \A t : MruInv(rows, q, t) => t \in MruStates(q)
    BY DEF MruInv
  <2> QED
    BY <2>1, <2>2, <2>3
<1> HIDE DEF V
<1>3. step \in [V -> V]
  <2> HIDE DEF Go
  <2> QED
    BY <1>2
<1> HIDE DEF start
<1>4. PICK f \in [Nat -> V] : f[0] = start /\ \A n \in Nat : f[n + 1] = step[f[n]]
  <2> HIDE DEF step
  <2> QED
    BY <1>1, <1>3, Iterated
<1>5. ASSUME NEW n \in Nat PROVE f[n] = Val(f, n)
  <2>1. CASE n = 0
    BY <1>4, <2>1
  <2>2. CASE n # 0
    <3>1. n - 1 \in Nat /\ (n - 1) + 1 = n
      BY <2>2
    <3>2. f[n] = step[f[n - 1]] /\ f[n - 1] \in V
      <4> HIDE DEF step
      <4>1. f[(n - 1) + 1] = step[f[n - 1]]
        BY <1>4, <3>1
      <4> QED
        BY <1>4, <3>1, <4>1
    <3>3. step[f[n - 1]] = Go(f[n - 1])
      <4> HIDE DEF Go
      <4> QED
        BY <3>2
    <3> HIDE DEF step
    <3> QED
      BY <2>2, <3>2, <3>3
  <2> QED
    BY <2>1, <2>2
<1>6. f = [n \in Nat |-> Val(f, n)]
  <2>1. f = [n \in Nat |-> f[n]]
    BY <1>4
  <2> HIDE DEF Val
  <2> QED
    BY <1>5, <2>1
<1>7. U = [n \in Nat |-> Val(U, n)]
  <2> HIDE DEF Val
  <2> QED
    BY <1>6
<1> HIDE DEF U
<1>8. ASSUME NEW n \in Nat PROVE U[n] = Val(U, n)
  <2> HIDE DEF Val
  <2> QED
    BY <1>7
<1> DEFINE Fine == {n \in Nat : U[n] \in V}
<1>9. 0 \in Fine
  <2>1. U[0] = start
    BY <1>8
  <2> QED
    BY <1>1, <2>1
<1>10. ASSUME NEW n \in Nat, n \in Fine PROVE n + 1 \in Fine
  <2>1. n + 1 \in Nat /\ n + 1 # 0 /\ (n + 1) - 1 = n
    OBVIOUS
  <2>2. U[n + 1] = Go(U[n])
    BY <1>8, <2>1
  <2>3. U[n] \in V
    BY <1>10
  <2>4. Go(U[n]) \in V
    <3> HIDE DEF Go
    <3> QED
      BY <1>2, <2>3
  <2> HIDE DEF Go
  <2> QED
    BY <2>1, <2>2, <2>4
<1>11. Nat \subseteq Fine
  <2> HIDE DEF Fine
  <2> QED
    BY <1>9, <1>10, SetInduction
<1>12. MruWindows \in Nat
  BY MruBounds
<1>13. U[MruWindows] \in V
  BY <1>11, <1>12
<1>14. NewestMatching(rows, q) = U[MruWindows]
  BY DEF NewestMatching, U, start
<1> QED
  BY <1>13, <1>14 DEF V

(* The resolver never returns an older row, or none, while a newer one is    *)
(* within its windows.                                                       *)
LEMMA MruNewest ==
  ASSUME NEW rows, NEW q, Asks(rows, q)
  PROVE  MruIsNewestOn(rows, q)
<1> DEFINE s == NewestMatching(rows, q)
<1>1. MruInv(rows, q, s)
  BY MruExact
<1> HIDE DEF s
<1>2. ASSUME NEW r \in s.row
      PROVE  r \in Eligible(rows, q) /\ \A x \in Eligible(rows, q) : x = r \/ Older(x, r)
  BY <1>1 DEF MruInv, Newest1
<1>3. s.row = {} /\ s.done => Eligible(rows, q) = {}
  BY <1>1 DEF MruInv
<1> QED
  BY <1>2, <1>3 DEF MruIsNewestOn, NewestOf, s

(* The rows of the exact sources, each asked in turn.                        *)
LEMMA ExactRowIs ==
  ASSUME NEW rows, NEW qbs, Len(qbs) \in Nat,
         \A i \in 1..Len(qbs) : Asks(rows, qbs[i])
  PROVE  LET best == ExactRow(rows, qbs)
             got == UNION {NewestMatching(rows, qbs[i]).row : i \in 1..Len(qbs)}
         IN  /\ best \subseteq got /\ (best = {} => got = {})
             /\ \A r \in best, x \in got : x.ts <= r.ts
<1> DEFINE N == Len(qbs)
           RowAt(n) == NewestMatching(rows, qbs[n]).row
           Got(n) == UNION {RowAt(i) : i \in 1..n}
           V == {{}} \cup {RowAt(n) : n \in Nat}
           step == [z \in Nat \X V |-> NewerOf(z[2], RowAt(z[1]))]
           Val(f, n) == IF n = 0 THEN {} ELSE NewerOf(f[n - 1], RowAt(n))
           U == CHOOSE f : f = [n \in Nat |-> Val(f, n)]
           Top(b, H) == /\ b \subseteq H /\ (b = {} => H = {})
                        /\ \A r \in b, x \in H : x.ts <= r.ts
<1>1. ASSUME NEW i \in 1..N
      PROVE  /\ RowAt(i) \subseteq Rows
             /\ \A r \in RowAt(i), x \in RowAt(i) : x = r
  <2> DEFINE s == NewestMatching(rows, qbs[i])
  <2>1. Asks(rows, qbs[i]) /\ MruInv(rows, qbs[i], s)
    BY MruExact
  <2> HIDE DEF s
  <2>2. s.row = {} \/ \E r \in Eligible(rows, qbs[i]) : s.row = {r}
    BY <2>1 DEF MruInv, Newest1
  <2>3. Eligible(rows, qbs[i]) \subseteq Rows
    BY <2>1, EligibleIs
  <2> QED
    BY <2>2, <2>3 DEF s
<1>2. N = 0 \/ \A r \in Rows : r.ts \in Int
  <2>1. N # 0 => 1 \in 1..N
    OBVIOUS
  <2>2. N # 0 => Distinct(Rows)
    BY <2>1, EligibleIs
  <2> QED
    BY <2>2 DEF Distinct, Point
<1> HIDE DEF RowAt
<1>3. \E f : f = [n \in Nat |-> Val(f, n)]
  <2>1. step \in [Nat \X V -> V]
    BY DEF NewerOf
  <2>2. PICK f \in [Nat -> V] : StepsBy(f, {}, step)
    <3> HIDE DEF step
    <3>1. {} \in V
      OBVIOUS
    <3> HIDE DEF V
    <3> QED
      BY <2>1, <3>1, Recursion
  <2>3. ASSUME NEW n \in Nat PROVE f[n] = Val(f, n)
    <3>1. n = 0 => f[n] = {}
      BY <2>2 DEF StepsBy
    <3>2. CASE n # 0
      <4>1. n - 1 \in Nat /\ f[n] = step[<<n, f[n - 1]>>]
        <5> HIDE DEF step, V
        <5> QED
          BY <2>2, <3>2 DEF StepsBy
      <4>2. <<n, f[n - 1]>> \in Nat \X V
        <5> HIDE DEF step, V
        <5> QED
          BY <2>2, <4>1
      <4> HIDE DEF V
      <4> QED
        BY <3>2, <4>1, <4>2
    <3> QED
      BY <3>1, <3>2
  <2>4. f = [n \in Nat |-> f[n]]
    <3> HIDE DEF V
    <3> QED
      BY <2>2
  <2> HIDE DEF Val
  <2> QED
    BY <2>3, <2>4
<1>4. U = [n \in Nat |-> Val(U, n)]
  <2> HIDE DEF Val
  <2> QED
    BY <1>3
<1> HIDE DEF U
<1>5. ASSUME NEW n \in Nat PROVE U[n] = Val(U, n)
  <2> HIDE DEF Val
  <2> QED
    BY <1>4
<1> DEFINE Fine == {n \in Nat : n <= N => Top(U[n], Got(n))}
<1>6. 0 \in Fine
  <2>1. U[0] = {} /\ Got(0) = {}
    BY <1>5
  <2> QED
    BY <2>1
<1>7. ASSUME NEW n \in Nat, n \in Fine PROVE n + 1 \in Fine
  <2> SUFFICES ASSUME n + 1 <= N PROVE Top(U[n + 1], Got(n + 1))
    OBVIOUS
  <2>1. n + 1 \in 1..N /\ n <= N /\ n + 1 # 0 /\ (n + 1) - 1 = n
    OBVIOUS
  <2>2. Top(U[n], Got(n))
    BY <1>7, <2>1
  <2>3. U[n + 1] = NewerOf(U[n], RowAt(n + 1))
    BY <1>5, <2>1
  <2>4. Got(n + 1) = Got(n) \cup RowAt(n + 1)
    <3>1. 1..(n + 1) = (1..n) \cup {n + 1}
      OBVIOUS
    <3> QED
      BY <3>1
  <2>5. Got(n) \subseteq Rows /\ RowAt(n + 1) \subseteq Rows
    <3>1. \A i \in 1..n : i \in 1..N
      BY <2>1
    <3> QED
      BY <1>1, <2>1, <3>1
  <2> DEFINE b == U[n]
             R == RowAt(n + 1)
             H == Got(n)
             c == NewerOf(b, R)
  <2>6. \A r \in R, x \in R : x = r
    BY <1>1, <2>1
  <2>7. \A r \in b \cup R \cup H : r.ts \in Int
    BY <1>2, <2>1, <2>2, <2>5
  <2>8. Top(b, H)
    BY <2>2
  <2> HIDE DEF b, R, H
  <2>9. c \subseteq H \cup R /\ (c = {} => H \cup R = {})
    BY <2>8 DEF NewerOf
  <2>10. ASSUME NEW r \in c, NEW x \in H \cup R PROVE x.ts <= r.ts
    <3>1. CASE \A y \in R : \E z \in b : y.ts <= z.ts
      <4>1. c = b
        BY <3>1 DEF NewerOf
      <4>2. x \in H => x.ts <= r.ts
        BY <2>8, <4>1
      <4>3. ASSUME x \in R PROVE x.ts <= r.ts
        <5>1. PICK z \in b : x.ts <= z.ts
          BY <3>1, <4>3
        <5>2. z.ts <= r.ts
          BY <2>8, <4>1
        <5>3. x.ts \in Int /\ z.ts \in Int /\ r.ts \in Int
          BY <2>7, <4>1
        <5> QED
          BY <5>1, <5>2, <5>3
      <4> QED
        BY <4>2, <4>3
    <3>2. CASE \E y \in R : \A z \in b : ~(y.ts <= z.ts)
      <4>1. c = R
        BY <3>2 DEF NewerOf
      <4>2. \A z \in b : ~(r.ts <= z.ts)
        BY <2>6, <3>2, <4>1
      <4>3. ASSUME x \in H PROVE x.ts <= r.ts
        <5>1. PICK z \in b : x.ts <= z.ts
          BY <2>8, <4>3
        <5>2. x.ts \in Int /\ z.ts \in Int /\ r.ts \in Int
          BY <2>7, <4>1, <4>3
        <5> QED
          BY <4>2, <5>1, <5>2
      <4>4. x \in R => x = r
        BY <2>6, <4>1
      <4>5. r.ts \in Int
        BY <2>7, <4>1
      <4> QED
        BY <4>3, <4>4, <4>5
    <3> QED
      BY <3>1, <3>2
  <2>11. Top(c, H \cup R)
    <3> HIDE DEF c
    <3> QED
      BY <2>9, <2>10
  <2> QED
    BY <2>3, <2>4, <2>11 DEF b, R, H
<1>8. Nat \subseteq Fine
  <2> HIDE DEF Fine
  <2> QED
    BY <1>6, <1>7, SetInduction
<1>9. Top(U[N], Got(N))
  BY <1>8
<1>10. ExactRow(rows, qbs) = U[N]
  BY DEF ExactRow, U, RowAt
<1> QED
  BY <1>9, <1>10 DEF RowAt

(* A repository asked for two ways: neither way has a newer row.             *)
LEMMA GitNewest ==
  ASSUME NEW rows, NEW qa, Asks(rows, qa), NEW qbs, Len(qbs) \in Nat, DOMAIN qbs = 1..Len(qbs),
         \A i \in 1..Len(qbs) : Asks(rows, qbs[i])
  PROVE  GitIsNewestOn(rows, qa, qbs)
<1> DEFINE a == NewestMatching(rows, qa).row
           best == ExactRow(rows, qbs)
           got == UNION {NewestMatching(rows, qbs[i]).row : i \in 1..Len(qbs)}
           win == ResolveGit(rows, qa, qbs)
           asked == {qa} \cup ToSet(qbs)
           both == UNION {Eligible(rows, q) : q \in asked}
<1> SUFFICES ASSUME \A q \in asked : NewestMatching(rows, q).done
             PROVE  GitNewestOf(win, both)
  BY DEF GitIsNewestOn
<1>1. asked = {qa} \cup {qbs[i] : i \in 1..Len(qbs)}
  BY DEF ToSet
<1>2. \A q \in asked : Asks(rows, q)
  BY <1>1
<1>3. ASSUME NEW q \in asked
      PROVE  LET row == NewestMatching(rows, q).row
             IN  /\ row \subseteq Eligible(rows, q)
                 /\ row = {} => Eligible(rows, q) = {}
                 /\ \A r \in row, x \in Eligible(rows, q) : x.ts <= r.ts
  <2> DEFINE s == NewestMatching(rows, q)
  <2>1. Asks(rows, q) /\ s.done
    BY <1>2
  <2>2. MruInv(rows, q, s)
    BY <2>1, MruExact
  <2>3. \A x \in Eligible(rows, q) : x.ts \in Int
    BY <2>1, EligibleIs DEF Distinct, Point
  <2> HIDE DEF s
  <2>4. s.row = {} => Eligible(rows, q) = {}
    BY <2>1, <2>2 DEF MruInv
  <2>5. CASE s.row # {}
    <3>1. PICK r \in Eligible(rows, q) :
            s.row = {r} /\ \A x \in Eligible(rows, q) : x = r \/ Older(x, r)
      BY <2>2, <2>5 DEF MruInv, Newest1
    <3>2. \A x \in Eligible(rows, q) : x.ts <= r.ts
      BY <2>3, <3>1 DEF Older
    <3> QED
      BY <2>4, <3>1, <3>2 DEF s
  <2>6. CASE s.row = {}
    BY <2>4, <2>6 DEF s
  <2> QED
    BY <2>5, <2>6
<1>4. best \subseteq got /\ (best = {} => got = {}) /\ \A r \in best, x \in got : x.ts <= r.ts
  BY ExactRowIs
<1> HIDE DEF best
<1>5. win = IF best = {} \/ \E x \in a : \A b \in best : x.ts >= b.ts THEN a ELSE best
  BY DEF ResolveGit, GitWinner, best
<1> HIDE DEF asked, got, a, win
<1>6. \A r \in both : r.ts \in Int
  BY <1>2, EligibleIs DEF Distinct, Point
<1>7. qa \in asked /\ a = NewestMatching(rows, qa).row
  BY DEF asked, a
<1>8. \A x \in got : \E q \in asked : x \in NewestMatching(rows, q).row
  BY <1>1 DEF got
<1>9. ASSUME NEW q \in asked
      PROVE  NewestMatching(rows, q).row \subseteq a \cup got
  BY <1>1 DEF a, got
<1>10. a \subseteq both /\ got \subseteq both
  <2>1. a \subseteq Eligible(rows, qa)
    BY <1>3, <1>7
  <2>2. \A x \in got : \E q \in asked : x \in Eligible(rows, q)
    BY <1>3, <1>8
  <2> QED
    BY <2>1, <2>2, <1>7
<1>11. \A x, y \in a : x.ts <= y.ts
  <2>1. a \subseteq Eligible(rows, qa)
    BY <1>3, <1>7
  <2> QED
    BY <1>3, <1>7, <2>1
<1>12. \A x \in both : \E y \in a \cup got : x.ts <= y.ts
  <2> SUFFICES ASSUME NEW q \in asked, NEW x \in Eligible(rows, q)
               PROVE  \E y \in a \cup got : x.ts <= y.ts
    OBVIOUS
  <2>1. PICK y \in NewestMatching(rows, q).row : x.ts <= y.ts
    BY <1>3
  <2> QED
    BY <1>9, <2>1
<1>13. win \subseteq a \cup best /\ (win = {} => a = {} /\ best = {})
  BY <1>5
<1>14. ASSUME NEW r \in win, NEW y \in a \cup got PROVE y.ts <= r.ts
  <2>0. r \in both /\ y \in both /\ \A b \in best : b \in both
    BY <1>4, <1>10, <1>13
  <2>1. r.ts \in Int /\ y.ts \in Int /\ \A b \in best : b.ts \in Int
    BY <2>0, <1>6
  <2>2. CASE win = a /\ r \in a
    <3>1. y \in a => y.ts <= r.ts
      BY <1>11, <2>2
    <3>2. ASSUME y \in got PROVE y.ts <= r.ts
      <4>1. PICK b \in best : y.ts <= b.ts
        BY <1>4, <3>2
      <4>2. PICK x \in a : \A c \in best : x.ts >= c.ts
        <5>1. best # {}
          BY <4>1
        <5>2. win = best => win = a
          BY <2>2
        <5>3. CASE ~ \E x \in a : \A c \in best : x.ts >= c.ts
          <6>1. a = best
            BY <1>5, <2>2, <5>1, <5>3
          <6>2. b \in a /\ \A c \in best : b.ts >= c.ts
            <7>1. \A c \in best : c.ts <= b.ts
              BY <1>11, <6>1
            <7> QED
              BY <6>1, <7>1, <2>1
          <6> QED
            BY <5>3, <6>2
        <5> QED
          BY <5>3
      <4>3. x.ts <= r.ts /\ x.ts >= b.ts
        BY <1>11, <2>2, <4>2
      <4>4. x.ts \in Int
        BY <1>6, <1>10
      <4> QED
        BY <2>1, <4>1, <4>3, <4>4
    <3> QED
      BY <3>1, <3>2
  <2>3. CASE win = best /\ r \in best /\ ~ \E x \in a : \A b \in best : x.ts >= b.ts
    <3>1. y \in got => y.ts <= r.ts
      BY <1>4, <2>3
    <3>2. ASSUME y \in a PROVE y.ts <= r.ts
      <4>1. PICK b \in best : ~(y.ts >= b.ts)
        BY <2>3, <3>2
      <4>2. b.ts <= r.ts
        BY <1>4, <2>3
      <4> QED
        BY <2>1, <4>1, <4>2
    <3> QED
      BY <3>1, <3>2
  <2> QED
    BY <1>5, <2>2, <2>3
<1>15. win = {} <=> both = {}
  <2>1. win = {} => a = {} /\ got = {}
    BY <1>4, <1>13
  <2>2. win \subseteq both
    BY <1>4, <1>10, <1>13
  <2>3. win = {} => both = {}
    BY <1>12, <2>1
  <2> QED
    BY <2>2, <2>3
<1>16. ASSUME NEW r \in win PROVE r \in both /\ \A x \in both : x.ts <= r.ts
  <2>1. r \in both
    BY <1>4, <1>10, <1>13
  <2>2. ASSUME NEW x \in both PROVE x.ts <= r.ts
    <3>1. PICK y \in a \cup got : x.ts <= y.ts
      BY <1>12
    <3>2. y.ts <= r.ts
      BY <1>14
    <3>3. x.ts \in Int /\ y.ts \in Int /\ r.ts \in Int
      BY <1>6, <1>10, <2>1
    <3> QED
      BY <3>1, <3>2, <3>3
  <2> QED
    BY <2>1, <2>2
<1> QED
  BY <1>15, <1>16 DEF GitNewestOf

(* The queries of the run are such queries.                                  *)
LEMMA AskedQueries ==
  ASSUME ledger \subseteq Rows, NEW q \in MCQueries
  PROVE  /\ EventBounds /\ StorageBounds /\ Query(q) /\ Fitting(q)
         /\ \A c \in q.cursor : Point(c)
         /\ q.order = "desc" => Asks(ledger, q)
         /\ q.order = "desc" => \A keeps : Asks(ledger, [q EXCEPT !.keeps = keeps])
<1>1. EventBounds /\ StorageBounds /\ MruBounds
  BY EventsInOrder, StorageBudgets, MruBounds
<1>2. /\ q = [scans |-> q.scans, keeps |-> q.keeps, post |-> q.post, since |-> q.since,
              until |-> q.until, order |-> q.order, cursor |-> q.cursor, limit |-> q.limit]
      /\ q.post \in {TRUE} /\ q.limit \in {1, 3}
      /\ q.cursor \in {{}, {[ts |-> 2, id |-> 3]}, {[ts |-> 3, id |-> 6]}}
  <2> DEFINE Sc == {Everything, {"a", "b"}}
             Ke == {{"a"}, {"a", "b"}}
             Cur == {{}, {[ts |-> 2, id |-> 3]}, {[ts |-> 3, id |-> 6]}}
             Po == {TRUE}
  <2>1. q \in [scans : Sc, keeps : Ke, post : Po, since : {0, 2}, until : {9},
               order : {"asc", "desc"}, cursor : Cur, limit : {1, 3}]
    BY DEF MCQueries
  <2> HIDE DEF Sc, Ke, Cur, Po
  <2>2. q = [scans |-> q.scans, keeps |-> q.keeps, post |-> q.post, since |-> q.since,
             until |-> q.until, order |-> q.order, cursor |-> q.cursor, limit |-> q.limit]
    BY <2>1
  <2>3. q.post \in Po /\ q.limit \in {1, 3} /\ q.cursor \in Cur
    BY <2>1
  <2> QED
    BY <2>2, <2>3 DEF Cur, Po
<1>2a. q.post
  BY <1>2, Zenon
<1>3. \A c \in q.cursor : Point(c)
  BY <1>2 DEF Point
<1>4. Query(q)
  BY <1>2 DEF Query
<1>5. Fitting(q)
  <2>1. q.limit <= PageRows * MaxPages
    BY QueriesFit DEF QueriesFit
  <2>2. q.limit \in Nat \ {0}
    BY <1>2
  <2> QED
    BY <1>2a, <2>1, <2>2 DEF Fitting
<1>6. q.order = "desc" => Asks(ledger, q)
  BY <1>1, <1>2a, <1>3, <1>4 DEF Asks
<1>7. ASSUME NEW keeps, q.order = "desc" PROVE Asks(ledger, [q EXCEPT !.keeps = keeps])
  <2> DEFINE p == [q EXCEPT !.keeps = keeps]
  <2>1. p = [scans |-> q.scans, keeps |-> keeps, post |-> q.post, since |-> q.since,
             until |-> q.until, order |-> q.order, cursor |-> q.cursor, limit |-> q.limit]
    BY <1>2
  <2> HIDE DEF p
  <2>2. p.order = "desc" /\ p.post /\ p.cursor = q.cursor /\ Query(p)
    BY <1>2, <1>2a, <1>7, <2>1 DEF Query
  <2> QED
    BY <1>1, <1>3, <2>2 DEF Asks, p
<1> QED
  BY <1>1, <1>3, <1>4, <1>5, <1>6, <1>7

LEMMA LedgerGrows ==
  ASSUME [ToolNext]_toolVars, tool = "groups" => ledger \subseteq Rows
  PROVE  tool' = "groups" => ledger' \subseteq Rows
<1> SUFFICES ASSUME tool' = "groups" PROVE ledger' \subseteq Rows
  OBVIOUS
<1>1. CASE UNCHANGED toolVars
  BY <1>1 DEF toolVars, shared
<1>2. CASE Groups
  <2>1. CASE Capture
    BY <1>2, <2>1 DEF Groups, Capture, AppendEvent
  <2>2. CASE ~Capture
    <3>1. UNCHANGED ledger
      BY <1>2, <2>2 DEF Groups, Next, Tick, Begin, MoreGroups, Open, MoreMembers
    <3> QED
      BY <1>2, <3>1 DEF Groups
  <2> QED
    BY <2>1, <2>2
<1>3. CASE ~Groups /\ ToolNext
  BY <1>3 DEF ToolNext, Search, Atoms, Waits, Logs
<1> QED
  BY <1>1, <1>2, <1>3

(* A query answered in bounded pages, on its own or again and again by the   *)
(* MRU resolver, is answered as if nothing were bounded (sqlite.ts,          *)
(* echo-resolve-mru.ts).                                                     *)
THEOREM QueriesExact == ToolSpec => []QueriesAreExact
<1> DEFINE I == tool = "groups" => ledger \subseteq Rows
<1>1. ToolInit => I
  BY DEF ToolInit, Init
<1>2. I /\ [ToolNext]_toolVars => I'
  BY LedgerGrows
<1>3. I => QueriesAreExact
  <2> SUFFICES ASSUME ledger \subseteq Rows PROVE AdaptersAgree /\ MruIsNewest
    BY DEF QueriesAreExact, OnEachLedger
  <2>1. AdaptersAgree
    BY AskedQueries, QueriesAgree DEF AdaptersAgree
  <2>2. ASSUME NEW q \in MCNewest
        PROVE  LET qbs == <<[q EXCEPT !.keeps = {"b"}], [q EXCEPT !.keeps = {"n"}]>>
               IN  MruIsNewestOn(ledger, q) /\ GitIsNewestOn(ledger, q, qbs)
    <3> DEFINE qbs == <<[q EXCEPT !.keeps = {"b"}], [q EXCEPT !.keeps = {"n"}]>>
    <3>1. Asks(ledger, q) /\ \A keeps : Asks(ledger, [q EXCEPT !.keeps = keeps])
      BY AskedQueries DEF MCNewest
    <3>2. Len(qbs) = 2 /\ DOMAIN qbs = 1..2 /\ \A i \in 1..2 : Asks(ledger, qbs[i])
      BY <3>1
    <3> HIDE DEF qbs
    <3>3. Len(qbs) \in Nat /\ DOMAIN qbs = 1..Len(qbs)
          /\ \A i \in 1..Len(qbs) : Asks(ledger, qbs[i])
      BY <3>2
    <3>4. MruIsNewestOn(ledger, q)
      BY <3>1, MruNewest
    <3>5. GitIsNewestOn(ledger, q, qbs)
      BY <3>1, <3>3, GitNewest
    <3> QED
      BY <3>4, <3>5 DEF qbs
  <2> QED
    BY <2>1, <2>2 DEF MruIsNewest
<1> QED
  BY <1>1, <1>2, <1>3, PTL DEF ToolSpec


--------------------------------------------------------------------------------
(* A search in pages.  Its storage is the ledger LedgerProofs is about.      *)

LEMMA SearchReads ==
  /\ \A s, set : S!Among(s, set) = Among(s, set)
  /\ \A s, n : S!First(s, n) = First(s, n)
  /\ \A s : S!Last(s) = Last(s) /\ S!ToSet(s) = ToSet(s)
  /\ \A r : S!CursorOf(r) = CursorOf(r)
  /\ \A a, b : S!Older(a, b) <=> Older(a, b)
BY DEF S!Among, Among, S!First, First, S!Last, Last, S!ToSet, ToSet, S!CursorOf, CursorOf,
       S!Older, Older

LEMMA SearchPages == \A rows, q : S!AdaptivePage(rows, q) = AdaptivePage(rows, q)
<1>1. \A s, order_ : S!Directed(s, order_) = Directed(s, order_)
  BY DEF S!Directed, Directed, S!Reverse, Reverse
<1>2. \A set, order_ : S!InOrder(set, order_) = InOrder(set, order_)
  BY <1>1, SearchReads DEF S!InOrder, InOrder
<1>3. \A s : S!StoredBytes(s) = StoredBytes(s)
  BY DEF S!StoredBytes, StoredBytes
<1>4. \A rows, q : S!Candidates(rows, q) = Candidates(rows, q)
  BY DEF S!Candidates, Candidates, S!Ahead, Ahead, S!Older, Older
<1>5. \A rows, q : S!Inspected(rows, q) = Inspected(rows, q)
  BY <1>2, <1>4, SearchReads DEF S!Inspected, Inspected
<1>6. \A q, seen, admitted : S!Admit(q, seen, admitted) = Admit(q, seen, admitted)
  BY <1>3, SearchReads DEF S!Admit, Admit, S!Outcome, Outcome
<1>7. \A q, seen : S!AdmitFrom(q, seen) = AdmitFrom(q, seen)
  BY <1>6, SearchReads DEF S!AdmitFrom, AdmitFrom
<1>8. \A rows, q : S!SqliteQuery(rows, q) = SqliteQuery(rows, q)
  BY <1>5, <1>7 DEF S!SqliteQuery, SqliteQuery
<1>9. \A rows, q : S!ByteSafeLimit(rows, q) = ByteSafeLimit(rows, q)
  BY <1>8 DEF S!ByteSafeLimit, ByteSafeLimit
<1>10. \A rows, q, n : S!PageAt(rows, q, n) = PageAt(rows, q, n)
  BY <1>8 DEF S!PageAt, PageAt
<1> QED
  BY <1>9, <1>10 DEF S!AdaptivePage, AdaptivePage

(* What a search may still reach behind a cursor, and what of it it seeks.   *)
Reach(before) ==
  {r \in ledger : /\ r.class \in search.scans /\ search.since <= r.ts /\ r.ts < search.until
                  /\ \A c \in before : Ahead("desc", c, r)}

Kept(before) == {r \in Reach(before) : r.class \in search.keeps}

Sought(before) == {r \in Kept(before) : search.filtered => r.class \in search.hits}

(* An answer continues a search behind `before`: it has the newest of what   *)
(* is sought, and everything that its own cursor has passed.                 *)
Continues(kept, goes, before) ==
  /\ Begins(kept, Sought(before), "desc")
  /\ \/ goes = {} /\ ToSet(kept) = Sought(before)
     \/ \E x \in Reach(before) :
          goes = {CursorOf(x)} /\ ToSet(kept) = Passed("desc", Sought(before), x)

Searching ==
  /\ EventBounds /\ StorageBounds /\ S!SearchBounds /\ ledger \subseteq Rows
  /\ search \in Requests

LEMMA ReachIs ==
  ASSUME EventBounds, ledger \subseteq Rows, NEW before
  PROVE  /\ Reach(before) \subseteq Rows /\ Distinct(Reach(before))
         /\ Kept(before) \subseteq Reach(before) /\ Distinct(Kept(before))
         /\ Sought(before) \subseteq Kept(before) /\ Distinct(Sought(before))
<1>1. Reach(before) \subseteq Rows /\ Kept(before) \subseteq Reach(before)
      /\ Sought(before) \subseteq Kept(before)
  BY DEF Reach, Kept, Sought
<1> QED
  BY <1>1, EventsBegin, DistinctIn

(* Cutting an answer and resuming behind the last row left continues it.     *)
LEMMA CutContinues ==
  ASSUME EventBounds, ledger \subseteq Rows, NEW before, NEW m, Begins(m, Sought(before), "desc"),
         NEW n \in 1..Len(m)
  PROVE  Continues(First(m, n), {CursorOf(m[n])}, before)
<1> DEFINE t == First(m, n)
<1>1. Sought(before) \subseteq Reach(before) /\ Distinct(Sought(before))
  BY ReachIs
<1>2. m \in Seq(Sought(before)) /\ Len(m) \in Nat /\ n \in Nat
  BY BeginsElements
<1>3. Begins(t, Sought(before), "desc")
  BY <1>1, <1>2, FirstBegins
<1>4. Len(t) = n /\ t[n] = m[n]
  <2>1. /\ Len(t) = IF n < Len(m) THEN n ELSE Len(m)
        /\ \A i \in 1..Len(t) : t[i] = m[i]
    BY <1>2, FirstOf
  <2> HIDE DEF t
  <2>2. Len(t) = n
    BY <2>1, <1>2
  <2>3. n \in 1..Len(t)
    BY <2>2, <1>2
  <2> QED
    BY <2>1, <2>2, <2>3
<1> HIDE DEF t
<1>5. Last(t) = m[n] /\ Len(t) # 0
  BY <1>4 DEF Last
<1>6. m[n] \in Sought(before) /\ ToSet(t) = Passed("desc", Sought(before), m[n])
  BY <1>1, <1>3, <1>5, BeginsLast
<1>7. Continues(t, {CursorOf(m[n])}, before)
  BY <1>1, <1>3, <1>6 DEF Continues
<1> QED
  BY <1>7 DEF t

(* One page of storage behind a cursor.                                      *)
PageFits(page, before, n) ==
  /\ page.limit \in 1..n
  /\ Begins(page.answer.rows, Kept(before), "desc") /\ Len(page.answer.rows) <= page.limit
  /\ page.answer.kind # "scan_budget_exceeded" =>
       (Len(page.answer.rows) < page.limit => ToSet(page.answer.rows) = Kept(before))
  /\ page.answer.kind = "scan_budget_exceeded" =>
       \E x \in Reach(before) :
         page.answer.cursor = {CursorOf(x)}
           /\ ToSet(page.answer.rows) = Passed("desc", Kept(before), x)

LEMMA SearchPageFits ==
  ASSUME Searching, NEW before, NEW n \in Nat \ {0}, n <= PageRows * MaxPages
  PROVE  PageFits(S!AdaptivePage(ledger, S!PageQuery(before, n)), before, n)
<1> DEFINE f == S!PageQuery(before, n)
           page == AdaptivePage(ledger, f)
<1>1. f = [scans |-> search.scans, keeps |-> search.keeps, post |-> search.post,
           since |-> search.since, until |-> search.until,
           order |-> "desc", cursor |-> before, limit |-> n]
  BY DEF S!PageQuery
<1> HIDE DEF f
<1>2. /\ f.scans = search.scans /\ f.keeps = search.keeps /\ f.since = search.since
      /\ f.until = search.until /\ f.order = "desc" /\ f.cursor = before /\ f.limit = n
  BY <1>1
<1>3. f.post = search.post
  BY <1>1
<1>4. Query(f)
  BY <1>1, <1>2, <1>3 DEF Query
<1>5. Fitting(f)
  <2>1. search.post \/ search.scans \subseteq search.keeps
    BY DEF Searching, S!SearchBounds
  <2> QED
    BY <2>1, <1>2, <1>3 DEF Fitting
<1>6. Candidates(ledger, f) = Reach(before) /\ Matches(ledger, f) = Kept(before)
  <2>1. Candidates(ledger, f) = Reach(before)
    BY <1>2 DEF Candidates, Reach
  <2> QED
    BY <2>1, <1>2 DEF Matches, Kept
<1>7. page.limit \in 1..f.limit /\ Exact(page.answer, ledger, f, page.limit)
  BY <1>4, <1>5, PageIsExact DEF Searching
<1> HIDE DEF page
<1>8. PageFits(page, before, n)
  BY <1>2, <1>6, <1>7 DEF Exact, PageFits
<1> QED
  BY <1>8, SearchPages DEF page, f

(* One match too many: cut and resume behind the last one kept.              *)
LEMMA CutOf ==
  ASSUME EventBounds, S!SearchBounds, ledger \subseteq Rows, NEW before, NEW m,
         Begins(m, Sought(before), "desc"), Len(m) > Limit
  PROVE  Continues(S!EmitCursor(m).kept, S!EmitCursor(m).next, before)
<1>1. S!EmitCursor(m) = [kept |-> First(m, Limit), next |-> {CursorOf(m[Limit])}]
  BY SearchReads DEF S!EmitCursor
<1>2. Limit \in 1..Len(m)
  BY BeginsElements DEF S!SearchBounds
<1> QED
  BY <1>1, <1>2, CutContinues

(* A search by time only.                                                    *)
LEMMA RecentContinues ==
  ASSUME Searching, ~search.filtered
  PROVE  Continues(S!RecentPage.kept, S!RecentPage.next, cursor)
<1> DEFINE page == S!AdaptivePage(ledger, S!PageQuery(cursor, Limit + 1))
           rows == page.answer.rows
           a == S!RecentPage
           sparse == page.answer.kind = "scan_budget_exceeded"
<1>1. Limit \in Nat \ {0} /\ Limit + 1 \in Nat \ {0} /\ Limit + 1 <= PageRows * MaxPages
  BY DEF Searching, S!SearchBounds
<1>2. PageFits(page, cursor, Limit + 1)
  BY <1>1, SearchPageFits
<1>3. a = S!RecentCut(page, S!EmitCursor(rows))
  BY DEF S!RecentPage, S!RecentOf
<1> HIDE DEF page, a
<1>4. Sought(cursor) = Kept(cursor)
  BY DEF Sought
<1>5. /\ Sought(cursor) \subseteq Reach(cursor) /\ Distinct(Sought(cursor))
      /\ ledger \subseteq Rows /\ EventBounds /\ S!SearchBounds
  BY ReachIs DEF Searching
<1>6. Begins(rows, Sought(cursor), "desc") /\ Len(rows) \in Nat
  BY <1>2, <1>4, BeginsElements DEF PageFits
<1>7. CASE Len(rows) > Limit
  <2>1. S!EmitCursor(rows).next # {}
    BY <1>7, SearchReads DEF S!EmitCursor
  <2>2. a = S!EmitCursor(rows)
    BY <1>3, <2>1 DEF S!RecentCut
  <2> QED
    BY <2>2, <1>5, <1>6, <1>7, CutOf DEF a
<1>8. CASE ~(Len(rows) > Limit)
  <2> DEFINE cut == [kept |-> rows, next |-> {}]
  <2>1. S!EmitCursor(rows) = cut
    BY <1>8 DEF S!EmitCursor
  <2>2. \A c : [cut EXCEPT !.next = c] = [kept |-> rows, next |-> c]
    OBVIOUS
  <2>3. a = [kept |-> rows,
             next |-> IF sparse THEN page.answer.cursor
                      ELSE IF page.limit <= Limit /\ Len(rows) = page.limit /\ rows # <<>>
                        THEN {CursorOf(Last(rows))} ELSE {}]
    BY <1>3, <2>1, <2>2, SearchReads DEF S!RecentCut
  <2>4. CASE sparse
    BY <2>3, <2>4, <1>2, <1>4, <1>6 DEF Continues, PageFits, a
  <2>5. CASE ~sparse /\ page.limit <= Limit /\ Len(rows) = page.limit /\ rows # <<>>
    <3>1. Len(rows) # 0
      BY <2>5, <1>2 DEF PageFits
    <3>2. Last(rows) \in Sought(cursor) /\ ToSet(rows) = Passed("desc", Sought(cursor), Last(rows))
      BY <3>1, <1>5, <1>6, BeginsLast
    <3>3. a.kept = rows /\ a.next = {CursorOf(Last(rows))}
      BY <2>3, <2>5
    <3> HIDE DEF rows
    <3> QED
      BY <3>2, <3>3, <1>5, <1>6 DEF Continues, a
  <2>6. CASE ~sparse /\ ~(page.limit <= Limit /\ Len(rows) = page.limit /\ rows # <<>>)
    <3>1. page.limit \in 1..(Limit + 1) /\ Len(rows) <= page.limit
      BY <1>2 DEF PageFits
    <3>2. rows = <<>> => Len(rows) = 0
      OBVIOUS
    <3> HIDE DEF rows
    <3>3. Len(rows) < page.limit
      BY <2>6, <3>1, <3>2, <1>1, <1>6, <1>8
    <3>4. ToSet(rows) = Sought(cursor)
      BY <2>6, <3>3, <1>2, <1>4 DEF PageFits, rows
    <3>5. a.kept = rows /\ a.next = {}
      BY <2>3, <2>6
    <3> QED
      BY <3>4, <3>5, <1>6 DEF Continues, a
  <2> QED
    BY <2>4, <2>5, <2>6
<1> QED
  BY <1>7, <1>8

--------------------------------------------------------------------------------
(* A search with a predicate.                                                *)

(* What the scan inspects of a page: nothing only if it has read before.     *)
LEMMA ConsumedIs ==
  ASSUME NEW s, NEW rows, Len(rows) \in Nat, s.rows \in Nat
  PROVE  /\ S!Consumed(s, rows) \in 0..Len(rows)
         /\ S!Consumed(s, rows) = 0 /\ Len(rows) > 0 => s.rows > 0
<1> DEFINE bytes(i) == s.bytes + S!StoredBytes(S!First(rows, i))
           hits(i) == Len(s.matches) + Len(S!Hits(S!First(rows, i)))
           admits(i) == /\ s.rows + i - 1 > 0 => bytes(i) <= ScanBytes
                        /\ i > 1 => /\ hits(i - 1) <= Limit
                                    /\ s.rows + i - 1 < ScanRows
                                    /\ bytes(i - 1) < ScanBytes
           N == Len(rows)
           Ends(k) == /\ \A i \in 1..k : admits(i)
                      /\ k < N => ~admits(k + 1)
<1>1. S!Consumed(s, rows) = CHOOSE k \in 0..N : Ends(k)
  BY DEF S!Consumed
<1>2. s.rows = 0 => admits(1)
  <2>1. ~(1 > 1) /\ (s.rows = 0 => ~(s.rows + 1 - 1 > 0))
    OBVIOUS
  <2> HIDE DEF bytes, hits
  <2> QED
    BY <2>1
<1> HIDE DEF admits, N
<1>3. N \in Nat
  BY DEF N
<1>4. \E k \in 0..N : Ends(k)
  <2> SUFFICES ASSUME \A k \in 0..N : ~Ends(k) PROVE FALSE
    OBVIOUS
  <2> DEFINE All == {k \in Nat : k <= N /\ \A i \in 1..k : admits(i)}
  <2>1. 0 \in All
    BY <1>3
  <2>2. ASSUME NEW k \in Nat, k \in All PROVE k + 1 \in All
    <3>1. k \in 0..N /\ \A i \in 1..k : admits(i)
      BY <2>2, <1>3
    <3>2. k < N /\ admits(k + 1)
      BY <3>1
    <3>3. \A i \in 1..(k + 1) : i \in 1..k \/ i = k + 1
      OBVIOUS
    <3>4. k + 1 \in Nat /\ k + 1 <= N
      BY <3>2, <1>3
    <3> QED
      BY <3>1, <3>2, <3>3, <3>4
  <2>3. Nat \subseteq All
    <3> HIDE DEF All
    <3> QED
      BY <2>1, <2>2, SetInduction
  <2>4. N + 1 \in All
    BY <2>3, <1>3
  <2> QED
    BY <2>4, <1>3
<1>5. S!Consumed(s, rows) \in 0..N /\ Ends(S!Consumed(s, rows))
  <2> HIDE DEF Ends
  <2> QED
    BY <1>1, <1>4
<1>6. ASSUME S!Consumed(s, rows) = 0, N > 0 PROVE s.rows > 0
  <2>1. ~admits(1)
    BY <1>5, <1>6
  <2> QED
    BY <2>1, <1>2
<1> QED
  BY <1>5, <1>6 DEF N

(* Where a scan stands: nothing is read yet, or everything up to a row is.   *)
Stands(m, before) ==
  /\ Begins(m, Sought(cursor), "desc")
  /\ \/ before = cursor /\ m = <<>>
     \/ \E x \in Reach(cursor) :
          before = {CursorOf(x)} /\ ToSet(m) = Passed("desc", Sought(cursor), x)

(* Reading on from where a scan stands.                                      *)
LEMMA HitsJoin ==
  ASSUME Searching, search.filtered, \A c \in cursor : Point(c), NEW before, NEW m, Stands(m, before),
         NEW read, Begins(read, Kept(before), "desc")
  PROVE  /\ Reach(before) \subseteq Reach(cursor)
         /\ Begins(m \o S!Hits(read), Sought(cursor), "desc")
         /\ ToSet(read) = Kept(before) => ToSet(m \o S!Hits(read)) = Sought(cursor)
         /\ \A y \in Reach(before) :
              ToSet(read) = Passed("desc", Kept(before), y)
                => ToSet(m \o S!Hits(read)) = Passed("desc", Sought(cursor), y)
<1> DEFINE R == Reach(cursor)
           E == Sought(cursor)
           H == ToSet(m)
           V == Reach(before)
           K == Kept(before)
           A == {r \in ToSet(read) : r.class \in search.hits}
           seen == S!Hits(read)
           all == m \o seen
<1>1. /\ R \subseteq Rows /\ E \subseteq R /\ Distinct(R) /\ Distinct(E) /\ K \subseteq V
      /\ Distinct(K)
  BY ReachIs DEF Searching
<1>2. E = {r \in R : r.class \in search.keeps /\ r.class \in search.hits}
  BY DEF Sought, Kept
<1>3. K = {r \in V : r.class \in search.keeps}
  BY DEF Kept
<1>4. Begins(m, E, "desc") /\ H \subseteq E /\ m \in Seq(E)
  BY BeginsElements DEF Stands
<1>5. /\ V \subseteq R /\ E \ H = {r \in V : r.class \in search.keeps /\ r.class \in search.hits}
      /\ \A x \in H, y \in E \ H : Ahead("desc", x, y)
      /\ \A x \in H, y \in V : Ahead("desc", x, y)
  <2>1. CASE before = cursor /\ m = <<>>
    <3>1. H = {} /\ V = R
      BY <2>1 DEF ToSet
    <3> QED
      BY <3>1, <1>2
  <2>2. CASE \E x \in R : before = {CursorOf(x)} /\ H = Passed("desc", E, x)
    <3>1. PICK x \in R : before = {CursorOf(x)} /\ H = Passed("desc", E, x)
      BY <2>2
    <3>2. \A r : Ahead("desc", CursorOf(x), r) <=> Ahead("desc", x, r)
      BY DEF CursorOf, Ahead, Older
    <3>3. ASSUME NEW r \in R, NEW c \in cursor, Ahead("desc", x, r) PROVE Ahead("desc", c, r)
      <4>1. Ahead("desc", c, x)
        BY DEF Reach
      <4>2. Point(c) /\ Point(x) /\ Point(r)
        BY <1>1 DEF Distinct
      <4> QED
        BY <3>3, <4>1, <4>2, AheadIsOrder
    <3>4. V = {r \in R : Ahead("desc", x, r)}
      <4>1. ASSUME NEW r \in ledger, r.class \in search.scans, search.since <= r.ts,
                   r.ts < search.until, Ahead("desc", x, r)
            PROVE  r \in R
        <5>1. ASSUME NEW c \in cursor PROVE Ahead("desc", c, r)
          <6>1. Ahead("desc", c, x)
            BY DEF Reach
          <6>2. Point(c) /\ Point(x)
            BY <1>1 DEF Distinct
          <6>3. Point(r)
            BY EventsBegin DEF Searching, Distinct
          <6> QED
            BY <4>1, <6>1, <6>2, <6>3, AheadIsOrder
        <5> QED
          BY <4>1, <5>1 DEF Reach
      <4> QED
        BY <4>1, <3>1, <3>2 DEF Reach
    <3>5. E \ H = {r \in E : Ahead("desc", x, r)}
      BY <3>1 DEF Passed
    <3>6. E \ H = {r \in V : r.class \in search.keeps /\ r.class \in search.hits}
      BY <3>4, <3>5, <1>2
    <3>7. ASSUME NEW y \in H, NEW z \in V PROVE Ahead("desc", y, z)
      <4>1. y \in R /\ z \in R /\ ~Ahead("desc", x, y) /\ Ahead("desc", x, z)
        BY <3>1, <3>4, <1>1 DEF Passed
      <4>2. y = x \/ Ahead("desc", y, x)
        BY <4>1, <1>1, AheadInDistinct
      <4> QED
        BY <4>1, <4>2, <1>1, AheadInDistinct
    <3> QED
      BY <3>4, <3>6, <3>7
  <2> QED
    BY <2>1, <2>2 DEF Stands
<1>6. seen = Among(read, A)
  BY SearchReads DEF S!Hits
<1> HIDE DEF seen
<1>7. read \in Seq(K) /\ ToSet(read) \subseteq K
  BY BeginsElements
<1>8. /\ Begins(seen, E \ H, "desc") /\ ToSet(seen) = A
  <2>1. Begins(Among(read, A), K \cap A, "desc") /\ ToSet(Among(read, A)) = ToSet(read) \cap A
    <3> HIDE DEF A, K
    <3> QED
      BY AmongBegins DEF K
  <2>2. K \cap A = A /\ ToSet(read) \cap A = A /\ A \subseteq E \ H
    BY <1>1, <1>3, <1>5, <1>7
  <2>3. Begins(seen, A, "desc") /\ ToSet(seen) = A
    BY <1>6, <2>1, <2>2
  <2>4. seen \in Seq(A) /\ \A i \in 1..Len(seen) : seen[i] \in A
    BY <2>3, BeginsElements
  <2>5. seen \in Seq(E \ H)
    BY <2>2, <2>4
  <2>6. ASSUME NEW i \in 1..Len(seen), NEW x \in E \ H, Ahead("desc", x, seen[i])
        PROVE  x \in ToSet(seen)
    <3>1. x \in K /\ x.class \in search.hits
      BY <1>3, <1>5
    <3>2. seen[i] \in ToSet(read)
      BY <2>4
    <3>3. PICK k \in 1..Len(read) : read[k] = seen[i]
      BY <3>2, <1>7, ElementsOf
    <3>4. x \in ToSet(read)
      BY <3>1, <3>3, <2>6 DEF Begins
    <3> QED
      BY <3>1, <3>4, <2>3
  <2>7. InTurn(seen, "desc")
    BY <2>3 DEF Begins
  <2> QED
    BY <2>3, <2>5, <2>6, <2>7 DEF Begins
<1>9. Begins(all, E, "desc")
  <2> HIDE DEF E
  <2> QED
    BY <1>1, <1>4, <1>5, <1>8, BeginsJoin
<1>10. ToSet(all) = H \cup A
  <2>1. seen \in Seq(E)
    BY <1>8 DEF Begins
  <2> HIDE DEF E, A
  <2> QED
    BY <2>1, <1>4, <1>8, Joined
<1>11. ASSUME ToSet(read) = K PROVE ToSet(all) = E
  BY <1>3, <1>4, <1>5, <1>10, <1>11
<1>12. ASSUME NEW y \in V, ToSet(read) = Passed("desc", K, y)
       PROVE  ToSet(all) = Passed("desc", E, y)
  <2>1. ASSUME NEW r \in E PROVE r \in H \cup A <=> ~Ahead("desc", y, r)
    <3>1. CASE r \in H
      <4>1. Ahead("desc", r, y) /\ r \in R /\ y \in R
        BY <3>1, <1>1, <1>4, <1>5
      <4>2. ~Ahead("desc", y, r)
        BY <4>1, <1>1, AheadInDistinct
      <4> QED
        BY <3>1, <4>2
    <3>2. CASE r \notin H
      <4>1. r \in K /\ r.class \in search.hits
        BY <3>2, <1>3, <1>5
      <4> QED
        BY <3>2, <4>1, <1>12 DEF Passed
    <3> QED
      BY <3>1, <3>2
  <2>2. H \cup A \subseteq E
    BY <1>3, <1>4, <1>5, <1>7
  <2> HIDE DEF H, A
  <2> QED
    BY <2>1, <2>2, <1>10 DEF Passed
<1>13. all = m \o S!Hits(read)
  BY DEF seen
<1>14. V \subseteq R
  BY <1>5
<1> HIDE DEF all, E, K, V, R
<1>15. /\ V \subseteq R /\ Begins(all, E, "desc") /\ (ToSet(read) = K => ToSet(all) = E)
       /\ \A y \in V : ToSet(read) = Passed("desc", K, y) => ToSet(all) = Passed("desc", E, y)
  BY <1>9, <1>11, <1>12, <1>14
<1> QED
  BY <1>13, <1>15 DEF E, K, V, R

Spots == cursor \cup {CursorOf(x) : x \in Rows}

ScanRec ==
  [matches : Seq(Rows), before : SUBSET Spots, last : SUBSET Spots, rows : Nat, bytes : Nat,
   pageRows : 1..ScanPageRows, kept : Seq(Rows), next : SUBSET Spots, done : BOOLEAN]

Reached(s) ==
  \E x \in Reach(cursor) :
    s.before = {CursorOf(x)} /\ s.last = s.before
      /\ ToSet(s.matches) = Passed("desc", Sought(cursor), x)

(* A scan stands somewhere, and behind a row once it has read one; or it is  *)
(* done, and its answer continues the search.                                *)
ScanInv(s) ==
  /\ s \in ScanRec
  /\ s.done => Continues(s.kept, s.next, cursor)
  /\ ~s.done => Stands(s.matches, s.before) /\ (s.rows > 0 => Reached(s))

LEMMA InspectIs ==
  ASSUME NEW s \in ScanRec, NEW read, NEW limit \in 1..ScanPageRows, S!Hits(read) \in Seq(Rows),
         Len(read) \in Nat, S!StoredBytes(read) \in Nat,
         read # <<>> => {CursorOf(Last(read))} \in SUBSET Spots
  PROVE  LET t == S!Inspect(s, read, limit)
         IN  /\ t \in ScanRec /\ t.matches = s.matches \o S!Hits(read)
             /\ t.rows = s.rows + Len(read) /\ t.before = s.before
             /\ t.last = IF read = <<>> THEN s.last ELSE {CursorOf(Last(read))}
<1> DEFINE t == S!Inspect(s, read, limit)
           m == s.matches \o S!Hits(read)
           n == s.rows + Len(read)
           b == s.bytes + S!StoredBytes(read)
           l == IF read = <<>> THEN s.last ELSE {CursorOf(Last(read))}
<1>1. t = [s EXCEPT !.matches = m, !.rows = n, !.bytes = b, !.last = l, !.pageRows = limit]
  BY SearchReads DEF S!Inspect
<1>2. m \in Seq(Rows)
  <2>1. s.matches \in Seq(Rows)
    BY DEF ScanRec
  <2> QED
    BY <2>1, Joined
<1>3. n \in Nat /\ b \in Nat
  <2>1. s.rows \in Nat /\ s.bytes \in Nat
    BY DEF ScanRec
  <2>2. \A i, j \in Nat : i + j \in Nat
    OBVIOUS
  <2> QED
    BY <2>1, <2>2
<1>4. l \in SUBSET Spots
  BY DEF ScanRec
<1> HIDE DEF t, m, n, b, l
<1>5. t = [matches |-> m, before |-> s.before, last |-> l, rows |-> n, bytes |-> b,
           pageRows |-> limit, kept |-> s.kept, next |-> s.next, done |-> s.done]
  BY <1>1 DEF ScanRec
<1>6. t.matches = m /\ t.before = s.before /\ t.last = l /\ t.rows = n
  BY <1>5
<1>7. t \in ScanRec
  BY <1>2, <1>3, <1>4, <1>5 DEF ScanRec
<1> QED
  BY <1>6, <1>7 DEF t, m, n, l

LEMMA FinishIs ==
  ASSUME NEW t \in ScanRec, NEW kept \in Seq(Rows), NEW goes \in SUBSET Spots
  PROVE  LET u == S!Finish(t, kept, goes)
         IN  u \in ScanRec /\ u.kept = kept /\ u.next = goes /\ u.done
<1> DEFINE u == S!Finish(t, kept, goes)
<1>1. u = [t EXCEPT !.kept = kept, !.next = goes, !.done = TRUE]
  BY DEF S!Finish
<1> HIDE DEF u
<1>2. u = [matches |-> t.matches, before |-> t.before, last |-> t.last, rows |-> t.rows,
           bytes |-> t.bytes, pageRows |-> t.pageRows, kept |-> kept, next |-> goes,
           done |-> TRUE]
  BY <1>1 DEF ScanRec
<1>3. u.kept = kept /\ u.next = goes /\ u.done
  BY <1>2
<1>4. u \in ScanRec
  BY <1>2 DEF ScanRec
<1> QED
  BY <1>3, <1>4 DEF u

LEMMA GoOnIs ==
  ASSUME NEW t \in ScanRec
  PROVE  LET u == [t EXCEPT !.before = t.last]
         IN  /\ u \in ScanRec /\ u.matches = t.matches /\ u.before = t.last /\ u.last = t.last
             /\ u.rows = t.rows /\ u.done = t.done
BY DEF ScanRec

LEMMA AnswerTypes ==
  ASSUME EventBounds, ledger \subseteq Rows, NEW kept, NEW goes, Continues(kept, goes, cursor)
  PROVE  kept \in Seq(Rows) /\ goes \in SUBSET Spots
<1>1. Reach(cursor) \subseteq Rows /\ Sought(cursor) \subseteq Rows
  BY ReachIs
<1>2. kept \in Seq(Sought(cursor))
  BY DEF Continues, Begins
<1>3. kept \in Seq(Rows)
  BY <1>1, <1>2
<1>4. goes \in SUBSET Spots
  BY <1>1 DEF Continues, Spots
<1> QED
  BY <1>3, <1>4

(* A scan that finishes with an answer that continues the search is done.    *)
LEMMA Finishes ==
  ASSUME EventBounds, ledger \subseteq Rows, NEW t \in ScanRec, NEW kept, NEW goes,
         Continues(kept, goes, cursor)
  PROVE  ScanInv(S!Finish(t, kept, goes)) /\ S!Finish(t, kept, goes).done
<1> DEFINE u == S!Finish(t, kept, goes)
<1>1. kept \in Seq(Rows) /\ goes \in SUBSET Spots
  BY AnswerTypes
<1>2. u \in ScanRec /\ u.kept = kept /\ u.next = goes /\ u.done
  BY <1>1, FinishIs
<1> HIDE DEF u
<1>3. ScanInv(u) /\ u.done
  BY <1>2 DEF ScanInv
<1> QED
  BY <1>3 DEF u

(* One page of a scan.                                                       *)
LEMMA ScanKeeps ==
  ASSUME Searching, search.filtered, \A c \in cursor : Point(c), NEW s, ScanInv(s), ~s.done
  PROVE  LET t == S!ScanPage(s) IN ScanInv(t) /\ (t.done \/ Reached(t))
<1> DEFINE R == Reach(cursor)
           E == Sought(cursor)
           K == Kept(s.before)
           page == S!AdaptivePage(ledger, S!PageQuery(s.before, s.pageRows))
           rows == page.answer.rows
           k == S!Consumed(s, rows)
           read == First(rows, k)
           t == S!Inspect(s, read, page.limit)
           u == S!ScanPage(s)
           sparse == page.answer.kind = "scan_budget_exceeded"
<1>1. s \in ScanRec /\ Stands(s.matches, s.before) /\ (s.rows > 0 => Reached(s))
  BY DEF ScanInv
<1>2. /\ s.pageRows \in 1..ScanPageRows /\ s.pageRows \in Nat \ {0}
      /\ s.pageRows <= PageRows * MaxPages /\ s.rows \in Nat
  <2>1. ScanPageRows \in Nat /\ ScanPageRows <= PageRows * MaxPages /\ PageRows * MaxPages \in Nat
    BY DEF Searching, S!SearchBounds, StorageBounds
  <2>2. s.pageRows \in 1..ScanPageRows /\ s.rows \in Nat
    BY <1>1 DEF ScanRec
  <2> QED
    BY <2>1, <2>2
<1>3. PageFits(page, s.before, s.pageRows)
  BY <1>2, SearchPageFits
<1>4. u = S!AfterPage(t, page, k)
  BY SearchReads DEF S!ScanPage, S!ConsumePage, S!InspectPage
<1> HIDE DEF page, u
<1>5. /\ R \subseteq Rows /\ K \subseteq Reach(s.before) /\ Distinct(K) /\ Distinct(E)
      /\ EventBounds /\ ledger \subseteq Rows
  BY ReachIs DEF Searching
<1>6. Begins(rows, K, "desc") /\ Len(rows) \in Nat /\ rows \in Seq(K)
  BY <1>3, BeginsElements DEF PageFits
<1>7. k \in 0..Len(rows) /\ (k = 0 /\ Len(rows) > 0 => s.rows > 0)
  BY <1>2, <1>6, ConsumedIs
<1> HIDE DEF k
<1>8. /\ Begins(read, K, "desc") /\ read \in Seq(K) /\ Len(read) = k
      /\ k = Len(rows) => read = rows
  <2>1. k \in Nat /\ k <= Len(rows)
    BY <1>6, <1>7
  <2>2. Begins(read, K, "desc") /\ read \in Seq(K)
    BY <2>1, <1>5, <1>6, FirstBegins, BeginsElements
  <2>3. Len(read) = IF k < Len(rows) THEN k ELSE Len(rows)
    BY <2>1, <1>6, FirstOf
  <2> HIDE DEF read
  <2>4. Len(read) = k
    BY <2>1, <2>3, <1>6
  <2>5. k = Len(rows) => read = rows
    BY <2>2, <2>4, <1>5, <1>6, BeginsSame
  <2> QED
    BY <2>2, <2>4, <2>5
<1> HIDE DEF read
<1> DEFINE m == s.matches \o S!Hits(read)
<1>9. /\ Reach(s.before) \subseteq R /\ Begins(m, E, "desc")
      /\ ToSet(read) = K => ToSet(m) = E
      /\ \A y \in Reach(s.before) :
           ToSet(read) = Passed("desc", K, y) => ToSet(m) = Passed("desc", E, y)
  BY <1>1, <1>8, HitsJoin
<1>10. ASSUME read # <<>>
       PROVE  Last(read) \in R /\ ToSet(m) = Passed("desc", E, Last(read))
  <2>1. Len(read) # 0
    BY <1>8, <1>10
  <2>2. Last(read) \in K /\ ToSet(read) = Passed("desc", K, Last(read))
    BY <2>1, <1>5, <1>8, BeginsLast
  <2> HIDE DEF m
  <2> QED
    BY <2>2, <1>5, <1>9
<1>11. /\ t \in ScanRec /\ t.matches = m /\ t.rows = s.rows + Len(read) /\ t.before = s.before
       /\ t.last = IF read = <<>> THEN s.last ELSE {CursorOf(Last(read))}
  <2>1. page.limit \in 1..ScanPageRows
    <3>1. page.limit \in 1..s.pageRows
      BY <1>3 DEF PageFits
    <3>2. ScanPageRows \in Nat
      BY DEF Searching, S!SearchBounds
    <3> QED
      BY <3>1, <3>2, <1>2
  <2>2. read \in Seq(Rows)
    BY <1>5, <1>8, <1>9
  <2>3. S!Hits(read) \in Seq(Rows)
    <3>1. S!Hits(read) = Among(read, {r \in ToSet(read) : r.class \in search.hits})
      BY SearchReads DEF S!Hits
    <3> QED
      BY <2>2, <3>1, AmongPlaces
  <2>4. S!StoredBytes(read) \in Nat
    <3>1. \A r \in Rows : r.bytes \in Nat
      <4>1. EventBounds
        BY <1>5
      <4>2. ASSUME NEW r \in Rows PROVE r.bytes \in Nat
        <5>1. r.bytes \in Int /\ 1 <= r.bytes
          BY <4>1, RowBytes
        <5> QED
          BY <5>1
      <4> QED
        BY <4>2
    <3>2. StoredBytes(read) \in Nat
      BY <2>2, <3>1, BytesGrow
    <3>3. S!StoredBytes(read) = StoredBytes(read)
      BY DEF S!StoredBytes, StoredBytes
    <3> QED
      BY <3>2, <3>3
  <2>5. read # <<>> => {CursorOf(Last(read))} \in SUBSET Spots
    BY <1>5, <1>10 DEF Spots
  <2>6. Len(read) \in Nat
    BY <2>2
  <2>7. s \in ScanRec
    BY <1>1
  <2> DEFINE n == page.limit
  <2> HIDE DEF n, m
  <2>8. LET w == S!Inspect(s, read, n)
        IN  /\ w \in ScanRec /\ w.matches = s.matches \o S!Hits(read)
            /\ w.rows = s.rows + Len(read) /\ w.before = s.before
            /\ w.last = IF read = <<>> THEN s.last ELSE {CursorOf(Last(read))}
    <3>1. n \in 1..ScanPageRows
      BY <2>1 DEF n
    <3> QED
      BY <2>3, <2>4, <2>5, <2>6, <2>7, <3>1, InspectIs
  <2> QED
    BY <2>8 DEF n, m
<1> HIDE DEF t, m
<1>12. ASSUME k < Len(rows) \/ read # <<>>
       PROVE  \E x \in R : t.last = {CursorOf(x)} /\ ToSet(m) = Passed("desc", E, x)
  <2>1. CASE read # <<>>
    BY <2>1, <1>10, <1>11
  <2>2. CASE read = <<>>
    <3>1. k = 0 /\ Len(rows) > 0
      BY <2>2, <1>6, <1>8, <1>12
    <3>2. PICK x \in R : s.before = {CursorOf(x)} /\ s.last = s.before
                           /\ ToSet(s.matches) = Passed("desc", E, x)
      BY <3>1, <1>1, <1>7 DEF Reached
    <3>3. ToSet(m) = ToSet(s.matches)
      <4>1. S!Hits(read) = <<>>
        <5>1. S!Hits(read) = Among(read, {r \in ToSet(read) : r.class \in search.hits})
          BY SearchReads DEF S!Hits
        <5>2. S!Hits(read) \in Seq({})
          <6>1. read \in Seq({})
            BY <2>2
          <6> QED
            BY <5>1, <6>1, AmongPlaces
        <5> QED
          BY <5>2
      <4>2. s.matches \in Seq(Rows)
        BY <1>1 DEF ScanRec
      <4> QED
        BY <4>1, <4>2 DEF m
    <3> QED
      BY <2>2, <3>2, <3>3, <1>11
  <2> QED
    BY <2>1, <2>2
<1>13. CASE Len(t.matches) > Limit
  <2> DEFINE cut == S!EmitCursor(m)
  <2>1. u = S!Finish(t, cut.kept, cut.next)
    BY <1>4, <1>11, <1>13 DEF S!AfterPage, S!FinishCut
  <2>2. Continues(cut.kept, cut.next, cursor)
    BY <1>5, <1>9, <1>11, <1>13, CutOf DEF Searching
  <2> HIDE DEF cut
  <2> QED
    BY <2>1, <2>2, <1>5, <1>11, Finishes DEF u
<1>14. CASE ~(Len(t.matches) > Limit) /\ k < Len(rows)
  <2>1. u = S!Finish(t, m, t.last)
    BY <1>4, <1>11, <1>14 DEF S!AfterPage
  <2>2. Continues(m, t.last, cursor)
    BY <1>9, <1>12, <1>14 DEF Continues
  <2> QED
    BY <2>1, <2>2, <1>5, <1>11, Finishes DEF u
<1>15. CASE ~(Len(t.matches) > Limit) /\ ~(k < Len(rows)) /\ sparse
  <2>1. u = S!Finish(t, m, page.answer.cursor)
    BY <1>4, <1>11, <1>15 DEF S!AfterPage
  <2>2. read = rows
    BY <1>6, <1>7, <1>8, <1>15
  <2>3. Continues(m, page.answer.cursor, cursor)
    <3>1. PICK x \in Reach(s.before) :
            page.answer.cursor = {CursorOf(x)} /\ ToSet(rows) = Passed("desc", K, x)
      BY <1>3, <1>15 DEF PageFits
    <3>2. x \in R /\ ToSet(m) = Passed("desc", E, x)
      BY <2>2, <3>1, <1>9
    <3> QED
      BY <3>1, <3>2, <1>9 DEF Continues
  <2> QED
    BY <2>1, <2>3, <1>5, <1>11, Finishes DEF u
<1>16. CASE /\ ~(Len(t.matches) > Limit) /\ ~(k < Len(rows)) /\ ~sparse
            /\ Len(rows) < page.limit
  <2>1. u = S!Finish(t, m, {})
    BY <1>4, <1>11, <1>16 DEF S!AfterPage
  <2>2. read = rows
    BY <1>6, <1>7, <1>8, <1>16
  <2>3. ToSet(rows) = K
    BY <1>3, <1>16 DEF PageFits
  <2>4. Continues(m, {}, cursor)
    BY <2>2, <2>3, <1>9 DEF Continues
  <2> QED
    BY <2>1, <2>4, <1>5, <1>11, Finishes DEF u
<1>17. CASE /\ ~(Len(t.matches) > Limit) /\ ~(k < Len(rows)) /\ ~sparse
            /\ ~(Len(rows) < page.limit)
  <2>1. read # <<>>
    <3>1. Len(rows) > 0 /\ k = Len(rows)
      <4>1. page.limit \in 1..s.pageRows
        BY <1>3 DEF PageFits
      <4> QED
        BY <4>1, <1>2, <1>6, <1>7, <1>17
    <3> QED
      BY <3>1, <1>8
  <2>2. PICK x \in R : t.last = {CursorOf(x)} /\ ToSet(m) = Passed("desc", E, x)
    BY <2>1, <1>12
  <2>3. CASE ~S!BudgetLeft(t)
    <3>1. u = S!Finish(t, m, t.last)
      BY <2>3, <1>4, <1>11, <1>17 DEF S!AfterPage
    <3>2. Continues(m, t.last, cursor)
      BY <2>2, <1>9 DEF Continues
    <3> QED
      BY <3>1, <3>2, <1>5, <1>11, Finishes DEF u
  <2>4. CASE S!BudgetLeft(t)
    <3>1. u = [t EXCEPT !.before = t.last]
      BY <2>4, <1>4, <1>17 DEF S!AfterPage
    <3>2. /\ u \in ScanRec /\ u.matches = m /\ u.before = t.last /\ u.last = t.last
          /\ u.done = t.done
      BY <3>1, <1>11, GoOnIs
    <3>3. Reached(u)
      BY <2>2, <3>2 DEF Reached
    <3>4. ~u.done
      <4>1. t.done = s.done
        <5>1. s \in ScanRec
          BY <1>1
        <5> QED
          BY <5>1 DEF t, S!Inspect, ScanRec
      <4> QED
        BY <3>2, <4>1
    <3>5. Stands(u.matches, u.before)
      BY <2>2, <3>2, <1>9 DEF Stands
    <3>6. ScanInv(u)
      BY <3>2, <3>3, <3>4, <3>5 DEF ScanInv
    <3> QED
      BY <3>3, <3>6 DEF u
  <2> QED
    BY <2>3, <2>4
<1> QED
  BY <1>13, <1>14, <1>15, <1>16, <1>17

(* All pages of one call with a predicate.                                   *)
LEMMA FilteredContinues ==
  ASSUME Searching, search.filtered, \A c \in cursor : Point(c)
  PROVE  Continues(S!FilteredPage.kept, S!FilteredPage.next, cursor)
<1> DEFINE V == {s \in ScanRec : ScanInv(s)}
           Go(s) == IF s.done THEN s ELSE S!ScanPage(s)
           step == [s \in V |-> Go(s)]
           Val(f, n) == IF n = 0 THEN S!ScanStart
                        ELSE IF f[n - 1].done THEN f[n - 1] ELSE S!ScanPage(f[n - 1])
           U == CHOOSE f : f = [n \in Nat |-> Val(f, n)]
<1>0. ScanPages \in Nat \ {0} /\ ScanPageRows \in 1..ScanPageRows
  <2>1. ScanPages \in Nat \ {0} /\ ScanPageRows \in 1..(PageRows * MaxPages)
        /\ PageRows * MaxPages \in Nat
    BY DEF Searching, S!SearchBounds, StorageBounds
  <2> QED
    BY <2>1
<1>1. S!ScanStart \in V
  <2> DEFINE s == S!ScanStart
  <2>1. s = [matches |-> <<>>, before |-> cursor, last |-> {}, rows |-> 0, bytes |-> 0,
             pageRows |-> ScanPageRows, kept |-> <<>>, next |-> {}, done |-> FALSE]
    BY DEF S!ScanStart
  <2> HIDE DEF s
  <2>2. s.matches = <<>> /\ s.before = cursor /\ s.rows = 0 /\ ~s.done
    BY <2>1
  <2>3. s \in ScanRec
    BY <2>1, <1>0 DEF ScanRec, Spots
  <2>4. Begins(s.matches, Sought(cursor), "desc")
    BY <2>2 DEF Begins, InTurn
  <2>5. ScanInv(s)
    BY <2>2, <2>3, <2>4 DEF ScanInv, Stands
  <2> QED
    BY <2>3, <2>5 DEF s
<1>2. ASSUME NEW s \in V PROVE Go(s) \in V /\ (Go(s).done \/ Reached(Go(s)))
  <2>1. ScanInv(s)
    OBVIOUS
  <2>2. ~s.done => LET t == S!ScanPage(s) IN ScanInv(t) /\ (t.done \/ Reached(t))
    BY <2>1, ScanKeeps
  <2>3. \A t : ScanInv(t) => t \in ScanRec
    BY DEF ScanInv
  <2> QED
    BY <2>1, <2>2, <2>3
<1>3. step \in [V -> V]
  <2> HIDE DEF V, Go
  <2> QED
    BY <1>2
<1>4. PICK f \in [Nat -> V] : f[0] = S!ScanStart /\ \A n \in Nat : f[n + 1] = step[f[n]]
  <2> HIDE DEF V, step
  <2> QED
    BY <1>1, <1>3, Iterated
<1>5. ASSUME NEW n \in Nat PROVE f[n] = Val(f, n)
  <2>1. CASE n = 0
    BY <1>4, <2>1
  <2>2. CASE n # 0
    <3>1. n - 1 \in Nat /\ (n - 1) + 1 = n
      BY <2>2
    <3>2. f[n] = step[f[n - 1]] /\ f[n - 1] \in V
      <4> HIDE DEF V, step
      <4>1. f[(n - 1) + 1] = step[f[n - 1]]
        BY <1>4, <3>1
      <4> QED
        BY <1>4, <3>1, <4>1
    <3>3. step[f[n - 1]] = Go(f[n - 1])
      <4> HIDE DEF V, Go
      <4> QED
        BY <3>2
    <3> HIDE DEF step
    <3> QED
      BY <2>2, <3>2, <3>3
  <2> QED
    BY <2>1, <2>2
<1>6. f = [n \in Nat |-> Val(f, n)]
  <2>1. f = [n \in Nat |-> f[n]]
    <3> HIDE DEF V
    <3> QED
      BY <1>4
  <2> HIDE DEF Val
  <2> QED
    BY <1>5, <2>1
<1>7. U = [n \in Nat |-> Val(U, n)]
  <2> HIDE DEF Val
  <2> QED
    BY <1>6
<1> HIDE DEF U
<1>8. ASSUME NEW n \in Nat PROVE U[n] = Val(U, n)
  <2> HIDE DEF Val
  <2> QED
    BY <1>7
<1> DEFINE Fine == {n \in Nat : U[n] \in V /\ (n # 0 => U[n].done \/ Reached(U[n]))}
<1>9. 0 \in Fine
  <2>1. U[0] = S!ScanStart
    BY <1>8
  <2> HIDE DEF V
  <2> QED
    BY <1>1, <2>1
<1>10. ASSUME NEW n \in Nat, n \in Fine PROVE n + 1 \in Fine
  <2>1. n + 1 \in Nat /\ n + 1 # 0 /\ (n + 1) - 1 = n
    OBVIOUS
  <2>2. U[n + 1] = Go(U[n])
    BY <1>8, <2>1
  <2>3. U[n] \in V
    <3> HIDE DEF V
    <3> QED
      BY <1>10
  <2>4. Go(U[n]) \in V /\ (Go(U[n]).done \/ Reached(Go(U[n])))
    <3> HIDE DEF V, Go
    <3> QED
      BY <1>2, <2>3
  <2> HIDE DEF V, Go
  <2> QED
    BY <2>1, <2>2, <2>4
<1>11. Nat \subseteq Fine
  <2> HIDE DEF Fine
  <2> QED
    BY <1>9, <1>10, SetInduction
<1> DEFINE z == U[ScanPages]
<1>12. z \in V /\ (z.done \/ Reached(z))
  <2>1. ScanPages \in Fine
    <3> HIDE DEF Fine
    <3> QED
      BY <1>0, <1>11
  <2> HIDE DEF V
  <2> QED
    BY <1>0, <2>1
<1>13. S!FilteredPage = S!ScanEnd(z)
  BY DEF S!FilteredPage, U
<1>14. ScanInv(z)
  BY <1>12
<1> HIDE DEF z
<1>15. CASE z.done
  <2>1. S!FilteredPage.kept = z.kept /\ S!FilteredPage.next = z.next
    BY <1>13, <1>15 DEF S!ScanEnd
  <2> QED
    BY <2>1, <1>14, <1>15 DEF ScanInv
<1>16. CASE ~z.done
  <2>1. S!FilteredPage.kept = z.matches /\ S!FilteredPage.next = z.last
    BY <1>13, <1>16 DEF S!ScanEnd
  <2>2. Reached(z) /\ Stands(z.matches, z.before)
    BY <1>12, <1>14, <1>16 DEF ScanInv
  <2>3. Continues(z.matches, z.last, cursor)
    BY <2>2 DEF Reached, Stands, Continues
  <2> QED
    BY <2>1, <2>3
<1> QED
  BY <1>15, <1>16

(* Every answer a call may give, cut to its ceiling or not.                  *)
LEMMA AnswersContinue ==
  ASSUME Searching, \A c \in cursor : Point(c), NEW a \in S!Answers
  PROVE  Continues(a.kept, a.next, cursor)
<1> DEFINE b == IF search.filtered THEN S!FilteredPage ELSE S!RecentPage
<1>1. Continues(b.kept, b.next, cursor)
  BY FilteredContinues, RecentContinues
<1>2. a \in S!Responses(b)
  BY DEF S!Answers
<1> HIDE DEF b
<1>3. CASE a = b
  BY <1>1, <1>3
<1>4. CASE \E n \in 1..Len(b.kept) :
             a = [kept |-> First(b.kept, n), next |-> {CursorOf(b.kept[n])}]
  <2>1. PICK n \in 1..Len(b.kept) :
          a = [kept |-> First(b.kept, n), next |-> {CursorOf(b.kept[n])}]
    BY <1>4
  <2>2. EventBounds /\ ledger \subseteq Rows /\ Begins(b.kept, Sought(cursor), "desc")
    BY <1>1 DEF Searching, Continues
  <2>3. Continues(First(b.kept, n), {CursorOf(b.kept[n])}, cursor)
    BY <2>2, CutContinues
  <2> QED
    BY <2>1, <2>3
<1> QED
  BY <1>2, <1>3, <1>4, SearchReads DEF S!Responses

LEMMA TurnsJoin ==
  ASSUME NEW T, NEW o, NEW s \in Seq(T), NEW t \in Seq(T), InTurn(s, o), InTurn(t, o),
         \A x \in ToSet(s), y \in ToSet(t) : Ahead(o, x, y)
  PROVE  InTurn(s \o t, o)
<1> DEFINE w == s \o t
<1>1. /\ \A i \in 1..Len(s) : w[i] = s[i]
      /\ \A i \in 1..Len(t) : w[Len(s) + i] = t[i]
      /\ \A i \in 1..Len(w) : i \in 1..Len(s) \/ (i - Len(s) \in 1..Len(t) /\ i - Len(s) + Len(s) = i)
  BY Joined
<1>2. /\ Len(s) \in Nat /\ Len(t) \in Nat /\ Len(w) \in Nat
      /\ \A i \in 1..Len(s) : s[i] \in ToSet(s)
      /\ \A i \in 1..Len(t) : t[i] \in ToSet(t)
  BY ElementsOf, Joined
<1> HIDE DEF w
<1>3. ASSUME NEW i \in 1..Len(w), NEW j \in 1..Len(w), i < j PROVE Ahead(o, w[i], w[j])
  <2>1. CASE i \in 1..Len(s) /\ j \in 1..Len(s)
    BY <2>1, <1>1, <1>3 DEF InTurn
  <2>2. CASE i \in 1..Len(s) /\ j - Len(s) \in 1..Len(t)
    <3>1. Len(s) + (j - Len(s)) = j
      BY <1>2
    <3>2. w[i] = s[i] /\ w[j] = t[j - Len(s)]
      BY <2>2, <3>1, <1>1
    <3> QED
      BY <2>2, <3>2, <1>2
  <2>3. CASE i - Len(s) \in 1..Len(t) /\ j - Len(s) \in 1..Len(t)
    <3>1. Len(s) + (j - Len(s)) = j /\ Len(s) + (i - Len(s)) = i /\ i - Len(s) < j - Len(s)
      BY <1>2, <1>3
    <3>2. w[i] = t[i - Len(s)] /\ w[j] = t[j - Len(s)]
      BY <2>3, <3>1, <1>1
    <3> QED
      BY <2>3, <3>1, <3>2 DEF InTurn
  <2>4. ~(i - Len(s) \in 1..Len(t) /\ j \in 1..Len(s))
    BY <1>2, <1>3
  <2> QED
    BY <1>1, <2>1, <2>2, <2>3, <2>4
<1>4. InTurn(w, o)
  BY <1>3 DEF InTurn
<1> QED
  BY <1>4 DEF w

(* What was received is in turn and lies before the cursor, and nothing that *)
(* the cursor has passed is missing.                                         *)
SearchInv ==
  /\ ledger \subseteq Rows /\ present \subseteq ledger
  /\ search = None \/ search \in Requests
  /\ search = None => cursor = {} /\ found = <<>> /\ ~more
  /\ found \in Seq(Rows) /\ InTurn(found, "desc")
  /\ \/ cursor = {} /\ (more => found = <<>>)
     \/ \E x \in Rows :
          cursor = {CursorOf(x)} /\ \A r \in ToSet(found) : ~Ahead("desc", x, r)
  /\ S!NothingMissed

SearchAssumed == EventBounds /\ StorageBounds /\ S!SearchBounds

LEMMA SearchStart ==
  ASSUME S!Init
  PROVE  SearchInv
<1>1. /\ ledger = {} /\ search = None /\ cursor = {} /\ more = FALSE
      /\ found = <<>> /\ present = {}
  BY DEF S!Init
<1>2. S!NothingMissed
  BY <1>1 DEF S!NothingMissed
<1>3. found \in Seq(Rows) /\ InTurn(found, "desc")
  BY <1>1 DEF InTurn
<1> QED
  BY <1>1, <1>2, <1>3 DEF SearchInv

LEMMA SearchCaptures ==
  ASSUME SearchInv, S!Capture
  PROVE  SearchInv'
<1>1. PICK r \in S!Rows \ ledger : ledger' = S!AppendEvent(ledger, r)
  BY DEF S!Capture
<1>2. UNCHANGED <<search, cursor, more, found, present>>
  BY DEF S!Capture
<1>3. S!Rows = Rows
  BY SearchReads DEF S!Rows, Rows
<1>4. ledger \subseteq ledger' /\ ledger' \subseteq Rows
  BY <1>1, <1>3 DEF S!AppendEvent, SearchInv
<1>5. S!NothingMissed' = S!NothingMissed
  BY <1>2 DEF S!NothingMissed, S!Wanted
<1> QED
  BY <1>2, <1>4, <1>5 DEF SearchInv

LEMMA SearchBegins ==
  ASSUME SearchAssumed, SearchInv, S!Begin
  PROVE  SearchInv'
<1>1. /\ search = None /\ search' \in Requests /\ more' = TRUE /\ present' = ledger
      /\ UNCHANGED <<ledger, cursor, found>>
  BY DEF S!Begin
<1>2. cursor = {} /\ found = <<>>
  BY <1>1 DEF SearchInv
<1>3. S!NothingMissed'
  BY <1>1, <1>2 DEF S!NothingMissed
<1>4. search' # None
  BY <1>1 DEF SearchAssumed, S!SearchBounds
<1>5. ledger \subseteq Rows /\ found \in Seq(Rows) /\ InTurn(found, "desc")
  BY DEF SearchInv
<1> QED
  BY <1>1, <1>2, <1>3, <1>4, <1>5 DEF SearchInv

(* A call adds what continues the search.                                    *)
LEMMA SearchCalls ==
  ASSUME SearchAssumed, SearchInv, S!Call
  PROVE  SearchInv'
<1>1. PICK a \in S!Answers : found' = found \o a.kept /\ cursor' = a.next /\ more' = (a.next # {})
  BY DEF S!Call
<1>2. more /\ UNCHANGED <<ledger, search, present>>
  BY DEF S!Call
<1> DEFINE E == Sought(cursor)
           R == Reach(cursor)
<1>3. /\ ledger \subseteq Rows /\ present \subseteq ledger /\ found \in Seq(Rows)
      /\ InTurn(found, "desc") /\ search \in Requests /\ search # None
  BY <1>2 DEF SearchInv
<1>4. Searching
  BY <1>3 DEF Searching, SearchAssumed
<1>5. Distinct(Rows)
  BY EventsBegin DEF SearchAssumed
<1>6. \A c \in cursor : Point(c)
  <2>1. ASSUME NEW x \in Rows PROVE Point(CursorOf(x))
    BY <1>5 DEF Distinct, CursorOf, Point
  <2> QED
    BY <2>1 DEF SearchInv
<1>7. Continues(a.kept, a.next, cursor)
  BY <1>4, <1>6, AnswersContinue
<1>8. R \subseteq Rows /\ E \subseteq R
  BY <1>3, ReachIs DEF SearchAssumed
<1>9. /\ Begins(a.kept, E, "desc") /\ a.kept \in Seq(E) /\ ToSet(a.kept) \subseteq E
      /\ InTurn(a.kept, "desc")
  BY <1>7, BeginsElements DEF Continues, Begins
<1>10. a.kept \in Seq(Rows)
  BY <1>8, <1>9
<1>11. found' \in Seq(Rows) /\ ToSet(found') = ToSet(found) \cup ToSet(a.kept)
  BY <1>1, <1>3, <1>10, Joined
<1>12. ASSUME NEW x \in ToSet(found), NEW y \in R PROVE Ahead("desc", x, y)
  <2>1. x \in Rows
    BY <1>3, ElementsOf
  <2>2. found # <<>>
    BY DEF ToSet
  <2>3. PICK z \in Rows : cursor = {CursorOf(z)} /\ ~Ahead("desc", z, x)
    BY <2>2, <1>2 DEF SearchInv
  <2>4. Ahead("desc", z, y)
    <3>1. Ahead("desc", CursorOf(z), y)
      BY <2>3 DEF Reach
    <3> QED
      BY <3>1 DEF CursorOf, Ahead, Older
  <2>5. x = z \/ Ahead("desc", x, z)
    BY <2>1, <2>3, <1>5, AheadInDistinct
  <2>6. y \in Rows
    BY <1>8
  <2> QED
    BY <2>1, <2>4, <2>5, <2>6, <1>5, AheadInDistinct
<1>13. InTurn(found', "desc")
  <2>1. \A x \in ToSet(found), y \in ToSet(a.kept) : Ahead("desc", x, y)
    BY <1>8, <1>9, <1>12
  <2>2. InTurn(found \o a.kept, "desc")
    BY <2>1, <1>3, <1>9, <1>10, TurnsJoin
  <2> QED
    BY <2>2, <1>1
<1>14. \/ cursor' = {} /\ ~more' /\ ToSet(a.kept) = E
       \/ \E x \in R : /\ cursor' = {CursorOf(x)} /\ ToSet(a.kept) = Passed("desc", E, x)
                       /\ \A r \in ToSet(found') : ~Ahead("desc", x, r)
  <2>1. CASE a.next = {} /\ ToSet(a.kept) = E
    BY <2>1, <1>1
  <2>2. CASE \E x \in R : a.next = {CursorOf(x)} /\ ToSet(a.kept) = Passed("desc", E, x)
    <3>1. PICK x \in R : a.next = {CursorOf(x)} /\ ToSet(a.kept) = Passed("desc", E, x)
      BY <2>2
    <3>2. ASSUME NEW r \in ToSet(found') PROVE ~Ahead("desc", x, r)
      <4>1. CASE r \in ToSet(found)
        <5>1. r \in Rows /\ x \in Rows
          BY <4>1, <1>3, <1>8, ElementsOf
        <5> QED
          BY <4>1, <5>1, <1>5, <1>12, AheadInDistinct
      <4>2. CASE r \in ToSet(a.kept)
        BY <4>2, <3>1 DEF Passed
      <4> QED
        BY <1>11, <4>1, <4>2
    <3> QED
      BY <3>1, <3>2, <1>1
  <2> QED
    BY <2>1, <2>2, <1>7 DEF Continues
<1>15. S!NothingMissed'
  <2> SUFFICES ASSUME NEW r \in present', S!Wanted(r)', \A c \in cursor' : ~Older(r, c)
               PROVE  r \in ToSet(found')
    BY SearchReads DEF S!NothingMissed, S!Wanted, S!ToSet, ToSet
  <2>1. r \in ledger /\ S!Wanted(r) /\ r \in present
    BY <1>2, <1>3 DEF S!Wanted
  <2>2. \A c : Ahead("desc", c, r) <=> Older(r, c)
    BY DEF Ahead
  <2>3. CASE \A c \in cursor : Older(r, c)
    <3>1. r \in E
      BY <2>1, <2>2, <2>3 DEF Sought, Kept, Reach, S!Wanted
    <3>2. CASE ToSet(a.kept) = E
      BY <3>1, <3>2, <1>11
    <3>3. CASE \E x \in R : cursor' = {CursorOf(x)} /\ ToSet(a.kept) = Passed("desc", E, x)
      <4>1. PICK x \in R : cursor' = {CursorOf(x)} /\ ToSet(a.kept) = Passed("desc", E, x)
        BY <3>3
      <4>2. ~Older(r, CursorOf(x))
        BY <4>1
      <4>3. ~Ahead("desc", x, r)
        BY <4>2 DEF CursorOf, Ahead, Older
      <4> QED
        BY <3>1, <4>1, <4>3, <1>11 DEF Passed
    <3> QED
      BY <3>2, <3>3, <1>14
  <2>4. CASE ~(\A c \in cursor : Older(r, c))
    <3>1. cursor # {} /\ \A c \in cursor : ~Older(r, c)
      BY <2>4 DEF SearchInv
    <3>2. r \in ToSet(found)
      BY <3>1, <2>1, SearchReads DEF SearchInv, S!NothingMissed
    <3> QED
      BY <3>2, <1>11
  <2> QED
    BY <2>3, <2>4
<1>16. \/ cursor' = {} /\ ~more'
       \/ \E x \in Rows :
            cursor' = {CursorOf(x)} /\ \A r \in ToSet(found') : ~Ahead("desc", x, r)
  BY <1>8, <1>14
<1> QED
  BY <1>2, <1>3, <1>11, <1>13, <1>15, <1>16 DEF SearchInv

LEMMA SearchStep ==
  ASSUME SearchAssumed, SearchInv, [S!Next]_(S!vars)
  PROVE  SearchInv'
<1>1. CASE S!Capture
  BY <1>1, SearchCaptures
<1>2. CASE S!Begin
  BY <1>2, SearchBegins
<1>3. CASE S!Call
  BY <1>3, SearchCalls
<1>4. CASE UNCHANGED S!vars
  <2>1. UNCHANGED <<ledger, search, cursor, more, found, present>>
    BY <1>4 DEF S!vars
  <2>2. S!NothingMissed' = S!NothingMissed
    BY <2>1 DEF S!NothingMissed, S!Wanted
  <2> QED
    BY <2>1, <2>2 DEF SearchInv
<1> QED
  BY <1>1, <1>2, <1>3, <1>4 DEF S!Next

LEMMA SearchHolds ==
  ASSUME SearchAssumed, SearchInv
  PROVE  S!NothingMissed /\ S!NewestFirst /\ S!CursorAdvances
<1>1. S!NothingMissed
  BY DEF SearchInv
<1>2. S!NewestFirst
  <2>1. found \in Seq(Rows) /\ InTurn(found, "desc")
    BY DEF SearchInv
  <2>2. DOMAIN found = 1..Len(found)
    BY <2>1
  <2> QED
    BY <2>1, <2>2, SearchReads DEF S!NewestFirst, InTurn, Ahead
<1>3. S!CursorAdvances
  <2> SUFFICES ASSUME more, NEW a \in S!Answers, NEW c \in cursor, NEW d \in a.next
               PROVE  Older(d, c)
    BY SearchReads DEF S!CursorAdvances
  <2>1. Searching
    BY DEF SearchInv, SearchAssumed, Searching
  <2>2. \A e \in cursor : Point(e)
    <3>1. Distinct(Rows)
      BY EventsBegin DEF SearchAssumed
    <3>2. ASSUME NEW x \in Rows PROVE Point(CursorOf(x))
      BY <3>1 DEF Distinct, CursorOf, Point
    <3> QED
      BY <3>2 DEF SearchInv
  <2>3. Continues(a.kept, a.next, cursor)
    BY <2>1, <2>2, AnswersContinue
  <2>4. PICK x \in Reach(cursor) : a.next = {CursorOf(x)}
    BY <2>3 DEF Continues
  <2>5. Ahead("desc", c, x) /\ d = CursorOf(x)
    BY <2>4 DEF Reach
  <2> QED
    BY <2>5 DEF CursorOf, Ahead, Older
<1> QED
  BY <1>1, <1>2, <1>3

(* A search pages exactly (mcp/tools/search-memories.ts): whatever it has    *)
(* passed was received, newest first and once, and every call takes it       *)
(* further back, for every limit, budget and ledger.                         *)
THEOREM SearchesAreExact == ToolSpec => []SearchIsExact
<1> DEFINE Inv == tool = "search" => SearchInv
<1>0. SearchAssumed
  BY EventsInOrder, StorageBudgets, ToolBounds DEF SearchAssumed
<1>1. ToolInit => Inv
  BY SearchStart DEF ToolInit
<1>2. ASSUME Inv, [ToolNext]_toolVars PROVE Inv'
  <2>1. tool' = tool
    BY <1>2 DEF ToolNext, toolVars, Groups, Search, Atoms, Waits, Logs
  <2>2. tool = "search" => [S!Next]_(S!vars)
    BY <1>2 DEF ToolNext, toolVars, Groups, Search, Atoms, Waits, Logs, shared, searchVars, S!vars
  <2> QED
    BY <1>0, <1>2, <2>1, <2>2, SearchStep
<1>3. Inv => SearchIsExact
  BY <1>0, SearchHolds DEF SearchIsExact
<1> QED
  BY <1>1, <1>2, <1>3, PTL DEF ToolSpec

--------------------------------------------------------------------------------
(* The clustering input. A lane consumes its matches in order, page by page: *)
(* what it has consumed lies ahead of what it has not.                       *)

LEMMA ClusterReads ==
  /\ \A s : C!Last(s) = Last(s)
  /\ \A r : C!CursorOf(r) = CursorOf(r)
  /\ \A a, b : C!Older(a, b) <=> Older(a, b)
  /\ \A set : C!Cardinality(set) = Cardinality(set)
BY DEF C!Last, Last, C!CursorOf, CursorOf, C!Older, Older, C!Cardinality, Cardinality

LEMMA ClusterPages == \A rows, q : C!AdaptivePage(rows, q) = AdaptivePage(rows, q)
<1>0. /\ \A s, set : C!Among(s, set) = Among(s, set)
      /\ \A s, n : C!First(s, n) = First(s, n)
      /\ \A s : C!Last(s) = Last(s) /\ C!ToSet(s) = ToSet(s)
      /\ \A r : C!CursorOf(r) = CursorOf(r)
  BY DEF C!Among, Among, C!First, First, C!Last, Last, C!ToSet, ToSet, C!CursorOf, CursorOf
<1>1. \A s, order_ : C!Directed(s, order_) = Directed(s, order_)
  BY DEF C!Directed, Directed, C!Reverse, Reverse
<1>2. \A set, order_ : C!InOrder(set, order_) = InOrder(set, order_)
  BY <1>0, <1>1 DEF C!InOrder, InOrder
<1>3. \A s : C!StoredBytes(s) = StoredBytes(s)
  BY DEF C!StoredBytes, StoredBytes
<1>4. \A rows, q : C!Candidates(rows, q) = Candidates(rows, q)
  BY DEF C!Candidates, Candidates, C!Ahead, Ahead, C!Older, Older
<1>5. \A rows, q : C!Inspected(rows, q) = Inspected(rows, q)
  BY <1>0, <1>2, <1>4 DEF C!Inspected, Inspected
<1>6. \A q, seen, admitted : C!Admit(q, seen, admitted) = Admit(q, seen, admitted)
  BY <1>0, <1>3 DEF C!Admit, Admit, C!Outcome, Outcome
<1>7. \A q, seen : C!AdmitFrom(q, seen) = AdmitFrom(q, seen)
  BY <1>0, <1>6 DEF C!AdmitFrom, AdmitFrom
<1>8. \A rows, q : C!SqliteQuery(rows, q) = SqliteQuery(rows, q)
  BY <1>5, <1>7 DEF C!SqliteQuery, SqliteQuery
<1>9. \A rows, q : C!ByteSafeLimit(rows, q) = ByteSafeLimit(rows, q)
  BY <1>8 DEF C!ByteSafeLimit, ByteSafeLimit
<1>10. \A rows, q, n : C!PageAt(rows, q, n) = PageAt(rows, q, n)
  BY <1>8 DEF C!PageAt, PageAt
<1> QED
  BY <1>9, <1>10 DEF C!AdaptivePage, AdaptivePage

(* D is what an order has consumed of M so far.                              *)
Down(D, M, dir) ==
  D \subseteq M /\ \A x \in D, y \in M \ D : Ahead(dir, x, y)

LEMMA BeginsDown ==
  ASSUME NEW M, Distinct(M), NEW dir, NEW s, Begins(s, M, dir)
  PROVE  Down(ToSet(s), M, dir)
<1>1. ToSet(s) \subseteq M
  BY BeginsElements
<1>2. ASSUME NEW x \in ToSet(s), NEW y \in M \ ToSet(s) PROVE Ahead(dir, x, y)
  <2>1. x \in M /\ y \in M /\ x # y
    BY <1>1
  <2>2. ~Ahead(dir, y, x)
    <3>1. PICK i \in 1..Len(s) : s[i] = x
      BY BeginsElements
    <3>2. Ahead(dir, y, s[i]) => y \in ToSet(s)
      BY <2>1 DEF Begins
    <3> QED
      BY <3>1, <3>2
  <2> QED
    BY <2>1, <2>2, AheadInDistinct
<1> QED
  BY <1>1, <1>2 DEF Down

LEMMA DownJoin ==
  ASSUME NEW M, NEW dir, NEW D, Down(D, M, dir), NEW B, Down(B, M \ D, dir)
  PROVE  Down(D \cup B, M, dir) /\ M \ (D \cup B) = (M \ D) \ B
BY DEF Down

(* The states of a lane.                                                     *)
LogicalSet == UNION {C!LogicalKeys(r) : r \in Rows}

Reasons == {"none", "raw_observations", "raw_bytes", "storage_windows"}

LaneStates ==
  {s \in [events : SUBSET Rows, seen : SUBSET Rows, logical : SUBSET LogicalSet, bytes : Nat,
          cursor : SUBSET [ts : Int, id : Int], pageRows : Nat \ {0}, reason : Reasons,
          done : BOOLEAN] : IsFiniteSet(s.logical)}

(* The observations of the window.                                           *)
Inside(f) == {r \in Rows : C!InWindow(r, f)}

LEMMA KeysAreFinite ==
  ASSUME ClusterBounds, NEW r \in Rows
  PROVE  IsFiniteSet(C!LogicalKeys(r)) /\ C!LogicalKeys(r) \subseteq LogicalSet
<1>1. IsFiniteSet(r.turn) /\ r.kind \in {"malformed", "unknown", "inherited", "original"}
  BY DEF ClusterBounds
<1>2. IsFiniteSet({<<"turn", t>> : t \in r.turn})
  <2> DEFINE T == {<<"turn", t>> : t \in r.turn}
             h == [t \in r.turn |-> <<"turn", t>>]
  <2>1. h \in Surjection(r.turn, T)
    BY DEF Surjection
  <2> QED
    BY <1>1, <2>1, FS_Surjection
<1>3. IsFiniteSet({<<"raw", r.id>>}) /\ IsFiniteSet({})
  BY FS_EmptySet, FS_Singleton
<1>4. C!LogicalKeys(r) \in {{}, {<<"raw", r.id>>}, {<<"turn", t>> : t \in r.turn}}
  BY <1>1 DEF C!LogicalKeys
<1>5. C!LogicalKeys(r) \subseteq LogicalSet
  BY DEF LogicalSet
<1> QED
  BY <1>2, <1>3, <1>4, <1>5

(* What a kept row changes.                                                  *)
LEMMA KeptFields ==
  ASSUME NEW a, NEW b, NEW c, NEW d, NEW e, NEW g, NEW h, NEW i, NEW x, NEW y, NEW z,
         NEW u, u = [events |-> a, seen |-> b, logical |-> c, bytes |-> d, cursor |-> e,
                     pageRows |-> g, reason |-> h, done |-> i]
  PROVE  [u EXCEPT !.events = x, !.bytes = y, !.logical = z]
           = [events |-> x, seen |-> b, logical |-> z, bytes |-> y, cursor |-> e,
              pageRows |-> g, reason |-> h, done |-> i]
<1> DEFINE v == [events |-> x, seen |-> b, logical |-> c, bytes |-> d, cursor |-> e,
                 pageRows |-> g, reason |-> h, done |-> i]
           w == [events |-> x, seen |-> b, logical |-> c, bytes |-> y, cursor |-> e,
                 pageRows |-> g, reason |-> h, done |-> i]
<1>1. [u EXCEPT !.events = x] = v
  OBVIOUS
<1>2. [v EXCEPT !.bytes = y] = w
  OBVIOUS
<1>3. [w EXCEPT !.logical = z]
        = [events |-> x, seen |-> b, logical |-> z, bytes |-> y, cursor |-> e,
           pageRows |-> g, reason |-> h, done |-> i]
  OBVIOUS
<1>4. [u EXCEPT !.events = x, !.bytes = y, !.logical = z] = [w EXCEPT !.logical = z]
  <2> HIDE DEF v, w
  <2> QED
    BY <1>1, <1>2
<1> QED
  BY <1>3, <1>4

(* A row is passed over, or kept, or ends the lane.                          *)
LEMMA RowConsumed ==
  ASSUME EventBounds, ClusterBounds, NEW s \in LaneStates, NEW r \in Rows, NEW f
  PROVE  LET t == C!ConsumeRow(s, r, f)
         IN  /\ t \in LaneStates
             /\ t.cursor = s.cursor /\ t.pageRows = s.pageRows /\ t.done = s.done
             /\ t.seen \subseteq s.seen \cup {r}
             /\ s.reason # "none" => t = s
             /\ t.reason # "none" => t.events = s.events
             /\ t.reason = "none" /\ r \notin s.seen =>
                  t.events = s.events \cup ({r} \cap Inside(f))
<1> DEFINE t == C!ConsumeRow(s, r, f)
           St == [events : SUBSET Rows, seen : SUBSET Rows, logical : SUBSET LogicalSet,
                  bytes : Nat, cursor : SUBSET [ts : Int, id : Int], pageRows : Nat \ {0},
                  reason : Reasons, done : BOOLEAN]
           u == [s EXCEPT !.seen = @ \cup {r}]
           full == [u EXCEPT !.reason = "raw_observations"]
           big == [u EXCEPT !.reason = "raw_bytes"]
           kept == [u EXCEPT !.events = @ \cup {r}, !.bytes = @ + r.bytes,
                             !.logical = @ \cup C!LogicalKeys(r)]
<1>1. s \in St /\ IsFiniteSet(s.logical)
  BY DEF LaneStates
<1>2. r.bytes \in Nat
  <2>1. r.bytes \in Int /\ 1 <= r.bytes
    BY RowBytes
  <2> QED
    BY <2>1
<1>3. /\ u \in St /\ u.events = s.events /\ u.reason = s.reason /\ u.logical = s.logical
      /\ u.cursor = s.cursor /\ u.pageRows = s.pageRows /\ u.done = s.done
      /\ u.seen = s.seen \cup {r}
  BY <1>1
<1>4. t \in {s, u, full, big, kept} /\ (s.reason # "none" \/ r \in s.seen => t = s)
      /\ (s.reason = "none" /\ r \notin s.seen =>
            IF C!InWindow(r, f) THEN t \in {full, big, kept} ELSE t = u)
  BY DEF C!ConsumeRow, C!Keep
<1> HIDE DEF u, t
<1>5. /\ full \in St /\ full.events = u.events /\ full.reason = "raw_observations"
      /\ full.logical = u.logical /\ full.cursor = u.cursor /\ full.pageRows = u.pageRows
      /\ full.done = u.done /\ full.seen = u.seen
  BY <1>3 DEF Reasons
<1>6. /\ big \in St /\ big.events = u.events /\ big.reason = "raw_bytes"
      /\ big.logical = u.logical /\ big.cursor = u.cursor /\ big.pageRows = u.pageRows
      /\ big.done = u.done /\ big.seen = u.seen
  BY <1>3 DEF Reasons
<1>7. /\ kept \in St /\ kept.events = u.events \cup {r} /\ kept.reason = u.reason
      /\ kept.logical = u.logical \cup C!LogicalKeys(r) /\ kept.cursor = u.cursor
      /\ kept.pageRows = u.pageRows /\ kept.done = u.done /\ kept.seen = u.seen
  <2>1. kept = [events |-> u.events \cup {r}, seen |-> u.seen, bytes |-> u.bytes + r.bytes,
                logical |-> u.logical \cup C!LogicalKeys(r), cursor |-> u.cursor,
                pageRows |-> u.pageRows, reason |-> u.reason, done |-> u.done]
    <3>1. u = [events |-> u.events, seen |-> u.seen, logical |-> u.logical, bytes |-> u.bytes,
               cursor |-> u.cursor, pageRows |-> u.pageRows, reason |-> u.reason,
               done |-> u.done]
      BY <1>3
    <3>2. kept = [u EXCEPT !.events = u.events \cup {r}, !.bytes = u.bytes + r.bytes,
                           !.logical = u.logical \cup C!LogicalKeys(r)]
      OBVIOUS
    <3> HIDE DEF kept
    <3> QED
      BY <3>1, <3>2, KeptFields
  <2>2. /\ u.events \cup {r} \in SUBSET Rows /\ u.seen \in SUBSET Rows /\ u.bytes + r.bytes \in Nat
        /\ u.cursor \in SUBSET [ts : Int, id : Int] /\ u.pageRows \in Nat \ {0}
        /\ u.reason \in Reasons /\ u.done \in BOOLEAN
    BY <1>2, <1>3
  <2>3. u.logical \cup C!LogicalKeys(r) \in SUBSET LogicalSet
    <3>1. u.logical \in SUBSET LogicalSet
      BY <1>3
    <3> QED
      BY <3>1, KeysAreFinite
  <2> HIDE DEF kept
  <2> QED
    BY <2>1, <2>2, <2>3
<1>8. IsFiniteSet(kept.logical)
  BY <1>1, <1>3, <1>7, KeysAreFinite, FS_Union
<1> HIDE DEF full, big, kept, St
<1>9. t \in St /\ IsFiniteSet(t.logical)
  BY <1>1, <1>3, <1>4, <1>5, <1>6, <1>7, <1>8
<1>10. t \in LaneStates
  BY <1>9 DEF LaneStates, St
<1>11. t.cursor = s.cursor /\ t.pageRows = s.pageRows /\ t.done = s.done
       /\ t.seen \subseteq s.seen \cup {r}
  BY <1>3, <1>4, <1>5, <1>6, <1>7
<1>12. t.reason # "none" => t.events = s.events
  BY <1>3, <1>4, <1>5, <1>6, <1>7
<1>13. ASSUME t.reason = "none", r \notin s.seen
       PROVE  t.events = s.events \cup ({r} \cap Inside(f))
  <2>1. s.reason = "none"
    BY <1>13, <1>4
  <2>2. CASE C!InWindow(r, f)
    <3>1. t = kept
      BY <2>1, <2>2, <1>4, <1>5, <1>6, <1>13
    <3> QED
      BY <3>1, <2>2, <1>3, <1>7 DEF Inside
  <2>3. CASE ~C!InWindow(r, f)
    <3>1. t = u
      BY <2>1, <2>3, <1>4, <1>13
    <3> QED
      BY <3>1, <2>3, <1>3 DEF Inside
  <2> QED
    BY <2>2, <2>3
<1> QED
  BY <1>4, <1>10, <1>11, <1>12, <1>13 DEF t

(* What a lane takes of a page: a beginning of it, and all of it if nothing  *)
(* stops the lane.                                                           *)
Taken(t, s, K, rows, dir, f) ==
  /\ t \in LaneStates
  /\ t.cursor = s.cursor /\ t.pageRows = s.pageRows /\ t.done = s.done
  /\ t.seen \subseteq s.seen \cup ToSet(rows)
  /\ \E B : /\ Down(B, K, dir) /\ t.events = s.events \cup (B \cap Inside(f))
            /\ t.reason = "none" => B = ToSet(rows)

LEMMA RowsConsumed ==
  ASSUME EventBounds, ClusterBounds, NEW s \in LaneStates, s.reason = "none",
         NEW K, K \subseteq Rows, K \cap s.seen = {}, NEW dir, NEW rows, Begins(rows, K, dir), NEW f
  PROVE  Taken(C!ConsumeRows(s, rows, f), s, K, rows, dir, f)
<1> DEFINE N == Len(rows)
           Val(u, n) == IF n = 0 THEN s ELSE C!ConsumeRow(u[n - 1], rows[n], f)
           U == CHOOSE u : u = [n \in 0..N |-> Val(u, n)]
           consume(n, x) == IF n \in 1..N THEN C!ConsumeRow(x, rows[n], f) ELSE x
           step == [x \in Nat \X LaneStates |-> consume(x[1], x[2])]
           Upto(n) == {rows[i] : i \in 1..n}
           SoTaken(t, n) ==
             /\ t \in LaneStates
             /\ t.cursor = s.cursor /\ t.pageRows = s.pageRows /\ t.done = s.done
             /\ t.seen \subseteq s.seen \cup Upto(n)
             /\ \E k \in 0..n : /\ t.events = s.events \cup (Upto(k) \cap Inside(f))
                                /\ t.reason = "none" => k = n
<1>0. N \in Nat /\ \A n \in 1..N : rows[n] \in K /\ rows[n] \in Rows
  BY BeginsElements
<1>1. C!ConsumeRows(s, rows, f) = U[N]
  BY DEF C!ConsumeRows
<1> HIDE DEF N
<1>2. ASSUME NEW n, NEW x \in LaneStates PROVE consume(n, x) \in LaneStates
  BY <1>0, RowConsumed
<1>3. step \in [Nat \X LaneStates -> LaneStates]
  <2> HIDE DEF consume
  <2> QED
    BY <1>2
<1>4. PICK g \in [Nat -> LaneStates] : StepsBy(g, s, step)
  <2> HIDE DEF step
  <2> QED
    BY <1>3, Recursion
<1> DEFINE u == [n \in 0..N |-> g[n]]
<1>5. ASSUME NEW n \in 0..N PROVE u[n] = Val(u, n)
  <2>1. n \in Nat /\ u[n] = g[n] /\ g[n] \in LaneStates
    BY <1>0, <1>4
  <2>2. CASE n = 0
    BY <1>4, <2>1, <2>2 DEF StepsBy
  <2>3. CASE n # 0
    <3>1. n - 1 \in 0..N /\ n - 1 \in Nat /\ n \in 1..N
      BY <1>0, <2>3
    <3>2. g[n] = step[<<n, g[n - 1]>>]
      <4> HIDE DEF step
      <4> QED
        BY <1>4, <2>1, <2>3 DEF StepsBy
    <3>3. <<n, g[n - 1]>> \in Nat \X LaneStates
      BY <1>4, <2>1, <3>1
    <3>4. step[<<n, g[n - 1]>>] = consume(n, g[n - 1])
      <4> HIDE DEF consume
      <4> QED
        BY <3>3
    <3>5. u[n - 1] = g[n - 1]
      BY <3>1
    <3> HIDE DEF step, u
    <3> QED
      BY <2>1, <2>3, <3>1, <3>2, <3>4, <3>5
  <2> QED
    BY <2>2, <2>3
<1>6. u = [n \in 0..N |-> Val(u, n)]
  <2>1. u = [n \in 0..N |-> u[n]]
    OBVIOUS
  <2> HIDE DEF u, Val
  <2> QED
    BY <1>5, <2>1
<1>7. U = [n \in 0..N |-> Val(U, n)]
  <2> HIDE DEF Val, u
  <2> QED
    BY <1>6
<1> HIDE DEF U
<1>8. ASSUME NEW n \in 0..N PROVE U[n] = Val(U, n)
  <2> HIDE DEF Val
  <2> QED
    BY <1>7
<1>9. U[0] = s /\ \A n \in Nat : n + 1 <= N => U[n + 1] = C!ConsumeRow(U[n], rows[n + 1], f)
  <2>1. 0 \in 0..N
    BY <1>0
  <2>2. \A n \in Nat : n + 1 <= N => n + 1 \in 0..N /\ n + 1 # 0 /\ (n + 1) - 1 = n
    BY <1>0
  <2> QED
    BY <1>8, <2>1, <2>2
<1>10. SoTaken(s, 0)
  <2>1. Upto(0) = {} /\ 0 \in 0..0
    OBVIOUS
  <2> HIDE DEF Upto
  <2> QED
    BY <2>1
<1>11. ASSUME NEW n \in Nat, n + 1 <= N, NEW x, SoTaken(x, n)
       PROVE  SoTaken(C!ConsumeRow(x, rows[n + 1], f), n + 1)
  <2> DEFINE r == rows[n + 1]
             t == C!ConsumeRow(x, r, f)
  <2>1. n + 1 \in 1..N /\ r \in K /\ r \in Rows
    BY <1>0, <1>11
  <2>2. r \notin s.seen
    BY <2>1
  <2>3. r \notin Upto(n)
    <3> SUFFICES ASSUME NEW i \in 1..n, r = rows[i] PROVE FALSE
      OBVIOUS
    <3>1. i \in 1..N /\ i < n + 1
      BY <1>0, <1>11
    <3>2. Ahead(dir, rows[i], rows[n + 1])
      BY <2>1, <3>1 DEF Begins, InTurn, N
    <3>3. Distinct(K)
      BY EventsBegin, DistinctIn
    <3> QED
      BY <2>1, <3>2, <3>3, AheadInDistinct
  <2>4. r \notin x.seen /\ x \in LaneStates
    BY <2>2, <2>3, <1>11
  <2>5. Upto(n + 1) = Upto(n) \cup {r}
    OBVIOUS
  <2>6. /\ t \in LaneStates
        /\ t.cursor = x.cursor /\ t.pageRows = x.pageRows /\ t.done = x.done
        /\ t.seen \subseteq x.seen \cup {r}
        /\ x.reason # "none" => t = x
        /\ t.reason # "none" => t.events = x.events
        /\ t.reason = "none" => t.events = x.events \cup ({r} \cap Inside(f))
    BY <2>1, <2>4, RowConsumed
  <2>7. PICK k \in 0..n : /\ x.events = s.events \cup (Upto(k) \cap Inside(f))
                          /\ x.reason = "none" => k = n
    BY <1>11
  <2>8. k \in 0..(n + 1) /\ n + 1 \in 0..(n + 1)
    OBVIOUS
  <2>9. x.cursor = s.cursor /\ x.pageRows = s.pageRows /\ x.done = s.done
        /\ x.seen \subseteq s.seen \cup Upto(n)
    BY <1>11
  <2> HIDE DEF t, r, Upto
  <2>10. \E j \in 0..(n + 1) : /\ t.events = s.events \cup (Upto(j) \cap Inside(f))
                               /\ t.reason = "none" => j = n + 1
    <3>1. CASE t.reason # "none"
      BY <3>1, <2>6, <2>7, <2>8
    <3>2. CASE t.reason = "none"
      <4>1. x.reason = "none" /\ k = n
        BY <3>2, <2>6, <2>7
      <4>2. t.events = s.events \cup (Upto(n + 1) \cap Inside(f))
        BY <3>2, <4>1, <2>5, <2>6, <2>7
      <4> QED
        BY <4>2, <2>8
    <3> QED
      BY <3>1, <3>2
  <2>11. t.seen \subseteq s.seen \cup Upto(n + 1)
    BY <2>5, <2>6, <2>9
  <2>12. SoTaken(t, n + 1)
    BY <2>6, <2>9, <2>10, <2>11
  <2> QED
    BY <2>12 DEF t, r
<1> DEFINE Good == {n \in Nat : n <= N => SoTaken(U[n], n)}
<1>12. Nat \subseteq Good
  <2> HIDE DEF SoTaken
  <2>1. 0 \in Good
    BY <1>9, <1>10
  <2>2. ASSUME NEW n \in Nat, n \in Good PROVE n + 1 \in Good
    <3> SUFFICES ASSUME n + 1 <= N PROVE SoTaken(U[n + 1], n + 1)
      OBVIOUS
    <3>1. n <= N
      BY <1>0
    <3>2. SoTaken(U[n], n)
      BY <2>2, <3>1
    <3> QED
      BY <3>2, <1>9, <1>11
  <2> HIDE DEF Good
  <2> QED
    BY <2>1, <2>2, SetInduction
<1>13. SoTaken(U[N], N)
  <2> HIDE DEF SoTaken
  <2> QED
    BY <1>0, <1>12
<1>14. PICK k \in 0..N : /\ U[N].events = s.events \cup (Upto(k) \cap Inside(f))
                         /\ U[N].reason = "none" => k = N
  BY <1>13
<1>15. Upto(N) = ToSet(rows)
  BY <1>0, BeginsElements DEF N
<1>16. Down(Upto(k), K, dir)
  <2> DEFINE b == First(rows, k)
  <2>1. k \in Nat /\ k <= N
    BY <1>0
  <2>2. rows \in Seq(K) /\ Distinct(K)
    BY EventsBegin, DistinctIn, BeginsElements
  <2>3. Begins(b, K, dir)
    BY <2>1, <2>2, FirstBegins
  <2>4. /\ b \in Seq(K) /\ Len(b) = IF k < N THEN k ELSE N
        /\ \A i \in 1..Len(b) : b[i] = rows[i]
    BY <2>1, <2>2, FirstOf DEF N
  <2> HIDE DEF b
  <2>5. Len(b) = k
    BY <1>0, <2>1, <2>4
  <2>6. ToSet(b) = Upto(k)
    <3>1. \A i \in 1..k : b[i] = rows[i]
      BY <2>4, <2>5
    <3>2. \A x : x \in ToSet(b) <=> \E i \in 1..k : b[i] = x
      BY <2>3, <2>5, BeginsElements
    <3> QED
      BY <3>1, <3>2
  <2>7. Down(ToSet(b), K, dir)
    BY <2>2, <2>3, BeginsDown
  <2> QED
    BY <2>6, <2>7
<1>17. U[N].seen \subseteq s.seen \cup ToSet(rows)
  BY <1>13, <1>15
<1>18. /\ U[N] \in LaneStates
       /\ U[N].cursor = s.cursor /\ U[N].pageRows = s.pageRows /\ U[N].done = s.done
  BY <1>13
<1>19. U[N].reason = "none" => Upto(k) = ToSet(rows)
  <2> HIDE DEF Upto
  <2> QED
    BY <1>14, <1>15
<1> HIDE DEF Upto
<1>20. Taken(U[N], s, K, rows, dir, f)
  BY <1>14, <1>16, <1>17, <1>18, <1>19 DEF Taken
<1> QED
  BY <1>1, <1>20

(* What a query has left behind a cursor.                                    *)
LaneReader(rows, q) ==
  /\ EventBounds /\ StorageBounds /\ ClusterBounds /\ rows \subseteq Rows
  /\ Query(q) /\ (q.post \/ q.scans \subseteq q.keeps)

LeftTo(rows, q, before) ==
  {r \in rows : /\ r.class \in q.scans /\ q.since <= r.ts /\ r.ts < q.until
                /\ \A c \in before : Ahead(q.order, c, r)}

LeftOf(rows, q, before) == {r \in LeftTo(rows, q, before) : r.class \in q.keeps}

GoesOn(rows, q, before, got, goes) ==
  /\ goes \in SUBSET [ts : Int, id : Int]
  /\ LeftOf(rows, q, goes) = LeftOf(rows, q, before) \ got

LEMMA LeftIs ==
  ASSUME NEW rows, NEW q, LaneReader(rows, q), NEW before
  PROVE  /\ LeftTo(rows, q, before) \subseteq Rows /\ Distinct(LeftTo(rows, q, before))
         /\ LeftOf(rows, q, before) \subseteq LeftTo(rows, q, before)
         /\ LeftOf(rows, q, before) \subseteq LeftOf(rows, q, {})
         /\ Distinct(LeftOf(rows, q, before))
<1>1. LeftTo(rows, q, before) \subseteq Rows /\ LeftOf(rows, q, before) \subseteq LeftTo(rows, q, before)
      /\ LeftOf(rows, q, before) \subseteq LeftOf(rows, q, {})
  BY DEF LeftTo, LeftOf, LaneReader
<1>2. Distinct(Rows)
  BY EventsBegin DEF LaneReader
<1>3. Distinct(LeftTo(rows, q, before))
  BY <1>1, <1>2, DistinctIn
<1>4. Distinct(LeftOf(rows, q, before))
  BY <1>1, <1>3, DistinctIn
<1> QED
  BY <1>1, <1>3, <1>4

(* Resuming behind a candidate leaves what the lane has not passed.          *)
LEMMA LaneMoves ==
  ASSUME NEW rows, NEW q, LaneReader(rows, q), NEW before \in SUBSET [ts : Int, id : Int],
         NEW x \in LeftTo(rows, q, before)
  PROVE  GoesOn(rows, q, before, Passed(q.order, LeftOf(rows, q, before), x), {CursorOf(x)})
<1>1. x \in Rows /\ Point(x)
  BY LeftIs DEF Distinct
<1>2. CursorOf(x) \in [ts : Int, id : Int] /\ Point(CursorOf(x))
      /\ \A r : Ahead(q.order, CursorOf(x), r) <=> Ahead(q.order, x, r)
  BY <1>1 DEF Point, CursorOf, Ahead, Older
<1>3. ASSUME NEW r \in rows, Ahead(q.order, x, r), NEW c \in before
      PROVE  Ahead(q.order, c, r)
  <2>1. Ahead(q.order, c, x)
    BY DEF LeftTo
  <2>2. Point(c)
    BY DEF Point
  <2>3. Point(r)
    BY EventsBegin DEF LaneReader, Distinct
  <2> QED
    BY <1>1, <1>3, <2>1, <2>2, <2>3, AheadIsOrder
<1>4. LeftOf(rows, q, {CursorOf(x)}) = {r \in LeftOf(rows, q, before) : Ahead(q.order, x, r)}
  <2>1. ASSUME NEW r \in LeftOf(rows, q, {CursorOf(x)})
        PROVE  r \in LeftOf(rows, q, before) /\ Ahead(q.order, x, r)
    <3>1. r \in rows /\ Ahead(q.order, x, r)
      BY <1>2 DEF LeftOf, LeftTo
    <3>2. \A c \in before : Ahead(q.order, c, r)
      BY <1>3, <3>1
    <3> QED
      BY <3>1, <3>2 DEF LeftOf, LeftTo
  <2>2. ASSUME NEW r \in LeftOf(rows, q, before), Ahead(q.order, x, r)
        PROVE  r \in LeftOf(rows, q, {CursorOf(x)})
    <3>1. \A c \in {CursorOf(x)} : Ahead(q.order, c, r)
      BY <1>2, <2>2
    <3> QED
      BY <3>1 DEF LeftOf, LeftTo
  <2> QED
    BY <2>1, <2>2
<1>5. LeftOf(rows, q, before) \ Passed(q.order, LeftOf(rows, q, before), x)
        = {r \in LeftOf(rows, q, before) : Ahead(q.order, x, r)}
  BY DEF Passed
<1> QED
  BY <1>2, <1>4, <1>5 DEF GoesOn

(* One page of a lane.                                                       *)
LanePageFits(page, rows, q, before, n) ==
  /\ page.limit \in 1..n
  /\ Begins(page.answer.rows, LeftOf(rows, q, before), q.order)
  /\ page.answer.kind = "scan_budget_exceeded" =>
       GoesOn(rows, q, before, ToSet(page.answer.rows), page.answer.cursor)
  /\ page.answer.kind # "scan_budget_exceeded" =>
       IF Len(page.answer.rows) < page.limit
         THEN ToSet(page.answer.rows) = LeftOf(rows, q, before)
         ELSE GoesOn(rows, q, before, ToSet(page.answer.rows), {CursorOf(Last(page.answer.rows))})

LEMMA LanePages ==
  ASSUME NEW rows, NEW q, LaneReader(rows, q), NEW before \in SUBSET [ts : Int, id : Int],
         NEW n \in Nat \ {0}, n <= PageRows * MaxPages
  PROVE  LanePageFits(C!AdaptivePage(rows, [q EXCEPT !.cursor = before, !.limit = n]),
                      rows, q, before, n)
<1> DEFINE p == [q EXCEPT !.cursor = before, !.limit = n]
           page == AdaptivePage(rows, p)
           a == page.answer
           K == LeftOf(rows, q, before)
<1>1. p = [scans |-> q.scans, keeps |-> q.keeps, post |-> q.post, since |-> q.since,
           until |-> q.until, order |-> q.order, cursor |-> before, limit |-> n]
  <2> DEFINE w == [scans |-> q.scans, keeps |-> q.keeps, post |-> q.post, since |-> q.since,
                   until |-> q.until, order |-> q.order, cursor |-> q.cursor, limit |-> q.limit]
             v == [w EXCEPT !.cursor = before]
  <2>1. v = [scans |-> q.scans, keeps |-> q.keeps, post |-> q.post, since |-> q.since,
             until |-> q.until, order |-> q.order, cursor |-> before, limit |-> q.limit]
    OBVIOUS
  <2>2. [w EXCEPT !.cursor = before, !.limit = n] = [v EXCEPT !.limit = n]
    OBVIOUS
  <2> HIDE DEF v
  <2>3. [v EXCEPT !.limit = n]
          = [scans |-> q.scans, keeps |-> q.keeps, post |-> q.post, since |-> q.since,
             until |-> q.until, order |-> q.order, cursor |-> before, limit |-> n]
    BY <2>1
  <2>4. w = q
    BY DEF LaneReader, Query
  <2> HIDE DEF w
  <2> QED
    BY <2>2, <2>3, <2>4
<1> HIDE DEF p
<1>2. /\ p.scans = q.scans /\ p.keeps = q.keeps /\ p.post = q.post /\ p.since = q.since
      /\ p.until = q.until /\ p.order = q.order /\ p.cursor = before /\ p.limit = n
  BY <1>1
<1>3. Query(p)
  BY <1>1, <1>2 DEF Query
<1>4. Fitting(p)
  BY <1>2 DEF Fitting, LaneReader
<1>5. Candidates(rows, p) = LeftTo(rows, q, before) /\ Matches(rows, p) = K
  <2>1. Candidates(rows, p) = LeftTo(rows, q, before)
    BY <1>2 DEF Candidates, LeftTo
  <2> QED
    BY <2>1, <1>2 DEF Matches, LeftOf
<1>6. page.limit \in 1..n /\ Exact(a, rows, p, page.limit)
  BY <1>2, <1>3, <1>4, PageIsExact DEF LaneReader
<1> HIDE DEF page
<1>7. Distinct(K) /\ K \subseteq LeftTo(rows, q, before)
  BY LeftIs
<1>8. Begins(a.rows, K, q.order) /\ Len(a.rows) <= page.limit
      /\ a.kind \in {"rows", "scan_budget_exceeded"}
  BY <1>2, <1>5, <1>6 DEF Exact
<1>9. ASSUME a.kind = "scan_budget_exceeded"
      PROVE  GoesOn(rows, q, before, ToSet(a.rows), a.cursor)
  <2>1. PICK x \in LeftTo(rows, q, before) :
          a.cursor = {CursorOf(x)} /\ ToSet(a.rows) = Passed(q.order, K, x)
    BY <1>2, <1>5, <1>6, <1>9 DEF Exact
  <2> QED
    BY <2>1, LaneMoves
<1>10. ASSUME a.kind = "rows", Len(a.rows) < page.limit PROVE ToSet(a.rows) = K
  BY <1>5, <1>6, <1>10 DEF Exact
<1>11. ASSUME ~(Len(a.rows) < page.limit)
       PROVE  GoesOn(rows, q, before, ToSet(a.rows), {CursorOf(Last(a.rows))})
  <2>1. Len(a.rows) \in Nat
    BY <1>8, BeginsElements
  <2>2. Len(a.rows) # 0
    BY <1>6, <1>11, <2>1
  <2>3. Last(a.rows) \in K /\ ToSet(a.rows) = Passed(q.order, K, Last(a.rows))
    BY <1>7, <1>8, <2>2, BeginsLast
  <2> DEFINE x == Last(a.rows)
  <2>4. x \in LeftTo(rows, q, before)
    BY <1>7, <2>3
  <2> HIDE DEF x
  <2>5. GoesOn(rows, q, before, Passed(q.order, K, x), {CursorOf(x)})
    BY <2>4, LaneMoves
  <2> QED
    BY <2>3, <2>5 DEF x
<1>12. LanePageFits(page, rows, q, before, n)
  BY <1>6, <1>8, <1>9, <1>10, <1>11 DEF LanePageFits
<1> QED
  BY <1>12, ClusterPages DEF page, p

(* A lane over q that began with E, and with S read already: it has consumed *)
(* some of its matches in order, and those inside the window are added. It   *)
(* goes on behind them, or is over with a reason, with enough, or with all.  *)
LaneHolds(s, rows, q, f, requested, E, S0) ==
  /\ s \in LaneStates
  /\ s.seen \subseteq S0 \cup LeftOf(rows, q, {})
  /\ \E D :
       /\ Down(D, LeftOf(rows, q, {}), q.order)
       /\ s.events = E \cup (D \cap Inside(f))
       /\ IF s.done
            THEN s.reason # "none" \/ C!Enough(s, requested) \/ D = LeftOf(rows, q, {})
            ELSE /\ s.reason = "none" /\ s.seen \subseteq S0 \cup D
                 /\ LeftOf(rows, q, s.cursor) = LeftOf(rows, q, {}) \ D

LEMMA EndLaneIs ==
  ASSUME NEW t \in LaneStates, NEW requested
  PROVE  LET e == C!EndLane(t, requested)
         IN  /\ e \in LaneStates /\ e.done
             /\ e.events = t.events /\ e.seen = t.seen
             /\ C!Enough(e, requested) <=> C!Enough(t, requested)
             /\ e.reason # "none" \/ C!Enough(t, requested) \/ t.reason = "none"
<1> DEFINE e == C!EndLane(t, requested)
           z == IF C!Enough(t, requested) THEN "none" ELSE t.reason
           u == [t EXCEPT !.done = TRUE]
<1>1. e = [t EXCEPT !.done = TRUE, !.reason = z]
  BY DEF C!EndLane
<1>2. z \in Reasons
  BY DEF LaneStates, Reasons
<1>3. u \in LaneStates /\ u.done /\ u.events = t.events /\ u.seen = t.seen /\ u.logical = t.logical
  BY DEF LaneStates
<1>4. e = [u EXCEPT !.reason = z]
  BY <1>1
<1>5. z # "none" \/ C!Enough(t, requested) \/ t.reason = "none"
  OBVIOUS
<1> HIDE DEF e, u, z
<1>6. /\ e \in LaneStates /\ e.done = u.done /\ e.events = u.events /\ e.seen = u.seen
      /\ e.logical = u.logical /\ e.reason = z
  BY <1>2, <1>3, <1>4 DEF LaneStates
<1>7. C!Enough(e, requested) <=> C!Enough(t, requested)
  BY <1>3, <1>6 DEF C!Enough
<1>8. e.done
  BY <1>3, <1>6
<1> QED
  BY <1>3, <1>5, <1>6, <1>7, <1>8 DEF e

LEMMA LaneLimits ==
  ASSUME StorageBounds, ClusterBounds, NEW requested \in Nat, NEW s \in LaneStates, ~C!Enough(s, requested)
  PROVE  C!LaneLimit(s, requested) \in Nat \ {0} /\ C!LaneLimit(s, requested) <= PageRows * MaxPages
<1> DEFINE k == Cardinality(s.logical)
           B == PageRows * MaxPages
<1>1. k \in Nat /\ ~(k >= requested)
  <2>1. IsFiniteSet(s.logical)
    BY DEF LaneStates
  <2> QED
    BY <2>1, FS_CardinalityType, ClusterReads DEF C!Enough
<1>2. B \in Nat /\ ClusterPageRows \in 1..B /\ MinPageRows \in Nat \ {0}
  BY DEF StorageBounds, ClusterBounds
<1>3. s.pageRows \in Nat \ {0}
  BY DEF LaneStates
<1> HIDE DEF k, B
<1>4. C!LaneLimit(s, requested)
        = C!Smallest(C!Smallest(s.pageRows, ClusterPageRows),
                     C!Largest(requested - k, C!Smallest(requested, MinPageRows)))
  BY ClusterReads DEF C!LaneLimit, k
<1>5. \A x, y \in Int : C!Smallest(x, y) \in {x, y} /\ C!Smallest(x, y) <= x /\ C!Smallest(x, y) <= y
  BY DEF C!Smallest
<1>6. \A x, y \in Int : C!Largest(x, y) \in {x, y} /\ x <= C!Largest(x, y)
  BY DEF C!Largest
<1>7. C!Smallest(s.pageRows, ClusterPageRows) \in 1..B
  BY <1>2, <1>3 DEF C!Smallest
<1>8. requested - k \in Nat \ {0} /\ C!Smallest(requested, MinPageRows) \in Nat
  BY <1>1, <1>2 DEF C!Smallest
<1>9. C!Largest(requested - k, C!Smallest(requested, MinPageRows)) \in Nat \ {0}
  BY <1>8 DEF C!Largest
<1>10. C!LaneLimit(s, requested) \in 1..B
  BY <1>2, <1>4, <1>7, <1>9 DEF C!Smallest
<1> QED
  BY <1>2, <1>10 DEF B

(* A page ends the lane or takes it farther.                                 *)
LEMMA LaneKeeps ==
  ASSUME NEW rows, NEW q, LaneReader(rows, q), NEW f, NEW requested \in Nat, NEW E, NEW S0,
         S0 \cap LeftOf(rows, q, {}) = {}, NEW s, ~s.done,
         LaneHolds(s, rows, q, f, requested, E, S0)
  PROVE  LaneHolds(C!LaneWindow(rows, q, f, requested, s), rows, q, f, requested, E, S0)
<1> DEFINE M == LeftOf(rows, q, {})
           K == LeftOf(rows, q, s.cursor)
           n == C!LaneLimit(s, requested)
           page == C!AdaptivePage(rows, [q EXCEPT !.cursor = s.cursor, !.limit = n])
           a == page.answer
           t == C!ConsumeRows(s, a.rows, f)
           w == C!LaneWindow(rows, q, f, requested, s)
           z == C!EndLane(t, requested)
<1>1. s \in LaneStates /\ s.seen \subseteq S0 \cup M
  BY DEF LaneHolds
<1>2. PICK D : /\ Down(D, M, q.order) /\ s.events = E \cup (D \cap Inside(f))
               /\ s.reason = "none" /\ s.seen \subseteq S0 \cup D /\ K = M \ D
  BY DEF LaneHolds
<1>3. CASE C!Enough(s, requested)
  <2> DEFINE e == C!EndLane(s, requested)
  <2>1. w = e
    BY <1>3 DEF C!LaneWindow
  <2>2. /\ e \in LaneStates /\ e.done /\ e.events = s.events /\ e.seen = s.seen
        /\ C!Enough(e, requested)
    BY <1>1, <1>3, EndLaneIs
  <2> HIDE DEF e, w
  <2>3. LaneHolds(e, rows, q, f, requested, E, S0)
    BY <1>1, <1>2, <2>2 DEF LaneHolds
  <2> QED
    BY <2>1, <2>3 DEF w
<1>4. CASE ~C!Enough(s, requested)
  <2>1. w = C!LanePage(t, page, requested)
    BY <1>4 DEF C!LaneWindow, C!LaneConsume
  <2>2. n \in Nat \ {0} /\ n <= PageRows * MaxPages
    BY <1>1, <1>4, LaneLimits DEF LaneReader
  <2>3. s.cursor \in SUBSET [ts : Int, id : Int]
    BY <1>1 DEF LaneStates
  <2> HIDE DEF n
  <2>4. LanePageFits(page, rows, q, s.cursor, n)
    BY <2>2, <2>3, LanePages
  <2> HIDE DEF page, w
  <2>5. Begins(a.rows, K, q.order) /\ page.limit \in 1..n
    BY <2>4 DEF LanePageFits
  <2>6. K \subseteq Rows /\ K \cap s.seen = {} /\ K \subseteq M
    BY <1>1, <1>2, LeftIs
  <2>7. Taken(t, s, K, a.rows, q.order, f)
    BY <1>1, <1>2, <2>5, <2>6, RowsConsumed DEF LaneReader
  <2> HIDE DEF t
  <2>8. ToSet(a.rows) \subseteq K
    BY <2>5, BeginsElements
  <2>9. /\ t \in LaneStates /\ t.cursor = s.cursor /\ t.pageRows = s.pageRows
        /\ t.done = s.done /\ t.seen \subseteq s.seen \cup ToSet(a.rows)
    BY <2>7 DEF Taken
  <2>10. PICK B : /\ Down(B, K, q.order) /\ t.events = s.events \cup (B \cap Inside(f))
                  /\ t.reason = "none" => B = ToSet(a.rows)
    BY <2>7 DEF Taken
  <2> HIDE DEF K, M
  <2>11. Down(D \cup B, M, q.order) /\ M \ (D \cup B) = K \ B
    BY <1>2, <2>10, DownJoin
  <2>12. t.events = E \cup ((D \cup B) \cap Inside(f))
    BY <1>2, <2>10
  <2>13. t.seen \subseteq S0 \cup M
    BY <1>1, <2>6, <2>8, <2>9
  <2>14. ASSUME t.reason # "none" \/ C!Enough(t, requested) \/ D \cup B = M
         PROVE  LaneHolds(z, rows, q, f, requested, E, S0)
    <3>1. /\ z \in LaneStates /\ z.done /\ z.events = t.events /\ z.seen = t.seen
          /\ C!Enough(z, requested) <=> C!Enough(t, requested)
          /\ z.reason # "none" \/ C!Enough(t, requested) \/ t.reason = "none"
      BY <2>9, EndLaneIs
    <3> HIDE DEF z
    <3>2. z.reason # "none" \/ C!Enough(z, requested) \/ D \cup B = M
      BY <2>14, <3>1
    <3> QED
      BY <3>1, <3>2, <2>11, <2>12, <2>13 DEF LaneHolds, M
  <2>15. ASSUME t.reason = "none", NEW y \in LaneStates, NEW c,
                y.cursor = c, y.done = t.done, y.events = t.events, y.seen = t.seen,
                y.reason = t.reason, GoesOn(rows, q, s.cursor, ToSet(a.rows), c)
         PROVE  LaneHolds(y, rows, q, f, requested, E, S0)
    <3>1. B = ToSet(a.rows)
      BY <2>10, <2>15
    <3>2. LeftOf(rows, q, y.cursor) = M \ (D \cup B)
      BY <2>11, <2>15, <3>1 DEF GoesOn, K
    <3>3. y.seen \subseteq S0 \cup (D \cup B)
      BY <1>2, <2>9, <2>15, <3>1
    <3>4. ~y.done
      BY <2>9, <2>15
    <3> QED
      BY <2>11, <2>12, <2>13, <2>15, <3>2, <3>3, <3>4 DEF LaneHolds, M
  <2>16. CASE t.reason # "none"
    <3>1. w = z
      BY <2>1, <2>16 DEF C!LanePage
    <3> QED
      BY <3>1, <2>14, <2>16 DEF w
  <2>17. CASE t.reason = "none" /\ a.kind = "scan_budget_exceeded"
    <3> DEFINE y == [t EXCEPT !.cursor = a.cursor]
    <3>1. w = y
      BY <2>1, <2>17 DEF C!LanePage
    <3>2. GoesOn(rows, q, s.cursor, ToSet(a.rows), a.cursor)
      BY <2>4, <2>17 DEF LanePageFits
    <3>3. a.cursor \in SUBSET [ts : Int, id : Int]
      BY <3>2 DEF GoesOn
    <3>4. /\ y \in LaneStates /\ y.cursor = a.cursor /\ y.done = t.done /\ y.events = t.events
          /\ y.seen = t.seen /\ y.reason = t.reason
      BY <2>9, <3>3 DEF LaneStates
    <3> HIDE DEF y
    <3>5. LaneHolds(y, rows, q, f, requested, E, S0)
      BY <2>15, <2>17, <3>2, <3>4
    <3> QED
      BY <3>1, <3>5 DEF w
  <2>18. CASE t.reason = "none" /\ a.kind # "scan_budget_exceeded"
    <3>1. CASE C!Enough(t, requested) \/ Len(a.rows) < page.limit
      <4>1. w = z
        BY <2>1, <2>18, <3>1 DEF C!LanePage
      <4>2. Len(a.rows) < page.limit => ToSet(a.rows) = K
        BY <2>4, <2>18 DEF LanePageFits, K
      <4>3. Len(a.rows) < page.limit => D \cup B = M
        BY <1>2, <2>10, <2>18, <4>2 DEF Down, M
      <4> QED
        BY <4>1, <4>3, <2>14, <3>1 DEF w
    <3>2. CASE ~(C!Enough(t, requested) \/ Len(a.rows) < page.limit)
      <4> DEFINE c == {CursorOf(Last(a.rows))}
                 v == [t EXCEPT !.cursor = c]
                 y == [t EXCEPT !.cursor = c, !.pageRows = page.limit]
      <4>1. w = y
        BY <2>1, <2>18, <3>2, ClusterReads DEF C!LanePage
      <4>2. GoesOn(rows, q, s.cursor, ToSet(a.rows), c)
        BY <2>4, <2>18, <3>2 DEF LanePageFits
      <4> HIDE DEF c
      <4>3. c \in SUBSET [ts : Int, id : Int] /\ page.limit \in Nat \ {0}
        BY <4>2, <2>2, <2>5 DEF GoesOn
      <4>4. /\ v \in LaneStates /\ v.cursor = c /\ v.done = t.done /\ v.events = t.events
            /\ v.seen = t.seen /\ v.reason = t.reason
        BY <2>9, <4>3 DEF LaneStates
      <4>5. y = [v EXCEPT !.pageRows = page.limit]
        OBVIOUS
      <4> HIDE DEF v, y
      <4>6. /\ y \in LaneStates /\ y.cursor = c /\ y.done = t.done /\ y.events = t.events
            /\ y.seen = t.seen /\ y.reason = t.reason
        BY <4>3, <4>4, <4>5 DEF LaneStates
      <4>7. LaneHolds(y, rows, q, f, requested, E, S0)
        BY <2>15, <2>18, <4>2, <4>6
      <4> QED
        BY <4>1, <4>7 DEF w
    <3> QED
      BY <3>1, <3>2
  <2> QED
    BY <2>16, <2>17, <2>18 DEF w
<1> QED
  BY <1>3, <1>4

(* The windows of a lane, and its end when they run out.                     *)
LEMMA LaneEnds ==
  ASSUME NEW rows, NEW q, LaneReader(rows, q), NEW f, NEW requested \in Nat, NEW windows \in Nat,
         NEW s \in LaneStates, s.reason = "none", s.seen \cap LeftOf(rows, q, {}) = {}
  PROVE  LET t == C!Lane(rows, q, f, requested, windows, s)
         IN  t.done /\ LaneHolds(t, rows, q, f, requested, s.events, s.seen)
<1> DEFINE E == s.events
           S0 == s.seen
           Holds(x) == LaneHolds(x, rows, q, f, requested, E, S0)
           V == {x \in LaneStates : Holds(x)}
           base == C!LaneStart(s)
           go(x) == C!LaneStep(rows, q, f, requested, x)
           step == [x \in V |-> go(x)]
           Val(u, n) == IF n = 0 THEN base ELSE go(u[n - 1])
           U == CHOOSE u : u = [n \in Nat |-> Val(u, n)]
           t == C!OutOfWindows(U[windows], requested)
<1>1. C!Lane(rows, q, f, requested, windows, s) = t
  BY DEF C!Lane
<1>2. base \in V
  <2> DEFINE v == [s EXCEPT !.cursor = {}]
             x == [v EXCEPT !.pageRows = ClusterPageRows]
             y == [x EXCEPT !.done = FALSE]
  <2>1. base = y
    BY DEF C!LaneStart
  <2>2. ClusterPageRows \in Nat \ {0}
    BY DEF LaneReader, StorageBounds, ClusterBounds
  <2>3. v \in LaneStates /\ v.cursor = {} /\ v.events = E /\ v.seen = S0 /\ v.reason = "none"
    BY DEF LaneStates
  <2> HIDE DEF v
  <2>4. x \in LaneStates /\ x.cursor = {} /\ x.events = E /\ x.seen = S0 /\ x.reason = "none"
    BY <2>2, <2>3 DEF LaneStates
  <2> HIDE DEF x
  <2>5. /\ y \in LaneStates /\ y.cursor = {} /\ y.events = E /\ y.seen = S0 /\ y.reason = "none"
        /\ ~y.done
    BY <2>4 DEF LaneStates
  <2> HIDE DEF y, E, S0
  <2>6. Down({}, LeftOf(rows, q, {}), q.order)
    BY DEF Down
  <2>7. E = E \cup ({} \cap Inside(f)) /\ LeftOf(rows, q, {}) = LeftOf(rows, q, {}) \ {}
        /\ S0 = S0 \cup {}
    OBVIOUS
  <2>8. Holds(y)
    BY <2>5, <2>6, <2>7 DEF LaneHolds
  <2> QED
    BY <2>1, <2>5, <2>8
<1>3. ASSUME NEW x \in V PROVE go(x) \in V
  <2>1. x.done => go(x) = x
    BY DEF C!LaneStep
  <2>2. CASE ~x.done
    <3> DEFINE w == C!LaneWindow(rows, q, f, requested, x)
    <3>1. go(x) = w
      BY <2>2 DEF C!LaneStep
    <3>2. Holds(w)
      <4>1. S0 \cap LeftOf(rows, q, {}) = {}
        OBVIOUS
      <4>2. LaneHolds(x, rows, q, f, requested, E, S0)
        OBVIOUS
      <4> HIDE DEF w, E, S0, V
      <4> QED
        BY <2>2, <4>1, <4>2, LaneKeeps DEF w
    <3>3. w \in LaneStates
      BY <3>2 DEF LaneHolds
    <3> QED
      BY <3>1, <3>2, <3>3
  <2> QED
    BY <2>1, <2>2
<1> HIDE DEF V, base, go
<1>4. step \in [V -> V]
  BY <1>3
<1>5. PICK g \in [Nat -> V] : g[0] = base /\ \A n \in Nat : g[n + 1] = step[g[n]]
  <2> HIDE DEF step
  <2> QED
    BY <1>2, <1>4, Iterated
<1>6. ASSUME NEW n \in Nat PROVE g[n] = Val(g, n)
  <2>1. CASE n = 0
    BY <1>5, <2>1
  <2>2. CASE n # 0
    <3>1. n - 1 \in Nat /\ (n - 1) + 1 = n
      BY <2>2
    <3>2. g[n] = step[g[n - 1]] /\ g[n - 1] \in V
      <4> HIDE DEF step
      <4> QED
        BY <1>5, <3>1
    <3> QED
      BY <2>2, <3>2
  <2> QED
    BY <2>1, <2>2
<1>7. g = [n \in Nat |-> Val(g, n)]
  <2>1. g = [n \in Nat |-> g[n]]
    BY <1>5
  <2> HIDE DEF Val
  <2> QED
    BY <1>6, <2>1
<1>8. U = [n \in Nat |-> Val(U, n)]
  <2> HIDE DEF Val
  <2> QED
    BY <1>7
<1> HIDE DEF U
<1>9. U[0] = base /\ \A n \in Nat : U[n + 1] = go(U[n])
  <2>1. \A n \in Nat : U[n] = Val(U, n)
    <3> HIDE DEF Val
    <3> QED
      BY <1>8
  <2>2. \A n \in Nat : n + 1 \in Nat /\ n + 1 # 0 /\ (n + 1) - 1 = n
    OBVIOUS
  <2> QED
    BY <2>1, <2>2
<1> DEFINE Good == {n \in Nat : U[n] \in V}
<1>10. Nat \subseteq Good
  <2>1. 0 \in Good
    BY <1>2, <1>9
  <2>2. \A n \in Nat : n \in Good => n + 1 \in Good
    BY <1>3, <1>9
  <2> HIDE DEF Good
  <2> QED
    BY <2>1, <2>2, SetInduction
<1>11. U[windows] \in V
  BY <1>10
<1> DEFINE x == U[windows]
<1>12. x \in LaneStates /\ Holds(x)
  BY <1>11 DEF V
<1> HIDE DEF x, E, S0
<1>13. CASE x.done
  <2>1. t = x
    BY <1>13 DEF C!OutOfWindows, x
  <2> QED
    BY <1>1, <1>12, <1>13, <2>1 DEF E, S0
<1>14. CASE ~x.done
  <2> DEFINE y == [x EXCEPT !.reason = "storage_windows"]
             e == C!EndLane(y, requested)
  <2>1. t = e
    BY <1>14 DEF C!OutOfWindows, x
  <2>2. /\ y \in LaneStates /\ y.reason = "storage_windows" /\ y.events = x.events
        /\ y.seen = x.seen
    BY <1>12 DEF LaneStates, Reasons
  <2> HIDE DEF y
  <2>3. /\ e \in LaneStates /\ e.done /\ e.events = y.events /\ e.seen = y.seen
        /\ C!Enough(e, requested) <=> C!Enough(y, requested)
        /\ e.reason # "none" \/ C!Enough(y, requested) \/ y.reason = "none"
    BY <2>2, EndLaneIs
  <2> HIDE DEF e, t
  <2>4. e.reason # "none" \/ C!Enough(e, requested)
    BY <2>2, <2>3
  <2>5. Holds(e)
    BY <1>12, <2>2, <2>3, <2>4 DEF LaneHolds
  <2> QED
    BY <1>1, <2>1, <2>3, <2>5 DEF E, S0
<1> QED
  BY <1>13, <1>14

(* The lane over the time between two ends of a window.                      *)
ReadsLane(rows, q, f, dir, from, to) ==
  /\ LaneReader(rows, q) /\ q.order = dir
  /\ LeftOf(rows, q, {}) = {r \in rows : /\ r.class \in f.scans /\ r.class \in f.keeps
                                         /\ from <= r.ts /\ r.ts < to}

LEMMA LaneQueryIs ==
  ASSUME EventBounds, StorageBounds, ClusterBounds, NEW rows, rows \subseteq Rows, NEW f,
         f.post \/ f.scans \subseteq f.keeps, NEW dir, NEW from, NEW to
  PROVE  ReadsLane(rows, C!LaneQuery(f, dir, from, to), f, dir, from, to)
<1> DEFINE q == C!LaneQuery(f, dir, from, to)
<1>1. q = [scans |-> f.scans, keeps |-> f.keeps, post |-> f.post, since |-> from, until |-> to,
           order |-> dir, cursor |-> {}, limit |-> ClusterPageRows]
  BY DEF C!LaneQuery
<1> HIDE DEF q
<1>2. /\ q.scans = f.scans /\ q.keeps = f.keeps /\ q.post = f.post /\ q.since = from
      /\ q.until = to /\ q.order = dir /\ q.cursor = {} /\ q.limit = ClusterPageRows
  BY <1>1
<1>3. LaneReader(rows, q)
  BY <1>1, <1>2 DEF LaneReader, Query
<1>4. LeftOf(rows, q, {}) = {r \in rows : /\ r.class \in f.scans /\ r.class \in f.keeps
                                          /\ from <= r.ts /\ r.ts < to}
  BY <1>2 DEF LeftOf, LeftTo
<1>5. ReadsLane(rows, q, f, dir, from, to)
  BY <1>2, <1>3, <1>4 DEF ReadsLane
<1> QED
  BY <1>5 DEF q

(* Both lanes together.                                                      *)
LEMMA WindowIsRead ==
  ASSUME EventBounds, StorageBounds, ClusterBounds, NEW rows, rows \subseteq Rows, NEW f,
         f.post \/ f.scans \subseteq f.keeps, f.since \in Int, f.until \in Int, f.since <= f.until,
         NEW requested \in Nat
  PROVE  C!ClusterInputComplete(rows, f, requested) /\ C!OnTimeFirst(rows, f, requested)
<1> DEFINE q1 == C!LaneQuery(f, "desc", f.since, f.until)
           q2 == C!LaneQuery(f, "asc", f.until, EndOfTime)
           M1 == LeftOf(rows, q1, {})
           M2 == LeftOf(rows, q2, {})
           t1 == C!Lane(rows, q1, f, requested, 2, C!Untouched)
           t2 == C!Lane(rows, q2, f, requested, DelayedWindows, t1)
           a == C!QueryClusterEvents(rows, f, requested)
           stops == t1.reason # "none" \/ C!Enough(t1, requested)
           I == Inside(f)
           relevant == C!Relevant(rows, f)
           timely == {r \in relevant : r.ts < f.until}
<1>1. a = IF stops THEN t1 ELSE t2
  BY DEF C!QueryClusterEvents, C!LateLane
<1>2. \A r \in rows : r \in Rows /\ r.ts \in Int /\ r.ts < EndOfTime
  <2>1. ASSUME NEW r \in rows PROVE r \in Rows /\ r.ts \in Int /\ r.ts < EndOfTime
    <3>1. r \in Rows
      OBVIOUS
    <3>2. r.ts \in Nat
      BY <3>1, RowBytes
    <3>3. r.ts < EndOfTime
      BY <3>1 DEF ClusterBounds
    <3> QED
      BY <3>1, <3>2, <3>3
  <2> QED
    BY <2>1
<1>3. /\ LaneReader(rows, q1) /\ q1.order = "desc"
      /\ M1 = {r \in rows : /\ r.class \in f.scans /\ r.class \in f.keeps
                            /\ f.since <= r.ts /\ r.ts < f.until}
  <2>1. ReadsLane(rows, q1, f, "desc", f.since, f.until)
    BY LaneQueryIs
  <2> QED
    BY <2>1 DEF ReadsLane
<1>4. /\ LaneReader(rows, q2) /\ q2.order = "asc"
      /\ M2 = {r \in rows : /\ r.class \in f.scans /\ r.class \in f.keeps
                            /\ f.until <= r.ts /\ r.ts < EndOfTime}
  <2>1. ReadsLane(rows, q2, f, "asc", f.until, EndOfTime)
    BY LaneQueryIs
  <2> QED
    BY <2>1 DEF ReadsLane
<1> HIDE DEF q1, q2
<1>5. M1 \cap M2 = {}
  BY <1>2, <1>3, <1>4
<1>6. timely = M1 \cap I
  BY <1>2, <1>3 DEF C!Relevant, Inside
<1>7. relevant = (M1 \cup M2) \cap I
  <2>1. \A r \in rows : /\ f.since <= r.ts <=> (f.since <= r.ts /\ r.ts < f.until) \/ f.until <= r.ts
                        /\ r \in I <=> C!InWindow(r, f)
    BY <1>2 DEF Inside
  <2>2. relevant = {r \in rows : /\ r.class \in f.scans /\ r.class \in f.keeps
                                 /\ f.since <= r.ts /\ C!InWindow(r, f)}
    BY DEF C!Relevant
  <2> HIDE DEF relevant, I, M1, M2
  <2> QED
    BY <1>2, <1>3, <1>4, <2>1, <2>2
<1>8. /\ C!Untouched \in LaneStates /\ C!Untouched.reason = "none" /\ C!Untouched.seen = {}
      /\ C!Untouched.events = {}
  <2>1. ClusterPageRows \in Nat \ {0}
    BY DEF StorageBounds, ClusterBounds
  <2> QED
    BY <2>1, FS_EmptySet DEF C!Untouched, LaneStates, Reasons
<1>9. LaneHolds(t1, rows, q1, f, requested, {}, {}) /\ t1.done
  <2>1. C!Untouched.seen \cap LeftOf(rows, q1, {}) = {}
    BY <1>8
  <2>2. 2 \in Nat
    OBVIOUS
  <2>3. LaneHolds(t1, rows, q1, f, requested, C!Untouched.events, C!Untouched.seen) /\ t1.done
    BY <1>3, <1>8, <2>1, <2>2, LaneEnds
  <2> QED
    BY <1>8, <2>3
<1> HIDE DEF t1
<1>10. t1 \in LaneStates /\ t1.seen \subseteq M1
  BY <1>9 DEF LaneHolds
<1>11. PICK D1 : /\ Down(D1, M1, "desc") /\ t1.events = D1 \cap I
                 /\ t1.reason # "none" \/ C!Enough(t1, requested) \/ D1 = M1
  BY <1>3, <1>9 DEF LaneHolds
<1>12. \A x, y : C!Older(x, y) <=> Older(x, y)
  BY ClusterReads
<1>13. CASE stops
  <2>1. a = t1
    BY <1>1, <1>13
  <2>2. C!CompleteOf(a, relevant, requested)
    BY <2>1, <1>13 DEF C!CompleteOf
  <2>3. D1 \subseteq M1 /\ \A x \in D1, y \in M1 \ D1 : Older(y, x)
    BY <1>11 DEF Down, Ahead
  <2>4. \A r \in t1.events : r.ts < f.until /\ ~(r.ts >= f.until)
    <3>1. \A r \in M1 : r \in rows /\ r.ts < f.until
      BY <1>3
    <3> HIDE DEF M1
    <3> QED
      BY <1>2, <1>11, <2>3, <3>1
  <2>5. \A r \in timely \ t1.events, x \in t1.events : Older(r, x)
    <3> HIDE DEF timely, M1, I
    <3> QED
      BY <1>6, <1>11, <2>3
  <2> HIDE DEF a, stops, relevant, timely
  <2>6. C!OnTimeOf(a.events, timely, f.until)
    BY <1>12, <2>1, <2>4, <2>5 DEF C!OnTimeOf
  <2> QED
    BY <2>2, <2>6 DEF C!ClusterInputComplete, C!OnTimeFirst, a, relevant, timely
<1>14. CASE ~stops
  <2>1. a = t2
    BY <1>1, <1>14
  <2>2. t1.reason = "none" /\ D1 = M1
    BY <1>11, <1>14
  <2>3. t1.seen \cap M2 = {}
    BY <1>5, <1>10
  <2>4. DelayedWindows \in Nat
    BY DEF ClusterBounds
  <2>5. LaneHolds(t2, rows, q2, f, requested, t1.events, t1.seen) /\ t2.done
    BY <1>4, <1>10, <2>2, <2>3, <2>4, LaneEnds
  <2> HIDE DEF t2
  <2>6. PICK D2 : /\ Down(D2, M2, "asc") /\ t2.events = t1.events \cup (D2 \cap I)
                  /\ t2.reason # "none" \/ C!Enough(t2, requested) \/ D2 = M2
    BY <1>4, <2>5 DEF LaneHolds
  <2> HIDE DEF M1, M2, I, relevant
  <2>7. t2.reason = "none" /\ ~C!Enough(t2, requested) => t2.events = relevant
    BY <1>7, <1>11, <2>2, <2>6
  <2>8. timely \subseteq t2.events
    <3> HIDE DEF timely
    <3> QED
      BY <1>6, <1>11, <2>2, <2>6
  <2> HIDE DEF a, stops, timely
  <2>9. C!CompleteOf(a, relevant, requested)
    BY <2>1, <2>7 DEF C!CompleteOf
  <2>10. C!OnTimeOf(a.events, timely, f.until)
    BY <2>1, <2>8 DEF C!OnTimeOf
  <2> QED
    BY <2>9, <2>10 DEF C!ClusterInputComplete, C!OnTimeFirst, a, relevant, timely
<1> QED
  BY <1>13, <1>14

(* Without a warning and short of what was asked for, the cluster reader has *)
(* every observation of the window, late ones included; late ones never take *)
(* the place of timely ones, and of those the newest are kept                *)
(* (find-clusters.ts queryClusterEvents).                                    *)
THEOREM WindowsAreRead == ToolSpec => []ClusterReadsAll
<1> DEFINE I == tool = "groups" => ledger \subseteq Rows
<1>1. ToolInit => I
  BY DEF ToolInit, Init
<1>2. I /\ [ToolNext]_toolVars => I'
  BY LedgerGrows
<1>3. I => ClusterReadsAll
  <2> SUFFICES ASSUME ledger \subseteq Rows, NEW f \in MCWindows, NEW n \in {2, 4}
               PROVE  C!ClusterInputComplete(ledger, f, n) /\ C!OnTimeFirst(ledger, f, n)
    BY DEF ClusterReadsAll, OnEachLedger
  <2>1. EventBounds /\ StorageBounds /\ ClusterBounds
    BY EventsInOrder, StorageBudgets, ToolBounds
  <2>2. f.post \in {TRUE} /\ f.since \in {1, 2} /\ f.until \in {3, 4}
    <3> DEFINE Sc == {Everything, {"a", "b"}}
               Ke == {{"a"}, {"a", "b"}}
               Po == {TRUE}
    <3>1. f \in [scans : Sc, keeps : Ke, post : Po, since : {1, 2}, until : {3, 4}]
      BY DEF MCWindows
    <3> HIDE DEF Sc, Ke, Po
    <3>2. f.post \in Po /\ f.since \in {1, 2} /\ f.until \in {3, 4}
      BY <3>1
    <3> QED
      BY <3>2 DEF Po
  <2>3. f.post
    BY <2>2, Zenon
  <2>4. f.since \in Int /\ f.until \in Int /\ f.since <= f.until /\ n \in Nat
    BY <2>2
  <2> QED
    BY <2>1, <2>3, <2>4, WindowIsRead
<1> QED
  BY <1>1, <1>2, <1>3, PTL DEF ToolSpec

--------------------------------------------------------------------------------
(* The newest first.                                                         *)
LEMMA NewerRanks ==
  ASSUME EventBounds, WorkBounds
  PROVE  \E R : Ranks(Ids, R) /\ \A i, j \in Ids : <<i, j>> \in R <=> Newer(i, j)
<1> DEFINE R == {p \in Ids \X Ids : Newer(p[1], p[2])}
<1>1. \A i \in Ids : i \in Nat /\ Row[i].occ \in Nat
  BY EventIds
<1>2. \A i, j \in Ids : <<i, j>> \in R <=> Newer(i, j)
  OBVIOUS
<1>3. \A i, j \in Ids : <<i, j>> \in R <=>
        Row[i].occ > Row[j].occ \/ (Row[i].occ = Row[j].occ /\ i < j)
  BY <1>2 DEF Newer
<1> HIDE DEF R
<1>4. Ranks(Ids, R)
  <2>1. \A x \in Ids : <<x, x>> \notin R
    BY <1>1, <1>3
  <2>2. \A x, y, z \in Ids : <<x, y>> \in R /\ <<y, z>> \in R => <<x, z>> \in R
    BY <1>1, <1>3
  <2>3. ASSUME NEW x \in Ids, NEW y \in Ids PROVE x = y \/ <<x, y>> \in R \/ <<y, x>> \in R
    <3>1. x \in Nat /\ y \in Nat /\ Row[x].occ \in Nat /\ Row[y].occ \in Nat
      BY <1>1
    <3> QED
      BY <1>3, <3>1
  <2> QED
    BY <2>1, <2>2, <2>3 DEF Ranks
<1> QED
  BY <1>2, <1>4

LEMMA NewestIs ==
  ASSUME EventBounds, WorkBounds, NEW T \in SUBSET Ids, T # {}
  PROVE  NewestIn(T) \in T
<1>1. PICK R : Ranks(Ids, R) /\ \A i, j \in Ids : <<i, j>> \in R <=> Newer(i, j)
  BY NewerRanks
<1>2. IsFiniteSet(T) /\ Ranks(T, R)
  BY <1>1, EventIds, FS_Subset DEF Ranks
<1>3. \E x \in T : \A y \in T \ {x} : <<x, y>> \in R
  BY <1>2, LeastIs
<1>4. \E x \in T : \A y \in T \ {x} : Newer(x, y)
  BY <1>1, <1>3
<1> QED
  BY <1>4 DEF NewestIn

LEMMA NewerSorted ==
  ASSUME EventBounds, WorkBounds, NEW T \in SUBSET Ids
  PROVE  Lists(Sorted(T, Newer), T)
<1>1. PICK R : Ranks(Ids, R) /\ \A i, j \in Ids : <<i, j>> \in R <=> Newer(i, j)
  BY NewerRanks
<1>2. IsFiniteSet(T) /\ Ranks(T, R)
  BY <1>1, EventIds, FS_Subset DEF Ranks
<1> DEFINE before == [x \in T |-> {y \in T : Newer(y, x)}]
           s == Sorted(T, Newer)
<1>3. \A x \in T : before[x] = {y \in T : <<y, x>> \in R}
  BY <1>1
<1>4. Sorts(s, T, before)
  <2> DEFINE pick(n) == CHOOSE x \in T : Cardinality({y \in T : Newer(y, x)}) = n - 1
  <2>1. s = [n \in 1..Cardinality(T) |-> pick(n)]
    BY DEF Sorted
  <2>2. ASSUME NEW n \in 1..Cardinality(T), NEW x \in T, Cardinality(before[x]) = n - 1
       PROVE  pick(n) \in T /\ Cardinality(before[pick(n)]) = n - 1
    <3>1. \A z \in T : before[z] = {y \in T : Newer(y, z)}
      OBVIOUS
    <3>2. \E z \in T : Cardinality({y \in T : Newer(y, z)}) = n - 1
      BY <2>2, <3>1
    <3> QED
      BY <3>1, <3>2
  <2> HIDE DEF pick, before, s
  <2>3. s = [n \in 1..Cardinality(T) |-> s[n]] /\ \A n \in 1..Cardinality(T) : s[n] = pick(n)
    BY <2>1
  <2> QED
    BY <2>2, <2>3 DEF Sorts
<1> HIDE DEF before, s
<1>5. /\ s \in Seq(T) /\ Len(s) = Cardinality(T) /\ ToSet(s) = T
      /\ \A i, j \in 1..Len(s) : s[i] = s[j] => i = j
  BY <1>2, <1>3, <1>4, SortedIs
<1> QED
  BY <1>5 DEF s, Lists, Once

LEMMA RepresentativesAre ==
  ASSUME EventBounds, WorkBounds, NEW T \in SUBSET Ids, NEW n \in Nat
  PROVE  /\ Representatives(T, n) \in Seq(T) /\ Once(Representatives(T, n))
         /\ Len(Representatives(T, n)) = IF n < Cardinality(T) THEN n ELSE Cardinality(T)
<1> DEFINE A == NewestPerSource(T)
           B == T \ A
           s == Sorted(A, Newer)
           t == Sorted(B, Newer)
<1>1. A \subseteq T
  <2> SUFFICES ASSUME NEW a \in {Row[i].app : i \in T} PROVE NewestIn({i \in T : Row[i].app = a}) \in T
    BY DEF NewestPerSource
  <2> DEFINE D == {i \in T : Row[i].app = a}
  <2>1. D \in SUBSET Ids /\ D # {} /\ D \subseteq T
    OBVIOUS
  <2> HIDE DEF D
  <2>2. NewestIn(D) \in D
    BY <2>1, NewestIs
  <2> QED
    BY <2>1, <2>2 DEF D
<1> HIDE DEF A
<1>2. A \in SUBSET Ids /\ B \in SUBSET Ids /\ A \cap B = {} /\ A \cup B = T
  BY <1>1
<1> HIDE DEF B
<1>3. IsFiniteSet(A) /\ IsFiniteSet(B) /\ IsFiniteSet(T)
  BY <1>2, EventIds, FS_Subset
<1>4. Lists(s, A) /\ Lists(t, B)
  BY <1>2, NewerSorted
<1> HIDE DEF s, t
<1>5. Lists(s \o t, T)
  BY <1>2, <1>3, <1>4, ListsJoin
<1>6. Representatives(T, n) = First(s \o t, n)
  BY DEF Representatives, s, t, A, B
<1>7. Len(s \o t) = Cardinality(T)
  BY <1>5 DEF Lists
<1> QED
  BY <1>3, <1>5, <1>6, <1>7, FirstLists, ZenonT(30)

(* A group's members, its representatives first.                             *)
LEMMA MembersAre ==
  ASSUME EventBounds, WorkBounds, NEW T \in SUBSET Ids, NEW reps \in Seq(T), Once(reps)
  PROVE  /\ Lists(MemberOrder(T, reps), T)
         /\ SubSeq(MemberOrder(T, reps), 1, Len(reps)) = reps
<1> DEFINE A == ToSet(reps)
           B == T \ A
           t == Sorted(B, Newer)
<1>1. IsFiniteSet(T)
  BY EventIds, FS_Subset
<1>2. Lists(reps, A) /\ A \subseteq T /\ IsFiniteSet(A)
  BY <1>1, OnceLists
<1> HIDE DEF A
<1>3. B \in SUBSET Ids /\ A \cap B = {} /\ A \cup B = T
  BY <1>2
<1> HIDE DEF B
<1>4. IsFiniteSet(B) /\ Lists(t, B)
  BY <1>3, EventIds, FS_Subset, NewerSorted
<1> HIDE DEF t
<1>5. Lists(reps \o t, T) /\ SubSeq(reps \o t, 1, Len(reps)) = reps
  BY <1>2, <1>3, <1>4, ListsJoin
<1> QED
  BY <1>5 DEF MemberOrder, A, B, t

(* The reader of the tools is the one above with its own budgets: it reads   *)
(* rows of the ledger.                                                       *)
LEMMA SameLane ==
  /\ \A r, f : C!InWindow(r, f) <=> InWindow(r, f)
  /\ \A r : C!LogicalKeys(r) = LogicalKeys(r)
  /\ \A s, n : C!Enough(s, n) <=> Enough(s, n)
  /\ \A s, n : C!EndLane(s, n) = EndLane(s, n)
  /\ \A s, n : C!LaneLimit(s, n) = LaneLimit(s, n)
  /\ \A s, n : C!OutOfWindows(s, n) = OutOfWindows(s, n)
  /\ \A f, o, a, b : C!LaneQuery(f, o, a, b) = LaneQuery(f, o, a, b)
<1>1. \A s, n : C!Enough(s, n) <=> Enough(s, n)
  BY ClusterReads DEF C!Enough, Enough
<1>2. \A s, n : C!EndLane(s, n) = EndLane(s, n)
  BY <1>1 DEF C!EndLane, EndLane
<1>3. \A s, n : C!LaneLimit(s, n) = LaneLimit(s, n)
  <2>1. \A a, b : C!Smallest(a, b) = Smallest(a, b) /\ C!Largest(a, b) = Largest(a, b)
    BY DEF C!Smallest, Smallest, C!Largest, Largest
  <2> QED
    BY <2>1, ClusterReads DEF C!LaneLimit, LaneLimit
<1>4. \A s, n : C!OutOfWindows(s, n) = OutOfWindows(s, n)
  BY <1>2 DEF C!OutOfWindows, OutOfWindows
<1>5. \A r, f : C!InWindow(r, f) <=> InWindow(r, f)
  BY DEF C!InWindow, InWindow
<1>6. \A r : C!LogicalKeys(r) = LogicalKeys(r)
  BY DEF C!LogicalKeys, LogicalKeys
<1>7. \A f, o, a, b : C!LaneQuery(f, o, a, b) = LaneQuery(f, o, a, b)
  BY DEF C!LaneQuery, LaneQuery
<1> QED
  BY <1>1, <1>2, <1>3, <1>4, <1>5, <1>6, <1>7

LEMMA RowTyped ==
  ASSUME EventBounds, ClusterBounds, NEW s \in LaneStates, NEW r \in Rows, NEW f
  PROVE  ConsumeRow(s, r, f) \in LaneStates
<1> DEFINE t == ConsumeRow(s, r, f)
           u == [s EXCEPT !.seen = @ \cup {r}]
           full == [u EXCEPT !.reason = "raw_observations"]
           big == [u EXCEPT !.reason = "raw_bytes"]
           kept == [u EXCEPT !.events = @ \cup {r}, !.bytes = @ + r.bytes,
                             !.logical = @ \cup LogicalKeys(r)]
<1>1. r.bytes \in Nat
  <2>1. r.bytes \in Int /\ 1 <= r.bytes
    BY RowBytes
  <2> QED
    BY <2>1
<1>2. u \in LaneStates
  BY DEF LaneStates
<1>3. t \in {s, u, full, big, kept}
  BY DEF ConsumeRow, Keep
<1> HIDE DEF u, t
<1>4. full \in LaneStates /\ big \in LaneStates
  BY <1>2 DEF LaneStates, Reasons
<1>5. kept \in LaneStates
  <2>1. u = [events |-> u.events, seen |-> u.seen, logical |-> u.logical, bytes |-> u.bytes,
             cursor |-> u.cursor, pageRows |-> u.pageRows, reason |-> u.reason, done |-> u.done]
    BY <1>2 DEF LaneStates
  <2>2. kept = [u EXCEPT !.events = u.events \cup {r}, !.bytes = u.bytes + r.bytes,
                         !.logical = u.logical \cup LogicalKeys(r)]
    OBVIOUS
  <2> DEFINE v == [events |-> u.events \cup {r}, seen |-> u.seen, bytes |-> u.bytes + r.bytes,
                   logical |-> u.logical \cup LogicalKeys(r), cursor |-> u.cursor,
                   pageRows |-> u.pageRows, reason |-> u.reason, done |-> u.done]
  <2>3. kept = v
    <3> HIDE DEF kept
    <3> QED
      BY <2>1, <2>2, KeptFields
  <2>4. IsFiniteSet(LogicalKeys(r)) /\ LogicalKeys(r) \subseteq LogicalSet
    BY KeysAreFinite, SameLane
  <2>5. /\ u.events \cup {r} \in SUBSET Rows /\ u.seen \in SUBSET Rows /\ u.bytes + r.bytes \in Nat
        /\ u.cursor \in SUBSET [ts : Int, id : Int] /\ u.pageRows \in Nat \ {0}
        /\ u.reason \in Reasons /\ u.done \in BOOLEAN
    BY <1>1, <1>2 DEF LaneStates
  <2>6. u.logical \in SUBSET LogicalSet /\ IsFiniteSet(u.logical)
    BY <1>2 DEF LaneStates
  <2>7. IsFiniteSet(u.logical \cup LogicalKeys(r)) /\ u.logical \cup LogicalKeys(r) \in SUBSET LogicalSet
    BY <2>4, <2>6, FS_Union
  <2>8. v \in LaneStates
    BY <2>5, <2>7 DEF LaneStates
  <2> QED
    BY <2>3, <2>8
<1> HIDE DEF full, big, kept
<1> QED
  BY <1>2, <1>3, <1>4, <1>5 DEF t

LEMMA RowsTyped ==
  ASSUME EventBounds, ClusterBounds, NEW s \in LaneStates, NEW rows \in Seq(Rows), NEW f
  PROVE  ConsumeRows(s, rows, f) \in LaneStates
<1> DEFINE N == Len(rows)
           Val(u, n) == IF n = 0 THEN s ELSE ConsumeRow(u[n - 1], rows[n], f)
           U == CHOOSE u : u = [n \in 0..N |-> Val(u, n)]
           consume(n, x) == ConsumeRow(x, rows[n], f)
           step == [x \in (1..N) \X LaneStates |-> consume(x[1], x[2])]
<1>1. N \in Nat /\ \A n \in 1..N : rows[n] \in Rows
  OBVIOUS
<1>2. ConsumeRows(s, rows, f) = U[N]
  BY DEF ConsumeRows
<1> HIDE DEF N
<1>3. ASSUME NEW n \in 1..N, NEW x \in LaneStates PROVE consume(n, x) \in LaneStates
  BY <1>1, RowTyped
<1>4. step \in [(1..N) \X LaneStates -> LaneStates]
  <2> HIDE DEF consume
  <2> QED
    BY <1>3
<1>5. PICK g \in [0..N -> LaneStates] : StepsTo(g, N, s, step)
  <2> HIDE DEF step, U, Val
  <2> QED
    BY <1>1, <1>4, BoundedRecursion
<1>6. ASSUME NEW n \in 1..N PROVE g[n] = consume(n, g[n - 1])
  <2>1. n - 1 \in 0..N
    BY <1>1
  <2>2. <<n, g[n - 1]>> \in (1..N) \X LaneStates
    BY <2>1
  <2>3. step[<<n, g[n - 1]>>] = consume(n, g[n - 1])
    <3> HIDE DEF consume
    <3> QED
      BY <2>2
  <2> HIDE DEF step, consume
  <2> QED
    BY <1>5, <2>3 DEF StepsTo
<1>7. g = [n \in 0..N |-> Val(g, n)]
  <2>1. \A n \in 0..N : n # 0 => n \in 1..N
    BY <1>1
  <2>2. \A n \in 0..N : g[n] = Val(g, n)
    BY <1>5, <1>6, <2>1 DEF StepsTo
  <2> HIDE DEF Val
  <2> QED
    BY <2>2
<1>8. U = [n \in 0..N |-> Val(U, n)]
  <2> HIDE DEF Val
  <2> QED
    BY <1>7
<1> HIDE DEF U
<1> DEFINE Good == {n \in Nat : n <= N => U[n] \in LaneStates}
<1>9. Nat \subseteq Good
  <2>0. \A n \in 0..N : U[n] = Val(U, n)
    <3> HIDE DEF Val
    <3> QED
      BY <1>8
  <2>1. 0 \in Good
    <3>1. 0 \in 0..N
      BY <1>1
    <3> QED
      BY <2>0, <3>1
  <2>2. ASSUME NEW n \in Nat, n \in Good PROVE n + 1 \in Good
    <3> SUFFICES ASSUME n + 1 <= N PROVE U[n + 1] \in LaneStates
      OBVIOUS
    <3>1. n <= N /\ n + 1 \in 0..N /\ n + 1 \in 1..N /\ (n + 1) - 1 = n /\ n + 1 # 0
      BY <1>1
    <3>2. U[n + 1] = consume(n + 1, U[n])
      BY <2>0, <3>1
    <3>3. U[n] \in LaneStates
      BY <2>2, <3>1
    <3> HIDE DEF consume
    <3> QED
      BY <1>3, <3>1, <3>2, <3>3
  <2> HIDE DEF Good
  <2> QED
    BY <2>1, <2>2, SetInduction
<1> QED
  BY <1>1, <1>2, <1>9

LEMMA WindowTyped ==
  ASSUME NEW rows, NEW q, LaneReader(rows, q), NEW f, NEW requested \in Nat, NEW s \in LaneStates
  PROVE  LaneWindow(rows, q, f, requested, s) \in LaneStates
<1> DEFINE n == LaneLimit(s, requested)
           page == AdaptivePage(rows, [q EXCEPT !.cursor = s.cursor, !.limit = n])
           a == page.answer
           t == ConsumeRows(s, a.rows, f)
           w == LaneWindow(rows, q, f, requested, s)
<1>1. CASE Enough(s, requested)
  <2>1. w = EndLane(s, requested)
    BY <1>1 DEF LaneWindow
  <2>2. EndLane(s, requested) \in LaneStates
    BY EndLaneIs, SameLane
  <2> QED
    BY <2>1, <2>2
<1>2. CASE ~Enough(s, requested)
  <2>1. w = LanePage(t, page, requested)
    BY <1>2 DEF LaneWindow, LaneConsume
  <2>2. n \in Nat \ {0} /\ n <= PageRows * MaxPages
    <3>1. ~C!Enough(s, requested)
      BY <1>2, SameLane
    <3>2. C!LaneLimit(s, requested) = n
      BY SameLane
    <3> QED
      BY <3>1, <3>2, LaneLimits DEF LaneReader
  <2>3. s.cursor \in SUBSET [ts : Int, id : Int]
    BY DEF LaneStates
  <2> HIDE DEF n
  <2>4. LanePageFits(page, rows, q, s.cursor, n)
    BY <2>2, <2>3, LanePages, ClusterPages
  <2> HIDE DEF page, w
  <2>5. Begins(a.rows, LeftOf(rows, q, s.cursor), q.order) /\ page.limit \in Nat \ {0}
    BY <2>2, <2>4 DEF LanePageFits
  <2>6. a.rows \in Seq(Rows)
    <3>1. LeftOf(rows, q, s.cursor) \subseteq Rows
      BY LeftIs
    <3> QED
      BY <2>5, <3>1, BeginsElements
  <2>7. t \in LaneStates
    BY <2>6, RowsTyped DEF LaneReader
  <2> HIDE DEF t
  <2>8. EndLane(t, requested) \in LaneStates
    BY <2>7, EndLaneIs, SameLane
  <2>9. CASE t.reason # "none" \/ (a.kind # "scan_budget_exceeded"
                                    /\ (Enough(t, requested) \/ Len(a.rows) < page.limit))
    BY <2>1, <2>8, <2>9 DEF LanePage, w
  <2>10. CASE t.reason = "none" /\ a.kind = "scan_budget_exceeded"
    <3>1. w = [t EXCEPT !.cursor = a.cursor]
      BY <2>1, <2>10 DEF LanePage
    <3>2. a.cursor \in SUBSET [ts : Int, id : Int]
      BY <2>4, <2>10 DEF LanePageFits, GoesOn
    <3> HIDE DEF a
    <3> QED
      BY <2>7, <3>1, <3>2 DEF LaneStates, w
  <2>11. CASE /\ t.reason = "none" /\ a.kind # "scan_budget_exceeded"
              /\ ~Enough(t, requested) /\ ~(Len(a.rows) < page.limit)
    <3> DEFINE c == {CursorOf(Last(a.rows))}
               v == [t EXCEPT !.cursor = c]
    <3>1. w = [v EXCEPT !.pageRows = page.limit]
      BY <2>1, <2>11 DEF LanePage
    <3>2. c \in SUBSET [ts : Int, id : Int]
      BY <2>4, <2>11 DEF LanePageFits, GoesOn
    <3> HIDE DEF c
    <3>3. v \in LaneStates
      BY <2>7, <3>2 DEF LaneStates
    <3> HIDE DEF v
    <3> QED
      BY <2>5, <3>1, <3>3 DEF LaneStates, w
  <2> QED
    BY <2>9, <2>10, <2>11 DEF w
<1> QED
  BY <1>1, <1>2

LEMMA LaneTyped ==
  ASSUME NEW rows, NEW q, LaneReader(rows, q), NEW f, NEW requested \in Nat, NEW windows \in Nat,
         NEW s \in LaneStates
  PROVE  Lane(rows, q, f, requested, windows, s) \in LaneStates
<1> DEFINE base == LaneStart(s)
           go(x) == LaneStep(rows, q, f, requested, x)
           step == [x \in LaneStates |-> go(x)]
           Val(u, n) == IF n = 0 THEN base ELSE go(u[n - 1])
           U == CHOOSE u : u = [n \in Nat |-> Val(u, n)]
           t == OutOfWindows(U[windows], requested)
<1>1. Lane(rows, q, f, requested, windows, s) = t
  BY DEF Lane
<1>2. base \in LaneStates
  <2> DEFINE v == [s EXCEPT !.cursor = {}]
             x == [v EXCEPT !.pageRows = ClusterPageRows]
  <2>1. base = [x EXCEPT !.done = FALSE]
    BY DEF LaneStart
  <2>2. ClusterPageRows \in Nat \ {0}
    BY DEF LaneReader, StorageBounds, ClusterBounds
  <2>3. v \in LaneStates
    BY DEF LaneStates
  <2> HIDE DEF v
  <2>4. x \in LaneStates
    BY <2>2, <2>3 DEF LaneStates
  <2> HIDE DEF x, base
  <2> QED
    BY <2>1, <2>4 DEF LaneStates
<1>3. ASSUME NEW x \in LaneStates PROVE go(x) \in LaneStates
  BY WindowTyped DEF LaneStep
<1> HIDE DEF base, go
<1>4. step \in [LaneStates -> LaneStates]
  BY <1>3
<1>5. PICK g \in [Nat -> LaneStates] : g[0] = base /\ \A n \in Nat : g[n + 1] = step[g[n]]
  <2> HIDE DEF step
  <2> QED
    BY <1>2, <1>4, Iterated, SMTT(30)
<1>6. ASSUME NEW n \in Nat PROVE g[n] = Val(g, n)
  <2>1. CASE n = 0
    BY <1>5, <2>1
  <2>2. CASE n # 0
    <3>1. n - 1 \in Nat /\ (n - 1) + 1 = n
      BY <2>2
    <3>2. g[n] = step[g[n - 1]] /\ g[n - 1] \in LaneStates
      <4> HIDE DEF step
      <4> QED
        BY <1>5, <3>1
    <3> QED
      BY <2>2, <3>2
  <2> QED
    BY <2>1, <2>2
<1>7. g = [n \in Nat |-> Val(g, n)]
  <2>1. g = [n \in Nat |-> g[n]]
    BY <1>5
  <2> HIDE DEF Val
  <2> QED
    BY <1>6, <2>1
<1>8. U = [n \in Nat |-> Val(U, n)]
  <2> HIDE DEF Val
  <2> QED
    BY <1>7
<1> HIDE DEF U
<1>9. U[0] = base /\ \A n \in Nat : U[n + 1] = go(U[n])
  <2>1. \A n \in Nat : U[n] = Val(U, n)
    <3> HIDE DEF Val
    <3> QED
      BY <1>8
  <2>2. \A n \in Nat : n + 1 \in Nat /\ n + 1 # 0 /\ (n + 1) - 1 = n
    OBVIOUS
  <2> QED
    BY <2>1, <2>2
<1> DEFINE Good == {n \in Nat : U[n] \in LaneStates}
<1>10. Nat \subseteq Good
  <2>1. 0 \in Good
    BY <1>2, <1>9
  <2>2. \A n \in Nat : n \in Good => n + 1 \in Good
    BY <1>3, <1>9
  <2> HIDE DEF Good
  <2> QED
    BY <2>1, <2>2, SetInduction
<1>11. U[windows] \in LaneStates
  BY <1>10
<1> DEFINE x == U[windows]
           y == [x EXCEPT !.reason = "storage_windows"]
<1>12. t \in {x, EndLane(y, requested)}
  BY DEF OutOfWindows
<1>13. y \in LaneStates
  BY <1>11 DEF LaneStates, Reasons
<1> HIDE DEF y
<1>14. EndLane(y, requested) \in LaneStates
  BY <1>13, EndLaneIs, SameLane
<1> HIDE DEF x, t
<1> QED
  BY <1>1, <1>11, <1>12, <1>14 DEF x

LEMMA ReadsRows ==
  ASSUME EventBounds, StorageBounds, ClusterBounds, NEW rows \in SUBSET Rows, NEW f, f.post,
         NEW requested \in Nat
  PROVE  QueryClusterEvents(rows, f, requested) \in LaneStates
<1> DEFINE q1 == LaneQuery(f, "desc", f.since, f.until)
           q2 == LaneQuery(f, "asc", f.until, EndOfTime)
           t1 == Lane(rows, q1, f, requested, ClusterWindows, Untouched)
<1>1. LaneReader(rows, q1) /\ LaneReader(rows, q2)
  BY LaneQueryIs, SameLane DEF ReadsLane
<1> HIDE DEF q1, q2
<1>2. Untouched \in LaneStates
  <2>1. ClusterPageRows \in Nat \ {0}
    BY DEF StorageBounds, ClusterBounds
  <2> QED
    BY <2>1, FS_EmptySet DEF Untouched, LaneStates, Reasons
<1>3. ClusterWindows \in Nat /\ DelayedWindows \in Nat
  BY DEF ClusterBounds
<1>4. t1 \in LaneStates
  BY <1>1, <1>2, <1>3, LaneTyped
<1>5. Lane(rows, q2, f, requested, DelayedWindows, t1) \in LaneStates
  <2> HIDE DEF t1
  <2> QED
    BY <1>1, <1>3, <1>4, LaneTyped
<1> QED
  BY <1>4, <1>5 DEF QueryClusterEvents, LateLane, q1, q2

LEMMA PassIs ==
  ASSUME EventBounds, StorageBounds, ClusterBounds, WorkBounds, NEW rows \in SUBSET Rows,
         NEW q, q.until \in Int, q.limit \in Nat
  PROVE  LET b == BuildRecentWorkContext(InputFor(rows, q).events, q)
         IN  /\ IsAnswer(RunPass(rows, q), q)
             /\ RunPass(rows, q).clusters = b.clusters /\ RunPass(rows, q).seen = b.seen
<1> DEFINE input == InputFor(rows, q)
           cap == q.limit * Overfetch
           b == BuildRecentWorkContext(input.events, q)
<1>1. RunPass(rows, q) = WarnedWith(b, input, cap)
  BY DEF RunPass, PassOver, InputFor
<1>2. cap \in Nat /\ FilterOf(q).post
  BY DEF WorkBounds, FilterOf
<1>3. input \in LaneStates
  BY <1>2, ReadsRows DEF InputFor
<1>4. input.events \in SUBSET Rows
  BY <1>3 DEF LaneStates
<1> HIDE DEF input, cap
<1>5. IsAnswer(b, q)
  BY <1>4, BuiltIs
<1> HIDE DEF b
<1> QED
  BY <1>1, <1>5, WarnedIs DEF b, input

LEMMA PassRecent ==
  ASSUME EventBounds, StorageBounds, ClusterBounds, WorkBounds, NEW rows \in SUBSET Rows,
         NEW p, IsCall(p), NEW w \in Int \X Int, w[1] < w[2]
  PROVE  LET r == RunPass(rows, Within(p, w))
         IN  Recent(r, rows, p) /\ r.since = w[1] /\ r.until = w[2]
<1> DEFINE q == Within(p, w)
           r == RunPass(rows, q)
<1>1. q.since = w[1] /\ q.until = w[2] /\ q.limit = p.limit
  BY WithinIs
<1>2. q.until \in Int /\ q.limit \in Nat
  BY <1>1 DEF IsCall
<1> HIDE DEF q
<1>3. IsAnswer(r, q)
  BY <1>2, PassIs
<1> HIDE DEF r
<1>4. r.since = w[1] /\ r.until = w[2]
  BY <1>1, <1>3 DEF IsAnswer, Sound
<1>5. <<r.since, r.until>> = w
  BY <1>4
<1>6. Recent(r, rows, p)
  BY <1>3, <1>5 DEF Recent, q, r
<1> QED
  BY <1>4, <1>6 DEF r, q

(* The passes a call makes: one, or two for a call without arguments.        *)
LEMMA RecentIs ==
  ASSUME EventBounds, StorageBounds, ClusterBounds, WorkBounds, NEW rows \in SUBSET Rows,
         NEW p, IsCall(p), NEW now_ \in Int
  PROVE  LET narrow == RunPass(rows, Within(p, <<now_ - NarrowWindow, now_>>))
             wide == RunPass(rows, Within(p, <<now_ - WideWindow, now_>>))
             q == Within(p, <<now_ - NarrowWindow, now_>>)
             r == GetRecentWorkContext(rows, p, now_)
         IN  /\ Recent(r, rows, p)
             /\ p.window # <<>> => r = RunPass(rows, Within(p, p.window))
                                   /\ <<r.since, r.until>> = p.window
             /\ p.window = <<>> =>
                  r = IF ~NoUsefulCluster(narrow, now_) THEN narrow
                      ELSE IF narrow.clusters = <<>> THEN wide ELSE Demote(wide, q, now_)
<1> DEFINE narrow == RunPass(rows, Within(p, <<now_ - NarrowWindow, now_>>))
           wide == RunPass(rows, Within(p, <<now_ - WideWindow, now_>>))
           q == Within(p, <<now_ - NarrowWindow, now_>>)
           r == GetRecentWorkContext(rows, p, now_)
<1>1. CASE p.window # <<>>
  <2> DEFINE w == p.window
  <2>1. r = RunPass(rows, Within(p, w))
    BY <1>1 DEF GetRecentWorkContext, PassesOver, AutoExpand, WindowOf
  <2>2. w \in Int \X Int /\ w[1] < w[2]
    BY <1>1 DEF IsCall
  <2> HIDE DEF w, r
  <2>3. Recent(r, rows, p) /\ r.since = w[1] /\ r.until = w[2]
    BY <2>1, <2>2, PassRecent
  <2>4. <<r.since, r.until>> = w
    BY <2>2, <2>3
  <2> QED
    BY <1>1, <2>1, <2>3, <2>4 DEF w, r
<1>2. CASE p.window = <<>>
  <2>1. WindowOf(p, now_) = <<now_ - NarrowWindow, now_>>
    BY <1>2 DEF WindowOf
  <2>2. r = Widen(rows, q, narrow, now_)
    BY <1>2, <2>1 DEF GetRecentWorkContext, PassesOver, AutoExpand
  <2>3. q = [at |-> p.at, window |-> <<>>, since |-> now_ - NarrowWindow, until |-> now_, by |-> p.by,
             size |-> p.size, reps |-> p.reps, limit |-> p.limit, gap |-> p.gap,
             hint |-> p.hint, scans |-> p.scans, keeps |-> p.keeps]
    BY WithinIs
  <2>4. Within(p, <<now_ - WideWindow, now_>>)
          = [at |-> p.at, window |-> <<>>, since |-> now_ - WideWindow, until |-> now_, by |-> p.by,
             size |-> p.size, reps |-> p.reps, limit |-> p.limit, gap |-> p.gap,
             hint |-> p.hint, scans |-> p.scans, keeps |-> p.keeps]
    BY WithinIs
  <2> DEFINE qw == Within(p, <<now_ - WideWindow, now_>>)
  <2> HIDE DEF q, qw, r, narrow
  <2>5. [q EXCEPT !.since = q.until - WideWindow] = qw
    BY <2>3, <2>4 DEF qw
  <2>6. q.until = now_ /\ q.until \in Int
    BY <2>3
  <2>7. wide = RunPass(rows, qw)
    BY DEF qw
  <2> HIDE DEF wide
  <2>8. r = IF ~NoUsefulCluster(narrow, now_) THEN narrow
            ELSE IF narrow.clusters = <<>> THEN wide ELSE Demote(wide, q, now_)
    BY <2>2, <2>5, <2>7 DEF Widen, Wider
  <2>9. NarrowWindow \in Nat \ {0} /\ WideWindow \in Nat \ {0}
    BY DEF WorkBounds
  <2>10. Recent(narrow, rows, p)
    <3> DEFINE w == <<now_ - NarrowWindow, now_>>
    <3>1. w \in Int \X Int /\ w[1] < w[2]
      BY <2>9
    <3> HIDE DEF w
    <3> QED
      BY <3>1, PassRecent DEF narrow, w
  <2>11. Recent(wide, rows, p)
    <3> DEFINE w == <<now_ - WideWindow, now_>>
    <3>1. w \in Int \X Int /\ w[1] < w[2]
      BY <2>9
    <3> HIDE DEF w
    <3> QED
      BY <3>1, PassRecent DEF wide, w
  <2>12. Recent(Demote(wide, q, now_), rows, p)
    BY <2>6, <2>11, DemotedIs
  <2>13. Recent(r, rows, p)
    BY <2>8, <2>10, <2>11, <2>12
  <2> QED
    BY <1>2, <2>8, <2>13 DEF r, q, narrow, wide
<1> QED
  BY <1>1, <1>2

(* What a group is: its members in order, behind its representatives.        *)
IsGroup(g, n, T) ==
  /\ g = [key |-> g.key, reps |-> g.reps, order |-> g.order, raw |-> g.raw,
          threads |-> g.threads, to |-> g.to]
  /\ T \in SUBSET Ids /\ T # {} /\ IsFiniteSet(T) /\ Lists(g.order, T)
  /\ g.reps = Representatives(T, n) /\ SubSeq(g.order, 1, Len(g.reps)) = g.reps
  /\ Len(g.reps) = (IF n < Cardinality(T) THEN n ELSE Cardinality(T))
  /\ g.to = Row[NewestIn(T)].occ /\ g.to \in Nat

LEMMA GroupIs ==
  ASSUME EventBounds, WorkBounds, NEW r, NEW k, NEW placed, NEW n \in Nat,
         NEW T \in SUBSET Ids, T = {x.id : x \in placed}, T # {}
  PROVE  IsGroup(GroupOf(r, k, placed, n), n, T) /\ GroupOf(r, k, placed, n).key = k
<1> DEFINE g == GroupOf(r, k, placed, n)
           reps == Representatives(T, n)
           order_ == MemberOrder(T, reps)
<1>1. g = [key |-> k, reps |-> reps, order |-> order_, raw |-> RawCount(r, T),
           threads |-> {x.thread : x \in placed}, to |-> Row[NewestIn(T)].occ]
  BY DEF GroupOf, Model
<1>2. /\ reps \in Seq(T) /\ Once(reps)
      /\ Len(reps) = IF n < Cardinality(T) THEN n ELSE Cardinality(T)
  BY RepresentativesAre
<1> HIDE DEF reps
<1>3. Lists(order_, T) /\ SubSeq(order_, 1, Len(reps)) = reps
  BY <1>2, MembersAre
<1>4. NewestIn(T) \in T /\ IsFiniteSet(T)
  BY NewestIs, EventIds, FS_Subset
<1>5. Row[NewestIn(T)].occ \in Nat
  BY <1>4, EventIds
<1> HIDE DEF order_, g
<1>6. /\ g = [key |-> g.key, reps |-> g.reps, order |-> g.order, raw |-> g.raw,
              threads |-> g.threads, to |-> g.to]
      /\ g.key = k /\ g.reps = reps /\ g.order = order_ /\ g.to = Row[NewestIn(T)].occ
  BY <1>1
<1>7. IsGroup(g, n, T)
  BY <1>2, <1>3, <1>4, <1>5, <1>6 DEF IsGroup, reps
<1> QED
  BY <1>6, <1>7 DEF g

(* An atom that was found has one place.                                     *)
Spot(r, by, i) ==
  LET c == CHOOSE d \in ToSet(r.clusters) : i \in d.ids
  IN  [id |-> i, thread |-> ThreadOf(i, c),
       key |-> IF by = "project" THEN ProjectOf(i, c) ELSE ThreadOf(i, c)]

LEMMA PlacedIs ==
  ASSUME NEW r, Apart(ToSet(r.clusters)), NEW by
  PROVE  Placed(r, by) = {Spot(r, by, i) : i \in KeptOf(r)}
<1> DEFINE M == ToSet(r.clusters)
           spot(i, c) == [id |-> i, thread |-> ThreadOf(i, c),
                          key |-> IF by = "project" THEN ProjectOf(i, c) ELSE ThreadOf(i, c)]
<1>1. ASSUME NEW c \in M, NEW i \in c.ids PROVE Spot(r, by, i) = spot(i, c)
  <2>1. (CHOOSE d \in M : i \in d.ids) = c
    BY <1>1 DEF Apart
  <2> HIDE DEF M
  <2> QED
    BY <2>1 DEF Spot, M
<1>2. Placed(r, by) = UNION {{spot(i, c) : i \in c.ids} : c \in M}
  BY DEF Placed
<1>3. KeptOf(r) = UNION {c.ids : c \in M}
  BY DEF KeptOf
<1> HIDE DEF spot, M
<1>4. ASSUME NEW x \in Placed(r, by) PROVE x \in {Spot(r, by, i) : i \in KeptOf(r)}
  <2>1. PICK c \in M : x \in {spot(i, c) : i \in c.ids}
    BY <1>2
  <2>2. PICK i \in c.ids : x = spot(i, c)
    BY <2>1
  <2> QED
    BY <1>1, <1>3, <2>2
<1>5. ASSUME NEW i \in KeptOf(r) PROVE Spot(r, by, i) \in Placed(r, by)
  <2>1. PICK c \in M : i \in c.ids
    BY <1>3
  <2> QED
    BY <1>1, <1>2, <2>1
<1> QED
  BY <1>4, <1>5

(* The groups of an answer: a partition of its atoms.                        *)
Grouped(groups, kept, n) ==
  /\ \A i \in DOMAIN groups : \E T \in SUBSET kept : IsGroup(groups[i], n, T)
  /\ \A i, j \in DOMAIN groups :
       \/ ToSet(groups[i].order) \cap ToSet(groups[j].order) # {}
       \/ groups[i].key = groups[j].key
       => i = j
  /\ groups \in Seq(ToSet(groups))
  /\ DOMAIN groups = 1..Len(groups) /\ Len(groups) \in 0..Cardinality(kept)
  /\ \A a \in kept : \E i \in DOMAIN groups : a \in ToSet(groups[i].order)

LEMMA GroupRanks ==
  ASSUME EventBounds, WorkBounds, NEW n, NEW M,
         \A g \in M : \E T \in SUBSET Ids : IsGroup(g, n, T),
         \A g, h \in M : ToSet(g.order) \cap ToSet(h.order) # {} => g = h,
         NEW R, \A g, h \in M : <<g, h>> \in R <=> GroupBefore(g, h)
  PROVE  Ranks(M, R)
<1> DEFINE least(g) == CHOOSE i \in ToSet(g.order) : \A j \in ToSet(g.order) : i <= j
<1>1. ASSUME NEW g \in M PROVE g.to \in Nat /\ least(g) \in ToSet(g.order) /\ least(g) \in Nat
  <2>1. PICK T \in SUBSET Ids : IsGroup(g, n, T)
    OBVIOUS
  <2>2. T # {} /\ ToSet(g.order) = T /\ g.to \in Nat
    BY <2>1 DEF IsGroup, Lists
  <2>3. \E i \in T : \A j \in T : i <= j
    BY <2>2, LeastId
  <2>4. least(g) \in T
    BY <2>2, <2>3
  <2> QED
    BY <2>2, <2>4, EventIds
<1>2. \A g, h \in M : <<g, h>> \in R <=>
        g.to > h.to \/ (g.to = h.to /\ least(g) < least(h))
  BY DEF GroupBefore
<1> HIDE DEF least
<1>3. \A g, h \in M : least(g) = least(h) => g = h
  <2> SUFFICES ASSUME NEW g \in M, NEW h \in M, least(g) = least(h) PROVE g = h
    OBVIOUS
  <2>1. least(g) \in ToSet(g.order) /\ least(h) \in ToSet(h.order)
    BY <1>1
  <2>2. ToSet(g.order) \cap ToSet(h.order) # {}
    BY <2>1
  <2> QED
    BY <2>2
<1>4. \A g \in M : <<g, g>> \notin R
  BY <1>1, <1>2
<1>5. \A f, g, h \in M : <<f, g>> \in R /\ <<g, h>> \in R => <<f, h>> \in R
  BY <1>1, <1>2
<1>6. ASSUME NEW g \in M, NEW h \in M PROVE g = h \/ <<g, h>> \in R \/ <<h, g>> \in R
  <2>1. g.to \in Nat /\ h.to \in Nat /\ least(g) \in Nat /\ least(h) \in Nat
    BY <1>1
  <2> QED
    BY <1>2, <1>3, <2>1
<1> QED
  BY <1>4, <1>5, <1>6 DEF Ranks

LEMMA GroupsSorted ==
  ASSUME EventBounds, WorkBounds, NEW n, NEW M, IsFiniteSet(M),
         \A g \in M : \E T \in SUBSET Ids : IsGroup(g, n, T),
         \A g, h \in M : ToSet(g.order) \cap ToSet(h.order) # {} => g = h
  PROVE  Lists(Sorted(M, GroupBefore), M)
<1> DEFINE R == {p \in M \X M : GroupBefore(p[1], p[2])}
           before == [x \in M |-> {y \in M : GroupBefore(y, x)}]
           s == Sorted(M, GroupBefore)
<1>1. \A g, h \in M : <<g, h>> \in R <=> GroupBefore(g, h)
  OBVIOUS
<1> HIDE DEF R
<1>2. Ranks(M, R)
  BY <1>1, GroupRanks
<1>3. \A x \in M : before[x] = {y \in M : <<y, x>> \in R}
  BY <1>1
<1>4. Sorts(s, M, before)
  <2> DEFINE pick(k) == CHOOSE x \in M : Cardinality({y \in M : GroupBefore(y, x)}) = k - 1
  <2>1. s = [k \in 1..Cardinality(M) |-> pick(k)]
    BY DEF Sorted
  <2>2. ASSUME NEW k \in 1..Cardinality(M), NEW x \in M, Cardinality(before[x]) = k - 1
       PROVE  pick(k) \in M /\ Cardinality(before[pick(k)]) = k - 1
    <3>1. \A z \in M : before[z] = {y \in M : GroupBefore(y, z)}
      OBVIOUS
    <3>2. \E z \in M : Cardinality({y \in M : GroupBefore(y, z)}) = k - 1
      BY <2>2, <3>1
    <3> QED
      BY <3>1, <3>2
  <2> HIDE DEF pick, before, s
  <2>3. s = [k \in 1..Cardinality(M) |-> s[k]] /\ \A k \in 1..Cardinality(M) : s[k] = pick(k)
    BY <2>1
  <2> QED
    BY <2>2, <2>3 DEF Sorts
<1> HIDE DEF before, s
<1>5. /\ s \in Seq(M) /\ Len(s) = Cardinality(M) /\ ToSet(s) = M
      /\ \A i, j \in 1..Len(s) : s[i] = s[j] => i = j
  BY <1>2, <1>3, <1>4, SortedIs
<1> QED
  BY <1>5 DEF s, Lists, Once

LEMMA GroupsAre ==
  ASSUME EventBounds, WorkBounds, NEW r, Apart(ToSet(r.clusters)), NEW by, NEW n \in Nat
  PROVE  Grouped(BuildDiscoveryGroups(r, by, n), KeptOf(r), n)
<1> DEFINE kept == KeptOf(r)
           spot == [i \in kept |-> Spot(r, by, i)]
           P == Placed(r, by)
           at(k) == {x \in P : x.key = k}
           Kset == {x.key : x \in P}
           group == [k \in Kset |-> GroupOf(r, k, at(k), n)]
           M == {group[k] : k \in Kset}
           gs == BuildDiscoveryGroups(r, by, n)
<1>1. kept \in SUBSET Ids
  BY DEF KeptOf, Apart
<1>2. IsFiniteSet(kept)
  BY <1>1, EventIds, FS_Subset
<1>3. P = {spot[i] : i \in kept}
  BY PlacedIs
<1>4. \A i \in kept : spot[i].id = i
  BY DEF Spot
<1>5. gs = Sorted(M, GroupBefore)
  <2>1. M = {GroupOf(r, k, {x \in P : x.key = k}, n) : k \in {x.key : x \in P}}
    OBVIOUS
  <2> HIDE DEF M, P
  <2>2. gs = GroupsOver(r, P, n)
    BY DEF BuildDiscoveryGroups, P
  <2>3. GroupsOver(r, P, n)
          = Sorted({GroupOf(r, k, {x \in P : x.key = k}, n) : k \in {x.key : x \in P}}, GroupBefore)
    BY DEF GroupsOver
  <2> QED
    BY <2>1, <2>2, <2>3
<1> HIDE DEF kept, spot, P, gs
<1>6. ASSUME NEW k \in Kset
      PROVE  /\ IsGroup(group[k], n, {x.id : x \in at(k)}) /\ group[k].key = k
             /\ {x.id : x \in at(k)} \in SUBSET kept
  <2> DEFINE T == {x.id : x \in at(k)}
  <2>1. T \in SUBSET kept /\ T # {}
    <3>1. \A x \in P : x.id \in kept
      BY <1>3, <1>4
    <3>2. PICK y \in P : y.key = k
      OBVIOUS
    <3>3. y.id \in T
      BY <3>2
    <3> QED
      BY <3>1, <3>3
  <2>2. T \in SUBSET Ids
    BY <1>1, <2>1
  <2> HIDE DEF at
  <2>3. group[k] = GroupOf(r, k, at(k), n)
    OBVIOUS
  <2>4. T = {x.id : x \in at(k)}
    OBVIOUS
  <2> HIDE DEF T, group
  <2>5. IsGroup(group[k], n, T) /\ group[k].key = k
    BY <2>1, <2>2, <2>3, <2>4, GroupIs
  <2> QED
    BY <2>1, <2>4, <2>5
<1>7. ASSUME NEW g \in M PROVE g.key \in Kset /\ g = group[g.key]
  <2>1. PICK k \in Kset : g = group[k]
    OBVIOUS
  <2> HIDE DEF group, at, Kset, M
  <2>2. group[k].key = k
    BY <1>6
  <2> QED
    BY <2>1, <2>2
<1>8. \A g \in M : ToSet(g.order) = {x.id : x \in at(g.key)}
  <2> SUFFICES ASSUME NEW g \in M PROVE ToSet(g.order) = {x.id : x \in at(g.key)}
    OBVIOUS
  <2>1. g.key \in Kset /\ g = group[g.key]
    BY <1>7
  <2> HIDE DEF group, at, Kset, M
  <2>2. IsGroup(g, n, {x.id : x \in at(g.key)})
    BY <1>6, <2>1
  <2> QED
    BY <2>2 DEF IsGroup, Lists
<1>9. \A g, h \in M : ToSet(g.order) \cap ToSet(h.order) # {} => g = h
  <2> SUFFICES ASSUME NEW g \in M, NEW h \in M, NEW a \in ToSet(g.order), a \in ToSet(h.order) PROVE g = h
    OBVIOUS
  <2>1. PICK x \in P : x.key = g.key /\ x.id = a
    BY <1>8, ZenonT(30)
  <2>2. PICK y \in P : y.key = h.key /\ y.id = a
    BY <1>8
  <2>3. PICK i \in kept, j \in kept : x = spot[i] /\ y = spot[j]
    BY <1>3
  <2>4. i = j
    BY <1>4, <2>1, <2>2, <2>3
  <2>5. g.key = h.key
    BY <2>1, <2>2, <2>3, <2>4
  <2> QED
    BY <1>7, <2>5
<1>10. IsFiniteSet(M) /\ Cardinality(M) <= Cardinality(kept) /\ Cardinality(kept) \in Nat
  <2> DEFINE keyOf == [x \in P |-> x.key]
  <2>1. IsFiniteSet(P) /\ Cardinality(P) <= Cardinality(kept)
    BY <1>2, <1>3, ImageFinite
  <2>2. Kset = {keyOf[x] : x \in P}
    OBVIOUS
  <2> HIDE DEF keyOf, Kset, group
  <2>3. IsFiniteSet(Kset) /\ Cardinality(Kset) <= Cardinality(P)
    BY <2>1, <2>2, ImageFinite
  <2>4. IsFiniteSet(M) /\ Cardinality(M) <= Cardinality(Kset)
    BY <2>3, ImageFinite
  <2>5. Cardinality(M) \in Nat /\ Cardinality(Kset) \in Nat /\ Cardinality(P) \in Nat /\ Cardinality(kept) \in Nat
    BY <1>2, <2>1, <2>3, <2>4, FS_CardinalityType
  <2> QED
    BY <2>1, <2>3, <2>4, <2>5
<1>11. \A g \in M : \E T \in SUBSET kept : IsGroup(g, n, T)
  <2> SUFFICES ASSUME NEW g \in M PROVE \E T \in SUBSET kept : IsGroup(g, n, T)
    OBVIOUS
  <2>1. g.key \in Kset /\ g = group[g.key]
    BY <1>7
  <2> HIDE DEF group, at, Kset, M
  <2> QED
    BY <1>6, <2>1
<1>12. \A a \in kept : \E g \in M : a \in ToSet(g.order)
  <2> SUFFICES ASSUME NEW a \in kept PROVE \E g \in M : a \in ToSet(g.order)
    OBVIOUS
  <2>1. spot[a] \in P /\ spot[a].id = a
    BY <1>3, <1>4
  <2>2. spot[a].key \in Kset /\ group[spot[a].key] \in M
    BY <2>1
  <2>3. group[spot[a].key].key = spot[a].key
    BY <1>6, <2>2
  <2>4. spot[a] \in at(spot[a].key)
    BY <2>1
  <2> QED
    BY <1>8, <2>1, <2>2, <2>3, <2>4
<1>13. \A g, h \in M : g.key = h.key => g = h
  BY <1>7
<1> HIDE DEF M
<1>14. Lists(gs, M)
  <2>1. \A g \in M : \E T \in SUBSET Ids : IsGroup(g, n, T)
    BY <1>1, <1>11
  <2> QED
    BY <1>5, <1>9, <1>10, <2>1, GroupsSorted
<1>15. /\ DOMAIN gs = 1..Len(gs) /\ \A i \in 1..Len(gs) : gs[i] \in M
       /\ \A g \in M : \E i \in 1..Len(gs) : gs[i] = g
       /\ Len(gs) = Cardinality(M) /\ Len(gs) \in Nat
  BY <1>14 DEF Lists, ToSet
<1>16. \A i, j \in 1..Len(gs) : gs[i] = gs[j] => i = j
  BY <1>14 DEF Lists, Once
<1>17. \A i, j \in DOMAIN gs :
       \/ ToSet(gs[i].order) \cap ToSet(gs[j].order) # {}
       \/ gs[i].key = gs[j].key
       => i = j
  BY <1>9, <1>13, <1>15, <1>16
<1>18. \A a \in kept : \E i \in DOMAIN gs : a \in ToSet(gs[i].order)
  BY <1>12, <1>15
<1>19. \A i \in DOMAIN gs : \E T \in SUBSET kept : IsGroup(gs[i], n, T)
  BY <1>11, <1>15
<1>20. Len(gs) \in 0..Cardinality(kept)
  BY <1>10, <1>15
<1>21. gs \in Seq(ToSet(gs))
  BY <1>14 DEF Lists
<1> QED
  BY <1>15, <1>17, <1>18, <1>19, <1>20, <1>21 DEF Grouped, gs, kept

LEMMA Partitioned ==
  ASSUME NEW groups, NEW kept, NEW n, Grouped(groups, kept, n)
  PROVE  GroupsPartition(groups, kept)
<1>1. ASSUME NEW i \in DOMAIN groups
      PROVE  ToSet(groups[i].order) \subseteq kept
             /\ Len(groups[i].order) = Cardinality(ToSet(groups[i].order))
  <2>1. PICK T \in SUBSET kept : IsGroup(groups[i], n, T)
    BY DEF Grouped
  <2> QED
    BY <2>1 DEF IsGroup, Lists
<1>2. \A i, j \in DOMAIN groups : i # j => ToSet(groups[i].order) \cap ToSet(groups[j].order) = {}
  BY DEF Grouped
<1>3. UNION {ToSet(groups[i].order) : i \in DOMAIN groups} = kept
  <2>1. \A a \in kept : \E i \in DOMAIN groups : a \in ToSet(groups[i].order)
    BY DEF Grouped
  <2> QED
    BY <1>1, <2>1
<1> QED
  BY <1>1, <1>2, <1>3 DEF GroupsPartition

(* The groups are those of the clusters, in whatever order these are.        *)
LEMMA SameGroups ==
  ASSUME NEW r, NEW b, ToSet(r.clusters) = ToSet(b.clusters), r.seen = b.seen, NEW by, NEW n
  PROVE  BuildDiscoveryGroups(r, by, n) = BuildDiscoveryGroups(b, by, n)
<1>1. Placed(r, by) = Placed(b, by)
  BY DEF Placed
<1>2. \A k, P : GroupOf(r, k, P, n) = GroupOf(b, k, P, n)
  BY DEF GroupOf, Model, RawCount
<1>3. \A P : GroupsOver(r, P, n) = GroupsOver(b, P, n)
  <2> TAKE P
  <2>1. {GroupOf(r, k, {x \in P : x.key = k}, n) : k \in {x.key : x \in P}}
          = {GroupOf(b, k, {x \in P : x.key = k}, n) : k \in {x.key : x \in P}}
    BY <1>2
  <2> QED
    BY <2>1 DEF GroupsOver
<1> QED
  BY <1>1, <1>3 DEF BuildDiscoveryGroups

(* The hints of a cluster are told apart by atom and kind.                   *)
HintRank(h) == <<Row[h.atom].occ, h.atom, HintOrder(h)>>

LEMMA HintsSorted ==
  ASSUME EventBounds, WorkBounds, NEW T \in SUBSET Ids, NEW V \in SUBSET EnrichHints(T)
  PROVE  Lists(Sorted(V, LAMBDA g, h : LexLess(HintRank(g), HintRank(h))), V)
<1> DEFINE key == [h \in V |-> HintRank(h)]
           R == {p \in V \X V : LexLess(key[p[1]], key[p[2]])}
           before == [x \in V |-> {y \in V : LexLess(HintRank(y), HintRank(x))}]
           s == Sorted(V, LAMBDA g, h : LexLess(HintRank(g), HintRank(h)))
<1>1. \A h \in V : \E i \in T, k \in HintKinds : h = HintOf(T, i, k)
  BY HintsAre
<1>2. ASSUME NEW h \in V
      PROVE  /\ h.atom \in T /\ h.kind \in HintKinds /\ h = HintOf(T, h.atom, h.kind)
             /\ HintOrder(h) \in 1..4
  <2>1. PICK i \in T, k \in HintKinds : h = HintOf(T, i, k)
    BY <1>1
  <2>2. h.atom = i /\ h.kind = k
    BY <2>1 DEF HintOf
  <2>3. HintOrder(h) \in 1..4
    BY <2>2 DEF HintOrder, HintKinds
  <2> QED
    BY <2>1, <2>2, <2>3
<1>3. \A g, h \in V : HintOrder(g) = HintOrder(h) => g.kind = h.kind
  BY <1>2 DEF HintOrder, HintKinds
<1>4. ASSUME NEW h \in V PROVE HintRank(h) \in [1..3 -> Int]
  <2>1. Row[h.atom].occ \in Int /\ h.atom \in Int /\ HintOrder(h) \in Int
    BY <1>2, EventIds
  <2> QED
    BY <2>1 DEF HintRank
<1>5. ASSUME NEW g \in V, NEW h \in V, HintRank(g) = HintRank(h) PROVE g = h
  <2>1. g.atom = h.atom /\ HintOrder(g) = HintOrder(h)
    BY <1>5 DEF HintRank
  <2>2. g.kind = h.kind
    BY <1>3, <2>1
  <2> QED
    BY <1>2, <2>1, <2>2
<1>6. IsFiniteSet(V)
  <2> DEFINE D == T \X HintKinds
             f == [x \in D |-> HintOf(T, x[1], x[2])]
  <2>1. IsFiniteSet(T)
    BY EventIds, FS_Subset
  <2>2. IsFiniteSet(HintKinds)
    <3>1. \A x : IsFiniteSet({x})
      BY FS_Singleton
    <3>2. HintKinds = (({"question"} \cup {"reply"}) \cup {"todo"}) \cup {"followup"}
      BY DEF HintKinds
    <3>3. IsFiniteSet({"question"} \cup {"reply"})
      BY <3>1, FS_Union
    <3>4. IsFiniteSet(({"question"} \cup {"reply"}) \cup {"todo"})
      BY <3>1, <3>3, FS_Union
    <3> QED
      BY <3>1, <3>2, <3>4, FS_Union
  <2>3. IsFiniteSet(D)
    BY <2>1, <2>2, FS_Product
  <2>4. V \in SUBSET {f[x] : x \in D}
    <3> SUFFICES ASSUME NEW h \in V PROVE h \in {f[x] : x \in D}
      OBVIOUS
    <3>1. PICK i \in T, k \in HintKinds : h = HintOf(T, i, k)
      BY <1>1
    <3>2. <<i, k>> \in D /\ f[<<i, k>>] = HintOf(T, i, k)
      OBVIOUS
    <3> QED
      BY <3>1, <3>2
  <2> HIDE DEF D, f
  <2>5. IsFiniteSet({f[x] : x \in D})
    BY <2>3, ImageFinite
  <2> QED
    BY <2>4, <2>5, FS_Subset
<1>7. key \in [V -> [1..3 -> Int]] /\ \A x \in V : key[x] = HintRank(x)
  BY <1>4
<1>8. \A x, y \in V : key[x] = key[y] => x = y
  BY <1>5, <1>7
<1>9. \A x, y \in V : <<x, y>> \in R <=> LexLess(key[x], key[y])
  OBVIOUS
<1> HIDE DEF key, R
<1>10. Ranks(V, R)
  <2>1. 3 \in Nat
    OBVIOUS
  <2> QED
    BY <1>7, <1>8, <1>9, <2>1, LexRanks
<1>11. \A x \in V : before[x] = {y \in V : <<y, x>> \in R}
  BY <1>7, <1>9
<1>12. Sorts(s, V, before)
  <2> DEFINE pick(n) == CHOOSE x \in V : Cardinality({y \in V : LexLess(HintRank(y), HintRank(x))}) = n - 1
  <2>1. s = [n \in 1..Cardinality(V) |-> pick(n)]
    BY DEF Sorted
  <2>2. ASSUME NEW n \in 1..Cardinality(V), NEW x \in V, Cardinality(before[x]) = n - 1
       PROVE  pick(n) \in V /\ Cardinality(before[pick(n)]) = n - 1
    <3>1. \A z \in V : before[z] = {y \in V : LexLess(HintRank(y), HintRank(z))}
      OBVIOUS
    <3>2. \E z \in V : Cardinality({y \in V : LexLess(HintRank(y), HintRank(z))}) = n - 1
      BY <2>2, <3>1
    <3> QED
      BY <3>1, <3>2
  <2> HIDE DEF pick, before, s
  <2>3. s = [n \in 1..Cardinality(V) |-> s[n]] /\ \A n \in 1..Cardinality(V) : s[n] = pick(n)
    BY <2>1
  <2> QED
    BY <2>2, <2>3 DEF Sorts
<1> HIDE DEF before, s
<1>13. /\ s \in Seq(V) /\ Len(s) = Cardinality(V) /\ ToSet(s) = V
       /\ \A i, j \in 1..Len(s) : s[i] = s[j] => i = j
  BY <1>6, <1>10, <1>11, <1>12, SortedIs
<1> QED
  BY <1>13 DEF s, Lists, Once

LEMMA IdsSorted ==
  ASSUME EventBounds, WorkBounds, NEW T \in SUBSET Ids
  PROVE  Lists(ById(T), T)
<1> DEFINE R == {p \in T \X T : p[1] < p[2]}
           before == [x \in T |-> {y \in T : Less(y, x)}]
           s == ById(T)
<1>1. IsFiniteSet(T) /\ T \subseteq Nat
  BY EventIds, FS_Subset
<1>2. \A x, y \in T : <<x, y>> \in R <=> x < y
  OBVIOUS
<1>3. \A x \in T : before[x] = {y \in T : <<y, x>> \in R}
  BY <1>2 DEF Less
<1> HIDE DEF R
<1>4. Ranks(T, R)
  <2>1. \A x \in T : <<x, x>> \notin R
    BY <1>1, <1>2
  <2>2. \A x, y, z \in T : <<x, y>> \in R /\ <<y, z>> \in R => <<x, z>> \in R
    BY <1>1, <1>2
  <2>3. ASSUME NEW x \in T, NEW y \in T PROVE x = y \/ <<x, y>> \in R \/ <<y, x>> \in R
    <3>1. x \in Nat /\ y \in Nat
      BY <1>1
    <3>2. x < y \/ y < x \/ x = y
      BY <3>1
    <3> QED
      BY <1>2, <3>2
  <2> QED
    BY <2>1, <2>2, <2>3 DEF Ranks
<1>5. Sorts(s, T, before)
  <2> DEFINE pick(n) == CHOOSE x \in T : Cardinality({y \in T : Less(y, x)}) = n - 1
  <2>1. s = [n \in 1..Cardinality(T) |-> pick(n)]
    BY DEF ById, Sorted
  <2>2. ASSUME NEW n \in 1..Cardinality(T), NEW x \in T, Cardinality(before[x]) = n - 1
       PROVE  pick(n) \in T /\ Cardinality(before[pick(n)]) = n - 1
    <3>1. \A z \in T : before[z] = {y \in T : Less(y, z)}
      OBVIOUS
    <3>2. \E z \in T : Cardinality({y \in T : Less(y, z)}) = n - 1
      BY <2>2, <3>1
    <3> QED
      BY <3>1, <3>2
  <2> HIDE DEF pick, before, s
  <2>3. s = [n \in 1..Cardinality(T) |-> s[n]] /\ \A n \in 1..Cardinality(T) : s[n] = pick(n)
    BY <2>1
  <2> QED
    BY <2>2, <2>3 DEF Sorts
<1> HIDE DEF before, s
<1>6. /\ s \in Seq(T) /\ Len(s) = Cardinality(T) /\ ToSet(s) = T
      /\ \A i, j \in 1..Len(s) : s[i] = s[j] => i = j
  <2>1. IsFiniteSet(T)
    BY <1>1
  <2> QED
    BY <1>3, <1>4, <1>5, <2>1, SortedIs
<1> QED
  BY <1>6 DEF s, Lists, Once

(* Head and tail of a list are elements of it, as many as the cap.           *)
LEMMA HeadAndTailIs ==
  ASSUME NEW M, NEW s \in Seq(M), NEW cap \in Nat
  PROVE  /\ HeadAndTail(s, cap) \in Seq(M)
         /\ HeadAndTail(s, cap) # s => Len(HeadAndTail(s, cap)) < Len(s)
<1> DEFINE N == Len(s)
           k == cap \div 2
           a == First(s, k)
           b == SubSeq(s, N - (cap - k) + 1, N)
           h == HeadAndTail(s, cap)
<1>1. CASE N <= cap
  BY <1>1 DEF HeadAndTail
<1>2. CASE ~(N <= cap)
  <2>1. N \in Nat /\ k \in Nat /\ k <= cap /\ cap < N
    BY <1>2
  <2>2. h = a \o b
    BY <1>2 DEF HeadAndTail
  <2>3. a = SubSeq(s, 1, k)
    BY <2>1 DEF First
  <2> HIDE DEF k
  <2>4. a \in Seq(M) /\ Len(a) = k
    <3>1. \A i \in 1..k : i \in 1..N
      BY <2>1
    <3> QED
      BY <2>1, <2>3, <3>1
  <2>5. b \in Seq(M) /\ Len(b) = cap - k
    <3>1. N - (cap - k) + 1 \in Nat /\ N - (cap - k) + 1 >= 1 /\ N - (cap - k) + 1 \in Int
      BY <2>1
    <3>2. \A i \in (N - (cap - k) + 1)..N : i \in 1..N
      BY <2>1
    <3> QED
      BY <2>1, <3>1, <3>2
  <2> HIDE DEF a, b, h
  <2>6. h \in Seq(M) /\ Len(h) = cap
    <3>1. h \in Seq(M) /\ Len(h) = Len(a) + Len(b)
      <4>1. \A x, y \in Seq(M) : x \o y \in Seq(M) /\ Len(x \o y) = Len(x) + Len(y)
        OBVIOUS
      <4> QED
        BY <2>2, <2>4, <2>5, <4>1
    <3> QED
      BY <2>1, <2>4, <2>5, <3>1
  <2> QED
    BY <2>1, <2>6 DEF h
<1> QED
  BY <1>1, <1>2

(* A cluster as it is listed.                                                *)
LEMMA ProjectedIs ==
  ASSUME EventBounds, WorkBounds, HintCap \in Nat, NEW cap \in Nat, NEW c, c.ids \in SUBSET Ids,
         c.hints = EnrichHints(c.ids)
  PROVE  /\ \A h \in ToSet(ProjectCluster(c, cap).hints) :
              {h.atom} \cup h.by \subseteq ToSet(ProjectCluster(c, cap).ids)
         /\ ~ProjectCluster(c, cap).cut => ToSet(ProjectCluster(c, cap).ids) = c.ids
<1> DEFINE ids == HeadAndTail(ById(c.ids), cap)
           V == VisibleHints(c, ToSet(ids))
           hs == Sorted(V, LAMBDA g, h : LexLess(HintRank(g), HintRank(h)))
           p == ProjectCluster(c, cap)
<1>1. p = [ids |-> ids, hints |-> ListedHints(c, ToSet(ids)), cut |-> Len(ids) < Cardinality(c.ids)]
  BY DEF ProjectCluster, ListedCluster
<1>2. ListedHints(c, ToSet(ids)) = HeadAndTail(hs, HintCap)
  BY DEF ListedHints, HintRank
<1>3. V \in SUBSET EnrichHints(c.ids) /\ \A h \in V : {h.atom} \cup h.by \subseteq ToSet(ids)
  BY DEF VisibleHints
<1>4. Lists(ById(c.ids), c.ids)
  <2> DEFINE T == c.ids
  <2>1. T \in SUBSET Ids
    OBVIOUS
  <2> HIDE DEF T
  <2>2. Lists(ById(T), T)
    BY <2>1, IdsSorted
  <2> QED
    BY <2>2 DEF T
<1>5. ById(c.ids) \in Seq(c.ids) /\ Len(ById(c.ids)) = Cardinality(c.ids) /\ ToSet(ById(c.ids)) = c.ids
  BY <1>4 DEF Lists
<1>6. ids # ById(c.ids) => Len(ids) < Cardinality(c.ids)
  BY <1>5, HeadAndTailIs
<1>7. Lists(hs, V)
  <2> DEFINE T == c.ids
  <2>1. T \in SUBSET Ids /\ V \in SUBSET EnrichHints(T)
    BY <1>3
  <2> HIDE DEF T, V
  <2> QED
    BY <2>1, HintsSorted
<1> HIDE DEF ids, V, hs, p
<1>8. HeadAndTail(hs, HintCap) \in Seq(V)
  BY <1>7, HeadAndTailIs DEF Lists
<1>9. \A h \in ToSet(HeadAndTail(hs, HintCap)) : h \in V
  BY <1>8, ElementsOf
<1>10. p.ids = ids /\ p.hints = HeadAndTail(hs, HintCap) /\ (p.cut <=> Len(ids) < Cardinality(c.ids))
  BY <1>1, <1>2
<1> QED
  BY <1>3, <1>5, <1>6, <1>9, <1>10 DEF p

LEMMA ListingIs ==
  ASSUME EventBounds, WorkBounds, ListingBounds, NEW q, q.hint = {}, NEW r, IsAnswer(r, q),
         NEW a \in FindClustersAnswers(r)
  PROVE  ListingHonest(r, a)
<1>1. /\ Lists(r.clusters, ToSet(r.clusters)) /\ Apart(ToSet(r.clusters))
      /\ \A c \in ToSet(r.clusters) : c.hints = EnrichHints(c.ids)
      /\ ~r.truncated => KeptOf(r) = r.turns
  BY DEF IsAnswer, Sound
<1>2. PICK k \in DOMAIN IdCaps : a \in Listings(r, ProjectClusters(r, IdCaps[k]), k)
  BY DEF FindClustersAnswers
<1> DEFINE shown == ProjectClusters(r, IdCaps[k])
           N == Len(r.clusters)
<1>3. r.clusters \in Seq(ToSet(r.clusters)) /\ N \in Nat /\ DOMAIN r.clusters = 1..N
      /\ \A c \in ToSet(r.clusters) : \E n \in 1..N : r.clusters[n] = c
  <2> DEFINE M == ToSet(r.clusters)
  <2>1. r.clusters \in Seq(M)
    BY <1>1 DEF Lists
  <2>2. \A c \in M : \E n \in 1..N : r.clusters[n] = c
    <3> HIDE DEF M
    <3>1. M = ToSet(r.clusters)
      BY DEF M
    <3> QED
      BY <2>1, <3>1, ElementsOf
  <2> HIDE DEF M
  <2>3. N \in Nat /\ DOMAIN r.clusters = 1..N
    BY <2>1
  <2> QED
    BY <2>1, <2>2, <2>3 DEF M
<1>4. /\ DOMAIN shown = 1..N /\ Len(shown) = N
      /\ \A n \in 1..N : shown[n] = ProjectCluster(r.clusters[n], IdCaps[k])
      /\ shown = [n \in 1..N |-> ProjectCluster(r.clusters[n], IdCaps[k])]
  BY <1>3 DEF ProjectClusters
<1>5. ASSUME NEW n \in 1..N
      PROVE  /\ \A h \in ToSet(shown[n].hints) : {h.atom} \cup h.by \subseteq ToSet(shown[n].ids)
             /\ ~shown[n].cut => ToSet(shown[n].ids) = r.clusters[n].ids
  <2> DEFINE c == r.clusters[n]
             cap == IdCaps[k]
  <2>1. c \in ToSet(r.clusters)
    BY <1>3
  <2>2. c.ids \in SUBSET Ids /\ c.hints = EnrichHints(c.ids)
    BY <1>1, <2>1 DEF Apart
  <2>3. cap \in Nat /\ HintCap \in Nat
    BY DEF ListingBounds
  <2>4. shown[n] = ProjectCluster(c, cap)
    BY <1>4
  <2> HIDE DEF c, cap, shown
  <2>5. /\ \A h \in ToSet(ProjectCluster(c, cap).hints) :
             {h.atom} \cup h.by \subseteq ToSet(ProjectCluster(c, cap).ids)
        /\ ~ProjectCluster(c, cap).cut => ToSet(ProjectCluster(c, cap).ids) = c.ids
    BY <2>2, <2>3, ProjectedIs
  <2> QED
    BY <2>4, <2>5 DEF c
<1> HIDE DEF shown, N
<1>6. PICK m \in 0..N : a = Listing(r, shown, k, m)
  <2>1. a \in {Listing(r, shown, k, n) : n \in IF k = Len(IdCaps) THEN 0..Len(shown) ELSE {Len(shown)}}
    BY <1>2 DEF Listings, shown
  <2>2. PICK n \in (IF k = Len(IdCaps) THEN 0..Len(shown) ELSE {Len(shown)}) : a = Listing(r, shown, k, n)
    BY <2>1
  <2>3. n \in 0..N
    BY <1>3, <1>4, <2>2
  <2> QED
    BY <2>2, <2>3
<1>7. /\ a.clusters = First(shown, m)
      /\ ~a.truncated => ~r.truncated /\ ~AnyCut(First(shown, m)) /\ ~(m < Len(shown))
  BY <1>6 DEF Listing
<1>8. /\ DOMAIN First(shown, m) = 1..m /\ \A n \in 1..m : First(shown, m)[n] = shown[n] /\ n \in 1..N
  <2>1. First(shown, m) = SubSeq(shown, 1, m)
    BY <1>3, <1>4, <1>6 DEF First
  <2>2. m \in Nat /\ \A n \in 1..m : n \in 1..N
    BY <1>3, <1>6
  <2>3. SubSeq(shown, 1, m) = [n \in 1..m |-> shown[(1 + n) - 1]]
    BY <2>2
  <2>4. \A n \in 1..m : (1 + n) - 1 = n
    BY <2>2
  <2> QED
    BY <2>1, <2>2, <2>3, <2>4
<1> DEFINE cs == a.clusters
<1>9. DOMAIN cs = 1..m /\ \A n \in 1..m : cs[n] = shown[n] /\ n \in 1..N
  BY <1>7, <1>8
<1>10. ASSUME NEW n \in DOMAIN cs, NEW h \in ToSet(cs[n].hints)
       PROVE  {h.atom} \cup h.by \subseteq ToSet(cs[n].ids)
  BY <1>5, <1>9
<1>11. ASSUME ~a.truncated PROVE UNION {ToSet(cs[n].ids) : n \in DOMAIN cs} = r.turns
  <2>1. ~r.truncated /\ ~AnyCut(cs) /\ m = N
    BY <1>3, <1>4, <1>6, <1>7, <1>11
  <2>2. \A n \in 1..N : ToSet(cs[n].ids) = r.clusters[n].ids
    BY <1>5, <1>9, <2>1 DEF AnyCut
  <2>3. KeptOf(r) = UNION {c.ids : c \in ToSet(r.clusters)}
    BY DEF KeptOf
  <2> HIDE DEF cs
  <2>4. \A n \in 1..N : r.clusters[n] \in ToSet(r.clusters)
    BY <1>3
  <2>5. UNION {ToSet(cs[n].ids) : n \in DOMAIN cs} \subseteq KeptOf(r)
    BY <1>9, <2>1, <2>2, <2>3, <2>4
  <2>6. ASSUME NEW i \in KeptOf(r) PROVE i \in UNION {ToSet(cs[n].ids) : n \in DOMAIN cs}
    <3>1. PICK c \in ToSet(r.clusters) : i \in c.ids
      BY <2>3
    <3>2. PICK n \in 1..N : r.clusters[n] = c
      BY <1>3
    <3> QED
      BY <1>9, <2>1, <2>2, <3>1, <3>2
  <2> QED
    BY <1>1, <2>1, <2>5, <2>6
<1> QED
  BY <1>10, <1>11 DEF ListingHonest, cs

LEMMA HonestIs ==
  ASSUME EventBounds, StorageBounds, ClusterBounds, WorkBounds, ListingBounds,
         NEW rows \in SUBSET Rows, NEW p, IsCall(p), p.reps \in Nat, NEW at \in Int
  PROVE  HonestAbout(GetRecentWorkContext(rows, p, at), p)
<1> DEFINE r == GetRecentWorkContext(rows, p, at)
           q == Within(p, <<r.since, r.until>>)
<1>1. Recent(r, rows, p)
  BY RecentIs
<1> HIDE DEF r
<1>2. IsAnswer(r, q)
  BY <1>1 DEF Recent
<1>3. q.limit = p.limit /\ q.hint = p.hint
  BY WithinIs
<1> HIDE DEF q
<1>4. LimitHonest(r, p.limit, KeptOf(r)) /\ Apart(ToSet(r.clusters))
  BY <1>2, <1>3 DEF IsAnswer, Sound
<1>5. GroupsPartition(BuildDiscoveryGroups(r, p.by, p.reps), KeptOf(r))
  <2> DEFINE groups == BuildDiscoveryGroups(r, p.by, p.reps)
             n == p.reps
  <2>1. Grouped(BuildDiscoveryGroups(r, p.by, n), KeptOf(r), n)
    <3>1. n \in Nat
      OBVIOUS
    <3> HIDE DEF n
    <3> QED
      BY <1>4, <3>1, GroupsAre
  <2>2. Grouped(groups, KeptOf(r), n)
    BY <2>1
  <2> HIDE DEF groups, n
  <2>3. GroupsPartition(groups, KeptOf(r))
    BY <2>2, Partitioned
  <2> QED
    BY <2>3 DEF groups
<1>6. p.hint = {} => \A a \in FindClustersAnswers(r) : ListingHonest(r, a)
  BY <1>2, <1>3, ListingIs
<1>7. HonestAbout(r, p)
  BY <1>4, <1>5, <1>6 DEF HonestAbout
<1> QED
  BY <1>7 DEF r

LEMMA AskedCalls == \A p \in MCRecent : IsCall(p) /\ p.reps = 1
<1> SUFFICES ASSUME NEW p \in MCRecent PROVE IsCall(p) /\ p.reps = 1
  OBVIOUS
<1>1. PICK w \in {<<>>, <<1, 4>>, <<0, 3>>}, n \in {1, 2, 4}, h \in {{}, {1}} :
        p = [Job(4, w, "thread", 1, 1, n) EXCEPT !.hint = h]
  BY DEF MCRecent
<1>2. p = [at |-> 4, window |-> w, since |-> 0, until |-> 0, by |-> "thread", size |-> 1,
           reps |-> 1, limit |-> n, gap |-> 1, hint |-> h, scans |-> Everything,
           keeps |-> Everything]
  BY <1>1 DEF Job
<1>3. IsCall(p)
  <2>1. /\ p.at = 4 /\ p.window = w /\ p.since = 0 /\ p.until = 0 /\ p.by = "thread" /\ p.size = 1
        /\ p.reps = 1 /\ p.limit = n /\ p.gap = 1 /\ p.hint = h /\ p.scans = Everything
        /\ p.keeps = Everything
    BY <1>2
  <2>2. p.window \in {<<>>} \cup Int \X Int /\ p.limit \in Nat
    BY <2>1
  <2>3. p.window # <<>> => p.window[1] < p.window[2]
    <3>1. CASE w = <<>>
      BY <2>1, <3>1
    <3>2. CASE w = <<1, 4>>
      BY <2>1, <3>2
    <3>3. CASE w = <<0, 3>>
      BY <2>1, <3>3
    <3> QED
      BY <3>1, <3>2, <3>3
  <2> QED
    BY <1>2, <2>1, <2>2, <2>3 DEF IsCall
<1> QED
  BY <1>2, <1>3

(* DiscoveryIsHonest but for NoArgsFindsWork.                                *)
THEOREM AnswersAreHonest == ToolSpec => []OnEachLedger(LimitIsHonest)
<1> DEFINE I == tool = "groups" => ledger \subseteq Rows
<1>1. ToolInit => I
  BY DEF ToolInit, Init
<1>2. I /\ [ToolNext]_toolVars => I'
  BY LedgerGrows
<1>3. I => OnEachLedger(LimitIsHonest)
  <2> SUFFICES ASSUME ledger \subseteq Rows, NEW p \in MCRecent
               PROVE  HonestAbout(GetRecentWorkContext(ledger, p, 4), p)
    BY DEF LimitIsHonest, OnEachLedger
  <2>1. EventBounds /\ StorageBounds /\ ClusterBounds /\ WorkBounds /\ ListingBounds
    BY EventsInOrder, StorageBudgets, ToolBounds
  <2>2. IsCall(p) /\ p.reps \in Nat /\ 4 \in Int
    BY AskedCalls
  <2> QED
    BY <2>1, <2>2, HonestIs
<1> QED
  BY <1>1, <1>2, <1>3, PTL DEF ToolSpec

(* On every ledger the clusters are what their edges tie together, each of   *)
(* one project; whatever shares a task, an issue or a thread is in one, and  *)
(* the threads of a cluster are tied by tasks and issues, not by files alone *)
(* (trace/cluster.ts buildGraph, connectedComponents).                       *)
THEOREM ClustersConnected == ToolSpec => []ClustersAreThreads
<1> DEFINE I == tool = "groups" => ledger \subseteq Rows
<1>1. ToolInit => I
  BY DEF ToolInit, Init
<1>2. I /\ [ToolNext]_toolVars => I'
  BY LedgerGrows
<1>3. I => ClustersAreThreads
  <2> DEFINE T == Turns(ledger)
  <2> SUFFICES ASSUME ledger \subseteq Rows, NEW gap
               PROVE  ClustersAreThreadsOf(BuildGraph(T, gap), T, Links(T, gap))
    BY DEF ClustersAreThreads, OnEachLedger
  <2> DEFINE Known == {r.id : r \in {x \in ledger : x.kind # "malformed"}}
  <2>1. Known \in SUBSET Ids
    BY DEF Ids
  <2>2. T = LogicalTurns(Known)
    BY DEF Turns
  <2> HIDE DEF Known, T
  <2>3. EventBounds /\ WorkBounds
    BY EventsInOrder, ToolBounds
  <2>4. T \in SUBSET Ids
    BY <2>1, <2>2, <2>3, TurnsIn
  <2> QED
    BY <2>3, <2>4, GraphIsThreads
<1> QED
  BY <1>1, <1>2, <1>3, PTL DEF ToolSpec

(* The groups that a call finds in what it reads.                            *)
FoundIn(j, w, input) ==
  BuildDiscoveryGroups(BuildRecentWorkContext(input, Within(j, w)), j.by, j.reps)

JobFields(j) ==
  [at |-> j.at, window |-> j.window, since |-> j.since, until |-> j.until, by |-> j.by,
   size |-> j.size, reps |-> j.reps, limit |-> j.limit, gap |-> j.gap, hint |-> j.hint,
   scans |-> j.scans, keeps |-> j.keeps]

LEMMA JobIs ==
  ASSUME JobBounds, NEW j \in Jobs
  PROVE  /\ j = JobFields(j) /\ IsCall(j) /\ j.reps \in Nat \ {0} /\ j.size \in Nat \ {0}
         /\ j.limit \in 1..MaxOffset /\ j.at \in Nat /\ j # None
<1> DEFINE At == Nat
           Wi == {<<>>} \cup Int \X Int
           By == {"thread", "project"}
           Po == Nat \ {0}
           Li == 1..MaxOffset
           Hi == SUBSET Nat
           Cl == SUBSET {r.class : r \in Rows}
<1>1. j \in [at : At, window : Wi, since : Int, until : Int, by : By, size : Po, reps : Po,
             limit : Li, gap : Nat, hint : Hi, scans : Cl, keeps : Cl]
  BY DEF JobBounds
<1>2. j.window # <<>> => j.window[1] < j.window[2]
  BY DEF JobBounds
<1>3. j # None
  BY DEF JobBounds
<1> HIDE DEF At, Wi, By, Po, Li, Hi, Cl
<1>4. /\ j.at \in At /\ j.window \in Wi /\ j.reps \in Po /\ j.size \in Po /\ j.limit \in Li
  BY <1>1
<1>5. j = JobFields(j)
  BY <1>1 DEF JobFields
<1>6. j.limit \in Nat
  BY <1>4 DEF Li
<1>7. IsCall(j)
  BY <1>2, <1>4, <1>5, <1>6 DEF IsCall, JobFields, Wi
<1> QED
  BY <1>3, <1>4, <1>5, <1>7 DEF At, Po, Li

(* What a call finds depends on its window and on what it reads only.        *)
LEMMA CallFinds ==
  ASSUME EventBounds, StorageBounds, ClusterBounds, WorkBounds, NEW rows \in SUBSET Rows,
         NEW j, IsCall(j), j.reps \in Nat, NEW r, Recent(r, rows, j)
  PROVE  LET w == <<r.since, r.until>>
             groups == BuildDiscoveryGroups(r, j.by, j.reps)
         IN  /\ groups = FoundIn(j, w, InputFor(rows, Within(j, w)).events)
             /\ \E kept \in SUBSET Ids : Grouped(groups, kept, j.reps) /\ Cardinality(kept) \in 0..j.limit
<1> DEFINE w == <<r.since, r.until>>
           q == Within(j, w)
           groups == BuildDiscoveryGroups(r, j.by, j.reps)
           b == BuildRecentWorkContext(InputFor(rows, q).events, q)
           p == RunPass(rows, q)
           n == j.reps
<1>1. /\ w \in Int \X Int /\ w[1] < w[2] /\ IsAnswer(r, q)
      /\ ToSet(r.clusters) = ToSet(p.clusters) /\ r.seen = p.seen
  BY DEF Recent
<1>2. q.until = w[2] /\ q.limit = j.limit
  BY WithinIs
<1>3. q.until \in Int /\ q.limit \in Nat
  BY <1>1, <1>2 DEF IsCall
<1>4. j.reps \in Nat
  OBVIOUS
<1> HIDE DEF w, q
<1>5. p.clusters = b.clusters /\ p.seen = b.seen
  BY <1>3, PassIs
<1> HIDE DEF p, b
<1>6. groups = BuildDiscoveryGroups(b, j.by, j.reps)
  BY <1>1, <1>5, SameGroups
<1>7. Apart(ToSet(r.clusters)) /\ KeptOf(r) \subseteq r.turns /\ r.turns \in SUBSET Ids
      /\ Cardinality(KeptOf(r)) \in 0..j.limit
  BY <1>1, <1>2 DEF IsAnswer, Sound
<1>8. Grouped(BuildDiscoveryGroups(r, j.by, n), KeptOf(r), n)
  <2>1. n \in Nat
    BY <1>4
  <2> HIDE DEF n
  <2> QED
    BY <1>7, <2>1, GroupsAre
<1>9. KeptOf(r) \in SUBSET Ids
  BY <1>7
<1>10. groups = FoundIn(j, w, InputFor(rows, q).events)
  BY <1>6 DEF FoundIn, b, q
<1> HIDE DEF groups
<1>11. Grouped(groups, KeptOf(r), j.reps)
  BY <1>8 DEF groups
<1> QED
  BY <1>7, <1>9, <1>10, <1>11 DEF groups, q, w

(* The call a cursor stands for.                                             *)
LEMMA FrozenIs ==
  ASSUME JobBounds, job \in Jobs, NEW c, NEW w \in Int \X Int, w[1] < w[2],
         c.window = w, c.by = job.by, c.reps = job.reps
  PROVE  /\ IsCall(Frozen(c)) /\ Frozen(c).window = w /\ Frozen(c).by = job.by
         /\ Frozen(c).reps = job.reps /\ Frozen(c).size = job.size /\ Frozen(c).limit = job.limit
         /\ \A v : Within(Frozen(c), v) = Within(job, v)
<1> DEFINE j == JobFields(job)
           k == Frozen(c)
           l == [at |-> job.at, window |-> w, since |-> job.since, until |-> job.until,
                 by |-> job.by, size |-> job.size, reps |-> job.reps, limit |-> job.limit,
                 gap |-> job.gap, hint |-> job.hint, scans |-> job.scans, keeps |-> job.keeps]
<1>1. job = j /\ IsCall(job)
  BY JobIs
<1>2. k = [[[job EXCEPT !.window = w] EXCEPT !.by = job.by] EXCEPT !.reps = job.reps]
  BY DEF Frozen
<1>3. [j EXCEPT !.window = w] = l
  BY DEF JobFields
<1>4. [l EXCEPT !.by = job.by] = l
  OBVIOUS
<1>5. [l EXCEPT !.reps = job.reps] = l
  OBVIOUS
<1> HIDE DEF j, k
<1>6. k = l
  <2> HIDE DEF l
  <2> QED
    BY <1>1, <1>2, <1>3, <1>4, <1>5
<1>7. /\ k.at = job.at /\ k.window = w /\ k.since = job.since /\ k.until = job.until
      /\ k.by = job.by /\ k.size = job.size /\ k.reps = job.reps /\ k.limit = job.limit
      /\ k.gap = job.gap /\ k.hint = job.hint /\ k.scans = job.scans /\ k.keeps = job.keeps
  BY <1>6
<1>8. IsCall(k)
  <2>1. w # <<>> /\ w \in {<<>>} \cup Int \X Int
    OBVIOUS
  <2>2. job.limit \in Nat
    BY <1>1 DEF IsCall
  <2> QED
    BY <1>6, <1>7, <2>1, <2>2 DEF IsCall
<1>9. ASSUME NEW v PROVE Within(k, v) = Within(job, v)
  <2> HIDE DEF l
  <2>1. Within(k, v) =
           [at |-> k.at, window |-> <<>>, since |-> v[1], until |-> v[2], by |-> k.by,
            size |-> k.size, reps |-> k.reps, limit |-> k.limit, gap |-> k.gap,
            hint |-> k.hint, scans |-> k.scans, keeps |-> k.keeps]
    BY <1>8, WithinIs
  <2>2. Within(job, v) =
           [at |-> job.at, window |-> <<>>, since |-> v[1], until |-> v[2], by |-> job.by,
            size |-> job.size, reps |-> job.reps, limit |-> job.limit, gap |-> job.gap,
            hint |-> job.hint, scans |-> job.scans, keeps |-> job.keeps]
    BY <1>1, WithinIs
  <2> QED
    BY <1>7, <2>1, <2>2
<1> QED
  BY <1>7, <1>8, <1>9 DEF k

(* What a cursor is answered: the groups are found anew in what is read now. *)
LEMMA AnswersAre ==
  ASSUME EventBounds, StorageBounds, ClusterBounds, WorkBounds, JobBounds,
         ledger \in SUBSET Rows, now \in Nat, job \in Jobs,
         NEW c, NEW w \in Int \X Int, w[1] < w[2], c.window = w, c.by = job.by, c.reps = job.reps,
         Decodes(c)
  PROVE  LET r == GetRecentWorkContext(ledger, Frozen(c), now)
             groups == FoundIn(job, w, InputOf(job, w))
         IN  /\ Answers(c) = Continue(r, Frozen(c), groups, c)
             /\ <<r.since, r.until>> = w
             /\ \E kept \in SUBSET Ids : Grouped(groups, kept, job.reps) /\ Cardinality(kept) \in 0..job.limit
<1> DEFINE k == Frozen(c)
           r == GetRecentWorkContext(ledger, k, now)
           groups == BuildDiscoveryGroups(r, k.by, k.reps)
           q == Within(job, w)
<1>1. /\ IsCall(k) /\ k.window = w /\ k.by = job.by /\ k.reps = job.reps /\ k.size = job.size
      /\ k.limit = job.limit /\ \A v : Within(k, v) = Within(job, v)
  BY FrozenIs
<1>2. job.reps \in Nat /\ now \in Int /\ IsCall(job)
  BY JobIs
<1>3. w # <<>>
  BY PairsAre
<1>4. Answers(c) = Continue(r, k, BuildDiscoveryGroups(r, c.by, c.reps), c)
  BY DEF Answers, ContinueOver
<1>5. Answers(c) = Continue(r, k, groups, c)
  BY <1>1, <1>4
<1> HIDE DEF k
<1>6. Recent(r, ledger, k) /\ <<r.since, r.until>> = k.window
  BY <1>1, <1>2, <1>3, RecentIs
<1> HIDE DEF r
<1>7. <<r.since, r.until>> = w
  BY <1>1, <1>6
<1>8. k.reps \in Nat
  BY <1>1, <1>2
<1>9. /\ groups = FoundIn(k, w, InputFor(ledger, Within(k, w)).events)
      /\ \E kept \in SUBSET Ids : Grouped(groups, kept, k.reps) /\ Cardinality(kept) \in 0..k.limit
  <2> HIDE DEF groups
  <2>1. IsCall(k) /\ Recent(r, ledger, k)
    BY <1>1, <1>6
  <2> DEFINE v == <<r.since, r.until>>
  <2>2. /\ BuildDiscoveryGroups(r, k.by, k.reps) = FoundIn(k, v, InputFor(ledger, Within(k, v)).events)
        /\ \E kept \in SUBSET Ids : /\ Grouped(BuildDiscoveryGroups(r, k.by, k.reps), kept, k.reps)
                                   /\ Cardinality(kept) \in 0..k.limit
    BY <2>1, <1>8, CallFinds
  <2>3. v = w /\ groups = BuildDiscoveryGroups(r, k.by, k.reps)
    BY <1>7 DEF groups
  <2> HIDE DEF v
  <2> QED
    BY <2>2, <2>3
<1> HIDE DEF groups
<1>10. InputFor(ledger, Within(k, w)).events = InputOf(job, w)
  <2>1. Within(job, w).limit = job.limit
    BY <1>2, WithinIs
  <2> QED
    BY <1>1, <2>1 DEF InputFor, InputOf
<1>11. \A input : FoundIn(k, w, input) = FoundIn(job, w, input)
  BY <1>1 DEF FoundIn
<1>12. groups = FoundIn(job, w, InputOf(job, w))
  BY <1>9, <1>10, <1>11
<1> QED
  BY <1>1, <1>5, <1>7, <1>9, <1>12 DEF r, k

LEMMA SliceIs ==
  ASSUME NEW s, IsSeq(s), NEW k \in Nat, NEW n \in Nat, k + n <= Len(s)
  PROVE  /\ Slice(s, k, n) \in Seq(ToSet(s)) /\ Len(Slice(s, k, n)) = n
         /\ \A i \in 1..n : Slice(s, k, n)[i] = s[k + i] /\ k + i \in 1..Len(s)
<1> DEFINE V == ToSet(s)
           u == Slice(s, k, n)
<1>1. s \in Seq(V)
  BY DEF IsSeq
<1> HIDE DEF V
<1>2. u = SubSeq(s, k + 1, k + n) /\ Len(s) \in Nat
  BY <1>1 DEF Slice
<1>3. \A i \in (k + 1)..(k + n) : i \in 1..Len(s)
  BY <1>2
<1>4. k + 1 \in Nat /\ k + n \in Nat /\ k + n - (k + 1) + 1 = n
  OBVIOUS
<1>5. u \in Seq(V) /\ Len(u) = n
  <2> DEFINE a == k + 1
             b == k + n
  <2>1. a \in Nat /\ b \in Nat /\ 1 <= a /\ b <= Len(s) /\ b - a + 1 = n
    BY <1>4
  <2> HIDE DEF a, b, u
  <2>2. u = SubSeq(s, a, b)
    BY <1>2 DEF a, b
  <2>3. \A i \in a..b : s[i] \in V
    BY <1>1, <1>3 DEF a, b
  <2>4. SubSeq(s, a, b) \in Seq(V) /\ Len(SubSeq(s, a, b)) = IF a <= b THEN b - a + 1 ELSE 0
    BY <1>1, <1>2, <2>1, <2>3
  <2> QED
    BY <2>1, <2>2, <2>4
<1>6. \A i \in 1..n : u[i] = s[k + i] /\ k + i \in 1..Len(s)
  <2> SUFFICES ASSUME NEW i \in 1..n PROVE u[i] = s[k + i] /\ k + i \in 1..Len(s)
    OBVIOUS
  <2>1. k + i \in 1..Len(s) /\ (k + 1) + i - 1 = k + i
    BY <1>2
  <2>2. u[i] = s[(k + 1) + i - 1]
    BY <1>1, <1>2, <1>3, <1>4
  <2> QED
    BY <2>1, <2>2
<1> QED
  BY <1>5, <1>6 DEF u, V

LEMMA SentIs ==
  ASSUME NEW s, IsSeq(s), NEW k \in 0..Len(s), NEW size \in Nat \ {0}, NEW n \in Sent(s, k, size)
  PROVE  n \in Nat /\ k + n \in 0..Len(s) /\ (k < Len(s) => n >= 1)
<1> DEFINE V == ToSet(s)
           most == Smallest(size, Len(s) - k)
<1>1. s \in Seq(V)
  BY DEF IsSeq
<1> HIDE DEF V
<1>2. Len(s) \in Nat
  BY <1>1
<1>3. most \in Nat /\ k + most <= Len(s) /\ (k < Len(s) => most >= 1)
  BY <1>2 DEF Smallest
<1>4. n \in (IF most = 0 THEN 0 ELSE 1)..most
  BY DEF Sent
<1> HIDE DEF most
<1> QED
  BY <1>2, <1>3, <1>4

(* The cursors of a listing.                                                 *)
CursorTo(w, j, kind, offset, size, digest, key) ==
  [kind |-> kind, window |-> w, by |-> j.by, offset |-> offset, size |-> size,
   reps |-> j.reps, digest |-> digest, key |-> key]

GroupsTo(w, j, groups, offset) ==
  CursorTo(w, j, "groups", offset, j.size, SetDigest(groups), {})

MembersTo(w, j, g, offset) ==
  CursorTo(w, j, "members", offset, MemberSize, <<Digest(g)>>, {g.key})

RestOf(w, j, g) ==
  IF Len(g.order) > Len(g.reps) THEN {MembersTo(w, j, g, Len(g.reps))} ELSE {}

(* A page of headers, n of them behind the offset k.                         *)
IsGroupPage(a, w, j, groups, k, n) ==
  /\ a.code = None /\ n \in Nat /\ k + n \in 0..Len(groups) /\ (k < Len(groups) => n >= 1)
  /\ IsSeq(a.page) /\ Len(a.page) = n
  /\ \A i \in 1..n : /\ k + i \in 1..Len(groups) /\ a.page[i].group = groups[k + i]
                     /\ a.page[i].more = RestOf(w, j, groups[k + i])
  /\ a.next = IF k + n < Len(groups) THEN {GroupsTo(w, j, groups, k + n)} ELSE {}

LEMMA GroupPagesAre ==
  ASSUME NEW r, NEW w, <<r.since, r.until>> = w, NEW j, j.size \in Nat \ {0}, NEW groups,
         IsSeq(groups), NEW k \in 0..Len(groups), NEW a \in GroupPages(r, j, groups, k)
  PROVE  \E n \in Nat : IsGroupPage(a, w, j, groups, k, n)
<1>1. PICK n \in Sent(groups, k, j.size) : a = GroupPage(r, j, groups, k, n)
  BY DEF GroupPages
<1>2. n \in Nat /\ k + n \in 0..Len(groups) /\ (k < Len(groups) => n >= 1)
  <2> DEFINE size == j.size
  <2>1. size \in Nat \ {0} /\ n \in Sent(groups, k, size)
    BY <1>1
  <2> HIDE DEF size
  <2> QED
    BY <2>1, SentIs
<1>3. k \in Nat /\ k + n <= Len(groups)
  BY <1>2
<1>4. \A i \in 1..n : Slice(groups, k, n)[i] = groups[k + i] /\ k + i \in 1..Len(groups)
  BY <1>2, <1>3, SliceIs
<1>5. /\ a.code = None /\ a.page = [m \in 1..n |-> Header(r, j, Slice(groups, k, n)[m])]
      /\ a.next = IF AfterPage(k, n, j.size) < Len(groups)
                    THEN {GroupCursor(r, j, groups, AfterPage(k, n, j.size))} ELSE {}
  BY <1>1 DEF GroupPage
<1>6. \A o : GroupCursor(r, j, groups, o) = GroupsTo(w, j, groups, o)
  BY DEF GroupCursor, Cursor, GroupsTo, CursorTo
<1>7. a.next = IF k + n < Len(groups) THEN {GroupsTo(w, j, groups, k + n)} ELSE {}
  BY <1>5, <1>6 DEF AfterPage
<1>8. \A g : Header(r, j, g).group = g /\ Header(r, j, g).more = RestOf(w, j, g)
  BY DEF Header, RestOf, MemberCursor, Cursor, MembersTo, CursorTo
<1> DEFINE p == a.page
<1>9. /\ \A i \in 1..n : p[i] = Header(r, j, groups[k + i])
      /\ p = [i \in 1..n |-> p[i]] /\ DOMAIN p = 1..n
  BY <1>4, <1>5
<1>10. IsSeq(p) /\ Len(p) = n
  <2> HIDE DEF p
  <2>1. ToSet(p) = {p[i] : i \in 1..n}
    BY <1>9 DEF ToSet
  <2> DEFINE X == ToSet(p)
  <2>2. \A i \in 1..n : p[i] \in X
    BY <2>1
  <2> HIDE DEF X
  <2>3. p \in Seq(X) /\ Len(p) = n
    BY <1>2, <1>9, <2>2, SMTT(30)
  <2> QED
    BY <2>3 DEF IsSeq, X
<1>11. \A i \in 1..n : p[i].group = groups[k + i] /\ p[i].more = RestOf(w, j, groups[k + i])
  BY <1>8, <1>9
<1>12. IsGroupPage(a, w, j, groups, k, n)
  BY <1>2, <1>4, <1>5, <1>7, <1>10, <1>11 DEF IsGroupPage
<1> QED
  BY <1>2, <1>12

(* A page of members, n of them behind the offset k.                         *)
IsMemberPage(a, w, j, g, k, n) ==
  /\ a.code = None /\ n \in Nat /\ k + n \in 0..Len(g.order)
  /\ IsSeq(a.page) /\ Len(a.page) = n
  /\ \A i \in 1..n : k + i \in 1..Len(g.order) /\ a.page[i] = g.order[k + i]
  /\ a.next = IF k + n < Len(g.order) THEN {MembersTo(w, j, g, k + n)} ELSE {}

LEMMA MemberPagesAre ==
  ASSUME NEW r, NEW w, <<r.since, r.until>> = w, NEW j, MemberSize \in Nat \ {0}, NEW g,
         IsSeq(g.order), NEW k \in 0..Len(g.order), NEW a \in MemberPages(r, j, g, k)
  PROVE  \E n \in Nat : IsMemberPage(a, w, j, g, k, n)
<1> DEFINE s == g.order
<1>1. PICK n \in Sent(s, k, MemberSize) : a = MemberPage(r, j, g, k, n)
  BY DEF MemberPages
<1>2. IsSeq(s) /\ k \in 0..Len(s)
  OBVIOUS
<1> HIDE DEF s
<1>3. n \in Nat /\ k + n \in 0..Len(s)
  BY <1>1, <1>2, SentIs
<1>4. k \in Nat /\ k + n <= Len(s)
  BY <1>2, <1>3
<1>5. /\ Slice(s, k, n) \in Seq(ToSet(s)) /\ Len(Slice(s, k, n)) = n
      /\ \A i \in 1..n : Slice(s, k, n)[i] = s[k + i] /\ k + i \in 1..Len(s)
  BY <1>2, <1>3, <1>4, SliceIs
<1>6. /\ a.code = None /\ a.page = Slice(s, k, n)
      /\ a.next = IF AfterPage(k, n, MemberSize) < Len(s)
                    THEN {MemberCursor(r, j, g, AfterPage(k, n, MemberSize))} ELSE {}
  BY <1>1 DEF MemberPage, s
<1>7. a.next = IF k + n < Len(s) THEN {MembersTo(w, j, g, k + n)} ELSE {}
  BY <1>6 DEF AfterPage, MemberCursor, Cursor, MembersTo, CursorTo
<1> DEFINE p == a.page
<1>8. p \in Seq(ToSet(s)) /\ Len(p) = n
  BY <1>5, <1>6
<1> HIDE DEF p
<1>9. IsSeq(p)
  <2>1. \A i \in 1..Len(p) : p[i] \in ToSet(p)
    BY <1>8, ElementsOf
  <2> DEFINE X == ToSet(p)
  <2>2. p = [i \in 1..n |-> p[i]] /\ \A i \in 1..n : p[i] \in X
    BY <1>8, <2>1
  <2> HIDE DEF X
  <2>3. p \in Seq(X)
    BY <1>3, <2>2
  <2> QED
    BY <2>3 DEF IsSeq, X
<1>10. IsMemberPage(a, w, j, g, k, n)
  BY <1>3, <1>5, <1>6, <1>7, <1>8, <1>9 DEF IsMemberPage, s, p
<1> QED
  BY <1>3, <1>10

(* Groups that tell the same but for the number of their threads.            *)
GroupRec(g) ==
  g = [key |-> g.key, reps |-> g.reps, order |-> g.order, raw |-> g.raw,
       threads |-> g.threads, to |-> g.to]

Alike(g, h) ==
  /\ GroupRec(g) /\ GroupRec(h)
  /\ g.key = h.key /\ g.reps = h.reps /\ g.order = h.order /\ g.raw = h.raw /\ g.to = h.to

LEMMA AlikeTold ==
  ASSUME NEW g, NEW h, Alike(g, h)
  PROVE  /\ [g EXCEPT !.threads = {}] = [h EXCEPT !.threads = {}] /\ Digest(g) = Digest(h)
         /\ \A w, j, k : MembersTo(w, j, g, k) = MembersTo(w, j, h, k)
<1>1. ASSUME NEW x, GroupRec(x)
      PROVE  [x EXCEPT !.threads = {}]
               = [key |-> x.key, reps |-> x.reps, order |-> x.order, raw |-> x.raw,
                  threads |-> {}, to |-> x.to]
  <2> DEFINE v == [key |-> x.key, reps |-> x.reps, order |-> x.order, raw |-> x.raw,
                   threads |-> x.threads, to |-> x.to]
  <2>1. [v EXCEPT !.threads = {}]
          = [key |-> x.key, reps |-> x.reps, order |-> x.order, raw |-> x.raw,
             threads |-> {}, to |-> x.to]
    OBVIOUS
  <2>2. x = v
    BY <1>1 DEF GroupRec
  <2> HIDE DEF v
  <2> QED
    BY <2>1, <2>2
<1>2. [g EXCEPT !.threads = {}] = [h EXCEPT !.threads = {}]
  <2>1. GroupRec(g) /\ GroupRec(h)
    BY DEF Alike
  <2>2. [g EXCEPT !.threads = {}]
          = [key |-> g.key, reps |-> g.reps, order |-> g.order, raw |-> g.raw,
             threads |-> {}, to |-> g.to]
    BY <1>1, <2>1
  <2>3. [h EXCEPT !.threads = {}]
          = [key |-> h.key, reps |-> h.reps, order |-> h.order, raw |-> h.raw,
             threads |-> {}, to |-> h.to]
    BY <1>1, <2>1
  <2> QED
    BY <2>2, <2>3 DEF Alike
<1>3. Digest(g) = Digest(h)
  BY DEF Alike, Digest
<1>4. \A w, j, k : MembersTo(w, j, g, k) = MembersTo(w, j, h, k)
  BY <1>3 DEF Alike, MembersTo
<1> QED
  BY <1>2, <1>3, <1>4

LEMMA DigestTells ==
  ASSUME NEW n, NEW T, NEW U, NEW g, NEW h, IsGroup(g, n, T), IsGroup(h, n, U),
         Digest(g) = Digest(h)
  PROVE  Alike(g, h)
<1>1. g.key = h.key /\ g.order = h.order /\ g.raw = h.raw
  BY DEF Digest
<1>2. T = U
  BY <1>1 DEF IsGroup, Lists
<1>3. g.reps = h.reps /\ g.to = h.to /\ GroupRec(g) /\ GroupRec(h)
  BY <1>2 DEF IsGroup, GroupRec
<1> QED
  BY <1>1, <1>3 DEF Alike

FoundGroups(groups, j) ==
  \E kept \in SUBSET Ids : Grouped(groups, kept, j.reps) /\ Cardinality(kept) \in 0..j.limit

(* What a listing may rely on.                                               *)
LEMMA GroupsKnown ==
  ASSUME EventBounds, WorkBounds, NEW j, j.reps \in Nat, j.limit \in Nat, NEW groups,
         FoundGroups(groups, j)
  PROVE  /\ IsSeq(groups) /\ DOMAIN groups = 1..Len(groups) /\ Len(groups) \in 0..j.limit
         /\ \A m, n \in 1..Len(groups) : groups[m].key = groups[n].key => m = n
         /\ \A n \in 1..Len(groups) :
              LET g == groups[n]
              IN  /\ \E T \in SUBSET Ids : IsGroup(g, j.reps, T)
                  /\ Alike(g, g) /\ IsSeq(g.order) /\ IsSeq(g.reps)
                  /\ Len(g.order) \in 0..j.limit /\ Len(g.reps) \in 0..Len(g.order)
                  /\ Len(g.reps) < Len(g.order) => Len(g.reps) = j.reps
                  /\ \A i \in 1..Len(g.reps) : g.reps[i] = g.order[i]
<1>1. PICK kept \in SUBSET Ids : Grouped(groups, kept, j.reps) /\ Cardinality(kept) \in 0..j.limit
  BY DEF FoundGroups
<1>2. /\ IsSeq(groups) /\ DOMAIN groups = 1..Len(groups) /\ Len(groups) \in 0..j.limit
      /\ \A m, n \in 1..Len(groups) : groups[m].key = groups[n].key => m = n
  BY <1>1 DEF Grouped, IsSeq
<1>3. IsFiniteSet(kept)
  BY <1>1, EventIds, FS_Subset
<1>4. ASSUME NEW n \in 1..Len(groups)
      PROVE  LET g == groups[n]
             IN  /\ \E T \in SUBSET Ids : IsGroup(g, j.reps, T)
                 /\ Alike(g, g) /\ IsSeq(g.order) /\ IsSeq(g.reps)
                 /\ Len(g.order) \in 0..j.limit /\ Len(g.reps) \in 0..Len(g.order)
                 /\ Len(g.reps) < Len(g.order) => Len(g.reps) = j.reps
                 /\ \A i \in 1..Len(g.reps) : g.reps[i] = g.order[i]
  <2> DEFINE g == groups[n]
             k == j.reps
  <2>1. PICK T \in SUBSET kept : IsGroup(g, k, T)
    BY <1>1, <1>2 DEF Grouped
  <2>2. k \in Nat /\ T \in SUBSET Ids
    BY <2>1
  <2> HIDE DEF g, k
  <2>3. Lists(g.order, T) /\ g.reps = Representatives(T, k)
        /\ SubSeq(g.order, 1, Len(g.reps)) = g.reps
        /\ Len(g.reps) = (IF k < Cardinality(T) THEN k ELSE Cardinality(T)) /\ GroupRec(g)
    BY <2>1 DEF IsGroup, GroupRec
  <2>4. Representatives(T, k) \in Seq(T)
    BY <2>2, RepresentativesAre
  <2>5. IsSeq(g.order) /\ IsSeq(g.reps) /\ g.order \in Seq(T) /\ Len(g.order) = Cardinality(T)
    BY <2>3, <2>4, SeqIs DEF Lists
  <2>6. IsFiniteSet(T) /\ Cardinality(T) <= Cardinality(kept) /\ Cardinality(T) \in Nat
    BY <1>3, <2>1, FS_Subset, FS_CardinalityType
  <2>7. Len(g.order) \in 0..j.limit
    BY <1>1, <2>5, <2>6
  <2>8. Len(g.reps) \in 0..Len(g.order) /\ (Len(g.reps) < Len(g.order) => Len(g.reps) = k)
    BY <2>2, <2>3, <2>5, <2>6
  <2>9. \A i \in 1..Len(g.reps) : g.reps[i] = g.order[i]
    <3> DEFINE m == Len(g.reps)
               s == g.order
               t == SubSeq(s, 1, m)
    <3>1. m \in 0..Len(s) /\ s \in Seq(T) /\ Len(s) \in Nat
      BY <2>5, <2>6, <2>8
    <3> HIDE DEF m, s
    <3>2. \A i \in 1..m : t[i] = s[i]
      BY <3>1
    <3> QED
      BY <2>3, <3>2 DEF m, s
  <2>10. Alike(g, g)
    BY <2>3 DEF Alike
  <2> QED
    BY <2>1, <2>2, <2>5, <2>7, <2>8, <2>9, <2>10 DEF g, k
<1> QED
  BY <1>2, <1>4

--------------------------------------------------------------------------------
(* A listing, whatever has been captured meanwhile.                          *)
ListedOf(w, j, groups, l, nx, open) ==
  /\ IsSeq(l) /\ Len(l) \in 0..Len(groups) /\ (Len(groups) # 0 => Len(l) # 0)
  /\ \A n \in 1..Len(l) : Alike(l[n].group, groups[n]) /\ l[n].more = RestOf(w, j, groups[n])
  /\ open => nx = IF Len(l) < Len(groups) THEN {GroupsTo(w, j, groups, Len(l))} ELSE {}

ReadOf(w, j, groups, g, m, rs, open) ==
  /\ \E n \in 1..Len(groups) : Alike(g, groups[n])
  /\ IsSeq(m) /\ Len(g.reps) + Len(m) \in 0..Len(g.order)
  /\ \A i \in 1..Len(m) : m[i] = g.order[Len(g.reps) + i]
  /\ open => rs = IF Len(g.reps) + Len(m) < Len(g.order)
                    THEN {MembersTo(w, j, g, Len(g.reps) + Len(m))} ELSE {}

OpenedOf(w, j, groups, o, m, rs, open) ==
  /\ o = {} => rs = {}
  /\ \A g, h \in o : g = h
  /\ \A g \in o : ReadOf(w, j, groups, g, m, rs, open)

ExpectedIs(j, x) ==
  /\ x = [window |-> x.window, input |-> x.input, groups |-> x.groups, last |-> x.last]
  /\ x.window \in Int \X Int /\ x.window[1] < x.window[2]
  /\ x.groups = FoundIn(j, x.window, x.input) /\ FoundGroups(x.groups, j)

GroupInv ==
  /\ ledger \in SUBSET Rows /\ now \in Nat
  /\ job = None => /\ next = {} /\ rest = {} /\ listed = <<>> /\ opened = {}
                   /\ refused = None
  /\ job # None =>
       /\ job \in Jobs /\ ExpectedIs(job, expected)
       /\ ListedOf(expected.window, job, expected.groups, listed, next, refused = None)
       /\ OpenedOf(expected.window, job, expected.groups, opened, members, rest, refused = None)
       /\ refused # None => refused = "STALE" /\ expected.last # expected.input

GroupAssumed == EventBounds /\ StorageBounds /\ ClusterBounds /\ WorkBounds /\ JobBounds

LEMMA GroupStart == Init => GroupInv
BY DEF Init, GroupInv

Idle == UNCHANGED groupVars /\ UNCHANGED <<ledger, refused>>

LEMMA GroupKept ==
  ASSUME GroupInv, Capture \/ Tick \/ Idle
  PROVE  GroupInv'
<1>1. ledger' \in SUBSET Rows /\ now' \in Nat
  BY DEF GroupInv, Capture, Tick, AppendEvent, groupVars, Idle
<1>2. UNCHANGED <<job, next, listed, opened, rest, members, refused, expected>>
  BY DEF Capture, Tick, groupVars, Idle
<1>3. job' = job /\ next' = next /\ listed' = listed /\ opened' = opened /\ rest' = rest
      /\ members' = members /\ refused' = refused /\ expected' = expected
  BY <1>2
<1> QED
  BY <1>1, <1>3 DEF GroupInv

(* The pages received are what was promised.                                 *)
LEMMA GroupsHold ==
  ASSUME GroupAssumed, GroupInv
  PROVE  PagesAddUp /\ RefusedForCause
<1>1. RefusedForCause
  BY DEF GroupInv, RefusedForCause
<1>2. PagesAddUp
  <2> SUFFICES ASSUME job # None
               PROVE  /\ IsPrefix(HeadersOf(listed), Told(expected.groups))
                      /\ refused = None /\ next = {} => HeadersOf(listed) = Told(expected.groups)
                      /\ \A g \in opened :
                           /\ IsPrefix(g.reps \o members, g.order)
                           /\ refused = None /\ rest = {} => g.reps \o members = g.order
    BY DEF PagesAddUp
  <2> DEFINE w == expected.window
             E == expected.groups
             Q == Told(E)
             H == HeadersOf(listed)
             n == Len(listed)
  <2>1. /\ job \in Jobs /\ FoundGroups(E, job)
        /\ ListedOf(w, job, E, listed, next, refused = None)
        /\ OpenedOf(w, job, E, opened, members, rest, refused = None)
    BY DEF GroupInv, ExpectedIs
  <2>2. job.reps \in Nat /\ job.limit \in Nat
    BY <2>1, JobIs DEF GroupAssumed
  <2> HIDE DEF E, w
  <2>3. /\ IsSeq(E) /\ DOMAIN E = 1..Len(E) /\ Len(E) \in Nat
        /\ \A m \in 1..Len(E) : /\ Alike(E[m], E[m]) /\ IsSeq(E[m].order) /\ IsSeq(E[m].reps)
                                /\ Len(E[m].reps) \in Nat /\ Len(E[m].order) \in Nat
                                /\ Len(E[m].reps) <= Len(E[m].order)
                                /\ \A i \in 1..Len(E[m].reps) : E[m].reps[i] = E[m].order[i]
    BY <2>1, <2>2, GroupsKnown DEF GroupAssumed
  <2>4. /\ IsSeq(listed) /\ n \in 0..Len(E)
        /\ \A m \in 1..n : Alike(listed[m].group, E[m])
        /\ refused = None /\ next = {} => n = Len(E)
    <3>1. /\ IsSeq(listed) /\ n \in 0..Len(E)
          /\ \A m \in 1..n : Alike(listed[m].group, E[m])
      BY <2>1 DEF ListedOf
    <3>2. refused = None => next = IF n < Len(E) THEN {GroupsTo(w, job, E, n)} ELSE {}
      BY <2>1 DEF ListedOf
    <3>3. refused = None /\ next = {} => ~(n < Len(E))
      BY <3>2
    <3> QED
      BY <2>3, <3>1, <3>3
  <2>5. /\ Q = [m \in 1..Len(E) |-> [E[m] EXCEPT !.threads = {}]]
        /\ H = [m \in 1..n |-> [listed[m].group EXCEPT !.threads = {}]]
    <3>1. DOMAIN listed = 1..n
      BY <2>4 DEF IsSeq
    <3>2. H = Told([m \in 1..n |-> listed[m].group])
      BY <3>1 DEF HeadersOf
    <3> QED
      BY <2>3, <3>1, <3>2 DEF Told
  <2> HIDE DEF n, Q, H
  <2>6. \A m \in 1..n : H[m] = Q[m]
    <3> SUFFICES ASSUME NEW m \in 1..n PROVE H[m] = Q[m]
      OBVIOUS
    <3>1. m \in 1..Len(E)
      <4>1. n \in 0..Len(E) /\ Len(E) \in Nat
        BY <2>3, <2>4
      <4> QED
        BY <4>1
    <3>2. Alike(listed[m].group, E[m])
      BY <2>4
    <3> QED
      BY <2>5, <3>1, <3>2, AlikeTold
  <2>7. Len(H) = n /\ Len(Q) = Len(E) /\ DOMAIN H = 1..n /\ DOMAIN Q = 1..Len(E) /\ n \in Nat
        /\ Len(E) \in Nat /\ n <= Len(E)
    BY <2>3, <2>4, <2>5
  <2>8. IsPrefix(H, Q)
    <3>1. SubSeq(H, 1, n) = [m \in 1..n |-> H[m]] /\ SubSeq(Q, 1, n) = [m \in 1..n |-> Q[m]]
      BY <2>7
    <3> QED
      BY <2>6, <2>7, <3>1 DEF IsPrefix
  <2>9. refused = None /\ next = {} => H = Q
    BY <2>4, <2>5, <2>6, <2>7
  <2>10. ASSUME NEW g \in opened
         PROVE  /\ IsPrefix(g.reps \o members, g.order)
                /\ refused = None /\ rest = {} => g.reps \o members = g.order
    <3> DEFINE s == g.reps
               t == members
               o == g.order
               u == s \o t
    <3>1. /\ \E m \in 1..Len(E) : Alike(g, E[m])
          /\ IsSeq(t) /\ Len(s) + Len(t) \in 0..Len(o)
          /\ \A i \in 1..Len(t) : t[i] = o[Len(s) + i]
          /\ refused = None => rest = IF Len(s) + Len(t) < Len(o)
                    THEN {MembersTo(w, job, g, Len(s) + Len(t))} ELSE {}
      BY <2>1 DEF OpenedOf, ReadOf
    <3>2. PICK m \in 1..Len(E) : Alike(g, E[m])
      BY <3>1
    <3>3. s = E[m].reps /\ o = E[m].order
      BY <3>2 DEF Alike
    <3>4. /\ IsSeq(s) /\ IsSeq(o) /\ Len(s) \in Nat /\ Len(o) \in Nat
          /\ \A i \in 1..Len(s) : s[i] = o[i]
      BY <2>3, <3>3
    <3> HIDE DEF s, t, o
    <3>5. /\ IsSeq(u) /\ Len(u) = Len(s) + Len(t) /\ Len(t) \in Nat
          /\ \A i \in 1..Len(s) : u[i] = s[i]
          /\ \A i \in 1..Len(t) : u[Len(s) + i] = t[i]
      BY <3>1, <3>4, SeqJoin DEF IsSeq
    <3> HIDE DEF u
    <3>6. Len(u) \in Nat /\ Len(u) <= Len(o)
      BY <3>1, <3>4, <3>5
    <3>7. \A i \in 1..Len(u) : u[i] = o[i]
      <4> SUFFICES ASSUME NEW i \in 1..Len(u) PROVE u[i] = o[i]
        OBVIOUS
      <4>1. CASE i <= Len(s)
        <5>1. i \in 1..Len(s)
          BY <3>4, <4>1
        <5> QED
          BY <3>4, <3>5, <5>1
      <4>2. CASE ~(i <= Len(s))
        <5>1. i - Len(s) \in 1..Len(t) /\ Len(s) + (i - Len(s)) = i
          BY <3>4, <3>5, <4>2
        <5> QED
          BY <3>1, <3>5, <5>1
      <4> QED
        BY <4>1, <4>2
    <3>8. SubSeq(u, 1, Len(u)) = [i \in 1..Len(u) |-> u[i]]
          /\ SubSeq(o, 1, Len(u)) = [i \in 1..Len(u) |-> o[i]]
      BY <3>4, <3>5, <3>6 DEF IsSeq
    <3>9. IsPrefix(u, o)
      BY <3>6, <3>7, <3>8 DEF IsPrefix
    <3>10. refused = None /\ rest = {} => Len(u) = Len(o)
      <4>1. refused = None /\ rest = {} => ~(Len(s) + Len(t) < Len(o))
        BY <3>1
      <4> QED
        BY <3>4, <3>5, <3>6, <4>1
    <3>11. Len(u) = Len(o) => u = o
      BY <3>4, <3>5, <3>7 DEF IsSeq
    <3> QED
      BY <3>9, <3>10, <3>11 DEF u, s, t, o
  <2> QED
    BY <2>8, <2>9, <2>10 DEF H, Q, E
<1> QED
  BY <1>1, <1>2

LEMMA AlikeRest ==
  ASSUME NEW g, NEW h, Alike(g, h), NEW w, NEW j
  PROVE  RestOf(w, j, g) = RestOf(w, j, h)
<1>0. Digest(g) = Digest(h)
  BY DEF Alike, Digest
<1>1. \A k : MembersTo(w, j, g, k) = MembersTo(w, j, h, k)
  BY <1>0 DEF Alike, MembersTo
<1>2. g.order = h.order /\ g.reps = h.reps
  BY DEF Alike
<1> QED
  BY <1>1, <1>2 DEF RestOf

LEMMA AlikeAgain ==
  ASSUME NEW f, NEW g, NEW h, Alike(f, g), Alike(g, h) PROVE Alike(f, h) /\ Alike(g, f)
BY DEF Alike

LEMMA SetsTell ==
  ASSUME EventBounds, WorkBounds, NEW j, j.reps \in Nat, j.limit \in Nat,
         NEW E, NEW F, FoundGroups(E, j), FoundGroups(F, j), SetDigest(F) = SetDigest(E)
  PROVE  /\ Len(F) = Len(E) /\ \A n \in 1..Len(E) : Alike(F[n], E[n])
         /\ \A w, k : GroupsTo(w, j, F, k) = GroupsTo(w, j, E, k)
<1>1. /\ DOMAIN E = 1..Len(E) /\ Len(E) \in Nat
      /\ \A n \in 1..Len(E) : \E T \in SUBSET Ids : IsGroup(E[n], j.reps, T)
  BY GroupsKnown
<1>2. /\ DOMAIN F = 1..Len(F) /\ Len(F) \in Nat
      /\ \A n \in 1..Len(F) : \E T \in SUBSET Ids : IsGroup(F[n], j.reps, T)
  BY GroupsKnown
<1> DEFINE d == SetDigest(E)
           e == SetDigest(F)
<1>3. DOMAIN d = DOMAIN E /\ \A n \in DOMAIN E : d[n] = Digest(E[n])
  BY DEF SetDigest
<1>4. DOMAIN e = DOMAIN F /\ \A n \in DOMAIN F : e[n] = Digest(F[n])
  BY DEF SetDigest
<1>5. d = e
  OBVIOUS
<1> HIDE DEF d, e
<1>6. 1..Len(E) = 1..Len(F)
  BY <1>1, <1>2, <1>3, <1>4, <1>5
<1>7. Len(F) = Len(E)
  <2> DEFINE m == Len(E)
             n == Len(F)
  <2>1. m \in Nat /\ n \in Nat /\ 1..m = 1..n
    BY <1>1, <1>2, <1>6
  <2> HIDE DEF m, n
  <2>2. (m # 0 => m \in 1..m) /\ (n # 0 => n \in 1..n)
    BY <2>1
  <2>3. (m # 0 => m \in 1..n) /\ (n # 0 => n \in 1..m)
    BY <2>1, <2>2
  <2>4. m = n
    BY <2>1, <2>3
  <2> QED
    BY <2>4 DEF m, n
<1>8. ASSUME NEW n \in 1..Len(E) PROVE Alike(F[n], E[n])
  <2>1. n \in DOMAIN E /\ n \in DOMAIN F /\ n \in 1..Len(F)
    BY <1>1, <1>2, <1>6
  <2>2. Digest(F[n]) = Digest(E[n])
    BY <1>3, <1>4, <1>5, <2>1
  <2> DEFINE f == F[n]
             g == E[n]
             k == j.reps
  <2>3. PICK T \in SUBSET Ids : IsGroup(f, k, T)
    BY <1>2, <2>1
  <2>4. PICK U \in SUBSET Ids : IsGroup(g, k, U)
    BY <1>1
  <2>5. Digest(f) = Digest(g)
    BY <2>2
  <2> HIDE DEF f, g, k
  <2>6. Alike(f, g)
    BY <2>3, <2>4, <2>5, DigestTells
  <2> QED
    BY <2>6 DEF f, g
<1>9. \A w, k : GroupsTo(w, j, F, k) = GroupsTo(w, j, E, k)
  BY DEF GroupsTo
<1> QED
  BY <1>7, <1>8, <1>9

(* A request that carries on behind a page reads as the first call did.      *)
LEMMA SameCursors ==
  ASSUME NEW j, NEW k, k.by = j.by, k.reps = j.reps, k.size = j.size, NEW w
  PROVE  /\ \A F, o : GroupsTo(w, k, F, o) = GroupsTo(w, j, F, o)
         /\ \A g, o : MembersTo(w, k, g, o) = MembersTo(w, j, g, o)
         /\ \A g : RestOf(w, k, g) = RestOf(w, j, g)
<1>1. \A F, o : GroupsTo(w, k, F, o) = GroupsTo(w, j, F, o)
  BY DEF GroupsTo, CursorTo
<1>2. \A g, o : MembersTo(w, k, g, o) = MembersTo(w, j, g, o)
  BY DEF MembersTo, CursorTo
<1> QED
  BY <1>1, <1>2 DEF RestOf

(* A further page of headers.                                                *)
LEMMA ListedMore ==
  ASSUME NEW w, NEW j, NEW E, NEW F, NEW l, NEW nx, ListedOf(w, j, E, l, nx, TRUE),
         Len(E) \in Nat, Len(F) = Len(E), \A n \in 1..Len(E) : Alike(F[n], E[n]),
         \A k : GroupsTo(w, j, F, k) = GroupsTo(w, j, E, k),
         NEW a, NEW n \in Nat, IsGroupPage(a, w, j, F, Len(l), n)
  PROVE  ListedOf(w, j, E, l \o a.page, a.next, TRUE)
<1> DEFINE p == a.page
           m == l \o p
           k == Len(l)
           z == Len(E)
<1>1. /\ IsSeq(p) /\ Len(p) = n /\ k + n \in 0..z /\ (k < z => n >= 1)
      /\ a.next = IF k + n < z THEN {GroupsTo(w, j, E, k + n)} ELSE {}
  BY DEF IsGroupPage
<1>2. /\ IsSeq(l) /\ k \in 0..z
      /\ \A i \in 1..k : Alike(l[i].group, E[i]) /\ l[i].more = RestOf(w, j, E[i])
  BY DEF ListedOf
<1>3. ASSUME NEW i \in 1..n
      PROVE  k + i \in 1..z /\ Alike(p[i].group, E[k + i]) /\ p[i].more = RestOf(w, j, E[k + i])
  <2>1. k + i \in 1..z /\ p[i].group = F[k + i] /\ p[i].more = RestOf(w, j, F[k + i])
    BY DEF IsGroupPage
  <2>2. Alike(F[k + i], E[k + i])
    BY <2>1
  <2> QED
    BY <2>1, <2>2, AlikeRest
<1> HIDE DEF p
<1>4. /\ IsSeq(m) /\ Len(m) = k + n /\ \A i \in 1..k : m[i] = l[i]
      /\ \A i \in 1..n : m[k + i] = p[i]
  BY <1>1, <1>2, SeqJoin, SMTT(30)
<1> HIDE DEF m, k, z
<1>5. k \in Nat /\ z \in Nat
  BY <1>2 DEF z
<1>6. \A i \in 1..Len(m) : Alike(m[i].group, E[i]) /\ m[i].more = RestOf(w, j, E[i])
  <2> SUFFICES ASSUME NEW i \in 1..Len(m)
               PROVE  Alike(m[i].group, E[i]) /\ m[i].more = RestOf(w, j, E[i])
    OBVIOUS
  <2>1. CASE i \in 1..k
    BY <1>2, <1>4, <2>1
  <2>2. CASE i \notin 1..k
    <3>1. i - k \in 1..n /\ k + (i - k) = i
      BY <1>4, <1>5, <2>2
    <3> QED
      BY <1>3, <1>4, <3>1
  <2> QED
    BY <2>1, <2>2
<1>7. Len(m) \in 0..z /\ (z # 0 => Len(m) # 0)
  BY <1>1, <1>4, <1>5
<1> QED
  BY <1>1, <1>4, <1>6, <1>7 DEF ListedOf, m, p, k, z

LEMMA OpenStays ==
  ASSUME NEW w, NEW j, NEW E,
         NEW l, NEW nx, ListedOf(w, j, E, l, nx, TRUE),
         NEW o, NEW m, NEW rs, OpenedOf(w, j, E, o, m, rs, TRUE)
  PROVE  \A b \in BOOLEAN : /\ ListedOf(w, j, E, l, nx, b) /\ OpenedOf(w, j, E, o, m, rs, b)
BY DEF ListedOf, OpenedOf, ReadOf

LEMMA NoMore ==
  ASSUME NEW w, NEW j, NEW E, NEW l, NEW nx, ListedOf(w, j, E, l, nx, TRUE)
  PROVE  /\ ListedOf(w, j, E, l \o <<>>, {}, FALSE)
<1>1. IsSeq(l)
  BY DEF ListedOf
<1>2. l \o <<>> = l
  BY <1>1 DEF IsSeq
<1> QED
  BY <1>2 DEF ListedOf

(* The history after a call.                                                 *)
LEMMA ReadsAgain ==
  ASSUME NEW j, NEW x, ExpectedIs(j, x), NEW last
  PROVE  LET y == [x EXCEPT !.last = last]
         IN  /\ ExpectedIs(j, y) /\ y.window = x.window /\ y.groups = x.groups
             /\ y.input = x.input /\ y.last = last
<1> DEFINE y == [x EXCEPT !.last = last]
           v == [window |-> x.window, input |-> x.input, groups |-> x.groups, last |-> x.last]
<1>1. [v EXCEPT !.last = last]
        = [window |-> x.window, input |-> x.input, groups |-> x.groups, last |-> last]
  OBVIOUS
<1>2. x = v
  BY DEF ExpectedIs
<1> HIDE DEF v
<1>3. y = [window |-> x.window, input |-> x.input, groups |-> x.groups, last |-> last]
  BY <1>1, <1>2
<1> HIDE DEF y
<1>4. y.window = x.window /\ y.groups = x.groups /\ y.input = x.input /\ y.last = last
  BY <1>3
<1>5. ExpectedIs(j, y)
  BY <1>3, <1>4 DEF ExpectedIs
<1> QED
  BY <1>4, <1>5 DEF y

--------------------------------------------------------------------------------
LEMMA GroupBegins == ASSUME GroupAssumed, GroupInv, Begin PROVE GroupInv'
<1>1. job = None /\ ledger \in SUBSET Rows /\ opened = {} /\ rest = {} /\ refused = None
  BY DEF GroupInv, Begin
<1>2. PICK j \in Jobs : /\ job' = j /\ now' = j.at
                        /\ BeginWith(GetRecentWorkContext(ledger, j, j.at), j)
  BY DEF Begin
<1> DEFINE r == GetRecentWorkContext(ledger, j, j.at)
           w == <<r.since, r.until>>
           groups == BuildDiscoveryGroups(r, j.by, j.reps)
           input == InputOf(j, w)
<1>3. /\ IsCall(j) /\ j.reps \in Nat /\ j.size \in Nat \ {0} /\ j.at \in Nat /\ j.limit \in Nat
      /\ j # None
  BY JobIs DEF GroupAssumed
<1>4. Recent(r, ledger, j)
  <2> DEFINE t == j.at
  <2>1. t \in Int /\ IsCall(j)
    BY <1>3
  <2> HIDE DEF t
  <2>2. Recent(GetRecentWorkContext(ledger, j, t), ledger, j)
    BY <1>1, <2>1, RecentIs DEF GroupAssumed
  <2> QED
    BY <2>2 DEF t
<1>5. PICK a \in FirstAnswers(r, j) : listed' = a.page /\ next' = a.next
  BY <1>2 DEF BeginWith
<1>6. expected' = [window |-> w, input |-> input, groups |-> groups, last |-> input]
  BY <1>2 DEF BeginWith
<1>7. a \in GroupPages(r, j, groups, 0)
  BY <1>5 DEF FirstAnswers
<1>8. UNCHANGED <<ledger, opened, rest, members, refused>>
  BY DEF Begin
<1> HIDE DEF r
<1>9. /\ groups = FoundIn(j, w, InputFor(ledger, Within(j, w)).events)
      /\ FoundGroups(groups, j)
  BY <1>1, <1>3, <1>4, CallFinds DEF GroupAssumed, FoundGroups
<1>10. InputFor(ledger, Within(j, w)).events = input
  <2>1. Within(j, w).limit = j.limit
    BY <1>3, WithinIs
  <2> QED
    BY <2>1 DEF InputFor, InputOf
<1>11. w \in Int \X Int /\ w[1] < w[2] /\ <<r.since, r.until>> = w
  BY <1>4 DEF Recent
<1> HIDE DEF w, groups, input
<1>12. groups = FoundIn(j, w, input)
  BY <1>9, <1>10
<1>13. IsSeq(groups) /\ Len(groups) \in Nat
  BY <1>3, <1>9, GroupsKnown DEF GroupAssumed
<1>14. 0 \in 0..Len(groups)
  BY <1>13
<1>15. PICK n \in Nat : IsGroupPage(a, w, j, groups, 0, n)
  BY <1>3, <1>7, <1>11, <1>13, <1>14, GroupPagesAre
<1> DEFINE p == a.page
<1>16. ListedOf(w, j, groups, p, a.next, TRUE)
  <2>1. /\ IsSeq(p) /\ Len(p) = n /\ n \in 0..Len(groups) /\ (Len(groups) # 0 => n # 0)
        /\ a.next = IF n < Len(groups) THEN {GroupsTo(w, j, groups, n)} ELSE {}
    <3>1. 0 + n = n /\ (0 < Len(groups) <=> Len(groups) # 0) /\ (n >= 1 <=> n # 0)
      BY <1>13
    <3> QED
      BY <1>15, <3>1 DEF IsGroupPage
  <2>2. ASSUME NEW i \in 1..n
        PROVE  Alike(p[i].group, groups[i]) /\ p[i].more = RestOf(w, j, groups[i])
    <3>1. 0 + i = i
      OBVIOUS
    <3>2. i \in 1..Len(groups) /\ p[i].group = groups[i] /\ p[i].more = RestOf(w, j, groups[i])
      BY <1>15, <3>1 DEF IsGroupPage
    <3>3. Alike(groups[i], groups[i])
      BY <1>3, <1>9, <3>2, GroupsKnown DEF GroupAssumed
    <3> QED
      BY <3>2, <3>3
  <2> HIDE DEF p
  <2> QED
    BY <2>1, <2>2 DEF ListedOf
<1>17. OpenedOf(w, j, groups, {}, members, {}, TRUE)
  BY DEF OpenedOf
<1>18. /\ expected'.window = w /\ expected'.groups = groups /\ expected'.input = input
       /\ expected'.last = input
       /\ expected' = [window |-> expected'.window, input |-> expected'.input,
                       groups |-> expected'.groups, last |-> expected'.last]
  BY <1>6
<1>19. ExpectedIs(j, expected')
  BY <1>9, <1>11, <1>12, <1>18 DEF ExpectedIs
<1> HIDE DEF p
<1>20. /\ ListedOf(w, job', groups, listed', next', TRUE)
       /\ OpenedOf(w, job', groups, opened', members', rest', TRUE)
       /\ (refused' = None) = TRUE /\ job' \in Jobs /\ job' # None
       /\ ExpectedIs(job', expected')
  BY <1>1, <1>2, <1>3, <1>5, <1>8, <1>16, <1>17, <1>19 DEF p
<1>21. ledger' \in SUBSET Rows /\ now' \in Nat
  BY <1>1, <1>2, <1>3, <1>8
<1> QED
  BY <1>18, <1>20, <1>21 DEF GroupInv

LEMMA GroupListsMore == ASSUME GroupAssumed, GroupInv, MoreGroups PROVE GroupInv'
<1> DEFINE w == expected.window
           E == expected.groups
           input == InputOf(job, w)
           F == FoundIn(job, w, input)
<1>1. /\ refused = None /\ next # {} /\ ledger \in SUBSET Rows /\ now \in Nat
  BY DEF GroupInv, MoreGroups
<1>2. job # None
  BY <1>1 DEF GroupInv
<1>3. /\ job \in Jobs /\ ExpectedIs(job, expected)
      /\ ListedOf(w, job, E, listed, next, TRUE)
      /\ OpenedOf(w, job, E, opened, members, rest, TRUE)
  BY <1>1, <1>2 DEF GroupInv
<1>4. PICK c \in next : \E a \in Answers(c) :
        listed' = listed \o a.page /\ next' = a.next /\ refused' = a.code
  BY DEF MoreGroups
<1>5. PICK a \in Answers(c) :
        listed' = listed \o a.page /\ next' = a.next /\ refused' = a.code
  BY <1>4
<1>6. expected' = [expected EXCEPT !.last = input]
  BY DEF MoreGroups, ReadAgain
<1>7. UNCHANGED <<ledger, now, job, opened, rest, members>>
  BY DEF MoreGroups
<1>8. /\ w \in Int \X Int /\ w[1] < w[2] /\ E = FoundIn(job, w, expected.input)
      /\ FoundGroups(E, job)
  BY <1>3 DEF ExpectedIs
<1>9. /\ ExpectedIs(job, expected') /\ expected'.window = w /\ expected'.groups = E
      /\ expected'.input = expected.input /\ expected'.last = input
  BY <1>3, <1>6, ReadsAgain
<1>10. /\ job.reps \in Nat /\ job.limit \in 1..MaxOffset /\ job.size \in Nat \ {0}
  BY <1>3, JobIs DEF GroupAssumed
<1> DEFINE k == Frozen(c)
           r == GetRecentWorkContext(ledger, k, now)
           o == Len(listed)
<1> HIDE DEF w, E, input, F
<1>11. job.limit \in Nat
  BY <1>10
<1>12. IsSeq(E) /\ Len(E) \in 0..job.limit
  BY <1>8, <1>10, <1>11, GroupsKnown DEF GroupAssumed
<1>13. c = GroupsTo(w, job, E, o) /\ o < Len(E) /\ o \in 0..Len(E) /\ (Len(E) # 0 => o # 0)
  BY <1>3 DEF ListedOf
<1> HIDE DEF k, r, o
<1>14. o \in 1..MaxOffset
  <2>1. MaxOffset \in Nat
    BY DEF GroupAssumed, JobBounds
  <2> QED
    BY <1>10, <1>12, <1>13, <2>1
<1>15. /\ c.kind = "groups" /\ c.window = w /\ c.by = job.by /\ c.reps = job.reps
       /\ c.offset = o /\ c.digest = SetDigest(E)
  BY <1>13 DEF GroupsTo, CursorTo
<1>16. Decodes(c)
  BY <1>8, <1>14, <1>15 DEF Decodes
<1>17. /\ Answers(c) = Continue(r, k, F, c) /\ <<r.since, r.until>> = w /\ FoundGroups(F, job)
  BY <1>1, <1>3, <1>8, <1>15, <1>16, AnswersAre DEF GroupAssumed, FoundGroups, r, k, F, input
<1>18. k.by = job.by /\ k.reps = job.reps /\ k.size = job.size
  BY <1>3, <1>8, <1>15, FrozenIs DEF GroupAssumed, k
<1>19. Answers(c) = NextGroups(r, k, F, c)
  BY <1>15, <1>17 DEF Continue
<1>20. None # "STALE"
  BY DEF GroupAssumed, JobBounds
<1>21. CASE SetDigest(F) # c.digest \/ c.offset > Len(F)
  <2>1. a = Refusal("STALE")
    BY <1>5, <1>19, <1>21 DEF NextGroups
  <2>2. a.code = "STALE" /\ a.page = <<>> /\ a.next = {}
    BY <2>1 DEF Refusal
  <2>3. F # E
    <3> SUFFICES ASSUME F = E PROVE FALSE
      OBVIOUS
    <3>1. o > Len(E)
      BY <1>15, <1>21
    <3> QED
      BY <1>12, <1>13, <3>1
  <2>4. input # expected.input
    BY <1>8, <2>3 DEF F
  <2>5. ListedOf(w, job, E, listed', next', FALSE)
    <3>1. ListedOf(w, job, E, listed \o <<>>, {}, FALSE)
      BY <1>3, NoMore DEF w, E
    <3>2. listed' = listed \o <<>> /\ next' = {}
      BY <1>5, <2>2
    <3> QED
      BY <3>1, <3>2
  <2>6. OpenedOf(w, job, E, opened, members, rest, FALSE)
    BY <1>3, OpenStays DEF w, E
  <2>7. refused' = "STALE" /\ (refused' = None) = FALSE
    BY <1>5, <1>20, <2>2
  <2>8. /\ ledger' \in SUBSET Rows /\ now' \in Nat /\ job' \in Jobs /\ job' # None
        /\ ExpectedIs(job', expected')
        /\ ListedOf(expected'.window, job', expected'.groups, listed', next', FALSE)
        /\ OpenedOf(expected'.window, job', expected'.groups, opened', members', rest', FALSE)
        /\ expected'.last # expected'.input
    BY <1>1, <1>2, <1>3, <1>7, <1>9, <2>4, <2>5, <2>6
  <2> QED
    BY <2>7, <2>8 DEF GroupInv
<1>22. CASE ~(SetDigest(F) # c.digest \/ c.offset > Len(F))
  <2>1. a \in GroupPages(r, k, F, o) /\ SetDigest(F) = SetDigest(E)
    BY <1>5, <1>15, <1>19, <1>22 DEF NextGroups
  <2>2. /\ Len(F) = Len(E) /\ \A n \in 1..Len(E) : Alike(F[n], E[n])
        /\ \A i : GroupsTo(w, job, F, i) = GroupsTo(w, job, E, i)
    BY <1>8, <1>10, <1>11, <1>17, <2>1, SetsTell DEF GroupAssumed
  <2>3. IsSeq(F)
    BY <1>10, <1>11, <1>17, GroupsKnown DEF GroupAssumed
  <2>4. o \in 0..Len(F) /\ k.size \in Nat \ {0}
    BY <1>10, <1>13, <1>18, <2>2
  <2>5. PICK n \in Nat : IsGroupPage(a, w, k, F, o, n)
    BY <1>17, <2>1, <2>3, <2>4, GroupPagesAre
  <2>6. IsGroupPage(a, w, job, F, o, n)
    <3>1. GroupsTo(w, k, F, o + n) = GroupsTo(w, job, F, o + n)
          /\ \A g : RestOf(w, k, g) = RestOf(w, job, g)
      BY <1>18, SameCursors
    <3> QED
      BY <2>5, <3>1 DEF IsGroupPage
  <2>7. ListedOf(w, job, E, listed', next', TRUE)
    <3>1. Len(E) \in Nat
      BY <1>12
    <3>2. ListedOf(w, job, E, listed, next, TRUE) /\ IsGroupPage(a, w, job, F, Len(listed), n)
      BY <1>3, <2>6 DEF o, w, E
    <3>3. ListedOf(w, job, E, listed \o a.page, a.next, TRUE)
      BY <2>2, <3>1, <3>2, ListedMore
    <3> QED
      BY <1>5, <3>3
  <2>8. (refused' = None) = TRUE
    BY <1>5, <2>5 DEF IsGroupPage
  <2>9. OpenedOf(w, job, E, opened, members, rest, TRUE)
    BY <1>3 DEF w, E
  <2>10. /\ ledger' \in SUBSET Rows /\ now' \in Nat /\ job' \in Jobs /\ job' # None
        /\ ExpectedIs(job', expected')
        /\ ListedOf(expected'.window, job', expected'.groups, listed', next', TRUE)
        /\ OpenedOf(expected'.window, job', expected'.groups, opened', members', rest', TRUE)
    BY <1>1, <1>2, <1>3, <1>7, <1>9, <2>7, <2>9
  <2> QED
    BY <2>8, <2>10 DEF GroupInv
<1> QED
  BY <1>21, <1>22

LEMMA GroupOpens == ASSUME GroupAssumed, GroupInv, Open PROVE GroupInv'
<1> DEFINE w == expected.window
           E == expected.groups
<1>1. /\ refused = None /\ ledger \in SUBSET Rows /\ now \in Nat
  BY DEF GroupInv, Open
<1>2. UNCHANGED <<ledger, now, job, next, listed, refused, expected>> /\ members' = <<>>
  BY DEF Open
<1>3. PICK h \in ToSet(listed) : h.more # {} /\ opened' = {h.group} /\ rest' = h.more
  BY DEF Open
<1>4. PICK m \in DOMAIN listed : h = listed[m]
  BY DEF ToSet
<1>5. job # None
  <2>1. listed # <<>>
    BY <1>4
  <2> QED
    BY <2>1 DEF GroupInv
<1>6. /\ job \in Jobs /\ ExpectedIs(job, expected)
      /\ ListedOf(w, job, E, listed, next, TRUE)
  BY <1>1, <1>5 DEF GroupInv
<1>7. FoundGroups(E, job)
  BY <1>6 DEF ExpectedIs
<1>8. /\ job.reps \in Nat /\ job.limit \in Nat
  BY <1>6, JobIs DEF GroupAssumed
<1> HIDE DEF w, E
<1> DEFINE g == h.group
           e == E[m]
<1>9. /\ m \in 1..Len(E) /\ Alike(g, e) /\ h.more = RestOf(w, job, e)
  <2>1. IsSeq(listed) /\ Len(listed) \in 0..Len(E)
        /\ \A n \in 1..Len(listed) : Alike(listed[n].group, E[n])
                                     /\ listed[n].more = RestOf(w, job, E[n])
    BY <1>6 DEF ListedOf
  <2>2. m \in 1..Len(listed)
    BY <1>4, <2>1 DEF IsSeq
  <2>3. Len(E) \in Nat
    BY <1>7, <1>8, GroupsKnown DEF GroupAssumed
  <2> QED
    BY <1>4, <2>1, <2>2, <2>3
<1>10. Len(e.order) \in Nat /\ Len(e.reps) \in 0..Len(e.order)
  BY <1>7, <1>8, <1>9, GroupsKnown DEF GroupAssumed
<1> HIDE DEF g, e
<1>11. g.order = e.order /\ g.reps = e.reps
  BY <1>9 DEF Alike
<1>12. RestOf(w, job, e) = RestOf(w, job, g)
  BY <1>9, AlikeRest
<1> DEFINE p == Len(g.reps)
           z == Len(g.order)
<1>13. p \in 0..z /\ z \in Nat
  BY <1>10, <1>11
<1>14. h.more = IF p < z THEN {MembersTo(w, job, g, p)} ELSE {}
  <2>1. z > p <=> p < z
    BY <1>13
  <2> QED
    BY <1>9, <1>12, <2>1 DEF RestOf
<1>15. ReadOf(w, job, E, g, <<>>, h.more, TRUE)
  <2>1. IsSeq(<<>>) /\ Len(<<>>) = 0 /\ 1..0 = {}
    BY DEF IsSeq
  <2>2. p + 0 = p /\ p \in 0..z
    BY <1>13
  <2>3. \E n \in 1..Len(E) : Alike(g, E[n])
    BY <1>9 DEF e
  <2> QED
    BY <1>14, <2>1, <2>2, <2>3 DEF ReadOf
<1>16. OpenedOf(w, job, E, {g}, <<>>, h.more, TRUE)
  BY <1>15 DEF OpenedOf
<1>17. /\ ledger' \in SUBSET Rows /\ now' \in Nat /\ job' \in Jobs /\ job' # None
       /\ ExpectedIs(job', expected')
       /\ ListedOf(expected'.window, job', expected'.groups, listed', next', TRUE)
       /\ OpenedOf(expected'.window, job', expected'.groups, opened', members', rest', TRUE)
       /\ (refused' = None) = TRUE
  BY <1>1, <1>2, <1>3, <1>5, <1>6, <1>16 DEF w, E, g
<1> QED
  BY <1>17 DEF GroupInv

(* A further page of members.                                                *)
LEMMA ReadMore ==
  ASSUME NEW w, NEW j, NEW E, NEW g, NEW m, NEW rs, ReadOf(w, j, E, g, m, rs, TRUE),
         Len(g.reps) \in Nat, Len(g.order) \in Nat, NEW x, x.order = g.order,
         \A k : MembersTo(w, j, x, k) = MembersTo(w, j, g, k),
         NEW a, NEW n \in Nat, IsMemberPage(a, w, j, x, Len(g.reps) + Len(m), n)
  PROVE  ReadOf(w, j, E, g, m \o a.page, a.next, TRUE)
<1> DEFINE q == a.page
           s == g.order
           p == Len(g.reps)
           t == m \o q
           k == Len(m)
           z == Len(s)
<1>1. /\ IsSeq(q) /\ Len(q) = n /\ (p + k) + n \in 0..z
      /\ \A i \in 1..n : q[i] = s[(p + k) + i]
      /\ a.next = IF (p + k) + n < z THEN {MembersTo(w, j, g, (p + k) + n)} ELSE {}
  BY DEF IsMemberPage
<1>2. /\ IsSeq(m) /\ p + k \in 0..z /\ \A i \in 1..k : m[i] = s[p + i]
      /\ \E i \in 1..Len(E) : Alike(g, E[i])
  BY DEF ReadOf
<1>3. k \in Nat
  BY <1>2 DEF IsSeq
<1>4. /\ IsSeq(t) /\ Len(t) = k + n /\ \A i \in 1..k : t[i] = m[i]
      /\ \A i \in 1..n : t[k + i] = q[i]
  <2>1. IsSeq(q) /\ IsSeq(m) /\ Len(q) = n
    BY <1>1, <1>2
  <2> HIDE DEF q
  <2> QED
    BY <2>1, SeqJoin
<1>5. p \in Nat /\ z \in Nat
  OBVIOUS
<1> HIDE DEF p, z, s, k, t, q
<1>6. p + (k + n) = (p + k) + n
  BY <1>3, <1>5
<1>7. \A i \in 1..Len(t) : t[i] = s[p + i]
  <2> SUFFICES ASSUME NEW i \in 1..Len(t) PROVE t[i] = s[p + i]
    OBVIOUS
  <2>1. CASE i \in 1..k
    BY <1>2, <1>4, <2>1
  <2>2. CASE i \notin 1..k
    <3>1. i - k \in 1..n /\ k + (i - k) = i /\ (p + k) + (i - k) = p + i
      BY <1>3, <1>4, <1>5, <2>2
    <3> QED
      BY <1>1, <1>4, <3>1
  <2> QED
    BY <2>1, <2>2
<1>8. p + Len(t) = (p + k) + n
  BY <1>4, <1>6
<1>9. /\ p + Len(t) \in 0..z
      /\ a.next = IF p + Len(t) < z THEN {MembersTo(w, j, g, p + Len(t))} ELSE {}
  BY <1>1, <1>8
<1> QED
  BY <1>2, <1>4, <1>7, <1>9 DEF ReadOf, p, s, z, t, q

LEMMA NoneRead ==
  ASSUME NEW w, NEW j, NEW E, NEW g, NEW m, NEW rs, ReadOf(w, j, E, g, m, rs, TRUE)
  PROVE  ReadOf(w, j, E, g, m \o <<>>, {}, FALSE)
<1>1. IsSeq(m)
  BY DEF ReadOf
<1>2. m \o <<>> = m
  BY <1>1 DEF IsSeq
<1> QED
  BY <1>2 DEF ReadOf

LEMMA GroupReadsMore == ASSUME GroupAssumed, GroupInv, MoreMembers PROVE GroupInv'
<1> DEFINE w == expected.window
           E == expected.groups
           input == InputOf(job, w)
           F == FoundIn(job, w, input)
<1>1. /\ refused = None /\ rest # {} /\ ledger \in SUBSET Rows /\ now \in Nat
  BY DEF GroupInv, MoreMembers
<1>2. job # None
  BY <1>1 DEF GroupInv
<1>3. /\ job \in Jobs /\ ExpectedIs(job, expected)
      /\ ListedOf(w, job, E, listed, next, TRUE)
      /\ OpenedOf(w, job, E, opened, members, rest, TRUE)
  BY <1>1, <1>2 DEF GroupInv
<1>4. PICK c \in rest : \E a \in Answers(c) :
        members' = members \o a.page /\ rest' = a.next /\ refused' = a.code
  BY DEF MoreMembers
<1>5. PICK a \in Answers(c) :
        members' = members \o a.page /\ rest' = a.next /\ refused' = a.code
  BY <1>4
<1>6. expected' = [expected EXCEPT !.last = input]
  BY DEF MoreMembers, ReadAgain
<1>7. UNCHANGED <<ledger, now, job, next, listed, opened>>
  BY DEF MoreMembers
<1>8. /\ w \in Int \X Int /\ w[1] < w[2] /\ E = FoundIn(job, w, expected.input)
      /\ FoundGroups(E, job)
  BY <1>3 DEF ExpectedIs
<1>9. /\ ExpectedIs(job, expected') /\ expected'.window = w /\ expected'.groups = E
      /\ expected'.input = expected.input /\ expected'.last = input
  BY <1>3, <1>6, ReadsAgain
<1>10. /\ job.reps \in Nat /\ job.limit \in 1..MaxOffset /\ MaxOffset \in Nat
       /\ MemberSize \in Nat \ {0} /\ None # "STALE"
  BY <1>3, JobIs DEF GroupAssumed, JobBounds
<1>11. job.limit \in Nat
  BY <1>10
<1>12. PICK g \in opened : opened = {g}
  BY <1>1, <1>3 DEF OpenedOf
<1>13. ReadOf(w, job, E, g, members, rest, TRUE)
  BY <1>3, <1>12 DEF OpenedOf
<1> DEFINE k == Frozen(c)
           r == GetRecentWorkContext(ledger, k, now)
           o == Len(g.reps) + Len(members)
<1> HIDE DEF w, E, input, F, k, r
<1>14. PICK m \in 1..Len(E) : Alike(g, E[m])
  BY <1>13 DEF ReadOf
<1> DEFINE e == E[m]
<1>15. /\ IsSeq(E) /\ DOMAIN E = 1..Len(E)
       /\ \A i, n \in 1..Len(E) : E[i].key = E[n].key => i = n
       /\ \E T \in SUBSET Ids : IsGroup(e, job.reps, T)
       /\ IsSeq(e.order) /\ Len(e.order) \in 0..job.limit /\ Len(e.reps) \in 0..Len(e.order)
       /\ Len(e.reps) < Len(e.order) => Len(e.reps) = job.reps
  <2>1. EventBounds /\ WorkBounds
    BY DEF GroupAssumed
  <2>2. /\ IsSeq(E) /\ DOMAIN E = 1..Len(E)
        /\ \A i, n \in 1..Len(E) : E[i].key = E[n].key => i = n
        /\ \A n \in 1..Len(E) :
             /\ \E T \in SUBSET Ids : IsGroup(E[n], job.reps, T)
             /\ IsSeq(E[n].order) /\ Len(E[n].order) \in 0..job.limit
             /\ Len(E[n].reps) \in 0..Len(E[n].order)
             /\ Len(E[n].reps) < Len(E[n].order) => Len(E[n].reps) = job.reps
    BY <1>8, <1>10, <1>11, <2>1, GroupsKnown, SMTT(30)
  <2> QED
    BY <1>14, <2>2
<1> HIDE DEF e
<1>16. g.order = e.order /\ g.reps = e.reps /\ g.key = e.key /\ Digest(g) = Digest(e)
  BY <1>14, AlikeTold DEF Alike, e
<1>17. c = MembersTo(w, job, g, o) /\ o < Len(g.order)
  BY <1>13 DEF ReadOf
<1>18. Len(members) \in Nat
  BY <1>13 DEF ReadOf, IsSeq
<1>19. Len(g.reps) \in Nat /\ Len(g.order) \in Nat /\ o \in Nat
  BY <1>11, <1>15, <1>16, <1>18
<1>20. o \in job.reps..MaxOffset
  <2> DEFINE p == Len(g.reps)
             z == Len(g.order)
             y == Len(members)
  <2>1. p \in 0..z /\ z \in 0..job.limit /\ (p < z => p = job.reps)
    BY <1>15, <1>16
  <2>2. p + y < z /\ y \in Nat
    BY <1>17, <1>18
  <2> HIDE DEF p, z, y
  <2>3. p + y \in job.reps..MaxOffset
    BY <1>10, <1>11, <2>1, <2>2
  <2> QED
    BY <2>3 DEF p, y
<1> HIDE DEF o
<1>21. /\ c.kind = "members" /\ c.window = w /\ c.by = job.by /\ c.reps = job.reps
       /\ c.offset = o /\ c.digest = <<Digest(g)>> /\ c.key = {g.key}
  BY <1>17 DEF MembersTo, CursorTo
<1>22. Decodes(c)
  BY <1>8, <1>20, <1>21 DEF Decodes
<1>23. /\ Answers(c) = Continue(r, k, F, c) /\ <<r.since, r.until>> = w /\ FoundGroups(F, job)
  BY <1>1, <1>3, <1>8, <1>21, <1>22, AnswersAre DEF GroupAssumed, FoundGroups, r, k, F, input
<1>24. k.by = job.by /\ k.reps = job.reps /\ k.size = job.size
  BY <1>3, <1>8, <1>21, FrozenIs DEF GroupAssumed, k
<1>25. Answers(c) = NextMembers(r, k, F, c)
  BY <1>21, <1>23 DEF Continue
<1>26. /\ IsSeq(F) /\ DOMAIN F = 1..Len(F)
       /\ \A n \in 1..Len(F) : /\ \E T \in SUBSET Ids : IsGroup(F[n], job.reps, T)
                               /\ IsSeq(F[n].order)
  BY <1>10, <1>11, <1>23, GroupsKnown DEF GroupAssumed
<1>27. ASSUME a = Refusal("STALE"), F # E PROVE GroupInv'
  <2>1. a.code = "STALE" /\ a.page = <<>> /\ a.next = {}
    BY <1>27 DEF Refusal
  <2>2. input # expected.input
    BY <1>8, <1>27 DEF F
  <2>3. ReadOf(w, job, E, g, members', rest', FALSE)
    <3>1. members' = members \o <<>> /\ rest' = {}
      BY <1>5, <2>1
    <3>2. ReadOf(w, job, E, g, members \o <<>>, {}, FALSE)
      BY <1>13, NoneRead
    <3> QED
      BY <3>1, <3>2
  <2>4. OpenedOf(w, job, E, opened', members', rest', FALSE)
    BY <1>7, <1>12, <2>3 DEF OpenedOf
  <2>5. ListedOf(w, job, E, listed, next, FALSE)
    BY <1>3 DEF ListedOf, w, E
  <2>6. refused' = "STALE" /\ (refused' = None) = FALSE
    BY <1>5, <1>10, <2>1
  <2>7. /\ ledger' \in SUBSET Rows /\ now' \in Nat /\ job' \in Jobs /\ job' # None
        /\ ExpectedIs(job', expected')
        /\ ListedOf(expected'.window, job', expected'.groups, listed', next', FALSE)
        /\ OpenedOf(expected'.window, job', expected'.groups, opened', members', rest', FALSE)
        /\ expected'.last # expected'.input
    BY <1>1, <1>2, <1>3, <1>7, <1>9, <2>2, <2>4, <2>5
  <2> QED
    BY <2>6, <2>7 DEF GroupInv
<1>28. CASE ~\E n \in DOMAIN F : F[n].key \in c.key
  <2>1. a = Refusal("STALE")
    BY <1>5, <1>25, <1>28 DEF NextMembers
  <2>2. F # E
    BY <1>14, <1>15, <1>16, <1>21, <1>28 DEF e
  <2> QED
    BY <1>27, <2>1, <2>2
<1>29. CASE \E n \in DOMAIN F : F[n].key \in c.key
  <2>1. PICK x \in {y \in ToSet(F) : y.key \in c.key} : a \in MembersOf(r, k, x, c)
    BY <1>5, <1>25, <1>29 DEF NextMembers
  <2>2. PICK n \in 1..Len(F) : x = F[n]
    BY <1>26, <2>1 DEF ToSet
  <2>3. x.key = g.key
    BY <1>21, <2>1
  <2>4. CASE <<Digest(x)>> # c.digest \/ c.offset >= Len(x.order)
    <3>1. a = Refusal("STALE")
      BY <2>1, <2>4 DEF MembersOf
    <3>2. F # E
      <4> SUFFICES ASSUME F = E PROVE FALSE
        OBVIOUS
      <4>1. n \in 1..Len(E) /\ E[n].key = E[m].key
        BY <1>16, <2>2, <2>3 DEF e
      <4>2. x = e
        BY <1>14, <1>15, <2>2, <4>1 DEF e
      <4>3. Digest(x) = Digest(g) /\ x.order = g.order
        BY <1>16, <4>2
      <4>4. o >= Len(g.order)
        BY <1>21, <2>4, <4>3
      <4> QED
        BY <1>17, <1>19, <4>4
    <3> QED
      BY <1>27, <3>1, <3>2
  <2>5. CASE ~(<<Digest(x)>> # c.digest \/ c.offset >= Len(x.order))
    <3>1. a \in MemberPages(r, k, x, o) /\ Digest(x) = Digest(g)
      BY <1>21, <2>1, <2>5 DEF MembersOf
    <3>2. Alike(x, g)
      <4>1. PICK T \in SUBSET Ids : IsGroup(x, job.reps, T)
        BY <1>26, <2>2
      <4>2. PICK U \in SUBSET Ids : IsGroup(e, job.reps, U)
        BY <1>15
      <4>3. Alike(x, e)
        BY <1>16, <3>1, <4>1, <4>2, DigestTells
      <4> QED
        BY <1>14, <4>3 DEF Alike, e
    <3>3. x.order = g.order /\ IsSeq(x.order)
      BY <1>26, <2>2, <3>2 DEF Alike
    <3>4. o \in 0..Len(x.order)
      BY <1>17, <1>19, <3>3
    <3>5. PICK i \in Nat : IsMemberPage(a, w, k, x, o, i)
      BY <1>10, <1>23, <3>1, <3>3, <3>4, MemberPagesAre
    <3>6. IsMemberPage(a, w, job, x, o, i)
      <4>1. MembersTo(w, k, x, o + i) = MembersTo(w, job, x, o + i)
        BY <1>24, SameCursors
      <4> QED
        BY <3>5, <4>1 DEF IsMemberPage
    <3>7. \A y : MembersTo(w, job, x, y) = MembersTo(w, job, g, y)
      BY <3>1, <3>2 DEF Alike, MembersTo
    <3>8. ReadOf(w, job, E, g, members', rest', TRUE)
      <4>1. ReadOf(w, job, E, g, members \o a.page, a.next, TRUE)
        BY <1>13, <1>19, <3>3, <3>6, <3>7, ReadMore DEF o
      <4> QED
        BY <1>5, <4>1
    <3>9. OpenedOf(w, job, E, opened', members', rest', TRUE)
      BY <1>7, <1>12, <3>8 DEF OpenedOf
    <3>10. (refused' = None) = TRUE
      BY <1>5, <3>5 DEF IsMemberPage
    <3>11. ListedOf(w, job, E, listed, next, TRUE)
      BY <1>3 DEF w, E
    <3>12. /\ ledger' \in SUBSET Rows /\ now' \in Nat /\ job' \in Jobs /\ job' # None
           /\ ExpectedIs(job', expected')
           /\ ListedOf(expected'.window, job', expected'.groups, listed', next', TRUE)
           /\ OpenedOf(expected'.window, job', expected'.groups, opened', members', rest', TRUE)
      BY <1>1, <1>2, <1>3, <1>7, <1>9, <3>9, <3>11
    <3> QED
      BY <3>10, <3>12 DEF GroupInv
  <2> QED
    BY <2>4, <2>5
<1> QED
  BY <1>28, <1>29

(* However the ledger grows while a client lists the groups of a window and  *)
(* reads the members of one (mcp/tools/find-clusters.ts,                     *)
(* mcp/internal/discovery-groups.ts), what it receives is what its first call*)
(* found, each header and each member once, and it is refused only when the  *)
(* rows that were read have changed.                                         *)
THEOREM GroupedPagesAddUp == ToolSpec => []GroupsAddUp
<1> DEFINE Inv == tool = "groups" => GroupInv
<1>0. GroupAssumed
  <2>1. EventBounds /\ StorageBounds /\ ClusterBounds /\ WorkBounds /\ JobBounds
    BY EventsInOrder, StorageBudgets, ToolBounds
  <2> QED
    BY <2>1 DEF GroupAssumed
<1>1. ToolInit => Inv
  BY GroupStart DEF ToolInit
<1>2. ASSUME Inv, [ToolNext]_toolVars PROVE Inv'
  <2>1. tool' = tool
    BY <1>2 DEF ToolNext, toolVars, Groups, Search, Atoms, Waits, Logs
  <2>2. tool = "groups" => Next \/ Idle
    BY <1>2 DEF ToolNext, toolVars, Groups, Search, Atoms, Waits, Logs, shared, Idle
  <2> SUFFICES ASSUME tool = "groups" PROVE GroupInv'
    BY <2>1
  <2>3. GroupInv
    BY <1>2
  <2>4. \/ Capture \/ Tick \/ Idle
        \/ Begin \/ MoreGroups \/ Open \/ MoreMembers
    BY <2>2 DEF Next
  <2>5. ASSUME Capture \/ Tick \/ Idle
        PROVE  GroupInv'
    BY <2>3, <2>5, GroupKept
  <2> QED
    BY <1>0, <2>3, <2>4, <2>5, GroupBegins, GroupListsMore, GroupOpens, GroupReadsMore
<1>3. Inv => GroupsAddUp
  BY <1>0, GroupsHold DEF GroupsAddUp
<1> QED
  BY <1>1, <1>2, <1>3, PTL DEF ToolSpec

--------------------------------------------------------------------------------
(* The client that waits: WaitProofs, on the ledger and the clock of the     *)
(* tools.                                                                    *)

WP == INSTANCE WaitProofs
        WITH ledger <- tail, now <- clock, Events <- TailEvents, MaxPages <- 3, QueryBytes <- 4

(* The wait of the tools is the wait that was proved about: layer by layer,  *)
(* the ledger's queries, a source's windows, a page, the actions.            *)
LEMMA SameSelection ==
  /\ \A s, X : W!Among(s, X) = WP!Among(s, X)
  /\ \A s, n : W!First(s, n) = WP!First(s, n)
  /\ \A s : W!Last(s) = WP!Last(s) /\ W!ToSet(s) = WP!ToSet(s)
  /\ \A r : W!CursorOf(r) = WP!CursorOf(r) /\ W!WakeEligible(r) = WP!WakeEligible(r)
  /\ \A rows, r : W!AppendEvent(rows, r) = WP!AppendEvent(rows, r)
BY DEF W!Among, WP!Among, W!First, WP!First, W!Last, WP!Last, W!ToSet, WP!ToSet,
       W!CursorOf, WP!CursorOf, W!WakeEligible, WP!WakeEligible, W!AppendEvent, WP!AppendEvent

LEMMA SameOrder ==
  /\ \A s, way : W!Directed(s, way) = WP!Directed(s, way)
  /\ \A X, way : W!InOrder(X, way) = WP!InOrder(X, way)
  /\ \A s : W!StoredBytes(s) = WP!StoredBytes(s)
<1>1. \A s, way : W!Directed(s, way) = WP!Directed(s, way)
  BY DEF W!Directed, WP!Directed, W!Reverse, WP!Reverse
<1>2. \A X, way : W!InOrder(X, way) = WP!InOrder(X, way)
  BY <1>1, SameSelection DEF W!InOrder, WP!InOrder
<1>3. \A s : W!StoredBytes(s) = WP!StoredBytes(s)
  BY DEF W!StoredBytes, WP!StoredBytes
<1> QED
  BY <1>1, <1>2, <1>3

LEMMA SameQuery == \A rows, q : W!SqliteQuery(rows, q) = WP!SqliteQuery(rows, q)
<1>1. \A rows, q : W!Candidates(rows, q) = WP!Candidates(rows, q)
  BY DEF W!Candidates, WP!Candidates, W!Ahead, WP!Ahead, W!Older, WP!Older
<1>2. \A rows, q : W!Inspected(rows, q) = WP!Inspected(rows, q)
  BY <1>1, SameSelection, SameOrder DEF W!Inspected, WP!Inspected
<1>3. \A q, seen, admitted : W!Admit(q, seen, admitted) = WP!Admit(q, seen, admitted)
  BY SameSelection, SameOrder DEF W!Admit, WP!Admit, W!Outcome, WP!Outcome
<1>4. \A q, seen : W!AdmitFrom(q, seen) = WP!AdmitFrom(q, seen)
  BY <1>3, SameSelection DEF W!AdmitFrom, WP!AdmitFrom
<1> QED
  BY <1>2, <1>4 DEF W!SqliteQuery, WP!SqliteQuery

LEMMA SamePage == \A rows, q : W!AdaptivePage(rows, q) = WP!AdaptivePage(rows, q)
<1>1. \A rows, q : W!ByteSafeLimit(rows, q) = WP!ByteSafeLimit(rows, q)
  BY SameQuery DEF W!ByteSafeLimit, WP!ByteSafeLimit
<1>2. \A rows, q, n : W!PageAt(rows, q, n) = WP!PageAt(rows, q, n)
  BY SameQuery DEF W!PageAt, WP!PageAt
<1> QED
  BY <1>1, <1>2 DEF W!AdaptivePage, WP!AdaptivePage

LEMMA SameWindow == \A s, q : W!SourceWindow(s, q) = WP!SourceWindow(s, q)
<1>1. \A s : W!Waking(s) = WP!Waking(s)
  BY SameSelection DEF W!Waking, WP!Waking
<1>2. \A s, page : W!SourcePage(s, page) = WP!SourcePage(s, page)
  BY <1>1, SameSelection DEF W!SourcePage, WP!SourcePage, W!Window, WP!Window
<1>3. \A q, after, n : W!PollFilter(q, after, n) = WP!PollFilter(q, after, n)
  BY DEF W!PollFilter, WP!PollFilter
<1>4. \A s : W!SourceLimit(s) = WP!SourceLimit(s)
  BY DEF W!SourceLimit, WP!SourceLimit, W!Window, WP!Window
<1> QED
  BY <1>2, <1>3, <1>4, SamePage DEF W!SourceWindow, WP!SourceWindow

LEMMA SamePoll ==
  /\ \A q : W!PollSource(q) = WP!PollSource(q)
  /\ \A results : W!PollOnce(results) = WP!PollOnce(results)
<1>1. \A q : W!PollSource(q) = WP!PollSource(q)
  BY SameWindow DEF W!PollSource, WP!PollSource, W!SourceStart, WP!SourceStart,
                    W!Window, WP!Window
<1>2. \A results : W!Fresh(results) = WP!Fresh(results)
  BY SameSelection, SameOrder DEF W!Fresh, WP!Fresh
<1>3. \A results : W!Horizons(results) = WP!Horizons(results)
  BY SameSelection DEF W!Horizons, WP!Horizons, W!Window, WP!Window
<1>4. \A all : W!PageEnd(all) = WP!PageEnd(all)
  BY DEF W!PageEnd, WP!PageEnd
<1>5. \A all, horizons : W!HoldBack(all, horizons) = WP!HoldBack(all, horizons)
  BY SameSelection DEF W!HoldBack, WP!HoldBack
<1>6. \A all, horizons : W!PageOf(all, horizons) = WP!PageOf(all, horizons)
  BY <1>4, <1>5, SameSelection DEF W!PageOf, WP!PageOf
<1>7. \A page, truncated : W!Answer(page, truncated) = WP!Answer(page, truncated)
  BY SameSelection DEF W!Answer, WP!Answer, W!ClampNextSince, WP!ClampNextSince
<1>8. \A s : W!Truncated(s) = WP!Truncated(s)
  BY DEF W!Truncated, WP!Truncated, W!Window, WP!Window
<1> QED
  BY <1>1, <1>2, <1>3, <1>6, <1>7, <1>8 DEF W!PollOnce, WP!PollOnce

LEMMA SameSteps ==
  /\ W!Init => WP!Init
  /\ [W!Next]_(W!vars) => [WP!Next]_(WP!vars)
<1>1. W!Init => WP!Init
  BY SameSelection DEF W!Init, WP!Init, W!NoAnswer, WP!NoAnswer
<1>2. W!Capture => WP!Capture
  BY SameSelection DEF W!Capture, WP!Capture
<1>3. W!Tick => WP!Tick
  BY DEF W!Tick, WP!Tick
<1>4. W!Call => WP!Call
  BY DEF W!Call, WP!Call
<1>5. W!Poll => WP!Poll
  <2>1. W!PollOnce({W!PollSource(q) : q \in Queries})
          = WP!PollOnce({WP!PollSource(q) : q \in Queries})
    BY SamePoll
  <2> QED
    BY <2>1 DEF W!Poll, WP!Poll, W!Expired, WP!Expired
<1>6. W!Wake => WP!Wake
  BY DEF W!Wake, WP!Wake
<1>7. W!Receive => WP!Receive
  BY SameSelection DEF W!Receive, WP!Receive, W!NoAnswer, WP!NoAnswer
<1>8. W!Abort => WP!Abort
  BY DEF W!Abort, WP!Abort, W!NoAnswer, WP!NoAnswer
<1> QED
  BY <1>1, <1>2, <1>3, <1>4, <1>5, <1>6, <1>7, <1>8 DEF W!Next, WP!Next, W!vars, WP!vars

LEMMA SamePromises ==
  WP!ChainingIsLossless /\ WP!DeliveredOnce => W!ChainingIsLossless /\ W!DeliveredOnce
<1>1. \A rows : W!Turns(rows) = WP!Turns(rows)
  BY SameSelection DEF W!Turns, WP!Turns, W!Selected, WP!Selected
<1>2. W!Crowded <=> WP!Crowded
  <2>1. \A X : W!Cardinality(X) = WP!Cardinality(X)
    BY DEF W!Cardinality, WP!Cardinality
  <2> QED
    BY <2>1, SameSelection DEF W!Crowded, WP!Crowded, W!Selected, WP!Selected
<1>3. W!NothingLeftBehind <=> WP!NothingLeftBehind
  BY <1>1, SameSelection DEF W!NothingLeftBehind, WP!NothingLeftBehind,
                             W!Undelivered, WP!Undelivered
<1> QED
  BY <1>2, <1>3, SameSelection
     DEF W!ChainingIsLossless, WP!ChainingIsLossless, W!DeliveredOnce, WP!DeliveredOnce,
         W!Warned, WP!Warned

LEMMA WaitBounded == WP!Bounds /\ WP!EventBounds /\ WP!StorageBounds
<1>1. WP!EventBounds
  BY ToolBounds, SameSelection DEF W!EventBounds, WP!EventBounds, W!Older, WP!Older
<1>2. WP!StorageBounds
  BY ToolBounds DEF W!StorageBounds, WP!StorageBounds
<1>3. WP!WaitBounds
  BY ToolBounds, SameSelection DEF W!WaitBounds, WP!WaitBounds, W!Window, WP!Window
<1> QED
  BY <1>1, <1>2, <1>3 DEF WP!Bounds

(* Chaining next_since loses no turn without a warning and repeats none      *)
(* (mcp/tools/wait-for-new-turns.ts), for the client of the tools' run and   *)
(* every cap, number of windows and universe of turns.                       *)
THEOREM WaitIsLossless == ToolSpec => []ChainingIsLossless
<1> DEFINE Inv == tool = "wait" => WP!WaitInv
<1>1. ToolInit => Inv
  BY SameSteps, WaitBounded, WP!WaitStart DEF ToolInit
<1>2. ASSUME Inv, [ToolNext]_toolVars PROVE Inv'
  <2>1. tool' = tool
    BY <1>2 DEF ToolNext, toolVars, Groups, Search, Atoms, Waits, Logs
  <2>2. tool = "wait" => [W!Next]_(W!vars)
    BY <1>2 DEF ToolNext, toolVars, Groups, Search, Atoms, Waits, Logs, tailVars, W!vars
  <2> QED
    BY <1>2, <2>1, <2>2, SameSteps, WaitBounded, WP!WaitStep
<1>3. Inv => ChainingIsLossless
  BY WaitBounded, SamePromises, WP!WaitHolds DEF ChainingIsLossless
<1> QED
  BY <1>1, <1>2, <1>3, PTL DEF ToolSpec
=============================================================================
