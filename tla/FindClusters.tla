---------------------------- MODULE FindClusters ----------------------------
(***************************************************************************)
(* Ungrouped find_clusters: the ranked clusters as lists of ids under the  *)
(* ceiling of a response.  Long lists are cut first, to shorter and shorter*)
(* slices of every cluster, and only then the last clusters are dropped.   *)
(* What fits depends on rendered sizes and may be anything.                *)
(***************************************************************************)
EXTENDS WorkClusters

CONSTANTS
  IdCaps,     \* PER_CLUSTER_ATOM_IDS_HARD_CAP and the shorter slices after it
  HintCap     \* SKELETON_CLUSTER_OPEN_LOOP_HINTS_CAP

ListingBounds == HintCap \in Nat /\ \A k \in DOMAIN IdCaps : IdCaps[k] \in Nat

HeadAndTail(s, cap) ==
  IF Len(s) <= cap THEN s
  ELSE First(s, cap \div 2) \o SubSeq(s, Len(s) - (cap - cap \div 2) + 1, Len(s))

ById(S) == Sorted(S, Less)

\* Mutant: hints are listed whether or not their atoms are.
AllHints(c, ids) == c.hints

\* Only hints whose atom, and whose resolver if there is one, are listed.
VisibleHints(c, ids) == {h \in c.hints : {h.atom} \cup h.by \subseteq ids}

HintOrder(h) ==
  [question |-> 1, reply |-> 2, todo |-> 3, followup |-> 4][h.kind]

ListedHints(c, ids) ==
  HeadAndTail(Sorted(VisibleHints(c, ids),
                     LAMBDA g, h : LexLess(<<Row[g.atom].occ, g.atom, HintOrder(g)>>,
                                           <<Row[h.atom].occ, h.atom, HintOrder(h)>>)),
              HintCap)

ListedCluster(c, ids) ==
  [ids |-> ids, hints |-> ListedHints(c, ToSet(ids)), cut |-> Len(ids) < Cardinality(c.ids)]

ProjectCluster(c, cap) == ListedCluster(c, HeadAndTail(ById(c.ids), cap))

ProjectClusters(r, cap) == [n \in DOMAIN r.clusters |-> ProjectCluster(r.clusters[n], cap)]

AnyCut(listed) == \E n \in DOMAIN listed : listed[n].cut

\* The answer after the k-th cap, with the first n clusters left.
Listing(r, listed, k, n) ==
  [clusters |-> First(listed, n),
   truncated |-> \/ r.truncated \/ AnyCut(First(listed, n)) \/ n < Len(listed)
                 \/ k > 1 /\ AnyCut(listed)]

Listings(r, listed, k) ==
  {Listing(r, listed, k, n) : n \in IF k = Len(IdCaps) THEN 0..Len(listed) ELSE {Len(listed)}}

FindClustersAnswers(r) ==
  UNION {Listings(r, ProjectClusters(r, IdCaps[k]), k) : k \in DOMAIN IdCaps}

\* An answer that does not say it was cut lists every atom; no hint it gives
\* points at an atom that is not listed with it.
ListingHonest(r, a) ==
  /\ ~a.truncated =>
       UNION {ToSet(a.clusters[n].ids) : n \in DOMAIN a.clusters} = r.turns
  /\ \A n \in DOMAIN a.clusters : \A h \in ToSet(a.clusters[n].hints) :
       {h.atom} \cup h.by \subseteq ToSet(a.clusters[n].ids)
=============================================================================
