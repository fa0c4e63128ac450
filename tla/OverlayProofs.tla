--------------------------- MODULE OverlayProofs ---------------------------
(***************************************************************************)
(* Layers and Overlay, for every set of paths and every stack of layers.   *)
(* Listing and lookup agree on any well-formed stack, and what they show   *)
(* is a tree.  The upper stays well-formed through every step, fault and   *)
(* crash, so both hold of the overlay at every step.  What lowers hold     *)
(* below a path stays hidden by a directory created at it: between its     *)
(* steps a create relies on what the earlier ones left (CreateFacts),      *)
(* beside the inductive invariant IInv.                                    *)
(***************************************************************************)
EXTENDS Overlay, SequenceTheorems, WellFoundedInduction, TLAPS

(***************************************************************************)
(* Paths.                                                                  *)
(***************************************************************************)

(* The directory above a path is a path, one name shorter. *)
LEMMA ParentFacts ==
    ASSUME NEW p \in Path, p # Root
    PROVE  /\ Len(p) \in Nat /\ Len(p) > 0
           /\ Parent(p) \in Path
           /\ Len(Parent(p)) = Len(p) - 1
<1>1. p \in Seq(Name) /\ Len(p) \in Nat
  BY Zenon, PathAssumption, LenProperties
<1>2. Len(p) # 0
  BY Zenon, <1>1, EmptySeq DEF Root
<1>3. Parent(p) \in Path
  BY <1>1, <1>2, PathAssumption DEF Parent
<1> DEFINE m == Len(p) - 1
<1>4. m \in Int /\ 1 \in Int /\ \A i \in 1 .. m : p[i] \in Name
  BY <1>1, ElementOfSeq
<1>5. m >= 0
  BY <1>1, <1>2
<1> HIDE DEF m
<1>6. Len(SubSeq(p, 1, m)) = IF 1 <= m THEN m - 1 + 1 ELSE 0
  BY <1>4, SubSeqProperties
<1>7. Len(SubSeq(p, 1, m)) = m
  BY <1>4, <1>5, <1>6
<1> QED
  BY <1>1, <1>2, <1>3, <1>7 DEF Parent, m

(* The prefixes of a path are paths. *)
LEMMA ChainFacts ==
    ASSUME NEW p \in Path
    PROVE  Chain(p) \subseteq Path
<1>1. Len(p) \in Nat
  BY Zenon, PathAssumption, LenProperties
<1>2. \A n \in 1 .. Len(p) : SubSeq(p, 1, n) \in Path
  BY <1>1, PathAssumption
<1> QED
  BY Zenon, <1>2 DEF Chain

(* The chain of a path is the chain of the directory above it, and itself. *)
LEMMA ChainStep ==
    ASSUME NEW p \in Path, p # Root
    PROVE  Chain(p) = Chain(Parent(p)) \cup {p}
<1>1. p \in Seq(Name) /\ Len(p) \in Nat /\ Len(p) > 0 /\ Len(Parent(p)) = Len(p) - 1
  BY Zenon, PathAssumption, ParentFacts
<1>2. \A n \in 1 .. Len(p) - 1 : SubSeq(Parent(p), 1, n) = SubSeq(p, 1, n)
  BY <1>1, SubSeqOfSubSeq DEF Parent
<1>3. SubSeq(p, 1, Len(p)) = p
  BY Zenon, <1>1, SubSeqFull
<1> QED
  BY <1>1, <1>2, <1>3 DEF Chain

(* The names of a part of a sequence. *)
LEMMA PartFacts ==
    ASSUME NEW q \in Seq(Name), NEW m \in Nat, NEW n \in Nat,
           1 <= m, m <= n + 1, n <= Len(q)
    PROVE  /\ SubSeq(q, m, n) \in Seq(Name)
           /\ Len(SubSeq(q, m, n)) = n - m + 1
           /\ \A i \in 1 .. (n - m + 1) : SubSeq(q, m, n)[i] = q[m + i - 1]
<1>1. Len(q) \in Nat
  BY Zenon, LenProperties
<1>2. m \in Int /\ n \in Int /\ \A i \in m .. n : q[i] \in Name
  BY <1>1, ElementOfSeq
<1>3. /\ SubSeq(q, m, n) \in Seq(Name)
      /\ Len(SubSeq(q, m, n)) = IF m <= n THEN n - m + 1 ELSE 0
      /\ \A i \in 1 .. n - m + 1 : SubSeq(q, m, n)[i] = q[m + i - 1]
  BY <1>2, SubSeqProperties
<1> QED
  BY <1>3

(* A path is below a directory exactly when the directory above it is      *)
(* within it.                                                              *)
LEMMA WithinParent ==
    ASSUME NEW p \in Path, NEW q \in Path, q # Root
    PROVE  Parent(q) \in Within(p) <=> q \in Below(p)
<1>1. /\ p \in Seq(Name) /\ q \in Seq(Name)
      /\ Len(p) \in Nat /\ Len(q) \in Nat /\ Len(q) > 0
      /\ Parent(q) \in Path /\ Len(Parent(q)) = Len(q) - 1
  BY Zenon, PathAssumption, LenProperties, ParentFacts
<1>2. Len(p) <= Len(q) - 1 => SubSeq(Parent(q), 1, Len(p)) = SubSeq(q, 1, Len(p))
  <2>1. CASE Len(p) = 0
    BY <1>1, <2>1, SubSeqEmpty
  <2>2. CASE Len(p) # 0
    <3> SUFFICES ASSUME Len(p) <= Len(q) - 1
                 PROVE  SubSeq(Parent(q), 1, Len(p)) = SubSeq(q, 1, Len(p))
      BY Zenon
    <3>1. /\ 1 \in 1 .. Len(q) /\ Len(q) - 1 \in 1 .. Len(q)
          /\ 1 \in 1 .. (Len(q) - 1) - 1 + 1 /\ Len(p) \in 1 .. (Len(q) - 1) - 1 + 1
      BY <1>1, <2>2
    <3>2. SubSeq(SubSeq(q, 1, Len(q) - 1), 1, Len(p)) = SubSeq(q, 1 + 1 - 1, 1 + Len(p) - 1)
      BY <1>1, <3>1, SubSeqOfSubSeq
    <3>3. 1 + 1 - 1 = 1 /\ 1 + Len(p) - 1 = Len(p)
      BY <1>1
    <3> QED
      BY Zenon, <3>2, <3>3 DEF Parent
  <2> QED
    BY Zenon, <2>1, <2>2
<1>3. Len(p) = Len(q) => (SubSeq(q, 1, Len(p)) = p <=> q = p)
  BY Zenon, <1>1, SubSeqFull
<1> QED
  BY <1>1, <1>2, <1>3 DEF Within, Below

(* The paths within a path are paths. *)
LEMMA WithinFacts ==
    ASSUME NEW p \in Path
    PROVE  /\ p \in Within(p)
           /\ Within(p) \subseteq Path
           /\ p # Root => Root \notin Within(p) /\ Parent(p) \notin Within(p)
<1>1. p \in Seq(Name) /\ Len(p) \in Nat /\ Len(Root) = 0
  BY Zenon, PathAssumption, LenProperties, EmptySeq DEF Root
<1>2. p \in Within(p)
  BY <1>1, SubSeqFull DEF Within
<1>3. \A q \in Within(p) : q \in Path /\ Len(q) >= Len(p)
  BY Zenon DEF Within
<1>4. ASSUME p # Root
      PROVE  Root \notin Within(p) /\ Parent(p) \notin Within(p)
  <2>1. Len(p) > 0 /\ Len(Parent(p)) = Len(p) - 1
    BY Zenon, <1>4, ParentFacts
  <2>2. ~(Len(Root) >= Len(p)) /\ ~(Len(Parent(p)) >= Len(p))
    BY <1>1, <2>1
  <2> QED
    BY Zenon, <1>3, <2>2
<1> QED
  BY Zenon, <1>2, <1>3, <1>4

(* Moving a path from one directory to another commutes with Parent. *)
LEMMA GraftFacts ==
    ASSUME NEW from \in Path, NEW to \in Path
    PROVE  /\ Graft(to, to, from) = from
           /\ \A q \in Below(to) : /\ q # Root
                                   /\ Graft(q, to, from) # Root
                                   /\ Parent(Graft(q, to, from)) = Graft(Parent(q), to, from)
                                   /\ Graft(q, to, from) \in Path =>
                                         /\ Graft(Parent(q), to, from) \in Path
                                         /\ Graft(q, to, from) \in Below(from)
<1>1. /\ from \in Seq(Name) /\ to \in Seq(Name)
      /\ Len(from) \in Nat /\ Len(to) \in Nat
  BY Zenon, PathAssumption, LenProperties
<1>2. Graft(to, to, from) = from
  <2>1. SubSeq(to, Len(to) + 1, Len(to)) = << >>
    BY <1>1, SubSeqEmpty
  <2> QED
    BY Zenon, <1>1, <2>1, ConcatEmptySeq DEF Graft
<1>3. ASSUME NEW q \in Below(to)
      PROVE  /\ q # Root
             /\ Graft(q, to, from) # Root
             /\ Parent(Graft(q, to, from)) = Graft(Parent(q), to, from)
             /\ Graft(q, to, from) \in Path =>
                   /\ Graft(Parent(q), to, from) \in Path
                   /\ Graft(q, to, from) \in Below(from)
  <2> DEFINE g == Graft(q, to, from)
             t == SubSeq(q, Len(to) + 1, Len(q))
             u == SubSeq(q, Len(to) + 1, Len(q) - 1)
  <2>1. q \in Path /\ q \in Seq(Name) /\ Len(q) \in Nat /\ Len(q) > Len(to)
    <3>1. q \in Path /\ q \in Seq(Name) /\ Len(q) \in Nat /\ Len(q) >= Len(to) /\ q # to
          /\ SubSeq(q, 1, Len(to)) = to
      BY Zenon, PathAssumption, LenProperties DEF Below, Within
    <3>2. Len(q) # Len(to)
      BY Zenon, <3>1, SubSeqFull
    <3> QED
      BY <1>1, <3>1, <3>2
  <2>2. q # Root
    BY <1>1, <2>1, EmptySeq DEF Root
  <2>3. /\ t \in Seq(Name) /\ Len(t) = Len(q) - Len(to)
        /\ \A i \in 1 .. Len(q) - Len(to) : t[i] = q[Len(to) + i]
    BY <1>1, <2>1, PartFacts
  <2>4. /\ u \in Seq(Name) /\ Len(u) = Len(q) - Len(to) - 1
        /\ \A i \in 1 .. Len(q) - Len(to) - 1 : u[i] = q[Len(to) + i]
    BY <1>1, <2>1, PartFacts
  <2> HIDE DEF t, u
  <2>5. /\ g \in Seq(Name) /\ Len(g) = Len(from) + Len(t)
        /\ \A i \in 1 .. Len(from) + Len(t) :
              g[i] = IF i <= Len(from) THEN from[i] ELSE t[i - Len(from)]
    BY Zenon, <1>1, <2>3, ConcatProperties DEF Graft, t
  <2>6. /\ from \o u \in Seq(Name) /\ Len(from \o u) = Len(from) + Len(u)
        /\ \A i \in 1 .. Len(from) + Len(u) :
              (from \o u)[i] = IF i <= Len(from) THEN from[i] ELSE u[i - Len(from)]
    BY Zenon, <1>1, <2>4, ConcatProperties
  <2> HIDE DEF g
  <2>7. g # Root
    BY <1>1, <2>1, <2>3, <2>5, EmptySeq DEF Root
  <2>8. /\ Parent(g) \in Seq(Name) /\ Len(Parent(g)) = Len(g) - 1
        /\ \A i \in 1 .. Len(g) - 1 : Parent(g)[i] = g[i]
    BY <1>1, <2>1, <2>3, <2>5, PartFacts DEF Parent
  <2>9. Parent(g) = from \o u
    <3>1. Len(Parent(g)) = Len(from \o u)
      BY <1>1, <2>1, <2>3, <2>4, <2>5, <2>6, <2>8
    <3>2. ASSUME NEW i \in 1 .. Len(Parent(g))
          PROVE  Parent(g)[i] = (from \o u)[i]
      <4>1. /\ i \in 1 .. Len(g) - 1
            /\ i \in 1 .. Len(from) + Len(t)
            /\ i \in 1 .. Len(from) + Len(u)
        BY <1>1, <2>1, <2>3, <2>4, <2>5, <2>8
      <4>2. Parent(g)[i] = IF i <= Len(from) THEN from[i] ELSE t[i - Len(from)]
        BY Zenon, <2>5, <2>8, <4>1
      <4>3. (from \o u)[i] = IF i <= Len(from) THEN from[i] ELSE u[i - Len(from)]
        BY Zenon, <2>6, <4>1
      <4>4. ASSUME ~(i <= Len(from))
            PROVE  t[i - Len(from)] = u[i - Len(from)]
        <5>1. /\ i - Len(from) \in 1 .. Len(q) - Len(to) - 1
              /\ i - Len(from) \in 1 .. Len(q) - Len(to)
          BY <1>1, <2>1, <2>4, <4>1, <4>4
        <5> QED
          BY Zenon, <2>3, <2>4, <5>1
      <4> QED
        BY <4>2, <4>3, <4>4
    <3> QED
      BY Zenon, <2>6, <2>8, <3>1, <3>2, SeqEqual
  <2>10. Graft(Parent(q), to, from) = from \o u
    <3> DEFINE v == SubSeq(Parent(q), Len(to) + 1, Len(Parent(q)))
    <3>1. Parent(q) \in Seq(Name) /\ Len(Parent(q)) = Len(q) - 1
          /\ \A i \in 1 .. Len(q) - 1 : Parent(q)[i] = q[i]
      <4> DEFINE n == Len(q) - 1
      <4>1. n \in Nat /\ 1 \in Nat /\ 1 <= 1 /\ 1 <= n + 1 /\ n <= Len(q)
        BY <1>1, <2>1
      <4> HIDE DEF n
      <4>2. /\ SubSeq(q, 1, n) \in Seq(Name) /\ Len(SubSeq(q, 1, n)) = n - 1 + 1
            /\ \A i \in 1 .. (n - 1 + 1) : SubSeq(q, 1, n)[i] = q[1 + i - 1]
        BY Zenon, <2>1, <4>1, PartFacts
      <4>3. /\ Len(SubSeq(q, 1, n)) = n
            /\ \A i \in 1 .. n : SubSeq(q, 1, n)[i] = q[i]
        BY <4>1, <4>2
      <4> QED
        BY Zenon, <4>2, <4>3 DEF n, Parent
    <3>2. /\ v \in Seq(Name) /\ Len(v) = Len(q) - Len(to) - 1
          /\ \A i \in 1 .. Len(q) - Len(to) - 1 : v[i] = q[Len(to) + i]
      <4> DEFINE r == Parent(q)
                 m == Len(to) + 1
                 n == Len(r)
      <4>1. /\ r \in Seq(Name) /\ m \in Nat /\ n \in Nat /\ 1 <= m /\ m <= n + 1 /\ n <= Len(r)
            /\ n = Len(q) - 1
        BY <1>1, <2>1, <3>1
      <4> HIDE DEF r, m, n
      <4>2. /\ SubSeq(r, m, n) \in Seq(Name) /\ Len(SubSeq(r, m, n)) = n - m + 1
            /\ \A i \in 1 .. (n - m + 1) : SubSeq(r, m, n)[i] = r[m + i - 1]
        BY Zenon, <4>1, PartFacts
      <4>3. Len(to) \in Nat /\ Len(q) \in Nat /\ m = Len(to) + 1
        BY <1>1, <2>1 DEF m
      <4>4. /\ Len(SubSeq(r, m, n)) = Len(q) - Len(to) - 1
            /\ \A i \in 1 .. Len(q) - Len(to) - 1 : SubSeq(r, m, n)[i] = r[Len(to) + i]
        BY <4>1, <4>2, <4>3
      <4>5. ASSUME NEW i \in 1 .. Len(q) - Len(to) - 1
            PROVE  r[Len(to) + i] = q[Len(to) + i]
        <5>1. Len(to) + i \in 1 .. Len(q) - 1
          BY <4>3
        <5> QED
          BY Zenon, <3>1, <5>1 DEF r
      <4> QED
        BY Zenon, <4>2, <4>4, <4>5 DEF r, m, n
    <3> HIDE DEF v
    <3>3. v = u
      BY Zenon, <2>4, <3>2, SeqEqual
    <3> QED
      BY Zenon, <3>3 DEF Graft, v
  <2>11. g \in Path => Parent(g) \in Path
    BY Zenon, <2>7, ParentFacts
  <2>12. g \in Path => g \in Below(from)
    <3>1. SubSeq(g, 1, Len(from)) \in Seq(Name) /\ Len(SubSeq(g, 1, Len(from))) = Len(from)
          /\ \A i \in 1 .. Len(from) : SubSeq(g, 1, Len(from))[i] = g[i]
      BY <1>1, <2>1, <2>3, <2>5, PartFacts
    <3>2. ASSUME NEW i \in 1 .. Len(from)
          PROVE  g[i] = from[i]
      <4>1. i \in 1 .. Len(from) + Len(t) /\ i <= Len(from)
        BY <1>1, <2>1, <2>3
      <4> QED
        BY Zenon, <2>5, <4>1
    <3>3. SubSeq(g, 1, Len(from)) = from
      BY Zenon, <1>1, <3>1, <3>2, SeqEqual
    <3> QED
      BY <1>1, <2>1, <2>3, <2>5, <3>3 DEF Below, Within
  <2> QED
    BY Zenon, <2>2, <2>7, <2>9, <2>10, <2>11, <2>12 DEF g
<1> QED
  BY Zenon, <1>2, <1>3

(***************************************************************************)
(* The listing and the lookup agree.                                       *)
(***************************************************************************)

(* For every stack of layers, a listing gives a name from a layer exactly  *)
(* when the lookup of that path finds it in that layer.                    *)
THEOREM ListedExactlyWhenFound ==
    ASSUME NEW L, NEW s \in Slot, NEW p \in Path
    PROVE  ListedFrom(L, s, p) <=> ResolvesTo(L, s, p)
<1>0. s \in Nat /\ s <= NumLowers
  BY LayerAssumption DEF Slot
<1>1. \A t : WhitedOut(L[t], Parent(p)) <=> HasWhitedOutAncestorInLayer(L[t], p)
  BY Zenon DEF WhitedOut, HasWhitedOutAncestorInLayer, Ancestors
<1>2. CASE s = 0
  BY <1>2 DEF ListedFrom, ResolvesTo, Scans, HidesLayerAndBelow, HidesLayersBelow
<1>3. CASE s # 0
  <2>1. 0 \in 0 .. s /\ 0 \in 0 .. (s - 1) /\ s \in 0 .. s /\ s > 0
    BY <1>0, <1>3
  <2>2. \A t : t \in 0 .. (s - 1) <=> t = 0 \/ t \in 1 .. (s - 1)
    BY <1>0, <1>3
  <2>3. \A t : t \in 0 .. s <=> t = 0 \/ t = s \/ t \in 1 .. (s - 1)
    BY <1>0, <1>3
  <2>4. \A t \in 1 .. (s - 1) : t > 0 /\ t # 0
    BY <1>0
  <2>5. Scans(L, s, Parent(p)) <=>
            /\ ~HasWhitedOutAncestorInLayer(L[s], p)
            /\ ~HasWhitedOutAncestorInLayer(L[0], p)
            /\ ~HidesLowersBelow(L[0], Parent(p))
            /\ \A t \in 1 .. (s - 1) :
                  /\ ~HasWhitedOutAncestorInLayer(L[t], p)
                  /\ ~HidesLowersBelow(L[t], Parent(p))
    BY Zenon, <1>1, <2>1, <2>2, <2>3, <2>4 DEF Scans, HidesLayerAndBelow, HidesLayersBelow
  <2>6. ListedFrom(L, s, p) <=>
            /\ Scans(L, s, Parent(p))
            /\ Holds(L[s], p) /\ ~HasWhiteout(L[s], p)
            /\ ~Holds(L[0], p) /\ ~HasWhiteout(L[0], p)
            /\ \A t \in 1 .. (s - 1) : ~Holds(L[t], p) /\ ~HasWhiteout(L[t], p)
    BY Zenon, <2>1, <2>2, <2>3 DEF ListedFrom
  <2>7. ResolvesTo(L, s, p) <=>
            /\ ~Holds(L[0], p) /\ ~HasWhiteout(L[0], p)
            /\ ~HasWhitedOutAncestorInLayer(L[0], p)
            /\ ~HidesLowersBelow(L[0], Parent(p))
            /\ ~HasWhiteout(L[s], p) /\ ~HasWhitedOutAncestorInLayer(L[s], p)
            /\ Holds(L[s], p)
            /\ \A t \in 1 .. (s - 1) :
                  /\ ~HasWhiteout(L[t], p) /\ ~HasWhitedOutAncestorInLayer(L[t], p)
                  /\ ~Holds(L[t], p)
                  /\ ~HidesLowersBelow(L[t], Parent(p))
    BY Zenon, <1>3 DEF ResolvesTo, LowerFoundAt, UpperAncestorHides, FoundInLower, StopsBeforeProbe
  <2> QED
    BY Zenon, <2>5, <2>6, <2>7
<1> QED
  BY Zenon, <1>2, <1>3

(***************************************************************************)
(* The merged view is a tree.                                              *)
(***************************************************************************)

(* The listing of a directory gives for each name the entry that the       *)
(* lookup of its path gives (MergeDirectoryAcrossLayers against            *)
(* ResolvePath).                                                           *)
THEOREM ListedIsLookup ==
    ASSUME NEW L, NEW p \in Path
    PROVE  ListedEntry(L, p) = ResolvePath(L, p)
<1> DEFINE slots == {s \in Slot : ListedFrom(L, s, p)}
           hits == {i \in 1 .. NumLowers : LowerFoundAt(L, i, p)}
<1>0. Slot = {0} \cup 1 .. NumLowers /\ 0 \notin 1 .. NumLowers
  BY LayerAssumption DEF Slot
<1>1. slots = {s \in Slot : ResolvesTo(L, s, p)}
  BY Zenon, ListedExactlyWhenFound
<1>2. ListedEntry(L, p) = IF slots = {} THEN NoEntry ELSE L[CHOOSE s \in slots : TRUE].tree[p]
  BY Zenon DEF ListedEntry
<1>3. CASE Holds(L[0], p)
  <2>1. slots = {0}
    BY Zenon, <1>0, <1>1, <1>3 DEF ResolvesTo
  <2> QED
    BY Zenon, <1>2, <1>3, <2>1 DEF ResolvePath
<1>4. CASE ~Holds(L[0], p) /\ HasWhiteout(L[0], p)
  <2>1. slots = {}
    BY Zenon, <1>0, <1>1, <1>4 DEF ResolvesTo
  <2> QED
    BY Zenon, <1>2, <1>4, <2>1 DEF ResolvePath
<1>5. CASE ~Holds(L[0], p) /\ ~HasWhiteout(L[0], p)
  <2>1. slots = hits
    BY Zenon, <1>0, <1>1, <1>5 DEF ResolvesTo
  <2> QED
    BY Zenon, <1>2, <1>5, <2>1 DEF ResolvePath, ResolveLowerPath
<1> QED
  BY Zenon, <1>3, <1>4, <1>5

(* A nonempty set of layer numbers has a first one. *)
LEMMA FirstLayer ==
    ASSUME NEW S \in SUBSET Nat, S # {}
    PROVE  \E i \in S : \A j \in S : i <= j
<1>1. \E i \in S : \A j \in S : ~(<<j, i>> \in OpToRel(<, Nat))
  BY Zenon, NatLessThanWellFounded, WFMin
<1>2. PICK i \in S : \A j \in S : ~(<<j, i>> \in OpToRel(<, Nat))
  BY Zenon, <1>1
<1>3. \A j \in S : ~(j < i)
  BY Zenon, <1>2 DEF OpToRel
<1> QED
  BY <1>3

(* What hides lowers below a directory hides them below each directory in  *)
(* it.                                                                     *)
LEMMA HidingGoesDown ==
    ASSUME NEW l, NEW d \in Path, d # Root
    PROVE  /\ HidesLowersBelow(l, Parent(d)) => HidesLowersBelow(l, d)
           /\ WhitedOut(l, Parent(d)) => WhitedOut(l, d)
BY Zenon, ChainStep DEF HidesLowersBelow, HasOpaqueSelfOrAncestorInLayer,
                 HasNonDirectorySelfOrAncestorInLayer, WhitedOut

(* In a layer, the directory above an entry is a directory. *)
LEMMA ParentHeld ==
    ASSUME NEW l \in Layer, WellFormed(l), NEW p \in Path, p # Root, Holds(l, p)
    PROVE  IsDirectory(l.tree[Parent(p)]) /\ Holds(l, Parent(p))
BY Zenon DEF WellFormed, IsDirectory, Holds, Found

(* An entry that is held and hides nothing below itself is a directory. *)
LEMMA HeldAndOpen ==
    ASSUME NEW l \in Layer, NEW d \in Path, d # Root,
           Holds(l, d), ~HidesLowersBelow(l, d)
    PROVE  IsDirectory(l.tree[d])
<1>1. d \in Chain(d)
  BY Zenon, ChainStep
<1>2. l.tree[d] \in Entry
  BY Zenon DEF Layer
<1> QED
  BY <1>1, <1>2 DEF HidesLowersBelow, HasNonDirectorySelfOrAncestorInLayer,
                    Holds, Found, IsDirectory, Entry, NoEntry

(* Where the lookup finds p in lower i, it finds the directory above p in  *)
(* lower i or in one before it, and it finds a directory.                  *)
LEMMA LowerParent ==
    ASSUME NEW L \in [Slot -> Layer], \A s \in Slot : WellFormed(L[s]),
           NEW p \in Path, p # Root, Parent(p) # Root,
           NEW i \in 1 .. NumLowers, LowerFoundAt(L, i, p)
    PROVE  IsDirectory(ResolveLowerPath(L, Parent(p)))
<1> DEFINE d == Parent(p)
           S == {j \in 1 .. i : Holds(L[j], d)}
<1>0. NumLowers \in Nat /\ i \in Nat /\ i \in Slot /\ 1 .. i \subseteq Slot
  BY LayerAssumption DEF Slot
<1>1. d \in Path /\ d # Root
  BY Zenon, ParentFacts
<1>2. i \in S /\ IsDirectory(L[i].tree[d])
  BY <1>0, ParentHeld DEF LowerFoundAt, FoundInLower
<1>3. PICK k \in S : \A j \in S : k <= j
  <2>1. S \in SUBSET Nat /\ S # {}
    BY <1>0, <1>2
  <2> HIDE DEF S
  <2> QED
    BY Zenon, <2>1, FirstLayer
<1>4. \A j \in 1 .. NumLowers : LowerFoundAt(L, j, d) => j <= i
  BY <1>0, <1>2 DEF LowerFoundAt, FoundInLower
<1>5. \A j \in 1 .. i : Holds(L[j], d) => IsDirectory(L[j].tree[d])
  <2> SUFFICES ASSUME NEW j \in 1 .. i, Holds(L[j], d), j # i
               PROVE  IsDirectory(L[j].tree[d])
    BY Zenon, <1>2
  <2>1. j \in 1 .. (i - 1) /\ L[j] \in Layer
    BY <1>0
  <2>2. ~HidesLowersBelow(L[j], d)
    BY Zenon, <2>1 DEF LowerFoundAt, FoundInLower
  <2> QED
    BY Zenon, <1>1, <2>1, <2>2, HeldAndOpen
<1>6. LowerFoundAt(L, k, d)
  <2>1. ~UpperAncestorHides(L, d)
    BY Zenon, <1>1, HidingGoesDown
    DEF LowerFoundAt, UpperAncestorHides, HasWhitedOutAncestorInLayer, WhitedOut, Ancestors
  <2>2. \A j \in 1 .. i : ~StopsBeforeProbe(L[j], d)
    <3> SUFFICES ASSUME NEW j \in 1 .. i
                 PROVE  ~StopsBeforeProbe(L[j], d)
      BY Zenon
    <3>1. ~WhitedOut(L[j], d)
      BY <1>0 DEF LowerFoundAt, FoundInLower, StopsBeforeProbe, WhitedOut,
                  HasWhitedOutAncestorInLayer, Ancestors
    <3> QED
      BY Zenon, <1>1, <3>1, ChainStep, HidingGoesDown
      DEF StopsBeforeProbe, WhitedOut, HasWhitedOutAncestorInLayer, Ancestors
  <2>3. \A j \in 1 .. (k - 1) : ~Holds(L[j], d) /\ ~HidesLowersBelow(L[j], Parent(d))
    BY <1>0, <1>1, <1>3, HidingGoesDown DEF LowerFoundAt, FoundInLower
  <2> QED
    BY <1>0, <1>3, <2>1, <2>2, <2>3 DEF LowerFoundAt, FoundInLower
<1>7. \A j \in 1 .. NumLowers : LowerFoundAt(L, j, d) => IsDirectory(L[j].tree[d])
  BY <1>0, <1>4, <1>5 DEF LowerFoundAt, FoundInLower
<1> QED
  BY <1>0, <1>3, <1>6, <1>7 DEF ResolveLowerPath

(* The merged view of a stack of well-formed layers is a tree: an entry    *)
(* that the lookup finds is in a directory that the lookup finds.          *)
THEOREM LookupIsTree ==
    ASSUME NEW L \in [Slot -> Layer], \A s \in Slot : WellFormed(L[s]),
           NEW p \in Path, p # Root, Found(ResolvePath(L, p))
    PROVE  IsDirectory(ResolvePath(L, Parent(p)))
<1> DEFINE d == Parent(p)
<1>0. NumLowers \in Nat /\ 0 \in Slot /\ L[0] \in Layer /\ WellFormed(L[0])
  BY LayerAssumption DEF Slot
<1>1. d \in Path
  BY Zenon, ParentFacts
<1>2. CASE Holds(L[0], p)
  BY Zenon, <1>0, <1>2, ParentHeld DEF ResolvePath
<1>3. CASE ~Holds(L[0], p)
  <2>1. PICK i \in 1 .. NumLowers : LowerFoundAt(L, i, p)
    BY Zenon, <1>3 DEF ResolvePath, ResolveLowerPath, Found, NoEntry
  <2>2. CASE d = Root
    BY Zenon, <1>0, <2>2 DEF ResolvePath, WellFormed, IsDirectory, Holds, Found
  <2>3. CASE d # Root /\ Holds(L[0], d)
    BY Zenon, <1>0, <1>1, <2>1, <2>3, HeldAndOpen DEF ResolvePath, LowerFoundAt, UpperAncestorHides
  <2>4. CASE d # Root /\ ~Holds(L[0], d)
    <3>1. ~HasWhiteout(L[0], d)
      BY Zenon, <1>1, <2>1, <2>4, ChainStep
      DEF LowerFoundAt, UpperAncestorHides, HasWhitedOutAncestorInLayer, Ancestors
    <3> QED
      BY Zenon, <2>1, <2>4, <3>1, LowerParent DEF ResolvePath
  <2> QED
    BY Zenon, <2>2, <2>3, <2>4
<1> QED
  BY Zenon, <1>2, <1>3

(* A directory above a path is one of its ancestors. *)
LEMMA AboveIsAncestor ==
    ASSUME NEW d \in Path, d # Root, NEW p \in Below(d)
    PROVE  p # Root /\ d \in Ancestors(p)
<1>1. p \in Path /\ p # Root
  BY Zenon, WithinFacts DEF Below
<1>2. Parent(p) \in Within(d)
  BY Zenon, <1>1, WithinParent
<1>3. Parent(p) \in Path /\ Len(d) \in Nat /\ Len(d) > 0 /\ Len(Parent(p)) \in Nat
  BY Zenon, <1>1, ParentFacts, PathAssumption, LenProperties
<1>4. SubSeq(Parent(p), 1, Len(d)) = d /\ Len(d) \in 1 .. Len(Parent(p))
  BY <1>2, <1>3 DEF Within
<1> QED
  BY Zenon, <1>1, <1>4 DEF Ancestors, Chain

(* Every directory above an entry of the merged view is in the view. *)
LEMMA AncestorsShown ==
    ASSUME NEW L \in [Slot -> Layer], \A s \in Slot : WellFormed(L[s]),
           NEW p \in Path, p # Root, Found(ResolvePath(L, p)),
           NEW a \in Ancestors(p)
    PROVE  IsDirectory(ResolvePath(L, a))
<1> DEFINE n == Len(p)
           Up(k) == SubSeq(p, 1, n - k)
           Bad == {k \in 1 .. n - 1 : ~IsDirectory(ResolvePath(L, Up(k)))}
<1>1. /\ p \in Seq(Name) /\ n \in Nat /\ n > 0 /\ Up(1) = Parent(p)
      /\ Parent(p) \in Path /\ Len(Parent(p)) = n - 1
  BY Zenon, PathAssumption, ParentFacts DEF Parent
<1>2. \A k \in 1 .. n - 1 : Up(k) \in Path /\ Len(Up(k)) = n - k
  <2> SUFFICES ASSUME NEW k \in 1 .. n - 1
               PROVE  Up(k) \in Path /\ Len(Up(k)) = n - k
    BY Zenon
  <2>1. n - k \in 0 .. Len(p) /\ n - k \in Nat /\ 1 <= n - k + 1 /\ n - k <= Len(p)
    BY <1>1
  <2>2. Len(SubSeq(p, 1, n - k)) = (n - k) - 1 + 1
    BY <1>1, <2>1, PartFacts
  <2> QED
    BY <1>1, <2>1, <2>2, PathAssumption
<1>3. \A k \in 1 .. n - 2 : Up(k + 1) = Parent(Up(k))
  <2> SUFFICES ASSUME NEW k \in 1 .. n - 2
               PROVE  Up(k + 1) = Parent(Up(k))
    BY Zenon
  <2>1. /\ 1 \in 1 .. Len(p) /\ n - k \in 1 .. Len(p)
        /\ 1 \in 1 .. (n - k) - 1 + 1 /\ n - k - 1 \in 1 .. (n - k) - 1 + 1
        /\ Len(Up(k)) = n - k
    BY <1>1, <1>2
  <2>2. SubSeq(SubSeq(p, 1, n - k), 1, n - k - 1) = SubSeq(p, 1 + 1 - 1, 1 + (n - k - 1) - 1)
    BY <1>1, <2>1, SubSeqOfSubSeq
  <2>3. 1 + 1 - 1 = 1 /\ 1 + (n - k - 1) - 1 = n - (k + 1)
    BY <1>1
  <2> QED
    BY Zenon, <2>1, <2>2, <2>3 DEF Parent
<1>4. Bad = {}
  <2> SUFFICES ASSUME Bad # {} PROVE FALSE
    BY Zenon
  <2>1. Bad \in SUBSET Nat
    BY <1>1
  <2>2. PICK k \in Bad : \A j \in Bad : k <= j
    <3> HIDE DEF Bad
    <3> QED
      BY Zenon, <2>1, FirstLayer
  <2>3. k # 1
    BY Zenon, <1>1, <2>2, LookupIsTree
  <2>4. k - 1 \in 1 .. n - 2 /\ k - 1 \in 1 .. n - 1 /\ k - 1 \notin Bad /\ (k - 1) + 1 = k
    <3>1. k \in 1 .. n - 1
      BY Zenon
    <3>2. k - 1 \in 1 .. n - 2 /\ k - 1 \in 1 .. n - 1 /\ (k - 1) + 1 = k /\ ~(k <= k - 1)
      BY <1>1, <2>3, <3>1
    <3>3. k - 1 \notin Bad
      BY Zenon, <2>2, <3>2
    <3> QED
      BY Zenon, <3>2, <3>3
  <2>5. IsDirectory(ResolvePath(L, Up(k - 1))) /\ Up(k - 1) \in Path /\ Up(k - 1) # Root
    <3>1. Len(Root) = 0 /\ Len(Up(k - 1)) # 0
      BY <1>1, <1>2, <2>4, EmptySeq DEF Root
    <3> QED
      BY Zenon, <1>2, <2>4, <3>1
  <2>6. IsDirectory(ResolvePath(L, Parent(Up(k - 1))))
    BY Zenon, <2>5, LookupIsTree DEF Found, IsDirectory
  <2> QED
    BY Zenon, <1>3, <2>2, <2>4, <2>6
<1>5. PICK m \in 1 .. Len(Parent(p)) : a = SubSeq(Parent(p), 1, m)
  BY Zenon DEF Ancestors, Chain
<1>6. SubSeq(Parent(p), 1, m) = SubSeq(p, 1, m)
  <2>1. /\ 1 \in 1 .. Len(p) /\ n - 1 \in 1 .. Len(p)
        /\ 1 \in 1 .. (n - 1) - 1 + 1 /\ m \in 1 .. (n - 1) - 1 + 1
    BY <1>1, <1>5
  <2>2. SubSeq(SubSeq(p, 1, n - 1), 1, m) = SubSeq(p, 1 + 1 - 1, 1 + m - 1)
    BY <1>1, <2>1, SubSeqOfSubSeq
  <2>3. 1 + 1 - 1 = 1 /\ 1 + m - 1 = m
    BY <1>1, <1>5
  <2> QED
    BY Zenon, <2>2, <2>3 DEF Parent
<1>7. n - m \in 1 .. n - 1 /\ n - (n - m) = m
  BY <1>1, <1>5
<1>8. a = Up(n - m)
  BY Zenon, <1>5, <1>6, <1>7
<1> QED
  BY Zenon, <1>4, <1>7, <1>8

(***************************************************************************)
(* Types of the operators.                                                 *)
(***************************************************************************)
LEMMA EntryFacts ==
    /\ NoEntry \in Entry /\ ~Found(NoEntry)
    /\ [kind |-> "dir", tag |-> Fresh] \in Entry
    /\ [kind |-> "file", tag |-> Fresh] \in Entry
    /\ \A e \in Entry : e.kind \in {"none", "file", "dir"} /\ e.tag \in Tag
    /\ \A e \in Entry : [e EXCEPT !.kind = "dir"] \in Entry
BY LayerAssumption DEF NoEntry, Entry, Found

(* A lookup gives an entry. *)
LEMMA LookupTypes ==
    ASSUME NEW L \in [Slot -> Layer], NEW p \in Path
    PROVE  /\ ResolveLowerPath(L, p) \in Entry
           /\ ResolvePath(L, p) \in Entry
           /\ ListedEntry(L, p) \in Entry
<1>1. \A s \in Slot : L[s].tree[p] \in Entry
  BY Zenon DEF Layer
<1>2. 0 \in Slot /\ 1 .. NumLowers \subseteq Slot
  BY LayerAssumption DEF Slot
<1>3. ResolveLowerPath(L, p) \in Entry
  BY Zenon, <1>1, <1>2, EntryFacts DEF ResolveLowerPath
<1>4. ListedEntry(L, p) \in Entry
  BY Zenon, <1>1, EntryFacts DEF ListedEntry
<1> QED
  BY Zenon, <1>1, <1>2, <1>3, <1>4, EntryFacts DEF ResolvePath

(* The changes of a layer give layers. *)
LEMMA ChangeTypes ==
    ASSUME NEW l \in Layer, NEW s \in Layer, NEW p \in Path, NEW q \in Path,
           NEW e \in Entry
    PROVE  /\ EmptyLayer \in Layer
           /\ PutEntry(l, p, e) \in Layer
           /\ Prune(l, p) \in Layer
           /\ Plant(l, s, p, q) \in Layer
           /\ MoveTree(l, p, q) \in Layer
           /\ RemoveOneBelow(l, p) \subseteq Layer
           /\ [l EXCEPT !.wh = @ \cup {p}] \in Layer
           /\ [l EXCEPT !.wh = @ \ {p}] \in Layer
           /\ [l EXCEPT !.opq = @ \cup {p}] \in Layer
           /\ [l EXCEPT !.opq = @ \ {p}] \in Layer
<1>1. EmptyLayer \in Layer
  BY Zenon, EntryFacts DEF EmptyLayer, Layer
<1>2. PutEntry(l, p, e) \in Layer
  BY Zenon DEF PutEntry, Layer
<1>3. ASSUME NEW k \in Layer, NEW r \in Path
      PROVE  Prune(k, r) \in Layer
  BY Zenon, EntryFacts DEF Prune, Layer
<1>4. ASSUME NEW k \in Layer
      PROVE  Plant(k, s, p, q) \in Layer
  BY Zenon, EntryFacts, WithinFacts DEF Plant, Layer, Below
<1>5. MoveTree(l, p, q) \in Layer
  <2>1. Prune(l, p) \in Layer
    BY Zenon, <1>3
  <2> QED
    BY Zenon, <2>1, EntryFacts, WithinFacts DEF MoveTree, Plant, Layer, Below
<1>6. /\ \A w : [l EXCEPT !.wh = @ \ {w}] \in Layer
      /\ \A w : [l EXCEPT !.opq = @ \ {w}] \in Layer
      /\ [l EXCEPT !.wh = @ \cup {p}] \in Layer
      /\ [l EXCEPT !.opq = @ \cup {p}] \in Layer
  BY Zenon DEF Layer
<1>7. RemoveOneBelow(l, p) \subseteq Layer
  BY Zenon, <1>3, <1>6, WithinFacts DEF RemoveOneBelow, Leaves, Below
<1> QED
  BY Zenon, <1>1, <1>2, <1>3, <1>4, <1>5, <1>6, <1>7

(***************************************************************************)
(* The operators keep a layer well-formed.                                 *)
(***************************************************************************)

(* A new entry, in a directory. *)
LEMMA PutKeepsForm ==
    ASSUME NEW l \in Layer, WellFormed(l), NEW p \in Path, p # Root, NEW e \in Entry,
           ~Holds(l, p), IsDirectory(l.tree[Parent(p)])
    PROVE  WellFormed(PutEntry(l, p, e))
<1>1. Parent(p) \in Path /\ Parent(p) # p
  BY ParentFacts
<1>2. \A q \in Path \ {Root} : Parent(q) \in Path
  BY Zenon, ParentFacts
<1>3. \A q \in Path : PutEntry(l, p, e).tree[q] = IF q = p THEN e ELSE l.tree[q]
  BY Zenon DEF PutEntry, Layer
<1>4. PutEntry(l, p, e).wh = l.wh /\ PutEntry(l, p, e).opq = l.opq /\ l.opq \subseteq Path
  BY Zenon DEF PutEntry, Layer
<1>5. \A q \in Path \ {Root} :
         Holds(l, q) \/ q \in l.wh => IsDirectory(l.tree[Parent(q)]) /\ Parent(q) # p
  BY Zenon DEF WellFormed, Holds, IsDirectory, Found
<1>6. p \notin l.opq
  BY Zenon DEF WellFormed
<1> QED
  BY Zenon, <1>1, <1>2, <1>3, <1>4, <1>5, <1>6, PathAssumption DEF WellFormed, Holds

(* A tree goes. *)
LEMMA PruneKeepsForm ==
    ASSUME NEW l \in Layer, WellFormed(l), NEW p \in Path, p # Root
    PROVE  WellFormed(Prune(l, p))
<1>1. /\ p \in Within(p) /\ Within(p) \subseteq Path /\ Root \notin Within(p)
      /\ Parent(p) \notin Within(p)
  BY Zenon, WithinFacts
<1>2. \A q \in Path \ {Root} :
         Parent(q) \in Path /\ (Parent(q) \in Within(p) <=> q \in Below(p))
  BY Zenon, ParentFacts, WithinParent
<1>3. \A q \in Path : Prune(l, p).tree[q] = IF q \in Within(p) THEN NoEntry ELSE l.tree[q]
  BY Zenon DEF Prune
<1>4. Prune(l, p).wh = l.wh \ Below(p) /\ Prune(l, p).opq = l.opq \ Within(p)
  BY Zenon DEF Prune
<1>5. l.opq \subseteq Path
  BY Zenon DEF Layer
<1> QED
  BY Zenon, <1>1, <1>2, <1>3, <1>4, <1>5, EntryFacts, PathAssumption
  DEF WellFormed, Holds, Below

(* What a tree needs to be put at another place. *)
Portable(s, from) ==
    /\ \A q \in Below(from) :
          Holds(s, q) \/ q \in s.wh => IsDirectory(s.tree[Parent(q)])
    /\ \A q \in Within(from) : q \in s.opq => Holds(s, q)

(* A tree of another layer, put in a directory. *)
LEMMA PlantKeepsForm ==
    ASSUME NEW l \in Layer, WellFormed(l), NEW s \in Layer,
           NEW from \in Path, NEW to \in Path, to # Root,
           Portable(s, from), IsDirectory(l.tree[Parent(to)])
    PROVE  WellFormed(Plant(l, s, from, to))
<1> DEFINE m == Plant(l, s, from, to)
           Source(q) == Graft(q, to, from)
<1>1. /\ to \in Within(to) /\ Within(to) \subseteq Path /\ Root \notin Within(to)
      /\ Parent(to) \notin Within(to)
  BY Zenon, WithinFacts
<1>2. \A q \in Path \ {Root} :
         Parent(q) \in Path /\ (Parent(q) \in Within(to) <=> q \in Below(to))
  BY Zenon, ParentFacts, WithinParent
<1>3. \A q \in Path :
         m.tree[q] = IF q \notin Within(to) THEN l.tree[q]
                     ELSE IF Source(q) \in Path THEN s.tree[Source(q)] ELSE NoEntry
  BY Zenon DEF Plant
<1>4. /\ m.wh = (l.wh \ Below(to)) \cup {q \in Below(to) : Source(q) \in s.wh}
      /\ m.opq = (l.opq \ Within(to)) \cup {q \in Within(to) : Source(q) \in s.opq}
  BY Zenon DEF Plant
<1>5. /\ Source(to) = from
      /\ \A q \in Below(to) : /\ q # Root
                              /\ Parent(Source(q)) = Source(Parent(q))
                              /\ Source(q) \in Path =>
                                    Source(Parent(q)) \in Path /\ Source(q) \in Below(from)
  BY GraftFacts
<1>6. l.opq \subseteq Path /\ s.opq \subseteq Path /\ s.wh \subseteq Path
  BY Zenon DEF Layer
<1> HIDE DEF m, Source
<1>7. IsDirectory(m.tree[Root]) /\ Root \notin m.wh
  BY Zenon, <1>1, <1>3, <1>4, PathAssumption DEF WellFormed, Below
<1>8. ASSUME NEW q \in Path \ {Root}, Holds(m, q) \/ q \in m.wh
      PROVE  IsDirectory(m.tree[Parent(q)])
  <2>1. CASE q \in Below(to)
    <3>1. Source(q) \in Path /\ (Holds(s, Source(q)) \/ Source(q) \in s.wh)
      BY Zenon, <1>3, <1>4, <1>6, <1>8, <2>1, EntryFacts DEF Holds, Below
    <3>2. IsDirectory(s.tree[Source(Parent(q))]) /\ Source(Parent(q)) \in Path
      BY Zenon, <1>5, <2>1, <3>1 DEF Portable
    <3> QED
      BY Zenon, <1>2, <1>3, <2>1, <3>2
  <2>2. CASE q = to
    BY Zenon, <1>1, <1>2, <1>3, <2>2
  <2>3. CASE q \notin Within(to)
    BY Zenon, <1>2, <1>3, <1>4, <1>8, <2>3 DEF WellFormed, Holds, Below
  <2> QED
    BY Zenon, <2>1, <2>2, <2>3 DEF Below
<1>9. ASSUME NEW q \in m.opq
      PROVE  Holds(m, q)
  <2>1. CASE q \in Within(to)
    <3>1. Source(q) \in s.opq /\ Source(q) \in Path /\ Source(q) \in Within(from)
      BY Zenon, <1>4, <1>5, <1>6, <1>9, <2>1, WithinFacts DEF Below
    <3> QED
      BY Zenon, <1>1, <1>3, <2>1, <3>1 DEF Portable, Holds
  <2>2. CASE q \notin Within(to)
    BY Zenon, <1>3, <1>4, <1>6, <1>9, <2>2 DEF WellFormed, Holds
  <2> QED
    BY Zenon, <2>1, <2>2
<1> QED
  BY Zenon, <1>7, <1>8, <1>9 DEF WellFormed, m

(* Every tree of a well-formed layer can be put at another place. *)
LEMMA FormIsPortable ==
    ASSUME NEW l \in Layer, WellFormed(l), NEW from \in Path, from # Root
    PROVE  Portable(l, from)
BY Zenon, WithinFacts DEF Portable, WellFormed, Below

(* What the operators leave alone. *)
LEMMA Frames ==
    ASSUME NEW l \in Layer, NEW s \in Layer, NEW from \in Path, NEW to \in Path,
           NEW q \in Path
    PROVE  /\ q \notin Within(from) => Prune(l, from).tree[q] = l.tree[q]
           /\ q \notin Within(to) => Plant(l, s, from, to).tree[q] = l.tree[q]
           /\ q \notin Within(from) /\ q \notin Within(to) =>
                 MoveTree(l, from, to).tree[q] = l.tree[q]
BY Zenon DEF Prune, Plant, MoveTree

(* A tree moves to a place outside itself. *)
LEMMA MoveKeepsForm ==
    ASSUME NEW l \in Layer, WellFormed(l), NEW from \in Path, NEW to \in Path,
           from # Root, to # Root, to \notin Within(from), IsDirectory(l.tree[Parent(to)])
    PROVE  WellFormed(MoveTree(l, from, to))
<1>1. Parent(to) \in Path /\ Parent(to) \notin Within(from)
  BY Zenon, ParentFacts, WithinParent DEF Below
<1>2. Prune(l, from) \in Layer /\ WellFormed(Prune(l, from))
  BY Zenon, ChangeTypes, EntryFacts, PruneKeepsForm
<1>3. IsDirectory(Prune(l, from).tree[Parent(to)])
  BY Zenon, <1>1, Frames
<1>4. Portable(l, from)
  BY Zenon, FormIsPortable
<1> QED
  BY Zenon, <1>2, <1>3, <1>4, PlantKeepsForm DEF MoveTree

(* Markers come and go. *)
LEMMA MarkersKeepForm ==
    ASSUME NEW l \in Layer, WellFormed(l), NEW p \in Path, p # Root
    PROVE  /\ IsDirectory(l.tree[Parent(p)]) => WellFormed([l EXCEPT !.wh = @ \cup {p}])
           /\ WellFormed([l EXCEPT !.wh = @ \ {p}])
           /\ Holds(l, p) => WellFormed([l EXCEPT !.opq = @ \cup {p}])
           /\ WellFormed([l EXCEPT !.opq = @ \ {p}])
BY Zenon DEF WellFormed, Holds, Layer

(* One step of the removal of what is below p. *)
LEMMA RemovalKeepsForm ==
    ASSUME NEW l \in Layer, WellFormed(l), NEW p \in Path, p # Root,
           NEW u \in RemoveOneBelow(l, p)
    PROVE  /\ WellFormed(u)
           /\ u.tree[Parent(p)] = l.tree[Parent(p)]
<1>1. Parent(p) \in Path /\ Len(p) \in Nat /\ Len(Parent(p)) = Len(p) - 1 /\
        Within(p) \subseteq Path
  BY Zenon, ParentFacts, WithinFacts
<1>2. CASE \E w \in l.wh \cap Below(p) : u = [l EXCEPT !.wh = @ \ {w}]
  <2>1. PICK w \in l.wh \cap Below(p) : u = [l EXCEPT !.wh = @ \ {w}]
    BY Zenon, <1>2
  <2>2. w \in Path /\ w # Root
    BY Zenon, <1>1, WithinFacts DEF Below
  <2> QED
    BY Zenon, <2>1, <2>2, MarkersKeepForm DEF Layer
<1>3. CASE \E d \in MarkerFiles(l, p) : u = [l EXCEPT !.opq = @ \ {d}]
  <2>1. PICK d \in MarkerFiles(l, p) : u = [l EXCEPT !.opq = @ \ {d}]
    BY Zenon, <1>3
  <2>2. d \in Path /\ d # Root
    BY Zenon, <1>1, WithinFacts DEF MarkerFiles
  <2> QED
    BY Zenon, <2>1, <2>2, MarkersKeepForm DEF Layer
<1>4. CASE \E q \in Leaves(l, p) : u = Prune(l, q)
  <2>1. PICK q \in Leaves(l, p) : u = Prune(l, q)
    BY Zenon, <1>4
  <2>2. q \in Path /\ q # Root /\ Len(q) >= Len(p) /\ Len(q) \in Nat
    BY Zenon, <1>1, WithinFacts, PathAssumption, LenProperties DEF Leaves, Below, Within
  <2>3. Parent(p) \notin Within(q)
    BY <1>1, <2>2 DEF Within
  <2> QED
    BY Zenon, <1>1, <2>1, <2>2, <2>3, PruneKeepsForm, Frames
<1> QED
  BY Zenon, <1>2, <1>3, <1>4 DEF RemoveOneBelow

(* A path put back at its own place is itself. *)
LEMMA GraftSelf ==
    ASSUME NEW d \in Path, NEW q \in Within(d)
    PROVE  Graft(q, d, d) = q
<1>1. /\ q \in Seq(Name) /\ Len(q) \in Nat /\ Len(d) \in Nat /\ Len(d) <= Len(q)
      /\ SubSeq(q, 1, Len(d)) = d
  BY Zenon, PathAssumption, LenProperties DEF Within
<1>2. /\ 1 \in 1 .. Len(q) + 1 /\ Len(d) \in 1 - 1 .. Len(q) /\ Len(q) \in Len(d) .. Len(q)
  BY <1>1
<1>3. SubSeq(q, 1, Len(d)) \o SubSeq(q, Len(d) + 1, Len(q)) = SubSeq(q, 1, Len(q))
  BY Zenon, <1>1, <1>2, ConcatAdjacentSubSeq
<1> QED
  BY Zenon, <1>1, <1>3, SubSeqFull DEF Graft

(* A tree taken out of a well-formed layer can be put back. *)
LEMMA TakenIsPortable ==
    ASSUME NEW l \in Layer, WellFormed(l), NEW d \in Path, d # Root
    PROVE  Portable(Plant(EmptyLayer, l, d, d), d)
<1> DEFINE m == Plant(EmptyLayer, l, d, d)
<1>1. Within(d) \subseteq Path
  BY Zenon, WithinFacts
<1>2. \A q \in Within(d) : m.tree[q] = l.tree[q] /\ (q \in m.opq <=> q \in l.opq)
  BY Zenon, <1>1, GraftSelf DEF Plant, EmptyLayer
<1>3. \A q \in Below(d) : q \in m.wh <=> q \in l.wh
  BY Zenon, <1>1, GraftSelf DEF Plant, EmptyLayer, Below
<1>4. \A q \in Below(d) : q \in Within(d) /\ Parent(q) \in Within(d)
  BY Zenon, <1>1, WithinFacts, WithinParent DEF Below
<1> HIDE DEF m
<1>5. Portable(l, d)
  BY Zenon, FormIsPortable
<1> QED
  BY Zenon, <1>2, <1>3, <1>4, <1>5 DEF Portable, Holds, m

(***************************************************************************)
(* The inductive invariant.  Well-formedness alone is not inductive: a     *)
(* step relies on what earlier steps of its call made sure of.             *)
(***************************************************************************)
RenameStep ==
    {"r_aside", "r_parent", "r_copy_parent", "r_copy", "r_mark", "r_move",
     "r_build", "r_shadow", "r_uncopy", "r_whiteout", "r_back",
     "r_unwhite_new", "r_dest_whiteout", "r_dest_back", "r_unwhite_old",
     "r_commit", "r_restore"}

(* No call names the root, and neither path of a rename is within the      *)
(* other.                                                                  *)
CallFacts ==
    /\ pc # "idle" => call.path # Root
    /\ pc \in RenameStep =>
          /\ call.dest # Root
          /\ call.dest \notin Within(call.path)
          /\ call.path \notin Within(call.dest)

(* What the upper holds when a step makes an entry or a marker. *)
SourceFacts ==
    /\ pc \in {"c_parent", "c_make", "u_parent", "u_commit", "r_copy_parent", "r_copy"} =>
          ~Holds(upper, call.path)
    /\ pc \in {"c_make", "u_commit", "r_copy"} => UpperHasParent(call.path)
    /\ pc = "c_opaque" => Holds(upper, call.path)
    /\ pc \in {"r_aside", "r_parent"} /\ call.route \notin {"file", "MergeLower"} =>
          Holds(upper, call.path)
    /\ pc = "r_mark" => Holds(upper, call.path)

(* The directory above the destination of a rename is in the upper from    *)
(* the move on, and whenever a destination waits in the work directory.    *)
DestFacts ==
    /\ pc \in RenameStep \ {"r_aside", "r_parent", "r_restore"} => UpperHasParent(call.dest)
    /\ pc \in RenameStep /\ Holds(work, call.dest) => UpperHasParent(call.dest)

WorkFacts ==
    /\ pc = "idle" => work = EmptyLayer
    /\ pc \in RenameStep => Portable(work, call.dest)

IInv ==
    /\ TypeOK
    /\ lowers \in LowerStacks
    /\ WellFormed(upper)
    /\ CallFacts
    /\ SourceFacts
    /\ DestFacts
    /\ WorkFacts

(***************************************************************************)
(* The stack that a state has.                                             *)
(***************************************************************************)
LEMMA StackFacts ==
    ASSUME TypeOK, lowers \in LowerStacks, WellFormed(upper)
    PROVE  /\ Stack \in [Slot -> Layer]
           /\ \A s \in Slot : WellFormed(Stack[s])
           /\ Stack[0] = upper
           /\ \A p \in Path : Shown(p) \in Entry /\ InLowers(p) \in Entry
           /\ View(Stack) \in [Path -> Entry]
<1>1. 0 \in Slot /\ \A s \in Slot : s = 0 \/ s \in 1 .. NumLowers
  BY LayerAssumption DEF Slot
<1>2. Stack \in [Slot -> Layer]
  BY Zenon, <1>1 DEF Stack, TypeOK
<1>3. \A s \in Slot : WellFormed(Stack[s])
  BY Zenon, <1>1, StackAssumption DEF Stack
<1>4. Stack[0] = upper
  BY Zenon, <1>1 DEF Stack
<1> HIDE DEF Stack
<1>5. \A p \in Path : Shown(p) \in Entry /\ InLowers(p) \in Entry
  BY Zenon, <1>2, LookupTypes DEF Shown, InLowers
<1> QED
  BY Zenon, <1>2, <1>3, <1>4, <1>5 DEF View, Shown

(***************************************************************************)
(* The steps that several calls share.                                     *)
(***************************************************************************)

(* The upper grows: what it has stays as it is. *)
Grows ==
    \A q \in Path : Holds(upper, q) => upper'.tree[q] = upper.tree[q]

(* The directories above a path are paths other than the path itself. *)
LEMMA MissingFacts ==
    ASSUME NEW p \in Path, p # Root
    PROVE  /\ Ancestors(p) \subseteq Path \ {Root}
           /\ p \notin Ancestors(p)
           /\ Chain(p) \subseteq Path \ {Root}
           /\ p \in Chain(p)
<1>1. \A d \in Path : Chain(d) \subseteq Path \ {Root} /\ \A a \in Chain(d) : Len(a) <= Len(d)
  <2> SUFFICES ASSUME NEW d \in Path, NEW n \in 1 .. Len(d)
               PROVE  SubSeq(d, 1, n) \in Path \ {Root} /\ Len(SubSeq(d, 1, n)) <= Len(d)
    BY Zenon DEF Chain
  <2>1. d \in Seq(Name) /\ Len(d) \in Nat /\ n \in 0 .. Len(d) /\ n \in Nat /\ Len(Root) = 0
    BY PathAssumption, LenProperties, EmptySeq DEF Root
  <2>2. Len(SubSeq(d, 1, n)) = n - 1 + 1
    BY <2>1, PartFacts
  <2>3. Len(SubSeq(d, 1, n)) = n /\ n # 0 /\ n <= Len(d)
    BY <2>1, <2>2
  <2> QED
    BY Zenon, <2>1, <2>3, PathAssumption
<1>2. Parent(p) \in Path /\ Len(p) \in Nat /\ Len(Parent(p)) = Len(p) - 1
  BY Zenon, ParentFacts
<1>3. p \notin Ancestors(p)
  BY <1>1, <1>2 DEF Ancestors
<1> QED
  BY Zenon, <1>1, <1>2, <1>3, ChainStep DEF Ancestors

(* A set of paths has a topmost one. *)
LEMMA TopmostFacts ==
    ASSUME NEW S \in SUBSET Path, S # {}
    PROVE  Topmost(S) \in S
<1> DEFINE T == {Len(a) : a \in S}
<1>1. \A a \in S : Len(a) \in Nat
  BY Zenon, PathAssumption, LenProperties
<1>2. T \in SUBSET Nat /\ T # {}
  BY Zenon, <1>1
<1> HIDE DEF T
<1>3. PICK i \in T : \A j \in T : i <= j
  BY Zenon, <1>2, FirstLayer
<1>4. PICK a \in S : Len(a) = i
  BY Zenon, <1>3 DEF T
<1>5. \A b \in S : Len(a) <= Len(b)
  BY Zenon, <1>3, <1>4 DEF T
<1> QED
  BY Zenon, <1>5 DEF Topmost

(* A new entry at a free place of a directory. *)
LEMMA PutFacts ==
    ASSUME IInv, NEW p \in Path, p # Root, NEW e \in Entry,
           ~Holds(upper, p), UpperHasParent(p), upper' = PutEntry(upper, p, e)
    PROVE  /\ upper' \in Layer
           /\ WellFormed(upper')
           /\ \A q \in Path : upper'.tree[q] = IF q = p THEN e ELSE upper.tree[q]
<1>1. upper \in Layer /\ WellFormed(upper)
  BY Zenon DEF IInv, TypeOK
<1>2. upper' \in Layer
  BY Zenon, <1>1, ChangeTypes
<1>3. WellFormed(upper')
  BY Zenon, <1>1, PutKeepsForm DEF UpperHasParent
<1> QED
  BY Zenon, <1>1, <1>2, <1>3 DEF PutEntry, Layer

(* EnsureUpperParent adds directories above p, and ends with one. *)
LEMMA ParentStep ==
    ASSUME IInv, NEW p \in Path, p # Root, NEW here, NEW next, NEW fail,
           EnsureUpperParent(p, here, next, fail)
    PROVE  /\ upper' \in Layer
           /\ WellFormed(upper')
           /\ Grows
           /\ upper'.tree[p] = upper.tree[p]
           /\ UNCHANGED <<lowers, work, call, before>>
           /\ pc = here
           /\ \/ pc' = here \/ pc' = fail
              \/ pc' = next /\ UNCHANGED upper /\ IsDirectory(upper'.tree[Parent(p)])
<1>1. upper \in Layer /\ WellFormed(upper)
  BY Zenon DEF IInv, TypeOK
<1>2. CASE UNCHANGED upper
  BY Zenon, <1>1, <1>2 DEF EnsureUpperParent, Goto, Change, Grows, UpperHasParent
<1>3. CASE upper' # upper
  <2> DEFINE top == Topmost(Missing(p))
  <2>1. /\ Missing(p) # {}
        /\ UpperHasParent(top)
        /\ upper' = PutEntry(upper, top, InLowers(top))
        /\ pc = here /\ pc' = here
        /\ UNCHANGED <<lowers, work, call, before>>
    BY Zenon, <1>3 DEF EnsureUpperParent, Goto, Change
  <2>2. top \in Missing(p) /\ Missing(p) \subseteq Ancestors(p)
    BY Zenon, <2>1, MissingFacts, TopmostFacts DEF Missing
  <2>3. top \in Path /\ top # Root /\ top # p /\ ~Holds(upper, top) /\ InLowers(top) \in Entry
    BY Zenon, <2>2, MissingFacts, StackFacts DEF Missing, IInv
  <2> HIDE DEF top
  <2>4. /\ upper' \in Layer /\ WellFormed(upper')
        /\ \A q \in Path : upper'.tree[q] = IF q = top THEN InLowers(top) ELSE upper.tree[q]
    BY Zenon, <2>1, <2>3, PutFacts
  <2> QED
    BY Zenon, <2>1, <2>3, <2>4 DEF Grows
<1> QED
  BY Zenon, <1>2, <1>3

(* CreateWhiteout adds directories above p, then the marker. *)
LEMMA WhiteoutStep ==
    ASSUME IInv, NEW p \in Path, p # Root, NEW here, NEW next, NEW fail,
           CreateWhiteout(p, here, next, fail)
    PROVE  /\ upper' \in Layer
           /\ WellFormed(upper')
           /\ Grows
           /\ UNCHANGED <<lowers, work, call, before>>
           /\ pc = here
           /\ pc' \in {here, next, fail}
<1>1. upper \in Layer /\ WellFormed(upper)
  BY Zenon DEF IInv, TypeOK
<1>2. CASE UNCHANGED upper
  BY Zenon, <1>1, <1>2 DEF CreateWhiteout, Goto, Change, Grows
<1>3. CASE Missing(p) = {} /\ upper' # upper
  <2>1. /\ UpperHasParent(p) /\ upper' = [upper EXCEPT !.wh = @ \cup {p}]
        /\ pc = here /\ pc' = next /\ UNCHANGED <<lowers, work, call, before>>
    BY Zenon, <1>3 DEF CreateWhiteout, Goto, Change
  <2>2. upper' \in Layer /\ upper'.tree = upper.tree
    BY Zenon, <1>1, <2>1 DEF Layer
  <2>3. WellFormed(upper')
    BY Zenon, <1>1, <2>1, MarkersKeepForm DEF UpperHasParent
  <2> QED
    BY Zenon, <2>1, <2>2, <2>3 DEF Grows
<1>4. CASE Missing(p) # {} /\ upper' # upper
  <2> DEFINE top == Topmost(Missing(p))
             made == [kind |-> "dir", tag |-> Fresh]
  <2>1. /\ UpperHasParent(top) /\ upper' = PutEntry(upper, top, made)
        /\ pc = here /\ pc' = here /\ UNCHANGED <<lowers, work, call, before>>
    BY Zenon, <1>4 DEF CreateWhiteout, Goto, Change, MakeDirectory
  <2>2. top \in Missing(p) /\ Missing(p) \subseteq Ancestors(p)
    BY Zenon, <1>4, MissingFacts, TopmostFacts DEF Missing
  <2>3. top \in Path /\ top # Root /\ ~Holds(upper, top) /\ made \in Entry
    BY Zenon, <2>2, MissingFacts, EntryFacts DEF Missing
  <2> HIDE DEF top, made
  <2>4. /\ upper' \in Layer /\ WellFormed(upper')
        /\ \A q \in Path : upper'.tree[q] = IF q = top THEN made ELSE upper.tree[q]
    BY Zenon, <2>1, <2>3, PutFacts
  <2> QED
    BY Zenon, <2>1, <2>3, <2>4 DEF Grows
<1> QED
  BY Zenon, <1>2, <1>3, <1>4

(* RemoveWhiteout touches one marker. *)
LEMMA UnwhiteoutStep ==
    ASSUME IInv, NEW p \in Path, p # Root, NEW here, NEW next, NEW fail,
           RemoveWhiteout(p, here, next, fail)
    PROVE  /\ upper' \in Layer
           /\ WellFormed(upper')
           /\ Grows
           /\ UNCHANGED <<lowers, work, call, before>>
           /\ pc = here
           /\ pc' \in {next, fail}
<1>1. upper \in Layer /\ WellFormed(upper)
  BY Zenon DEF IInv, TypeOK
<1>2. upper' \in {upper, [upper EXCEPT !.wh = @ \ {p}]}
  BY Zenon DEF RemoveWhiteout, Goto, Change
<1>3. upper' \in Layer /\ upper'.tree = upper.tree
  BY Zenon, <1>1, <1>2 DEF Layer
<1>4. WellFormed(upper')
  BY Zenon, <1>1, <1>2, MarkersKeepForm
<1> QED
  BY Zenon, <1>3, <1>4 DEF RemoveWhiteout, Goto, Change, Grows

(***************************************************************************)
(* Two kinds of steps after which little is left to show.                  *)
(***************************************************************************)

(* The call is the same, but for a failed undo. *)
SameCall == call' = call \/ call' = [call EXCEPT !.stuck = TRUE]

(* A step of a call that keeps its call keeps the paths and the route. *)
LEMMA SameCallFacts ==
    ASSUME TypeOK, SameCall
    PROVE  /\ call' \in Call
           /\ call'.path = call.path /\ call'.dest = call.dest /\ call'.route = call.route
           /\ call.path \in Path /\ call.dest \in Path
BY Zenon DEF TypeOK, SameCall, Call

(* A step to where nothing is assumed of the upper. *)
Free ==
    {"ok", "failed", "c_settings", "c_whiteout", "c_undo_opaque", "c_undo_make",
     "d_opaque", "d_remove", "d_whiteout", "m_whiteout", "m_opaque"}

(* A step to a place about which the invariant says no more. *)
LEMMA FreeStep ==
    ASSUME IInv, pc # "idle", upper' \in Layer, WellFormed(upper'),
           UNCHANGED <<lowers, before>>, work' \in Layer, SameCall, pc' \in Free
    PROVE  IInv'
<1>1. TypeOK'
  BY Zenon, SameCallFacts DEF IInv, TypeOK, Free, Step
<1>2. CallFacts'
  BY Zenon, SameCallFacts DEF IInv, CallFacts, Free, RenameStep
<1>3. SourceFacts' /\ DestFacts' /\ WorkFacts'
  BY Zenon DEF SourceFacts, DestFacts, WorkFacts, Free, RenameStep
<1> QED
  BY Zenon, <1>1, <1>2, <1>3 DEF IInv

(* A step of a rename, after its first steps, that leaves the directory    *)
(* above the destination.                                                  *)
Quiet ==
    RenameStep \ {"r_aside", "r_parent", "r_copy_parent", "r_copy", "r_mark"}

(* A step within a rename that leaves the work directory alone. *)
LEMMA QuietStep ==
    ASSUME IInv, pc \in RenameStep, pc' \in Quiet,
           upper' \in Layer, WellFormed(upper'),
           UNCHANGED <<lowers, work, before>>, SameCall,
           UpperHasParent(call.dest) => IsDirectory(upper'.tree[Parent(call.dest)]),
           pc' # "r_restore" => IsDirectory(upper'.tree[Parent(call.dest)])
    PROVE  IInv'
<1>1. TypeOK'
  BY Zenon, SameCallFacts DEF IInv, TypeOK, Quiet, RenameStep, Step
<1>2. CallFacts'
  BY Zenon, SameCallFacts DEF IInv, CallFacts, Quiet, RenameStep
<1>3. SourceFacts'
  BY Zenon DEF SourceFacts, Quiet, RenameStep
<1>4. DestFacts'
  BY Zenon, SameCallFacts DEF IInv, DestFacts, Quiet, RenameStep, UpperHasParent
<1>5. WorkFacts'
  BY Zenon, SameCallFacts DEF IInv, WorkFacts, Quiet, RenameStep
<1> QED
  BY Zenon, <1>1, <1>2, <1>3, <1>4, <1>5 DEF IInv

(* A directory that the upper holds stays one when the upper grows. *)
LEMMA GrowsKeepsDirectories ==
    ASSUME Grows, NEW q \in Path, IsDirectory(upper.tree[q])
    PROVE  IsDirectory(upper'.tree[q])
BY Zenon DEF Grows, Holds, Found, IsDirectory

(***************************************************************************)
(* Calls start.                                                            *)
(***************************************************************************)
LEMMA BeginStep ==
    ASSUME IInv, Begin
    PROVE  IInv'
<1>1. pc = "idle" /\ UNCHANGED <<upper, lowers, work>> /\ before' = View(Stack)
  BY Zenon DEF Begin, CreateCall, DeleteCall, CopyUpCall, MarkerCall, RenameCall, Start
<1>2. /\ upper' \in Layer /\ lowers' \in [1 .. NumLowers -> Layer] /\ work' \in Layer
      /\ before' \in [Path -> Entry] /\ lowers' \in LowerStacks /\ WellFormed(upper')
      /\ work' = EmptyLayer
  BY Zenon, <1>1, StackFacts DEF IInv, TypeOK, WorkFacts
<1>3. \A p \in Path : Shown(p) \in Entry /\ InLowers(p) \in Entry
  BY Zenon, StackFacts DEF IInv
<1>4. \A p \in Path : ~Found(Shown(p)) => ~Holds(upper, p)
  BY Zenon, StackFacts DEF IInv, Shown, ResolvePath, Holds
<1>5. \A d \in Path : Portable(EmptyLayer, d) /\ ~Holds(EmptyLayer, d)
  BY Zenon, EntryFacts, WithinFacts DEF Portable, EmptyLayer, Holds, Below
<1>6. CASE \E p \in Path, k \in {"file", "dir"} : CreateCall(p, k)
  <2>1. PICK p \in Path, k \in {"file", "dir"} : CreateCall(p, k)
    BY Zenon, <1>6
  <2>2. p # Root /\ pc' = "c_parent" /\ ~Holds(upper, p)
    BY Zenon, <1>4, <2>1 DEF CreateCall, Start
  <2>3. HasWhiteout(upper, p) \in BOOLEAN /\ IsDirectory(InLowers(p)) \in BOOLEAN
    BY DEF HasWhiteout, IsDirectory
  <2>4. call' \in Call /\ call'.path = p
    BY Zenon, <2>1, <2>3, PathAssumption DEF CreateCall, Start, Call, NoCall
  <2> QED
    BY Zenon, <1>1, <1>2, <2>2, <2>4
    DEF IInv, TypeOK, Step, CallFacts, SourceFacts, DestFacts, WorkFacts, RenameStep
<1>7. CASE \E p \in Path : DeleteCall(p)
  <2>1. PICK p \in Path : DeleteCall(p)
    BY Zenon, <1>7
  <2>2. Shown(p).kind \in {"file", "dir"}
    BY Zenon, <1>3, <2>1, EntryFacts DEF DeleteCall, Found
  <2>3. /\ call' \in Call /\ call'.path = p /\ p # Root /\ pc' \in {"d_opaque", "d_whiteout"}
    BY Zenon, <2>1, <2>2, PathAssumption DEF DeleteCall, Start, Call, NoCall, Found
  <2> QED
    BY Zenon, <1>1, <1>2, <2>3
    DEF IInv, TypeOK, Step, CallFacts, SourceFacts, DestFacts, WorkFacts, RenameStep
<1>8. CASE \E p \in Path : CopyUpCall(p)
  <2>1. PICK p \in Path : CopyUpCall(p)
    BY Zenon, <1>8
  <2>2. /\ call' \in Call /\ call'.path = p /\ p # Root /\ pc' = "u_parent"
        /\ ~Holds(upper, p)
    BY Zenon, <2>1, PathAssumption DEF CopyUpCall, Start, Call, NoCall
  <2> QED
    BY Zenon, <1>1, <1>2, <2>2
    DEF IInv, TypeOK, Step, CallFacts, SourceFacts, DestFacts, WorkFacts, RenameStep
<1>9. CASE \E p \in Path, op \in {"whiteout", "opaque"} : MarkerCall(p, op)
  <2>1. PICK p \in Path, op \in {"whiteout", "opaque"} : MarkerCall(p, op)
    BY Zenon, <1>9
  <2>2. /\ call' \in Call /\ call'.path = p /\ p # Root /\ pc' \in {"m_whiteout", "m_opaque"}
    BY Zenon, <2>1, PathAssumption DEF MarkerCall, Start, Call, NoCall
  <2> QED
    BY Zenon, <1>1, <1>2, <2>2
    DEF IInv, TypeOK, Step, CallFacts, SourceFacts, DestFacts, WorkFacts, RenameStep
<1>10. CASE \E p, q \in Path, replace \in BOOLEAN : RenameCall(p, q, replace)
  <2>1. PICK p \in Path, q \in Path, replace \in BOOLEAN : RenameCall(p, q, replace)
    BY Zenon, <1>10
  <2>2. p # Root /\ q # Root /\ Found(Shown(p)) /\ DestinationAllows(p, q, replace)
    BY Zenon, <2>1 DEF RenameCall
  <2>3. Shown(p).kind \in {"file", "dir"}
    BY Zenon, <1>3, <2>2, EntryFacts DEF Found
  <2>4. RouteOf(p) \in {"file", "MoveUpper", "MoveUpperAndWhiteout", "MergeLower"}
    BY Zenon DEF RouteOf
  <2>5. /\ call' \in Call /\ call'.path = p /\ call'.dest = q /\ call'.route = RouteOf(p)
        /\ pc' = "r_aside"
    BY Zenon, <2>1, <2>3, <2>4, PathAssumption DEF RenameCall, Start, Call, NoCall
  <2>6. q \notin Within(p)
    BY Zenon, <2>2 DEF DestinationAllows
  <2>7. p \notin Within(q)
    <3> SUFFICES ASSUME p \in Within(q) PROVE FALSE
      BY Zenon
    <3>1. ~Found(Shown(q))
      BY Zenon, <2>2 DEF DestinationAllows
    <3>2. p # q
      BY Zenon, <2>2, <3>1
    <3>3. q \in Ancestors(p)
      BY Zenon, <2>2, <3>2, AboveIsAncestor DEF Below
    <3>4. IsDirectory(Shown(q))
      BY Zenon, <2>2, <3>3, StackFacts, AncestorsShown DEF IInv, Shown
    <3> QED
      BY Zenon, <3>1, <3>4 DEF Found, IsDirectory
  <2>8. RouteOf(p) \notin {"file", "MergeLower"} => Holds(upper, p)
    <3>1. ~Found(InLowers(p)) => Holds(upper, p)
      BY Zenon, <2>2, StackFacts, EntryFacts DEF IInv, Shown, InLowers, ResolvePath
    <3> QED
      BY Zenon, <3>1 DEF RouteOf
  <2>9. CallFacts'
    BY Zenon, <2>2, <2>5, <2>6, <2>7 DEF CallFacts
  <2>10. SourceFacts'
    BY Zenon, <1>1, <2>5, <2>8 DEF SourceFacts
  <2>11. DestFacts' /\ WorkFacts'
    BY Zenon, <1>2, <1>5, <2>5 DEF DestFacts, WorkFacts, RenameStep
  <2>12. TypeOK'
    BY Zenon, <1>2, <2>5 DEF TypeOK, Step
  <2> QED
    BY Zenon, <1>2, <2>9, <2>10, <2>11, <2>12 DEF IInv
<1> QED
  BY Zenon, <1>6, <1>7, <1>8, <1>9, <1>10 DEF Begin

(* Calls return, and the process stops. *)
LEMMA ResetStep ==
    ASSUME IInv, Reset
    PROVE  IInv'
<1>1. /\ pc' = "idle" /\ call' = NoCall /\ work' = EmptyLayer
      /\ before' = View(Stack) /\ UNCHANGED <<upper, lowers>>
  BY Zenon DEF Reset
<1>2. NoCall \in Call /\ EmptyLayer \in Layer /\ View(Stack) \in [Path -> Entry]
  <2>1. NoCall \in Call
    BY Zenon, PathAssumption DEF NoCall, Call
  <2>2. EmptyLayer \in Layer
    BY Zenon, EntryFacts DEF EmptyLayer, Layer
  <2> QED
    BY Zenon, <2>1, <2>2, StackFacts DEF IInv
<1>3. TypeOK'
  BY Zenon, <1>1, <1>2 DEF IInv, TypeOK, Step
<1> QED
  BY Zenon, <1>1, <1>3 DEF IInv, CallFacts, SourceFacts, DestFacts, WorkFacts, RenameStep

(***************************************************************************)
(* Create, Delete, copy-up and the marker calls.                           *)
(***************************************************************************)

(* The paths of a running call. *)
LEMMA PathFacts ==
    ASSUME IInv, pc # "idle"
    PROVE  /\ call.path \in Path /\ call.path # Root /\ Parent(call.path) \in Path
           /\ call.path \in Within(call.path)
           /\ upper \in Layer /\ WellFormed(upper) /\ work \in Layer
<1>1. call.path \in Path /\ call.path # Root /\ upper \in Layer /\ WellFormed(upper) /\
        work \in Layer
  BY Zenon DEF IInv, TypeOK, Call, CallFacts
<1> QED
  BY Zenon, <1>1, ParentFacts, WithinFacts

(* The parents come before the entry. *)
LEMMA ParentsFirst ==
    ASSUME IInv, NEW here \in {"c_parent", "u_parent"}, NEW next \in {"c_make", "u_commit"},
           EnsureUpperParent(call.path, here, next, "failed")
    PROVE  IInv'
<1>1. pc = here /\ pc # "idle"
  BY Zenon DEF EnsureUpperParent
<1>2. call.path \in Path /\ call.path # Root
  BY Zenon, <1>1, PathFacts
<1>3. /\ upper' \in Layer /\ WellFormed(upper')
      /\ upper'.tree[call.path] = upper.tree[call.path]
      /\ UNCHANGED <<lowers, work, call, before>>
      /\ pc' = here \/ pc' = "failed" \/ (pc' = next /\ IsDirectory(upper'.tree[Parent(call.path)]))
  BY Zenon, <1>2, ParentStep
<1>4. CASE pc' = "failed"
  BY Zenon, <1>1, <1>3, <1>4, FreeStep DEF Free, SameCall, IInv, TypeOK
<1>5. CASE pc' \in {here, next}
  <2>1. TypeOK'
    BY Zenon, <1>3, <1>5 DEF IInv, TypeOK, Step
  <2>2. CallFacts' /\ DestFacts' /\ WorkFacts'
    BY Zenon, <1>2, <1>3, <1>5 DEF CallFacts, DestFacts, WorkFacts, RenameStep
  <2>3. SourceFacts'
    BY Zenon, <1>1, <1>3, <1>5 DEF IInv, SourceFacts, Holds, Found, UpperHasParent
  <2> QED
    BY Zenon, <1>3, <2>1, <2>2, <2>3 DEF IInv
<1> QED
  BY Zenon, <1>3, <1>4, <1>5

(* The steps of a create keep the invariant. *)
LEMMA CreateStep ==
    ASSUME IInv,
           \/ CreateParent \/ CreateMake \/ CreateOpaque \/ CreateSettings
           \/ CreateWhiteoutGoes \/ CreateUndoOpaque \/ CreateUndoMake
    PROVE  IInv'
<1>0. pc # "idle"
  BY Zenon DEF CreateParent, CreateMake, CreateOpaque, CreateSettings, CreateWhiteoutGoes,
         CreateUndoOpaque, CreateUndoMake, EnsureUpperParent, RemoveWhiteout
<1>1. /\ call.path \in Path /\ call.path # Root /\ upper \in Layer /\ WellFormed(upper)
      /\ work \in Layer
  BY Zenon, <1>0, PathFacts
<1>2. UndoCreate \in Free
  BY Zenon DEF UndoCreate, Free
<1>3. CASE CreateParent
  BY Zenon, <1>3, ParentsFirst DEF CreateParent
<1>4. CASE CreateMake
  <2> DEFINE made == [kind |-> call.kind, tag |-> Fresh]
  <2>1. made \in Entry
    BY Zenon, LayerAssumption DEF IInv, TypeOK, Call, Entry
  <2>2. ~Holds(upper, call.path) /\ UpperHasParent(call.path)
    BY Zenon, <1>4 DEF CreateMake, IInv, SourceFacts
  <2> HIDE DEF made
  <2>3. CASE Change(PutEntry(upper, call.path, made), "c_settings")
    <3>1. upper' \in Layer /\ WellFormed(upper')
      BY Zenon, <1>1, <2>1, <2>2, <2>3, PutFacts DEF Change
    <3> QED
      BY Zenon, <1>0, <1>1, <2>3, <3>1, FreeStep DEF Change, Free, SameCall
  <2>4. CASE Change(PutEntry(upper, call.path, made), "c_opaque")
    <3>1. /\ upper' \in Layer /\ WellFormed(upper')
          /\ upper'.tree[call.path] = made
      BY Zenon, <1>1, <2>1, <2>2, <2>4, PutFacts DEF Change
    <3>2. made.kind # "none"
      BY Zenon, <1>4 DEF made, IInv, TypeOK, Call
    <3>3. UNCHANGED <<lowers, work, call, before>> /\ pc' = "c_opaque"
      BY Zenon, <2>4 DEF Change
    <3>4. TypeOK'
      BY Zenon, <3>1, <3>3 DEF IInv, TypeOK, Step
    <3>5. CallFacts' /\ DestFacts' /\ WorkFacts'
      BY Zenon, <1>1, <3>3 DEF CallFacts, DestFacts, WorkFacts, RenameStep
    <3>6. SourceFacts'
      BY Zenon, <3>1, <3>2, <3>3 DEF SourceFacts, Holds, Found
    <3> QED
      BY Zenon, <3>1, <3>3, <3>4, <3>5, <3>6 DEF IInv
  <2>5. CASE Goto("failed")
    BY Zenon, <1>0, <1>1, <2>5, FreeStep DEF Goto, Free, SameCall
  <2> QED
    BY Zenon, <1>4, <2>3, <2>4, <2>5 DEF CreateMake, made
<1>5. CASE CreateOpaque
  <2>1. Holds(upper, call.path)
    BY Zenon, <1>5 DEF CreateOpaque, IInv, SourceFacts
  <2>2. CASE Change([upper EXCEPT !.opq = @ \cup {call.path}], "c_settings")
    <3>1. upper' \in Layer /\ WellFormed(upper')
      BY Zenon, <1>1, <2>1, <2>2, MarkersKeepForm DEF Change, Layer
    <3> QED
      BY Zenon, <1>0, <1>1, <2>2, <3>1, FreeStep DEF Change, Free, SameCall
  <2>3. CASE Goto("c_undo_opaque")
    BY Zenon, <1>0, <1>1, <2>3, FreeStep DEF Goto, Free, SameCall
  <2> QED
    BY Zenon, <1>5, <2>2, <2>3 DEF CreateOpaque
<1>6. CASE CreateSettings
  <2>1. pc' \in Free /\ UNCHANGED <<upper, lowers, work, call, before>>
    BY Zenon, <1>2, <1>6 DEF CreateSettings, Goto, Free
  <2> QED
    BY Zenon, <1>0, <1>1, <2>1, FreeStep DEF SameCall
<1>7. CASE CreateWhiteoutGoes
  <2>1. /\ upper' \in Layer /\ WellFormed(upper')
        /\ UNCHANGED <<lowers, work, call, before>>
        /\ pc' \in {"ok", UndoCreate}
    BY Zenon, <1>1, <1>7, UnwhiteoutStep DEF CreateWhiteoutGoes
  <2> QED
    BY Zenon, <1>0, <1>1, <1>2, <2>1, FreeStep DEF Free, SameCall
<1>8. CASE CreateUndoOpaque
  <2>1. /\ upper' \in Layer /\ WellFormed(upper')
    BY Zenon, <1>1, <1>8, MarkersKeepForm DEF CreateUndoOpaque, Change, GotoStuck, Layer
  <2> QED
    BY Zenon, <1>0, <1>1, <1>8, <2>1, FreeStep
       DEF CreateUndoOpaque, Change, GotoStuck, Free, SameCall
<1>9. CASE CreateUndoMake
  <2>1. /\ upper' \in Layer /\ WellFormed(upper')
    BY Zenon, <1>1, <1>9, PruneKeepsForm, ChangeTypes, EntryFacts
    DEF CreateUndoMake, Change, GotoStuck
  <2> QED
    BY Zenon, <1>0, <1>1, <1>9, <2>1, FreeStep DEF CreateUndoMake, Change, GotoStuck, Free, SameCall
<1> QED
  BY Zenon, <1>3, <1>4, <1>5, <1>6, <1>7, <1>8, <1>9

(* The steps of a delete keep the invariant. *)
LEMMA DeleteStep ==
    ASSUME IInv, DeleteOpaque \/ DeleteRemove \/ DeleteWhiteout
    PROVE  IInv'
<1>0. pc # "idle"
  BY Zenon DEF DeleteOpaque, DeleteRemove, DeleteWhiteout, CreateWhiteout
<1>1. /\ call.path \in Path /\ call.path # Root /\ upper \in Layer /\ WellFormed(upper)
      /\ work \in Layer
  BY Zenon, <1>0, PathFacts
<1>2. CASE DeleteOpaque
  <2>1. /\ upper' \in Layer /\ WellFormed(upper')
    BY Zenon, <1>1, <1>2, MarkersKeepForm DEF DeleteOpaque, Change, Goto, Layer
  <2> QED
    BY Zenon, <1>0, <1>1, <1>2, <2>1, FreeStep DEF DeleteOpaque, Change, Goto, Free, SameCall
<1>3. CASE DeleteRemove
  <2>1. \A u \in RemoveOneBelow(upper, call.path) : u \in Layer /\ WellFormed(u)
    BY Zenon, <1>1, RemovalKeepsForm, ChangeTypes, EntryFacts
  <2>2. Prune(upper, call.path) \in Layer /\ WellFormed(Prune(upper, call.path))
    BY Zenon, <1>1, PruneKeepsForm, ChangeTypes, EntryFacts
  <2>3. AfterRemoval \in Free
    BY Zenon DEF AfterRemoval, Free
  <2>4. /\ upper' \in Layer /\ WellFormed(upper') /\ pc' \in Free
        /\ UNCHANGED <<lowers, work, call, before>>
    BY Zenon, <1>1, <1>3, <2>1, <2>2, <2>3 DEF DeleteRemove, Change, Goto, Free
  <2> QED
    BY Zenon, <1>0, <1>1, <2>4, FreeStep DEF SameCall
<1>4. CASE DeleteWhiteout
  <2>1. /\ upper' \in Layer /\ WellFormed(upper')
        /\ UNCHANGED <<lowers, work, call, before>>
        /\ pc' \in {"d_whiteout", "ok", "failed"}
    BY Zenon, <1>1, <1>4, WhiteoutStep DEF DeleteWhiteout
  <2> QED
    BY Zenon, <1>0, <1>1, <2>1, FreeStep DEF Free, SameCall
<1> QED
  BY Zenon, <1>2, <1>3, <1>4

(* The steps of a copy-up keep the invariant. *)
LEMMA CopyUpStep ==
    ASSUME IInv, CopyUpParent \/ CopyUpCommit
    PROVE  IInv'
<1>1. CASE CopyUpParent
  BY Zenon, <1>1, ParentsFirst DEF CopyUpParent
<1>2. CASE CopyUpCommit
  <2>0. pc = "u_commit" /\ pc # "idle"
    BY Zenon, <1>2 DEF CopyUpCommit
  <2>1. /\ call.path \in Path /\ call.path # Root /\ upper \in Layer /\ WellFormed(upper)
        /\ work \in Layer
    BY Zenon, <2>0, PathFacts
  <2>2. ~Holds(upper, call.path) /\ UpperHasParent(call.path) /\ InLowers(call.path) \in Entry
    BY Zenon, <2>0, <2>1, StackFacts DEF IInv, SourceFacts
  <2>3. CASE Change(PutEntry(upper, call.path, InLowers(call.path)), "ok")
    <3>1. upper' \in Layer /\ WellFormed(upper')
      BY Zenon, <2>1, <2>2, <2>3, PutFacts DEF Change
    <3> QED
      BY Zenon, <2>0, <2>1, <2>3, <3>1, FreeStep DEF Change, Free, SameCall
  <2>4. CASE Goto("failed")
    BY Zenon, <2>0, <2>1, <2>4, FreeStep DEF Goto, Free, SameCall
  <2> QED
    BY Zenon, <1>2, <2>3, <2>4 DEF CopyUpCommit
<1> QED
  BY Zenon, <1>1, <1>2

(* The marker calls keep the invariant. *)
LEMMA MarkerStep ==
    ASSUME IInv, MarkerWhiteout \/ MarkerOpaque
    PROVE  IInv'
<1>0. pc # "idle"
  BY Zenon DEF MarkerWhiteout, MarkerOpaque, CreateWhiteout
<1>1. /\ call.path \in Path /\ call.path # Root /\ upper \in Layer /\ WellFormed(upper)
      /\ work \in Layer
  BY Zenon, <1>0, PathFacts
<1>2. CASE MarkerWhiteout
  <2>1. /\ upper' \in Layer /\ WellFormed(upper')
        /\ UNCHANGED <<lowers, work, call, before>>
        /\ pc' \in {"m_whiteout", "ok", "failed"}
    BY Zenon, <1>1, <1>2, WhiteoutStep DEF MarkerWhiteout
  <2> QED
    BY Zenon, <1>0, <1>1, <2>1, FreeStep DEF Free, SameCall
<1>3. CASE MarkerOpaque
  <2> DEFINE missing == {a \in Chain(call.path) : ~Holds(upper, a)}
             top == Topmost(missing)
  <2>1. missing \in SUBSET (Path \ {Root}) /\ call.path \in Chain(call.path)
    BY Zenon, <1>1, MissingFacts
  <2>2. \/ missing = {} /\ Change([upper EXCEPT !.opq = @ \cup {call.path}], "ok")
        \/ missing # {} /\ UpperHasParent(top) /\ Change(MakeDirectory(top), "m_opaque")
        \/ Goto("failed")
    BY Zenon, <1>3 DEF MarkerOpaque
  <2>3. CASE missing = {} /\ Change([upper EXCEPT !.opq = @ \cup {call.path}], "ok")
    <3>1. Holds(upper, call.path)
      BY Zenon, <2>1, <2>3
    <3>2. upper' \in Layer /\ WellFormed(upper')
      BY Zenon, <1>1, <2>3, <3>1, MarkersKeepForm DEF Change, Layer
    <3> QED
      BY Zenon, <1>0, <1>1, <2>3, <3>2, FreeStep DEF Change, Free, SameCall
  <2>4. CASE missing # {} /\ UpperHasParent(top) /\ Change(MakeDirectory(top), "m_opaque")
    <3>1. top \in missing
      BY Zenon, <2>1, <2>4, TopmostFacts
    <3>2. top \in Path /\ top # Root /\ ~Holds(upper, top)
      BY Zenon, <2>1, <3>1
    <3> HIDE DEF top
    <3>3. upper' \in Layer /\ WellFormed(upper')
      BY Zenon, <2>4, <3>2, PutFacts, EntryFacts DEF Change, MakeDirectory
    <3> QED
      BY Zenon, <1>0, <1>1, <2>4, <3>3, FreeStep DEF Change, Free, SameCall
  <2>5. CASE Goto("failed")
    BY Zenon, <1>0, <1>1, <2>5, FreeStep DEF Goto, Free, SameCall
  <2> QED
    BY Zenon, <2>2, <2>3, <2>4, <2>5
<1> QED
  BY Zenon, <1>2, <1>3


(***************************************************************************)
(* Rename.                                                                 *)
(***************************************************************************)

(* The two paths of a rename are apart. *)
LEMMA RenameFacts ==
    ASSUME IInv, pc \in RenameStep
    PROVE  /\ pc # "idle"
           /\ call.path \in Path /\ call.path # Root /\ Parent(call.path) \in Path
           /\ call.dest \in Path /\ call.dest # Root /\ Parent(call.dest) \in Path
           /\ call.dest \notin Within(call.path) /\ call.path \notin Within(call.dest)
           /\ Parent(call.dest) \notin Within(call.path)
           /\ Parent(call.dest) \notin Within(call.dest)
           /\ upper \in Layer /\ WellFormed(upper) /\ work \in Layer
           /\ Portable(work, call.dest)
<1>1. /\ pc # "idle"
      /\ call.path \in Path /\ call.path # Root /\ call.dest \in Path /\ call.dest # Root
      /\ call.dest \notin Within(call.path) /\ call.path \notin Within(call.dest)
      /\ upper \in Layer /\ WellFormed(upper) /\ work \in Layer
      /\ Portable(work, call.dest)
  BY Zenon DEF IInv, TypeOK, Call, CallFacts, RenameStep, WorkFacts
<1>2. Parent(call.path) \in Path /\ Parent(call.dest) \in Path
  BY Zenon, <1>1, ParentFacts
<1>3. Parent(call.dest) \notin Within(call.path)
  BY Zenon, <1>1, WithinParent DEF Below
<1>4. Parent(call.dest) \notin Within(call.dest)
  BY Zenon, <1>1, WithinFacts
<1> QED
  BY Zenon, <1>1, <1>2, <1>3, <1>4

(* Setting the replaced destination aside keeps the invariant. *)
LEMMA RenameAsideStep ==
    ASSUME IInv, RenameAside
    PROVE  IInv'
<1> DEFINE aside == call.replace /\ Holds(upper, call.dest)
<1>0. pc = "r_aside" /\ pc \in RenameStep /\ UNCHANGED <<lowers, before>>
  BY Zenon DEF RenameAside, RenameStep
<1>1. /\ pc # "idle"
      /\ call.path \in Path /\ call.path # Root
      /\ call.dest \in Path /\ call.dest # Root /\ Parent(call.dest) \in Path
      /\ call.dest \notin Within(call.path) /\ call.path \notin Within(call.dest)
      /\ Parent(call.dest) \notin Within(call.dest)
      /\ upper \in Layer /\ WellFormed(upper) /\ work \in Layer
      /\ Portable(work, call.dest)
  BY Zenon, <1>0, RenameFacts
<1>2. CASE pc' = "failed" /\ UNCHANGED <<upper, work, call>>
  BY Zenon, <1>0, <1>1, <1>2, FreeStep DEF Free, SameCall
<1>3. CASE /\ upper' = IF aside THEN Prune(upper, call.dest) ELSE upper
           /\ work' = IF aside THEN Plant(EmptyLayer, upper, call.dest, call.dest) ELSE work
           /\ call' = [call EXCEPT !.whiteout = HasWhiteout(upper, call.dest),
                                   !.lower = Found(InLowers(call.path))]
           /\ pc' = "r_parent"
  <2>1. HasWhiteout(upper, call.dest) \in BOOLEAN /\ Found(InLowers(call.path)) \in BOOLEAN
    BY DEF HasWhiteout, Found
  <2>2. /\ call' \in Call /\ call'.path = call.path /\ call'.dest = call.dest
        /\ call'.route = call.route
    BY Zenon, <1>3, <2>1 DEF IInv, TypeOK, Call
  <2>3. /\ upper' \in Layer /\ WellFormed(upper') /\ work' \in Layer
        /\ Portable(work', call.dest)
        /\ upper'.tree[call.path] = upper.tree[call.path]
        /\ upper'.tree[Parent(call.dest)] = upper.tree[Parent(call.dest)]
    <3>1. CASE ~aside
      BY Zenon, <1>1, <1>3, <3>1
    <3>2. CASE aside
      <4>1. upper' = Prune(upper, call.dest)
            /\ work' = Plant(EmptyLayer, upper, call.dest, call.dest)
        BY Zenon, <1>3, <3>2
      <4>2. upper' \in Layer /\ EmptyLayer \in Layer
        BY Zenon, <1>1, <4>1, ChangeTypes, EntryFacts
      <4>3. work' \in Layer
        BY Zenon, <1>1, <4>1, <4>2, ChangeTypes, EntryFacts
      <4>4. WellFormed(upper') /\ Portable(work', call.dest)
        BY Zenon, <1>1, <4>1, PruneKeepsForm, TakenIsPortable
      <4>5. /\ upper'.tree[call.path] = upper.tree[call.path]
            /\ upper'.tree[Parent(call.dest)] = upper.tree[Parent(call.dest)]
        BY <1>1, <4>1, Frames
      <4> QED
        BY Zenon, <4>2, <4>3, <4>4, <4>5
    <3> QED
      BY Zenon, <3>1, <3>2
  <2>4. Holds(work', call.dest) => IsDirectory(upper.tree[Parent(call.dest)])
    <3>1. CASE aside
      BY Zenon, <1>1, <3>1, ParentHeld
    <3>2. CASE ~aside
      BY Zenon, <1>0, <1>3, <3>2 DEF IInv, DestFacts, UpperHasParent
    <3> QED
      BY Zenon, <3>1, <3>2
  <2>5. TypeOK'
    BY Zenon, <1>0, <1>3, <2>2, <2>3 DEF IInv, TypeOK, Step
  <2>6. CallFacts'
    BY Zenon, <1>1, <2>2 DEF CallFacts
  <2>7. SourceFacts'
    BY Zenon, <1>0, <1>3, <2>2, <2>3 DEF IInv, SourceFacts, Holds
  <2>8. DestFacts' /\ WorkFacts'
    BY Zenon, <1>3, <2>2, <2>3, <2>4 DEF DestFacts, WorkFacts, RenameStep, UpperHasParent
  <2> QED
    BY Zenon, <1>0, <2>3, <2>5, <2>6, <2>7, <2>8 DEF IInv
<1> QED
  BY Zenon, <1>2, <1>3 DEF RenameAside

(* Making the directory above the destination keeps the invariant. *)
LEMMA RenameParentStep ==
    ASSUME IInv, RenameParent
    PROVE  IInv'
<1> DEFINE next == CASE call.route = "file" /\ Holds(upper, call.path) -> "r_move"
                     [] call.route = "file" /\ ~Holds(upper, call.path) -> "r_copy_parent"
                     [] call.route = "MergeLower" -> "r_build"
                     [] OTHER -> "r_mark"
<1>0. pc = "r_parent" /\ pc \in RenameStep
  BY Zenon DEF RenameParent, EnsureUpperParent, RenameStep
<1>1. /\ call.path \in Path /\ call.path # Root /\ call.dest \in Path /\ call.dest # Root
      /\ Parent(call.dest) \in Path /\ pc # "idle"
  BY Zenon, <1>0, RenameFacts
<1>2. EnsureUpperParent(call.dest, "r_parent", next, "r_restore")
  BY Zenon DEF RenameParent
<1> HIDE DEF next
<1>3. /\ upper' \in Layer /\ WellFormed(upper') /\ Grows
      /\ UNCHANGED <<lowers, work, call, before>>
      /\ \/ pc' = "r_parent" \/ pc' = "r_restore"
         \/ pc' = next /\ UNCHANGED upper /\ IsDirectory(upper'.tree[Parent(call.dest)])
  BY Zenon, <1>1, <1>2, ParentStep
<1>4. UpperHasParent(call.dest) => IsDirectory(upper'.tree[Parent(call.dest)])
  BY Zenon, <1>1, <1>3, GrowsKeepsDirectories DEF UpperHasParent
<1>5. Holds(upper, call.path) => Holds(upper', call.path)
  BY Zenon, <1>1, <1>3 DEF Grows, Holds
<1>6. pc' \in Step \cap RenameStep => CallFacts' /\ WorkFacts' /\ TypeOK'
  BY Zenon, <1>0, <1>3 DEF IInv, CallFacts, WorkFacts, TypeOK, RenameStep
<1>7. CASE pc' = "r_parent"
  <2>1. SourceFacts'
    BY Zenon, <1>0, <1>3, <1>5, <1>7 DEF IInv, SourceFacts
  <2>2. DestFacts'
    BY Zenon, <1>0, <1>3, <1>4, <1>7 DEF IInv, DestFacts, UpperHasParent
  <2> QED
    BY Zenon, <1>3, <1>6, <1>7, <2>1, <2>2 DEF IInv, Step, RenameStep
<1>8. CASE pc' = "r_restore"
  BY Zenon, <1>0, <1>3, <1>4, <1>8, QuietStep DEF Quiet, RenameStep, SameCall
<1>9. CASE pc' = next /\ UNCHANGED upper /\ IsDirectory(upper'.tree[Parent(call.dest)])
  <2>1. CASE next \in {"r_move", "r_build"}
    BY Zenon, <1>0, <1>3, <1>9, <2>1, QuietStep DEF Quiet, RenameStep, SameCall
  <2>2. CASE \/ next = "r_copy_parent" /\ ~Holds(upper, call.path)
             \/ next = "r_mark" /\ Holds(upper, call.path)
    <3>1. SourceFacts'
      BY Zenon, <1>3, <1>9, <2>2 DEF SourceFacts
    <3>2. DestFacts'
      BY Zenon, <1>3, <1>9, <2>2 DEF DestFacts, UpperHasParent
    <3> QED
      BY Zenon, <1>3, <1>6, <1>9, <2>2, <3>1, <3>2 DEF IInv, Step, RenameStep
  <2>3. \/ next \in {"r_move", "r_build"}
        \/ next = "r_copy_parent" /\ ~Holds(upper, call.path)
        \/ next = "r_mark" /\ call.route \notin {"file", "MergeLower"}
    BY Zenon DEF next
  <2> QED
    BY Zenon, <1>0, <2>1, <2>2, <2>3 DEF IInv, SourceFacts
<1> QED
  BY Zenon, <1>3, <1>7, <1>8, <1>9

(* The copy-up of the source keeps the invariant. *)
LEMMA RenameCopyStep ==
    ASSUME IInv, RenameCopyParent \/ RenameCopy
    PROVE  IInv'
<1>0. pc \in {"r_copy_parent", "r_copy"} /\ pc \in RenameStep
  BY Zenon DEF RenameCopyParent, RenameCopy, EnsureUpperParent, RenameStep
<1>1. /\ call.path \in Path /\ call.path # Root /\ call.path \in Within(call.path)
      /\ Parent(call.dest) \in Path /\ Parent(call.dest) \notin Within(call.path)
      /\ pc # "idle" /\ upper \in Layer /\ WellFormed(upper)
  BY Zenon, <1>0, RenameFacts, WithinFacts
<1>2. ~Holds(upper, call.path) /\ UpperHasParent(call.dest)
  BY Zenon, <1>0 DEF IInv, SourceFacts, DestFacts, RenameStep
<1>3. CASE RenameCopyParent
  <2>1. /\ upper' \in Layer /\ WellFormed(upper') /\ Grows
        /\ upper'.tree[call.path] = upper.tree[call.path]
        /\ UNCHANGED <<lowers, work, call, before>>
        /\ \/ pc' = "r_copy_parent" \/ pc' = "r_restore"
           \/ pc' = "r_copy" /\ UNCHANGED upper /\ IsDirectory(upper'.tree[Parent(call.path)])
    BY Zenon, <1>1, <1>3, ParentStep DEF RenameCopyParent
  <2>2. IsDirectory(upper'.tree[Parent(call.dest)])
    BY Zenon, <1>1, <1>2, <2>1, GrowsKeepsDirectories DEF UpperHasParent
  <2>3. CASE pc' = "r_restore"
    BY Zenon, <1>0, <2>1, <2>2, <2>3, QuietStep DEF Quiet, RenameStep, SameCall
  <2>4. CASE pc' \in {"r_copy_parent", "r_copy"}
    <3>1. TypeOK' /\ CallFacts' /\ WorkFacts'
      BY Zenon, <1>0, <2>1, <2>4 DEF IInv, TypeOK, Step, CallFacts, WorkFacts, RenameStep
    <3>2. SourceFacts'
      BY Zenon, <1>2, <2>1, <2>4 DEF SourceFacts, Holds, UpperHasParent
    <3>3. DestFacts'
      BY Zenon, <2>1, <2>2, <2>4 DEF DestFacts, UpperHasParent
    <3> QED
      BY Zenon, <2>1, <3>1, <3>2, <3>3 DEF IInv
  <2> QED
    BY Zenon, <2>1, <2>3, <2>4
<1>4. CASE RenameCopy
  <2>1. UpperHasParent(call.path) /\ InLowers(call.path) \in Entry
    BY Zenon, <1>1, <1>4, StackFacts DEF RenameCopy, IInv, SourceFacts
  <2>2. CASE Change(PutEntry(upper, call.path, InLowers(call.path)), "r_move")
    <3>1. /\ upper' \in Layer /\ WellFormed(upper')
          /\ upper'.tree[Parent(call.dest)] = upper.tree[Parent(call.dest)]
      BY Zenon, <1>1, <1>2, <2>1, <2>2, PutFacts DEF Change
    <3> QED
      BY Zenon, <1>0, <1>2, <2>2, <3>1, QuietStep
      DEF Change, Quiet, RenameStep, SameCall, UpperHasParent
  <2>3. CASE Goto("r_restore")
    BY Zenon, <1>0, <1>1, <2>3, QuietStep DEF Goto, Quiet, RenameStep, SameCall, UpperHasParent
  <2> QED
    BY Zenon, <1>4, <2>2, <2>3 DEF RenameCopy
<1> QED
  BY Zenon, <1>3, <1>4

(* The copy that a merge makes can be put at the new name. *)
LEMMA MergedCopyFacts ==
    ASSUME IInv, NEW p \in Path
    PROVE  MergedCopy(p) \in Layer /\ Portable(MergedCopy(p), p)
<1> DEFINE m == MergedCopy(p)
<1>1. /\ Stack \in [Slot -> Layer] /\ \A s \in Slot : WellFormed(Stack[s])
      /\ Shown(p) \in Entry
  BY Zenon, StackFacts DEF IInv
<1>2. p \in Within(p) /\ Within(p) \subseteq Path
  BY Zenon, WithinFacts
<1>3. \A q \in Path : ListedEntry(Stack, q) = Shown(q) /\ Shown(q) \in Entry
  BY Zenon, <1>1, ListedIsLookup, LookupTypes DEF Shown
<1>4. [Shown(p) EXCEPT !.kind = "dir"] \in Entry /\ [Shown(p) EXCEPT !.kind = "dir"].kind = "dir"
  BY <1>1, EntryFacts DEF Entry
<1>5. m \in Layer
  BY Zenon, <1>3, <1>4, EntryFacts DEF MergedCopy, Layer
<1>6. m.wh = {} /\ m.opq = {p} /\ IsDirectory(m.tree[p])
      /\ \A q \in Below(p) : q \in Path /\ m.tree[q] = Shown(q)
  BY Zenon, <1>2, <1>3, <1>4 DEF MergedCopy, Below, IsDirectory
<1> HIDE DEF m
<1>7. ASSUME NEW q \in Below(p), Holds(m, q)
      PROVE  IsDirectory(m.tree[Parent(q)])
  <2>1. q \in Path /\ Found(Shown(q))
    BY Zenon, <1>6, <1>7 DEF Holds
  <2>2. q # Root
    <3>1. CASE p = Root
      BY Zenon, <3>1 DEF Below
    <3>2. CASE p # Root
      BY Zenon, <3>2, WithinFacts DEF Below
    <3> QED
      BY Zenon, <3>1, <3>2
  <2>3. IsDirectory(Shown(Parent(q)))
    BY Zenon, <1>1, <2>1, <2>2, LookupIsTree DEF Shown
  <2>4. Parent(q) \in Within(p)
    BY Zenon, <2>1, <2>2, WithinParent
  <2> QED
    BY Zenon, <1>6, <2>3, <2>4 DEF Below
<1>8. Holds(m, p)
  BY Zenon, <1>6 DEF Holds, Found, IsDirectory
<1> QED
  BY Zenon, <1>5, <1>6, <1>7, <1>8 DEF Portable, m

(* From the mark to the removal of the source. *)
LEMMA RenameForwardStep ==
    ASSUME IInv, RenameMark \/ RenameMove \/ RenameBuild \/ RenameShadow
    PROVE  IInv'
<1>0. pc \in {"r_mark", "r_move", "r_build", "r_shadow"} /\ pc \in RenameStep
  BY Zenon DEF RenameMark, RenameMove, RenameBuild, RenameShadow, RenameStep
<1>1. /\ call.path \in Path /\ call.path # Root /\ call.dest \in Path /\ call.dest # Root
      /\ call.dest \notin Within(call.path) /\ Parent(call.dest) \in Path
      /\ Parent(call.dest) \notin Within(call.path)
      /\ Parent(call.dest) \notin Within(call.dest)
      /\ upper \in Layer /\ WellFormed(upper)
  BY Zenon, <1>0, RenameFacts
<1>2. IsDirectory(upper.tree[Parent(call.dest)])
  BY Zenon, <1>0 DEF IInv, DestFacts, RenameStep, UpperHasParent
<1>3. AfterMove \in {"r_whiteout", "r_dest_whiteout"}
  BY Zenon DEF AfterMove
<1>4. ASSUME NEW u \in Layer, WellFormed(u), NEW l \in Quiet, Change(u, l),
             u.tree[Parent(call.dest)] = upper.tree[Parent(call.dest)]
      PROVE  IInv'
  BY Zenon, <1>0, <1>2, <1>4, QuietStep DEF Change, SameCall
<1>5. ASSUME NEW l \in Quiet, Goto(l)
      PROVE  IInv'
  BY Zenon, <1>0, <1>1, <1>2, <1>5, QuietStep DEF Goto, SameCall
<1>6. /\ "r_move" \in Quiet /\ "r_restore" \in Quiet /\ "r_shadow" \in Quiet
      /\ "r_whiteout" \in Quiet /\ "r_uncopy" \in Quiet /\ "r_dest_whiteout" \in Quiet
  BY Zenon DEF Quiet, RenameStep
<1>7. CASE RenameMark
  <2> DEFINE u == [upper EXCEPT !.opq = @ \cup {call.path}]
  <2>1. Holds(upper, call.path)
    BY Zenon, <1>7 DEF RenameMark, IInv, SourceFacts
  <2>2. u \in Layer /\ WellFormed(u) /\ u.tree = upper.tree
    BY Zenon, <1>1, <2>1, MarkersKeepForm DEF Layer
  <2>3. Change(u, "r_move") \/ Goto("r_restore") \/ Goto("r_move")
    BY Zenon, <1>7 DEF RenameMark
  <2> HIDE DEF u
  <2> QED
    BY Zenon, <1>4, <1>5, <1>6, <2>2, <2>3
<1>8. CASE RenameMove
  <2> DEFINE u == MoveTree(upper, call.path, call.dest)
  <2>1. u \in Layer /\ WellFormed(u)
    BY Zenon, <1>1, <1>2, MoveKeepsForm, ChangeTypes, EntryFacts
  <2>2. u.tree[Parent(call.dest)] = upper.tree[Parent(call.dest)]
    BY Zenon, <1>1, Frames
  <2>3. Change(u, AfterMove) \/ Goto("r_restore")
    BY Zenon, <1>8 DEF RenameMove
  <2> HIDE DEF u
  <2> QED
    BY Zenon, <1>3, <1>4, <1>5, <1>6, <2>1, <2>2, <2>3
<1>9. CASE RenameBuild
  <2> DEFINE u == Plant(upper, MergedCopy(call.path), call.path, call.dest)
  <2>1. MergedCopy(call.path) \in Layer /\ Portable(MergedCopy(call.path), call.path)
    BY Zenon, <1>1, MergedCopyFacts
  <2>2. u \in Layer
    BY Zenon, <1>1, <2>1, ChangeTypes, EntryFacts
  <2>3. WellFormed(u)
    BY Zenon, <1>1, <1>2, <2>1, PlantKeepsForm
  <2>4. u.tree[Parent(call.dest)] = upper.tree[Parent(call.dest)]
    BY <1>1, <2>1, Frames
  <2>5. Change(u, "r_shadow") \/ Goto("r_restore")
    BY Zenon, <1>9 DEF RenameBuild
  <2> HIDE DEF u
  <2> QED
    BY Zenon, <1>4, <1>5, <1>6, <2>2, <2>3, <2>4, <2>5
<1>10. CASE RenameShadow
  <2> DEFINE u == Prune(upper, call.path)
  <2>1. u \in Layer /\ WellFormed(u)
    BY Zenon, <1>1, PruneKeepsForm, ChangeTypes, EntryFacts
  <2>2. u.tree[Parent(call.dest)] = upper.tree[Parent(call.dest)]
    BY Zenon, <1>1, Frames
  <2>3. Change(u, "r_whiteout") \/ Goto("r_uncopy")
    BY Zenon, <1>10 DEF RenameShadow
  <2> HIDE DEF u
  <2> QED
    BY Zenon, <1>4, <1>5, <1>6, <2>1, <2>2, <2>3
<1> QED
  BY Zenon, <1>7, <1>8, <1>9, <1>10

(* RenameRollback and the end of the call. *)
LEMMA MoveBackStep ==
    ASSUME IInv, NEW here \in {"r_back", "r_dest_back"},
           NEW next \in {"r_restore", "r_unwhite_old"},
           NEW fail \in {"r_restore", "r_unwhite_new"}, MoveBack(here, next, fail)
    PROVE  IInv'
<1>0. pc = here /\ pc \in RenameStep /\ next \in Quiet /\ fail \in Quiet
  BY Zenon DEF MoveBack, RenameStep, Quiet
<1>1. /\ call.path \in Path /\ call.path # Root /\ call.dest \in Path /\ call.dest # Root
      /\ call.path \notin Within(call.dest) /\ Parent(call.dest) \in Path
      /\ Parent(call.dest) \notin Within(call.path)
      /\ Parent(call.dest) \notin Within(call.dest)
      /\ upper \in Layer /\ WellFormed(upper)
  BY Zenon, <1>0, RenameFacts
<1>2. IsDirectory(upper.tree[Parent(call.dest)])
  BY Zenon, <1>0 DEF IInv, DestFacts, RenameStep, UpperHasParent
<1>3. CASE GotoStuck(fail)
  BY Zenon, <1>0, <1>1, <1>2, <1>3, QuietStep DEF GotoStuck, SameCall
<1>4. CASE UpperHasParent(call.path) /\ ~GotoStuck(fail)
  <2> DEFINE back == MoveTree(upper, call.dest, call.path)
             bare == [back EXCEPT !.opq = @ \ {call.path}]
  <2>1. back \in Layer /\ WellFormed(back)
    BY Zenon, <1>1, <1>4, MoveKeepsForm, ChangeTypes, EntryFacts DEF UpperHasParent
  <2>2. back.tree[Parent(call.dest)] = upper.tree[Parent(call.dest)]
    BY <1>1, Frames
  <2>3. Change(bare, next) \/ Change(back, next)
    BY Zenon, <1>4 DEF MoveBack
  <2> HIDE DEF back
  <2>4. bare \in Layer /\ WellFormed(bare) /\ bare.tree = back.tree
    BY Zenon, <1>1, <2>1, MarkersKeepForm DEF Layer
  <2> HIDE DEF bare
  <2>5. /\ upper' \in Layer /\ WellFormed(upper') /\ pc' = next
        /\ upper'.tree[Parent(call.dest)] = upper.tree[Parent(call.dest)]
        /\ UNCHANGED <<lowers, work, call, before>>
    BY Zenon, <2>1, <2>2, <2>3, <2>4 DEF Change
  <2> QED
    BY Zenon, <1>0, <1>2, <2>5, QuietStep DEF SameCall
<1> QED
  BY Zenon, <1>3, <1>4 DEF MoveBack

(* The whiteouts of a rename and their undo keep the invariant. *)
LEMMA RenameUndoStep ==
    ASSUME IInv,
           \/ RenameUncopy \/ RenameWhiteout \/ RenameBack \/ RenameUnwhiteNew
           \/ RenameDestWhiteout \/ RenameDestBack \/ RenameUnwhiteOld
    PROVE  IInv'
<1>0. /\ pc \in {"r_uncopy", "r_whiteout", "r_back", "r_unwhite_new", "r_dest_whiteout",
                 "r_dest_back", "r_unwhite_old"}
      /\ pc \in RenameStep
  BY Zenon DEF RenameUncopy, RenameWhiteout, RenameBack, RenameUnwhiteNew, RenameDestWhiteout,
         RenameDestBack, RenameUnwhiteOld, CreateWhiteout, RemoveWhiteout, MoveBack, RenameStep
<1>1. /\ call.path \in Path /\ call.path # Root /\ call.dest \in Path /\ call.dest # Root
      /\ Parent(call.dest) \in Path /\ Parent(call.dest) \notin Within(call.dest)
      /\ upper \in Layer /\ WellFormed(upper)
  BY Zenon, <1>0, RenameFacts
<1>2. IsDirectory(upper.tree[Parent(call.dest)])
  BY Zenon, <1>0 DEF IInv, DestFacts, RenameStep, UpperHasParent
<1>3. /\ "r_restore" \in Quiet /\ "r_uncopy" \in Quiet /\ "r_whiteout" \in Quiet
      /\ "r_dest_whiteout" \in Quiet /\ "r_back" \in Quiet /\ "r_commit" \in Quiet
      /\ "r_dest_back" \in Quiet
  BY Zenon DEF Quiet, RenameStep
<1>4. CASE RenameUncopy
  <2>1. \A u \in RemoveOneBelow(upper, call.dest) :
           u \in Layer /\ WellFormed(u)
           /\ u.tree[Parent(call.dest)] = upper.tree[Parent(call.dest)]
    BY Zenon, <1>1, RemovalKeepsForm, ChangeTypes, EntryFacts
  <2>2. /\ Prune(upper, call.dest) \in Layer /\ WellFormed(Prune(upper, call.dest))
        /\ Prune(upper, call.dest).tree[Parent(call.dest)] = upper.tree[Parent(call.dest)]
    <3>1. Prune(upper, call.dest) \in Layer
      BY Zenon, <1>1, ChangeTypes, EntryFacts
    <3>2. WellFormed(Prune(upper, call.dest))
      BY Zenon, <1>1, PruneKeepsForm
    <3>3. Prune(upper, call.dest).tree[Parent(call.dest)] = upper.tree[Parent(call.dest)]
      BY Zenon, <1>1, Frames
    <3> QED
      BY Zenon, <3>1, <3>2, <3>3
  <2>3. /\ upper' \in Layer /\ WellFormed(upper') /\ pc' \in Quiet
        /\ upper'.tree[Parent(call.dest)] = upper.tree[Parent(call.dest)]
        /\ UNCHANGED <<lowers, work, before>> /\ SameCall
    <3>1. CASE \E u \in RemoveOneBelow(upper, call.dest) : Change(u, "r_uncopy")
      BY Zenon, <1>3, <2>1, <3>1 DEF Change, SameCall
    <3>2. CASE Change(Prune(upper, call.dest), "r_restore")
      BY Zenon, <1>3, <2>2, <3>2 DEF Change, SameCall
    <3>3. CASE GotoStuck("r_restore")
      BY Zenon, <1>1, <1>3, <3>3 DEF GotoStuck, SameCall
    <3> QED
      BY Zenon, <1>4, <3>1, <3>2, <3>3 DEF RenameUncopy
  <2> QED
    BY Zenon, <1>0, <1>2, <2>3, QuietStep
<1>5. ASSUME upper' \in Layer, WellFormed(upper'), Grows,
             UNCHANGED <<lowers, work, call, before>>, pc' \in Quiet
      PROVE  IInv'
  <2>1. IsDirectory(upper'.tree[Parent(call.dest)])
    BY Zenon, <1>1, <1>2, <1>5, GrowsKeepsDirectories
  <2> QED
    BY Zenon, <1>0, <1>5, <2>1, QuietStep DEF SameCall
<1>6. CASE RenameWhiteout
  <2>1. /\ upper' \in Layer /\ WellFormed(upper') /\ Grows
        /\ UNCHANGED <<lowers, work, call, before>>
        /\ pc' \in {"r_whiteout", "r_dest_whiteout", "r_back"}
    BY Zenon, <1>1, <1>6, WhiteoutStep DEF RenameWhiteout
  <2> QED
    BY Zenon, <1>3, <1>5, <2>1
<1>7. CASE RenameBack
  BY Zenon, <1>7, MoveBackStep DEF RenameBack
<1>8. CASE RenameDestBack
  BY Zenon, <1>8, MoveBackStep DEF RenameDestBack
<1>9. CASE RenameUnwhiteNew
  <2>1. /\ upper' \in Layer /\ WellFormed(upper') /\ Grows
        /\ UNCHANGED <<lowers, work, call, before>> /\ pc' \in {"r_restore"}
    BY Zenon, <1>1, <1>9, UnwhiteoutStep DEF RenameUnwhiteNew
  <2> QED
    BY Zenon, <1>3, <1>5, <2>1
<1>10. CASE RenameUnwhiteOld
  <2>1. /\ upper' \in Layer /\ WellFormed(upper') /\ Grows
        /\ UNCHANGED <<lowers, work, call, before>> /\ pc' \in {"r_restore"}
    BY Zenon, <1>1, <1>10, UnwhiteoutStep DEF RenameUnwhiteOld
  <2> QED
    BY Zenon, <1>3, <1>5, <2>1
<1>11. CASE RenameDestWhiteout
  <2>1. CASE call.whiteout
    <3>1. /\ upper' \in Layer /\ WellFormed(upper') /\ Grows
          /\ UNCHANGED <<lowers, work, call, before>> /\ pc' \in {"r_commit", "r_dest_back"}
      BY Zenon, <1>1, <1>11, <2>1, UnwhiteoutStep DEF RenameDestWhiteout
    <3> QED
      BY Zenon, <1>3, <1>5, <3>1
  <2>2. CASE ~call.whiteout
    <3>1. UNCHANGED <<upper, lowers, work, call, before>> /\ pc' = "r_commit" /\ Grows
      BY Zenon, <1>11, <2>2 DEF RenameDestWhiteout, Goto, Grows
    <3> QED
      BY Zenon, <1>1, <1>3, <1>5, <3>1
  <2> QED
    BY Zenon, <2>1, <2>2
<1> QED
  BY Zenon, <1>4, <1>6, <1>7, <1>8, <1>9, <1>10, <1>11

(* The end of a rename, kept or restored, keeps the invariant. *)
LEMMA RenameEndStep ==
    ASSUME IInv, RenameCommit \/ RenameRestore
    PROVE  IInv'
<1>0. pc \in {"r_commit", "r_restore"} /\ pc \in RenameStep
  BY Zenon DEF RenameCommit, RenameRestore, RenameStep
<1>1. /\ pc # "idle" /\ call.dest \in Path /\ call.dest # Root
      /\ upper \in Layer /\ WellFormed(upper) /\ work \in Layer /\ Portable(work, call.dest)
  BY Zenon, <1>0, RenameFacts
<1>2. EmptyLayer \in Layer
  BY Zenon, EntryFacts DEF EmptyLayer, Layer
<1>3. CASE RenameCommit
  BY Zenon, <1>1, <1>2, <1>3, FreeStep DEF RenameCommit, Free, SameCall
<1>4. CASE RenameRestore
  <2> DEFINE u == Plant(upper, work, call.dest, call.dest)
  <2>1. Holds(work, call.dest) => IsDirectory(upper.tree[Parent(call.dest)])
    BY Zenon, <1>0 DEF IInv, DestFacts, UpperHasParent
  <2>2. u \in Layer /\ (Holds(work, call.dest) => WellFormed(u))
    BY Zenon, <1>1, <2>1, PlantKeepsForm, ChangeTypes, EntryFacts
  <2> HIDE DEF u
  <2>3. /\ upper' = upper \/ (Holds(work, call.dest) /\ upper' = u)
        /\ work' = work \/ work' = EmptyLayer
        /\ SameCall /\ pc' = "failed" /\ UNCHANGED <<lowers, before>>
    BY Zenon, <1>4 DEF RenameRestore, SameCall, u
  <2>4. upper' \in Layer /\ WellFormed(upper') /\ work' \in Layer
    BY Zenon, <1>1, <1>2, <2>2, <2>3
  <2> QED
    BY Zenon, <1>1, <2>3, <2>4, FreeStep DEF Free
<1> QED
  BY Zenon, <1>3, <1>4

(***************************************************************************)
(* The invariant holds at the start and through every step.                *)
(***************************************************************************)
LEMMA InitHasIInv ==
    ASSUME Init
    PROVE  IInv
<1>1. EmptyLayer \in Layer /\ Root \in Path /\ [kind |-> "dir", tag |-> Fresh] \in Entry
  BY Zenon, EntryFacts, PathAssumption DEF EmptyLayer, Layer
<1>2. upper \in Layer /\ work \in Layer
  BY Zenon, <1>1 DEF Init, PutEntry, Layer
<1>3. /\ \A q \in Path : upper.tree[q] = IF q = Root THEN [kind |-> "dir", tag |-> Fresh]
                                        ELSE NoEntry
      /\ upper.wh = {} /\ upper.opq = {}
  BY Zenon, <1>1 DEF Init, PutEntry, EmptyLayer
<1>4. WellFormed(upper)
  BY Zenon, <1>1, <1>3, EntryFacts DEF WellFormed, Holds, IsDirectory
<1>5. /\ lowers \in [1 .. NumLowers -> Layer] /\ lowers \in LowerStacks /\ call \in Call
      /\ pc = "idle" /\ work = EmptyLayer
  BY Zenon, StackAssumption, PathAssumption DEF Init, NoCall, Call
<1>6. View(Stack) \in [Path -> Entry]
  <2>1. 0 \in Slot /\ \A s \in Slot : s = 0 \/ s \in 1 .. NumLowers
    BY LayerAssumption DEF Slot
  <2>2. Stack \in [Slot -> Layer]
    BY Zenon, <1>2, <1>5, <2>1 DEF Stack
  <2> HIDE DEF Stack
  <2> QED
    BY Zenon, <2>2, LookupTypes DEF View
<1>7. TypeOK
  BY Zenon, <1>2, <1>5, <1>6 DEF Init, TypeOK, Step
<1> QED
  BY Zenon, <1>4, <1>5, <1>7 DEF IInv, CallFacts, SourceFacts, DestFacts, WorkFacts, RenameStep

(* Every step keeps the invariant. *)
LEMMA NextKeepsIInv ==
    ASSUME IInv, [Next]_vars
    PROVE  IInv'
<1>1. CASE Begin
  BY Zenon, <1>1, BeginStep
<1>2. CASE Advance
  <2>1. CASE \/ CreateParent \/ CreateMake \/ CreateOpaque \/ CreateSettings
             \/ CreateWhiteoutGoes \/ CreateUndoOpaque \/ CreateUndoMake
    BY Zenon, <2>1, CreateStep
  <2>2. CASE DeleteOpaque \/ DeleteRemove \/ DeleteWhiteout
    BY Zenon, <2>2, DeleteStep
  <2>3. CASE CopyUpParent \/ CopyUpCommit
    BY Zenon, <2>3, CopyUpStep
  <2>4. CASE MarkerWhiteout \/ MarkerOpaque
    BY Zenon, <2>4, MarkerStep
  <2>5. CASE RenameAside
    BY Zenon, <2>5, RenameAsideStep
  <2>6. CASE RenameParent
    BY Zenon, <2>6, RenameParentStep
  <2>7. CASE RenameCopyParent \/ RenameCopy
    BY Zenon, <2>7, RenameCopyStep
  <2>8. CASE RenameMark \/ RenameMove \/ RenameBuild \/ RenameShadow
    BY Zenon, <2>8, RenameForwardStep
  <2>9. CASE \/ RenameUncopy \/ RenameWhiteout \/ RenameBack \/ RenameUnwhiteNew
             \/ RenameDestWhiteout \/ RenameDestBack \/ RenameUnwhiteOld
    BY Zenon, <2>9, RenameUndoStep
  <2>10. CASE RenameCommit \/ RenameRestore
    BY Zenon, <2>10, RenameEndStep
  <2>11. CASE Return
    BY Zenon, <2>11, ResetStep DEF Return
  <2> QED
    BY Zenon, <1>2, <2>1, <2>2, <2>3, <2>4, <2>5, <2>6, <2>7, <2>8, <2>9, <2>10, <2>11 DEF Advance
<1>3. CASE Crash
  BY Zenon, <1>3, ResetStep DEF Crash
<1>4. CASE UNCHANGED vars
  <2>1. UNCHANGED <<upper, lowers, work, call, pc, before>>
    BY Zenon, <1>4 DEF vars
  <2>2. TypeOK' /\ CallFacts'
    BY Zenon, <2>1 DEF IInv, TypeOK, CallFacts
  <2>3. SourceFacts' /\ DestFacts' /\ WorkFacts'
    BY Zenon, <2>1 DEF IInv, SourceFacts, DestFacts, WorkFacts, UpperHasParent
  <2> QED
    BY Zenon, <2>1, <2>2, <2>3 DEF IInv
<1> QED
  BY Zenon, <1>1, <1>2, <1>3, <1>4 DEF Next

(* Every reachable state satisfies the inductive invariant. *)
THEOREM IInvHolds == Spec => []IInv
<1>1. Init => IInv
  BY Zenon, InitHasIInv
<1>2. IInv /\ [Next]_vars => IInv'
  BY Zenon, NextKeepsIInv
<1> QED
  BY <1>1, <1>2, PTL DEF Spec

(* Every variable keeps its type through every step of every call. *)
THEOREM TypesHold == Spec => []TypeOK
<1>1. IInv => TypeOK
  BY Zenon DEF IInv
<1> QED
  BY <1>1, IInvHolds, PTL

(* Through every step, fault and crash each entry and each marker of the   *)
(* upper has a directory above it: no step of Create, Delete, Rename,      *)
(* copy-up or a rollback asks the file system for what it must refuse.     *)
THEOREM UpperStaysWellFormed == Spec => []UpperWellFormed
<1>1. IInv => UpperWellFormed
  BY Zenon DEF IInv, UpperWellFormed
<1> QED
  BY <1>1, IInvHolds, PTL

(* The merged view is a tree in every state, the intermediate ones of a    *)
(* call and those that a crash leaves included (ResolvePathInternal).      *)
THEOREM ViewStaysTree == Spec => []ViewIsTree
<1>1. IInv => ViewIsTree
  <2> SUFFICES ASSUME IInv, NEW p \in Path \ {Root}, Found(Shown(p))
               PROVE  IsDirectory(Shown(Parent(p)))
    BY Zenon DEF ViewIsTree
  <2>1. Stack \in [Slot -> Layer] /\ \A s \in Slot : WellFormed(Stack[s])
    BY Zenon, StackFacts DEF IInv
  <2> QED
    BY Zenon, <2>1, LookupIsTree DEF Shown
<1> QED
  BY <1>1, IInvHolds, PTL

(* A listing gives a name from a layer exactly when the lookup of the path *)
(* finds it there, in every state (MergeDirectoryWithAncestry against      *)
(* ResolvePathInternal).                                                   *)
THEOREM ListingAgreesWithLookup == Spec => []ListingMatchesLookup
<1>1. ListingMatchesLookup
  BY Zenon, ListedExactlyWhenFound DEF ListingMatchesLookup
<1> QED
  BY <1>1, PTL

(* The directories above a path are outside it. *)
LEMMA AncestorsOutside ==
    ASSUME NEW p \in Path, p # Root, NEW a \in Ancestors(p)
    PROVE  a \in Path /\ a # Root /\ a \notin Within(p)
<1>1. a \in Path /\ a # Root
  BY Zenon, MissingFacts
<1>2. Parent(p) \in Path /\ Len(p) \in Nat /\ Len(Parent(p)) = Len(p) - 1
  BY Zenon, ParentFacts
<1>3. PICK n \in 1 .. Len(Parent(p)) : a = SubSeq(Parent(p), 1, n)
  BY Zenon DEF Ancestors, Chain
<1>4. /\ Parent(p) \in Seq(Name) /\ n \in Nat /\ 1 \in Nat /\ 1 <= 1 /\ 1 <= n + 1
      /\ n <= Len(Parent(p))
  BY <1>2, <1>3, PathAssumption
<1>5. Len(a) = n - 1 + 1
  BY Zenon, <1>3, <1>4, PartFacts
<1>6. ~(Len(a) >= Len(p))
  BY <1>2, <1>3, <1>4, <1>5
<1> QED
  BY Zenon, <1>1, <1>6 DEF Within

(* When the upper hides what the lowers have at a path: by what it has at   *)
(* an ancestor, or an opaque root.                                         *)
LEMMA HidesMeans ==
    ASSUME NEW L, NEW p
    PROVE  UpperAncestorHides(L, p) <=>
              \/ Root \in L[0].opq
              \/ \E a \in Ancestors(p) : \/ a \in L[0].wh \/ a \in L[0].opq
                                        \/ L[0].tree[a].kind = "file"
BY Zenon DEF UpperAncestorHides, HasWhitedOutAncestorInLayer, HidesLowersBelow, HasWhiteout,
       HasOpaqueSelfOrAncestorInLayer, HasNonDirectorySelfOrAncestorInLayer, Ancestors

(* The lowers' entry at p depends on the upper only through the markers    *)
(* and files above p.                                                      *)
LEMMA LowersSame ==
    ASSUME NEW L \in [Slot -> Layer], NEW M \in [Slot -> Layer], NEW p \in Path, p # Root,
           \A s \in 1 .. NumLowers : M[s] = L[s],
           Root \in M[0].opq <=> Root \in L[0].opq,
           \A a \in Ancestors(p) :
              /\ a \in M[0].wh <=> a \in L[0].wh
              /\ a \in M[0].opq <=> a \in L[0].opq
              /\ M[0].tree[a].kind = "file" <=> L[0].tree[a].kind = "file"
    PROVE  ResolveLowerPath(M, p) = ResolveLowerPath(L, p)
<1>0. NumLowers \in Nat
  BY Zenon, LayerAssumption
<1>1. UpperAncestorHides(M, p) <=> UpperAncestorHides(L, p)
  BY Zenon, HidesMeans
<1>2. \A i \in 1 .. NumLowers : FoundInLower(M, i, p) <=> FoundInLower(L, i, p)
  BY <1>0 DEF FoundInLower
<1>3. \A i \in 1 .. NumLowers : LowerFoundAt(M, i, p) <=> LowerFoundAt(L, i, p)
  BY Zenon, <1>1, <1>2 DEF LowerFoundAt
<1> DEFINE HM == {i \in 1 .. NumLowers : LowerFoundAt(M, i, p)}
           HL == {i \in 1 .. NumLowers : LowerFoundAt(L, i, p)}
<1>4. HM = HL /\ HL \subseteq 1 .. NumLowers
  BY Zenon, <1>3
<1>5. /\ ResolveLowerPath(M, p) = IF HM = {} THEN NoEntry ELSE M[CHOOSE i \in HM : TRUE].tree[p]
      /\ ResolveLowerPath(L, p) = IF HL = {} THEN NoEntry ELSE L[CHOOSE i \in HL : TRUE].tree[p]
  BY Zenon DEF ResolveLowerPath
<1> HIDE DEF HM, HL
<1>6. HL # {} => (CHOOSE i \in HL : TRUE) \in 1 .. NumLowers
  BY Zenon, <1>4
<1> QED
  BY <1>4, <1>5, <1>6

(* Nothing shows below a path that the upper has nothing below of, and at  *)
(* which it has a whiteout, an opaque marker or a file, or the lowers have *)
(* no directory.                                                           *)
LEMMA NothingBelow ==
    ASSUME NEW L \in [Slot -> Layer], \A s \in Slot : WellFormed(L[s]),
           NEW p \in Path, p # Root, NEW q \in Below(p),
           \A r \in Below(p) : ~Holds(L[0], r),
           \/ p \in L[0].wh \/ p \in L[0].opq \/ L[0].tree[p].kind = "file"
           \/ ~IsDirectory(ResolveLowerPath(L, p))
    PROVE  ~Found(ResolvePath(L, q))
<1> SUFFICES ASSUME Found(ResolvePath(L, q)) PROVE FALSE
  BY Zenon
<1>0. /\ NumLowers \in Nat /\ 0 \in Slot /\ 1 .. NumLowers \subseteq Slot
      /\ L[0] \in Layer /\ WellFormed(L[0]) /\ \A s \in 1 .. NumLowers : s # 0
  BY LayerAssumption DEF Slot
<1>1. /\ q \in Path /\ q # Root /\ p \in Ancestors(q) /\ ~Holds(L[0], q)
      /\ p \in Within(p) /\ Below(p) \subseteq Within(p) /\ q \in Within(p)
  BY Zenon, AboveIsAncestor, WithinFacts DEF Below
<1>2. PICK i \in 1 .. NumLowers : LowerFoundAt(L, i, q)
  BY Zenon, <1>1 DEF ResolvePath, ResolveLowerPath, Found, NoEntry
<1>3. p \notin L[0].wh /\ p \notin L[0].opq /\ L[0].tree[p].kind # "file"
  BY Zenon, <1>1, <1>2, HidesMeans DEF LowerFoundAt
<1> DEFINE u == Prune(L[0], p)
<1>4. /\ u \in Layer /\ WellFormed(u)
      /\ \A r \in Path : u.tree[r] = IF r \in Within(p) THEN NoEntry ELSE L[0].tree[r]
      /\ u.wh = L[0].wh \ Below(p) /\ u.opq = L[0].opq \ Within(p)
  BY Zenon, <1>0, EntryFacts, ChangeTypes, PruneKeepsForm DEF Prune
<1> HIDE DEF u
<1>5. PICK M : M = [L EXCEPT ![0] = u]
  BY Zenon
<1>6. /\ M \in [Slot -> Layer] /\ M[0] = u /\ \A s \in 1 .. NumLowers : M[s] = L[s]
      /\ \A s \in Slot : WellFormed(M[s])
  BY Zenon, <1>0, <1>4, <1>5
<1>7. LowerFoundAt(M, i, q)
  <2>1. \A a \in Ancestors(q) : a \in Path
    BY Zenon, <1>1, MissingFacts
  <2>2. NoEntry.kind # "file"
    BY Zenon DEF NoEntry
  <2>3. ~UpperAncestorHides(L, q)
    BY Zenon, <1>2 DEF LowerFoundAt
  <2>4. ~UpperAncestorHides(M, q)
    BY Zenon, <1>4, <1>6, <2>1, <2>2, <2>3, HidesMeans
  <2>5. FoundInLower(M, i, q)
    BY <1>0, <1>2, <1>6 DEF LowerFoundAt, FoundInLower
  <2> QED
    BY Zenon, <2>4, <2>5 DEF LowerFoundAt
<1>8. Found(ResolvePath(M, q))
  <2>1. u.tree[q] = NoEntry /\ ~Holds(u, q) /\ ~HasWhiteout(u, q)
    BY Zenon, <1>1, <1>4, EntryFacts DEF Holds, HasWhiteout
  <2>2. \A k \in 1 .. NumLowers : LowerFoundAt(M, k, q) => Found(M[k].tree[q])
    BY Zenon DEF LowerFoundAt, FoundInLower, Holds
  <2>3. Found(ResolveLowerPath(M, q))
    BY Zenon, <1>7, <2>2 DEF ResolveLowerPath
  <2> QED
    BY Zenon, <1>6, <2>1, <2>3 DEF ResolvePath
<1>9. IsDirectory(ResolvePath(M, p))
  BY Zenon, <1>1, <1>6, <1>8, AncestorsShown
<1>10. ResolvePath(M, p) = ResolveLowerPath(M, p)
  BY Zenon, <1>1, <1>3, <1>4, <1>6, EntryFacts DEF ResolvePath, Holds, HasWhiteout
<1>11. ResolveLowerPath(M, p) = ResolveLowerPath(L, p)
  <2>1. Root \in Path /\ Root \notin Within(p) /\ \A a \in Ancestors(p) : a \in Path /\
          a \notin Within(p)
    BY Zenon, AncestorsOutside, WithinFacts, PathAssumption
  <2>2. /\ Root \in M[0].opq <=> Root \in L[0].opq
        /\ \A a \in Ancestors(p) :
              /\ a \in M[0].wh <=> a \in L[0].wh
              /\ a \in M[0].opq <=> a \in L[0].opq
              /\ M[0].tree[a].kind = "file" <=> L[0].tree[a].kind = "file"
    BY Zenon, <1>1, <1>4, <1>6, <2>1
  <2> QED
    BY Zenon, <1>6, <2>2, LowersSame
<1> QED
  BY Zenon, <1>3, <1>9, <1>10, <1>11

CreateSteps ==
    {"c_parent", "c_make", "c_opaque", "c_settings", "c_whiteout", "c_undo_opaque",
     "c_undo_make"}

(* What a create knows at each step: the upper has nothing below its path, *)
(* and where the lowers have a directory at it, the whiteout is there      *)
(* until the opaque marker does its work.                                  *)
CreateFacts ==
    call.op = "create" =>
       /\ pc \in CreateSteps \cup {"ok", "failed"}
       /\ \A q \in Below(call.path) : ~Holds(upper, q)
       /\ call.lower <=> IsDirectory(InLowers(call.path))
       /\ pc # "ok" /\ call.lower => call.path \in upper.wh
       /\ pc \in {"c_opaque", "c_settings", "c_whiteout", "ok"} =>
             upper.tree[call.path].kind = call.kind
       /\ pc \in {"c_settings", "c_whiteout", "ok"} =>
             (call.kind = "dir" /\ call.lower => call.path \in upper.opq)

(* A step that leaves the upper above the path alone, but for directories  *)
(* that it makes there, leaves the lowers' entry at the path.              *)
LEMMA InLowersSame ==
    ASSUME IInv, IInv', pc # "idle", UNCHANGED lowers, call'.path = call.path,
           Root \in upper'.opq <=> Root \in upper.opq,
           \A a \in Ancestors(call.path) :
              /\ a \in upper'.wh <=> a \in upper.wh
              /\ a \in upper'.opq <=> a \in upper.opq
              /\ upper'.tree[a].kind = "file" <=> upper.tree[a].kind = "file"
    PROVE  InLowers(call.path)' = InLowers(call.path)
<1>1. call.path \in Path /\ call.path # Root
  BY Zenon DEF IInv, TypeOK, CallFacts, Call
<1>2. /\ Stack \in [Slot -> Layer] /\ Stack[0] = upper
      /\ Stack' \in [Slot -> Layer] /\ Stack'[0] = upper'
  <2>1. /\ upper \in Layer /\ lowers \in [1 .. NumLowers -> Layer] /\ upper' \in Layer
        /\ lowers' = lowers
    BY Zenon DEF IInv, TypeOK
  <2>2. 0 \in Slot /\ \A s \in Slot : s # 0 => s \in 1 .. NumLowers
    BY LayerAssumption DEF Slot
  <2> QED
    BY Zenon, <2>1, <2>2 DEF Stack
<1>3. \A s \in 1 .. NumLowers : Stack'[s] = Stack[s]
  BY LayerAssumption DEF Stack, Slot
<1> QED
  BY Zenon, <1>1, <1>2, <1>3, LowersSame DEF InLowers

(* A step that changes the upper at the path of the call only. *)
LEMMA InLowersSameOutside ==
    ASSUME IInv, IInv', pc # "idle", UNCHANGED lowers, call'.path = call.path,
           \A a \in Path \ Within(call.path) :
              /\ a \in upper'.wh <=> a \in upper.wh
              /\ a \in upper'.opq <=> a \in upper.opq
              /\ upper'.tree[a] = upper.tree[a]
    PROVE  InLowers(call.path)' = InLowers(call.path)
<1>1. call.path \in Path /\ call.path # Root
  BY Zenon DEF IInv, TypeOK, CallFacts, Call
<1>2. Root \in Path \ Within(call.path) /\ Ancestors(call.path) \subseteq Path \ Within(call.path)
  BY Zenon, <1>1, AncestorsOutside, WithinFacts, PathAssumption
<1> QED
  BY Zenon, <1>2, InLowersSame

(* The start of a create. *)
LEMMA CreateBegins ==
    ASSUME IInv, NEW p \in Path, NEW k \in {"file", "dir"}, CreateCall(p, k)
    PROVE  CreateFacts'
<1>1. /\ pc' = "c_parent" /\ p # Root /\ ~Found(Shown(p))
      /\ UNCHANGED <<upper, lowers>>
      /\ call'.op = "create" /\ call'.path = p /\ call'.lower = IsDirectory(InLowers(p))
  BY Zenon DEF CreateCall, Start, NoCall
<1>2. Stack' = Stack
  BY Zenon, <1>1 DEF Stack
<1>3. /\ Stack \in [Slot -> Layer] /\ \A s \in Slot : WellFormed(Stack[s])
      /\ Stack[0] = upper
  BY Zenon, StackFacts DEF IInv
<1>4. ASSUME NEW q \in Below(p)
      PROVE  ~Holds(upper, q)
  <2>1. q \in Path /\ q # Root /\ p \in Ancestors(q)
    BY Zenon, <1>1, AboveIsAncestor, WithinFacts DEF Below
  <2>2. Holds(upper, q) => Found(ResolvePath(Stack, q))
    BY Zenon, <1>3 DEF ResolvePath, Holds
  <2>3. ~IsDirectory(ResolvePath(Stack, p))
    BY Zenon, <1>1 DEF Shown, Found, IsDirectory
  <2> QED
    BY Zenon, <1>3, <2>1, <2>2, <2>3, AncestorsShown
<1>5. IsDirectory(InLowers(p)) => p \in upper.wh
  BY Zenon, <1>1, <1>3 DEF Shown, InLowers, ResolvePath, HasWhiteout, Holds, Found, IsDirectory
<1>6. InLowers(call.path)' = InLowers(p)
  BY Zenon, <1>1, <1>2 DEF InLowers
<1> QED
  BY Zenon, <1>1, <1>4, <1>5, <1>6 DEF CreateFacts, CreateSteps

(* EnsureUpperParent of a create copies directories that the lowers show.  *)
LEMMA CreateParentKeeps ==
    ASSUME IInv, IInv', CreateFacts, call.op = "create", CreateParent
    PROVE  CreateFacts'
<1>1. call.path \in Path /\ call.path # Root /\ pc = "c_parent"
  BY Zenon DEF IInv, TypeOK, CallFacts, Call, CreateParent, EnsureUpperParent
<1>2. UNCHANGED <<lowers, call>> /\ pc' \in {"c_parent", "c_make", "failed"}
  BY Zenon DEF CreateParent, EnsureUpperParent, Goto, Change
<1>3. CASE UNCHANGED upper
  <2>1. InLowers(call.path)' = InLowers(call.path)
    BY Zenon, <1>1, <1>2, <1>3, InLowersSame
  <2> QED
    BY Zenon, <1>1, <1>2, <1>3, <2>1 DEF CreateFacts, CreateSteps
<1>4. CASE upper' # upper
  <2> DEFINE top == Topmost(Missing(call.path))
  <2>1. /\ Missing(call.path) # {} /\ IsDirectory(Shown(top))
        /\ upper' = PutEntry(upper, top, InLowers(top))
    BY Zenon, <1>1, <1>4, MissingFacts, TopmostFacts
    DEF CreateParent, EnsureUpperParent, Goto, Change, Missing
  <2>2. top \in Missing(call.path)
    BY Zenon, <1>1, <2>1, MissingFacts, TopmostFacts DEF Missing
  <2>3. top \in Ancestors(call.path) /\ top \in Path /\ ~Holds(upper, top)
        /\ top \notin Within(call.path)
    BY Zenon, <1>1, <2>2, AncestorsOutside DEF Missing
  <2> HIDE DEF top
  <2>4. Stack[0] = upper /\ upper \in Layer
    BY Zenon, StackFacts DEF IInv, TypeOK
  <2>5. InLowers(top).kind = "dir"
    BY Zenon, <2>1, <2>3, <2>4, EntryFacts DEF Shown, InLowers, ResolvePath, IsDirectory, Found
  <2>6. /\ \A q \in Path : upper'.tree[q] = IF q = top THEN InLowers(top) ELSE upper.tree[q]
        /\ upper'.wh = upper.wh /\ upper'.opq = upper.opq
    BY Zenon, <2>1, <2>3, <2>4 DEF PutEntry, Layer
  <2>7. upper.tree[top].kind # "file"
    BY Zenon, <2>3, <2>4 DEF Holds, Found
  <2>8. \A a \in Ancestors(call.path) : upper'.tree[a].kind = "file" <=> upper.tree[a].kind = "file"
    BY Zenon, <1>1, <2>5, <2>6, <2>7, AncestorsOutside
  <2>9. InLowers(call.path)' = InLowers(call.path)
    BY Zenon, <1>1, <1>2, <2>6, <2>8, InLowersSame
  <2>10. \A q \in Below(call.path) : q \in Path /\ q # top
    BY Zenon, <1>1, <2>3, WithinFacts DEF Below
  <2>11. \A q \in Below(call.path) : ~Holds(upper', q)
    BY Zenon, <2>6, <2>10 DEF CreateFacts, Holds
  <2>12. (\A q \in Below(call.path) : ~Holds(upper, q))'
    BY Zenon, <1>2, <2>11
  <2> QED
    BY Zenon, <1>1, <1>2, <2>6, <2>9, <2>12 DEF CreateFacts, CreateSteps
<1> QED
  BY Zenon, <1>3, <1>4

(* The other steps of a create touch the path of the call only. *)
LEMMA CreateKeeps ==
    ASSUME IInv, IInv', CreateFacts, call.op = "create",
           \/ CreateMake \/ CreateOpaque \/ CreateSettings \/ CreateWhiteoutGoes
           \/ CreateUndoOpaque \/ CreateUndoMake
    PROVE  CreateFacts'
<1> DEFINE P == call.path
           Same(u) == \A a \in Path \ Within(P) :
                         /\ a \in u.wh <=> a \in upper.wh
                         /\ a \in u.opq <=> a \in upper.opq
                         /\ u.tree[a] = upper.tree[a]
           Bare(u) == \A q \in Below(P) : ~Holds(u, q)
<1>1. pc # "idle" /\ pc \in CreateSteps
  BY Zenon DEF CreateMake, CreateOpaque, CreateSettings, CreateWhiteoutGoes, RemoveWhiteout,
     CreateUndoOpaque, CreateUndoMake, CreateSteps
<1>2. /\ P \in Path /\ P # Root /\ upper \in Layer /\ call \in Call
      /\ call.kind \in {"file", "dir"} /\ P \in Within(P)
      /\ \A q \in Below(P) : q \in Within(P) /\ q # P /\ q \in Path
  BY Zenon, <1>1, WithinFacts DEF IInv, TypeOK, CallFacts, Call, Below
<1>3. /\ UNCHANGED lowers /\ call'.path = P /\ call'.op = "create" /\ call'.kind = call.kind
      /\ call'.lower = call.lower
  BY Zenon, <1>2 DEF Call, CreateMake, CreateOpaque, CreateSettings, CreateWhiteoutGoes,
     RemoveWhiteout, CreateUndoOpaque, CreateUndoMake, Goto, Change, GotoStuck
<1>4. /\ Bare(upper) /\ (call.lower <=> IsDirectory(InLowers(P)))
      /\ call.lower => P \in upper.wh
      /\ pc \in {"c_opaque", "c_settings", "c_whiteout"} => upper.tree[P].kind = call.kind
      /\ pc \in {"c_settings", "c_whiteout"} => (call.kind = "dir" /\ call.lower => P \in upper.opq)
  BY Zenon, <1>1 DEF CreateFacts, CreateSteps
<1>5. ASSUME Same(upper'), Bare(upper'), pc' \in CreateSteps \cup {"ok", "failed"},
             pc' # "ok" /\ call.lower => P \in upper'.wh,
             pc' \in {"c_opaque", "c_settings", "c_whiteout", "ok"} =>
                upper'.tree[P].kind = call.kind,
             pc' \in {"c_settings", "c_whiteout", "ok"} =>
                (call.kind = "dir" /\ call.lower => P \in upper'.opq)
      PROVE  CreateFacts'
  <2>1. InLowers(call.path)' = InLowers(call.path)
    BY Zenon, <1>1, <1>3, <1>5, InLowersSameOutside
  <2>2. (\A q \in Below(call.path) : ~Holds(upper, q))'
    BY Zenon, <1>3, <1>5
  <2>3. (call.lower <=> IsDirectory(InLowers(call.path)))'
    BY Zenon, <1>3, <1>4, <2>1
  <2> QED
    BY Zenon, <1>3, <1>5, <2>2, <2>3 DEF CreateFacts
<1>6. CASE UNCHANGED upper /\ pc' \in CreateSteps \cup {"ok", "failed"}
           /\ (pc' \in {"c_opaque", "c_settings", "c_whiteout", "ok"} =>
                 pc = "c_settings" /\ pc' # "c_opaque")
  BY Zenon, <1>4, <1>5, <1>6
<1>7. CASE CreateMake
  <2>1. CASE Goto("failed")
    BY Zenon, <1>6, <2>1 DEF Goto
  <2>2. CASE Change(PutEntry(upper, P, [kind |-> call.kind, tag |-> Fresh]),
                    IF call.kind = "dir" /\ call.lower THEN "c_opaque" ELSE "c_settings")
    <3>1. /\ \A q \in Path : upper'.tree[q] = IF q = P THEN [kind |-> call.kind, tag |-> Fresh]
                                              ELSE upper.tree[q]
          /\ upper'.wh = upper.wh /\ upper'.opq = upper.opq
      BY Zenon, <1>2, <2>2 DEF PutEntry, Layer, Change
    <3>2. Same(upper') /\ Bare(upper') /\ upper'.tree[P].kind = call.kind
      BY <1>2, <1>4, <3>1 DEF Holds
    <3>3. /\ pc' \in {"c_opaque", "c_settings"}
          /\ pc' = "c_settings" => ~(call.kind = "dir" /\ call.lower)
      BY Zenon, <2>2 DEF Change
    <3> HIDE DEF Same, Bare
    <3> QED
      BY Zenon, <1>4, <1>5, <3>1, <3>2, <3>3 DEF CreateSteps
  <2> QED
    BY Zenon, <1>7, <2>1, <2>2 DEF CreateMake
<1>8. CASE CreateOpaque
  <2>1. CASE Goto("c_undo_opaque")
    BY Zenon, <1>6, <2>1 DEF Goto, CreateSteps
  <2>2. CASE Change([upper EXCEPT !.opq = @ \cup {P}], "c_settings")
    <3>1. /\ upper'.tree = upper.tree /\ upper'.wh = upper.wh /\ upper'.opq = upper.opq \cup {P}
          /\ pc' = "c_settings" /\ pc = "c_opaque"
      BY Zenon, <1>2, <1>8, <2>2 DEF Layer, Change, CreateOpaque
    <3>2. Same(upper') /\ Bare(upper')
      BY Zenon, <1>2, <1>4, <3>1 DEF Holds
    <3> HIDE DEF Same, Bare
    <3> QED
      BY Zenon, <1>4, <1>5, <3>1, <3>2 DEF CreateSteps
  <2> QED
    BY Zenon, <1>8, <2>1, <2>2 DEF CreateOpaque
<1>9. CASE CreateSettings
  BY Zenon, <1>6, <1>9 DEF CreateSettings, Goto, UndoCreate, CreateSteps
<1>10. CASE CreateWhiteoutGoes
  <2>1. CASE Goto(UndoCreate)
    BY Zenon, <1>6, <2>1 DEF Goto, UndoCreate, CreateSteps
  <2>2. CASE Change([upper EXCEPT !.wh = @ \ {P}], "ok")
    <3>1. /\ upper'.tree = upper.tree /\ upper'.opq = upper.opq /\ upper'.wh = upper.wh \ {P}
          /\ pc' = "ok" /\ pc = "c_whiteout"
      BY Zenon, <1>2, <1>10, <2>2 DEF Layer, Change, CreateWhiteoutGoes, RemoveWhiteout
    <3>2. Same(upper') /\ Bare(upper')
      BY Zenon, <1>2, <1>4, <3>1 DEF Holds
    <3> HIDE DEF Same, Bare
    <3> QED
      BY Zenon, <1>4, <1>5, <3>1, <3>2
  <2> QED
    BY Zenon, <1>10, <2>1, <2>2 DEF CreateWhiteoutGoes, RemoveWhiteout
<1>11. CASE CreateUndoOpaque
  <2>1. CASE GotoStuck("c_undo_make")
    BY Zenon, <1>6, <2>1 DEF GotoStuck, CreateSteps
  <2>2. CASE Change([upper EXCEPT !.opq = @ \ {P}], "c_undo_make")
    <3>1. /\ upper'.tree = upper.tree /\ upper'.wh = upper.wh /\ upper'.opq = upper.opq \ {P}
          /\ pc' = "c_undo_make"
      BY Zenon, <1>2, <2>2 DEF Layer, Change
    <3>2. Same(upper') /\ Bare(upper')
      BY Zenon, <1>2, <1>4, <3>1 DEF Holds
    <3> HIDE DEF Same, Bare
    <3> QED
      BY Zenon, <1>4, <1>5, <3>1, <3>2 DEF CreateSteps
  <2> QED
    BY Zenon, <1>11, <2>1, <2>2 DEF CreateUndoOpaque
<1>12. CASE CreateUndoMake
  <2>1. CASE GotoStuck("failed")
    BY Zenon, <1>6, <2>1 DEF GotoStuck
  <2>2. CASE Change(Prune(upper, P), "failed")
    <3>1. /\ \A q \in Path : upper'.tree[q] = IF q \in Within(P) THEN NoEntry ELSE upper.tree[q]
          /\ upper'.wh = upper.wh \ Below(P) /\ upper'.opq = upper.opq \ Within(P)
          /\ pc' = "failed"
      BY Zenon, <2>2 DEF Prune, Change
    <3>2. Same(upper') /\ Bare(upper') /\ (P \in upper.wh => P \in upper'.wh)
      BY Zenon, <1>2, <3>1, EntryFacts DEF Holds, Found, NoEntry
    <3> HIDE DEF Same, Bare
    <3> QED
      BY Zenon, <1>4, <1>5, <3>1, <3>2
  <2> QED
    BY Zenon, <1>12, <2>1, <2>2 DEF CreateUndoMake
<1> QED
  BY Zenon, <1>7, <1>8, <1>9, <1>10, <1>11, <1>12

(* Every step keeps what a create knows. *)
LEMMA CreateFactsStep ==
    ASSUME IInv, IInv', CreateFacts, [Next]_vars
    PROVE  CreateFacts'
<1> SUFFICES ASSUME call'.op = "create" PROVE CreateFacts'
  BY Zenon DEF CreateFacts
<1>1. CASE Begin
  <2>1. \E p \in Path, k \in {"file", "dir"} : CreateCall(p, k)
    BY Zenon, <1>1 DEF Begin, DeleteCall, CopyUpCall, MarkerCall, RenameCall, Start, NoCall
  <2> QED
    BY Zenon, <2>1, CreateBegins
<1>2. CASE Crash \/ Return
  BY <1>2 DEF Crash, Return, Reset, NoCall
<1>3. CASE \/ CreateParent \/ CreateMake \/ CreateOpaque \/ CreateSettings
           \/ CreateWhiteoutGoes \/ CreateUndoOpaque \/ CreateUndoMake
  <2>1. call.op = "create"
    BY Zenon, <1>3
       DEF IInv, TypeOK, Call, CreateParent, EnsureUpperParent, CreateMake, CreateOpaque,
       CreateSettings, CreateWhiteoutGoes, RemoveWhiteout, CreateUndoOpaque, CreateUndoMake,
       Goto, Change, GotoStuck
  <2> QED
    BY Zenon, <1>3, <2>1, CreateParentKeeps, CreateKeeps
<1>4. CASE DeleteOpaque \/ DeleteRemove \/ DeleteWhiteout \/ CopyUpParent \/ CopyUpCommit
           \/ MarkerWhiteout \/ MarkerOpaque
  <2>1. UNCHANGED call /\ pc \notin CreateSteps \cup {"ok", "failed"}
    BY Zenon, <1>4 DEF DeleteOpaque, DeleteRemove, DeleteWhiteout, CopyUpParent, CopyUpCommit,
       MarkerWhiteout, MarkerOpaque, CreateWhiteout, EnsureUpperParent, Goto, Change, CreateSteps
  <2> QED
    BY Zenon, <2>1 DEF CreateFacts
<1>5. CASE \/ RenameAside \/ RenameParent \/ RenameCopyParent \/ RenameCopy
           \/ RenameMark \/ RenameMove \/ RenameBuild \/ RenameShadow
           \/ RenameUncopy \/ RenameWhiteout \/ RenameBack \/ RenameUnwhiteNew
           \/ RenameDestWhiteout \/ RenameDestBack \/ RenameUnwhiteOld
           \/ RenameCommit \/ RenameRestore
  <2>1. CASE RenameAside
    BY Zenon, <2>1 DEF IInv, TypeOK, Call, RenameAside, CreateFacts, CreateSteps
  <2>2. CASE RenameParent \/ RenameCopyParent \/ RenameWhiteout \/ RenameDestWhiteout
             \/ RenameUnwhiteNew \/ RenameUnwhiteOld
    BY Zenon, <2>2 DEF IInv, TypeOK, Call, RenameParent, RenameCopyParent, RenameWhiteout,
       RenameDestWhiteout, RenameUnwhiteNew, RenameUnwhiteOld, EnsureUpperParent,
       CreateWhiteout, RemoveWhiteout, Goto, Change, GotoStuck, CreateFacts, CreateSteps
  <2>3. CASE RenameCopy \/ RenameMark \/ RenameMove \/ RenameBuild \/ RenameShadow
             \/ RenameUncopy
    BY Zenon, <2>3 DEF IInv, TypeOK, Call, RenameCopy, RenameMark, RenameMove, RenameBuild,
       RenameShadow, RenameUncopy, Goto, Change, GotoStuck, CreateFacts, CreateSteps
  <2>4. CASE RenameBack \/ RenameDestBack \/ RenameCommit \/ RenameRestore
    BY Zenon, <2>4 DEF IInv, TypeOK, Call, RenameBack, RenameDestBack, MoveBack, RenameCommit,
       RenameRestore, Goto, Change, GotoStuck, CreateFacts, CreateSteps
  <2> QED
    BY Zenon, <1>5, <2>1, <2>2, <2>3, <2>4
<1>6. CASE UNCHANGED vars
  <2>1. Stack' = Stack /\ UNCHANGED <<upper, call, pc>>
    BY Zenon, <1>6 DEF vars, Stack
  <2> QED
    BY Zenon, <2>1 DEF CreateFacts, InLowers
<1> QED
  BY Zenon, <1>1, <1>2, <1>3, <1>4, <1>5, <1>6 DEF Next, Advance

(* While a create runs, and after it, nothing shows below the new entry:   *)
(* not what a lower directory of the same name holds, at no step, and at   *)
(* no failure of a step.                                                   *)
THEOREM CreatedHidesTheLower == Spec => []CreateShowsNothingBelow
<1>1. Init => CreateFacts
  BY DEF Init, CreateFacts, NoCall
<1>2. IInv /\ IInv' /\ CreateFacts /\ [Next]_vars => CreateFacts'
  BY Zenon, CreateFactsStep
<1>3. IInv /\ CreateFacts => CreateShowsNothingBelow
  <2> SUFFICES ASSUME IInv, CreateFacts, call.op = "create", NEW q \in Below(call.path)
               PROVE  ~Found(Shown(q))
    BY Zenon DEF CreateShowsNothingBelow
  <2>1. pc # "idle"
    BY Zenon DEF CreateFacts, CreateSteps
  <2>2. call.path \in Path /\ call.path # Root /\ call.kind \in {"file", "dir"}
    BY Zenon, <2>1 DEF IInv, TypeOK, CallFacts, Call
  <2>3. /\ Stack \in [Slot -> Layer] /\ \A s \in Slot : WellFormed(Stack[s])
        /\ Stack[0] = upper
    BY Zenon, StackFacts DEF IInv
  <2>4. \/ call.path \in upper.wh \/ call.path \in upper.opq
        \/ upper.tree[call.path].kind = "file"
        \/ ~IsDirectory(ResolveLowerPath(Stack, call.path))
    BY Zenon, <2>2 DEF CreateFacts, InLowers
  <2>5. \A r \in Below(call.path) : ~Holds(Stack[0], r)
    BY Zenon, <2>3 DEF CreateFacts
  <2> QED
    BY Zenon, <2>2, <2>3, <2>4, <2>5, NothingBelow DEF Shown
<1> QED
  BY <1>1, <1>2, <1>3, IInvHolds, PTL DEF Spec
=============================================================================
