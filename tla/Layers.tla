------------------------------- MODULE Layers -------------------------------
(***************************************************************************)
(* The layer stack of an overlay and the two algorithms that read it: the  *)
(* lookup of one path (impl/PathResolver.cpp) and the merged listing of    *)
(* one directory (impl/DirectoryMerge.cpp).  Both are loops over the       *)
(* layers with early exits; here each loop is the set of facts that make   *)
(* it reach a layer.                                                       *)
(*                                                                         *)
(* A layer is what the engine reads from one layer directory: the entries, *)
(* the whiteouts (".wh.<name>" files) and the opaque markers.  A whiteout  *)
(* is named by the path it hides.  Layer 0 is the upper, layer i > 0 is    *)
(* lowerPaths[i - 1].  Links, alternate streams and name case are not      *)
(* modelled here.                                                          *)
(***************************************************************************)
EXTENDS Naturals, Sequences

CONSTANTS
    Name,       \* the names a path is made of
    Path,       \* the paths of the model: a prefix-closed set of sequences of names
    NumLowers,  \* how many lower layers the overlay has
    Tag,        \* what tells entries apart: data, security, attributes, times
    Fresh       \* the tag of an entry that this overlay made and copied from nowhere

Root == << >>

(* ParentDir: the path without its last name. *)
Parent(p) == SubSeq(p, 1, Len(p) - 1)

ASSUME PathAssumption ==
    /\ Root \in Path
    /\ \A p \in Path : p \in Seq(Name)
    /\ \A p \in Path : \A n \in 0 .. Len(p) : SubSeq(p, 1, n) \in Path

ASSUME LayerAssumption ==
    /\ NumLowers \in Nat
    /\ Fresh \in Tag

Slot == 0 .. NumLowers

(***************************************************************************)
(* Paths.                                                                  *)
(***************************************************************************)

(* AnyDirectoryUpToRoot from p: p and the directories above it, without    *)
(* the root.                                                               *)
Chain(p) == {SubSeq(p, 1, n) : n \in 1 .. Len(p)}

(* The directories above p, without the root. *)
Ancestors(p) == Chain(Parent(p))

(* IsInsideDirectory, or the directory itself. *)
Within(p) == {q \in Path : Len(q) >= Len(p) /\ SubSeq(q, 1, Len(p)) = p}

Below(p) == Within(p) \ {p}

Children(d) == {c \in Path \ {Root} : Parent(c) = d}

(* The path of q after its ancestor from became to. *)
Graft(q, from, to) == to \o SubSeq(q, Len(from) + 1, Len(q))

(***************************************************************************)
(* Entries and layers.                                                     *)
(***************************************************************************)
NoEntry == [kind |-> "none", tag |-> Fresh]

Entry == [kind : {"file", "dir"}, tag : Tag] \cup {NoEntry}

Found(e) == e.kind # "none"
IsDirectory(e) == e.kind = "dir"

Layer == [tree : [Path -> Entry], wh : SUBSET Path, opq : SUBSET Path]

EmptyLayer ==
    [tree |-> [p \in Path |-> NoEntry], wh |-> {}, opq |-> {}]

Holds(l, p) == Found(l.tree[p])

(* What NTFS guarantees of a directory tree: every entry and every marker  *)
(* file has a directory above it, and an opaque marker is on an entry.     *)
WellFormed(l) ==
    /\ IsDirectory(l.tree[Root])
    /\ \A p \in Path \ {Root} :
          Holds(l, p) \/ p \in l.wh => IsDirectory(l.tree[Parent(p)])
    /\ Root \notin l.wh
    /\ \A p \in l.opq : Holds(l, p)

(***************************************************************************)
(* Per-layer questions (WhiteoutManager, LayerPath).                       *)
(***************************************************************************)
HasWhiteout(l, p) == p \in l.wh

HasWhitedOutAncestorInLayer(l, p) == \E a \in Ancestors(p) : HasWhiteout(l, a)

HasOpaqueSelfOrAncestorInLayer(l, d) ==
    \E a \in Chain(d) \cup {Root} : a \in l.opq

HasNonDirectorySelfOrAncestorInLayer(l, d) ==
    \E a \in Chain(d) : l.tree[a].kind = "file"

(* Faulty variant: a file does not hide what lowers have below its path. *)
HidesLowersBelow_FileForgotten(l, d) == HasOpaqueSelfOrAncestorInLayer(l, d)

(* LowersBelow(d) # Visible. *)
HidesLowersBelow(l, d) ==
    \/ HasOpaqueSelfOrAncestorInLayer(l, d)
    \/ HasNonDirectorySelfOrAncestorInLayer(l, d)

(***************************************************************************)
(* The lookup.                                                             *)
(***************************************************************************)

(* FindInLowers stops at lower i before it probes it. *)
StopsBeforeProbe(l, p) == HasWhiteout(l, p) \/ HasWhitedOutAncestorInLayer(l, p)

(* FindInLowers returns lower i. *)
FoundInLower(L, i, p) ==
    /\ ~StopsBeforeProbe(L[i], p)
    /\ Holds(L[i], p)
    /\ \A j \in 1 .. (i - 1) :
          /\ ~StopsBeforeProbe(L[j], p)
          /\ ~Holds(L[j], p)
          /\ ~HidesLowersBelow(L[j], Parent(p))

(* UpperAncestorHiding(p) # None. *)
UpperAncestorHides(L, p) ==
    \/ HasWhitedOutAncestorInLayer(L[0], p)
    \/ HidesLowersBelow(L[0], Parent(p))

(* ResolveLowerPath: the lowers' entry at p, whatever the upper has at p   *)
(* itself, an entry or a whiteout.                                         *)
LowerFoundAt(L, i, p) ==
    ~UpperAncestorHides(L, p) /\ FoundInLower(L, i, p)

ResolveLowerPath(L, p) ==
    LET hits == {i \in 1 .. NumLowers : LowerFoundAt(L, i, p)}
    IN  IF hits = {} THEN NoEntry ELSE L[CHOOSE i \in hits : TRUE].tree[p]

(* ResolvePathInternal finds p in layer s. *)
ResolvesTo(L, s, p) ==
    IF s = 0
      THEN Holds(L[0], p)
      ELSE /\ ~Holds(L[0], p)
           /\ ~HasWhiteout(L[0], p)
           /\ LowerFoundAt(L, s, p)

ResolvePath(L, p) ==
    IF Holds(L[0], p) THEN L[0].tree[p]
    ELSE IF HasWhiteout(L[0], p) THEN NoEntry
    ELSE ResolveLowerPath(L, p)

View(L) == [p \in Path |-> ResolvePath(L, p)]

(***************************************************************************)
(* The merged listing.  WhitedOut, HasOpaqueSelfOrAncestorInLayer and      *)
(* HasNonDirectorySelfOrAncestorInLayer of the listed directory are the    *)
(* fields of its LayerAncestry.                                            *)
(***************************************************************************)
WhitedOut(l, d) == \E a \in Chain(d) : HasWhiteout(l, a)

HidesLayerAndBelow(L, s, d) == s > 0 /\ WhitedOut(L[s], d)

(* Faulty variant: the listing forgets that a whiteout in the upper hides  *)
(* every lower.                                                            *)
HidesLayersBelow_WhiteoutForgotten(L, s, d) == HidesLowersBelow(L[s], d)

HidesLayersBelow(L, s, d) ==
    \/ HidesLowersBelow(L[s], d)
    \/ s = 0 /\ WhitedOut(L[s], d)

(* ForEachScannedLayer reaches and scans layer s. *)
Scans(L, s, d) ==
    /\ \A t \in 0 .. s : ~HidesLayerAndBelow(L, t, d)
    /\ \A t \in 0 .. (s - 1) : ~HidesLayersBelow(L, t, d)

(* MergeLayerEntries lists c from layer s.  A lower's whiteouts join the   *)
(* hidden names before its entries, the upper's after.                     *)
ListedFrom(L, s, c) ==
    /\ Scans(L, s, Parent(c))
    /\ Holds(L[s], c)
    /\ \A t \in 0 .. (s - 1) : ~Holds(L[t], c)
    /\ s > 0 => \A t \in 0 .. s : ~HasWhiteout(L[t], c)

(* MergeDirectoryAcrossLayers: the entry that the listing of Parent(c)     *)
(* gives for c.                                                            *)
ListedEntry(L, c) ==
    LET slots == {s \in Slot : ListedFrom(L, s, c)}
    IN  IF slots = {} THEN NoEntry ELSE L[CHOOSE s \in slots : TRUE].tree[c]

IsEmptyDirectory(L, d) == \A c \in Children(d) : ~Found(ListedEntry(L, c))

(***************************************************************************)
(* Changes of one layer.                                                   *)
(***************************************************************************)
PutEntry(l, p, e) == [l EXCEPT !.tree[p] = e]

(* The layer without the tree at p.  The whiteout that names p is in the   *)
(* directory above p and stays.                                            *)
Prune(l, p) ==
    [tree |-> [q \in Path |-> IF q \in Within(p) THEN NoEntry ELSE l.tree[q]],
     wh   |-> l.wh \ Below(p),
     opq  |-> l.opq \ Within(p)]

(* The layer l with the tree that layer s has at from, put at to. *)
Plant(l, s, from, to) ==
    LET Source(q) == Graft(q, to, from)
    IN  [tree |-> [q \in Path |->
                     IF q \notin Within(to) THEN l.tree[q]
                     ELSE IF Source(q) \in Path THEN s.tree[Source(q)]
                     ELSE NoEntry],
         wh   |-> (l.wh \ Below(to)) \cup {q \in Below(to) : Source(q) \in s.wh},
         opq  |-> (l.opq \ Within(to)) \cup {q \in Within(to) : Source(q) \in s.opq}]

(* MoveUpperEntryOnDisk: one rename moves the tree and the marker files    *)
(* in it.                                                                  *)
MoveTree(l, from, to) == Plant(Prune(l, from), l, from, to)

(* One step of fs::remove_all at p: a marker file or a leaf below p goes.  *)
(* The marker of a file is a stream of it and goes with the file.          *)
MarkerFiles(l, p) == {d \in l.opq \cap Within(p) : IsDirectory(l.tree[d])}

Leaves(l, p) ==
    {q \in Below(p) :
        /\ Holds(l, q)
        /\ q \notin MarkerFiles(l, p)
        /\ \A r \in Below(q) : ~Holds(l, r) /\ r \notin l.wh}

RemoveOneBelow(l, p) ==
         {[l EXCEPT !.wh = @ \ {w}] : w \in l.wh \cap Below(p)}
    \cup {[l EXCEPT !.opq = @ \ {d}] : d \in MarkerFiles(l, p)}
    \cup {Prune(l, q) : q \in Leaves(l, p)}
=============================================================================
