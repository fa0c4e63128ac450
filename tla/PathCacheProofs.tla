-------------------------- MODULE PathCacheProofs --------------------------
(***************************************************************************)
(* Proofs about PathCache, for any paths, threads and capacity: the cache   *)
(* stays within its capacity, and what it holds is what the layers show but *)
(* for the overlaps that StaleOnlyByOverlap lists.                          *)
(*                                                                          *)
(* The second is not inductive.  What a lookup has read must be current     *)
(* while it is on its way to Put (WalkInv), and a removal that has cleared  *)
(* its opaque marker must not be counted as overlapping the directories     *)
(* above, which its invalidation of the tree does not reach (Overlap).      *)
(***************************************************************************)
EXTENDS PathCache, FiniteSetTheorems, TLAPS

Walk == {"upper?", "white?", "lower?", "put"}

(* A call has written on the line of q, or cleared the marker above q, and  *)
(* is to invalidate q yet.                                                  *)
Overlap(q) ==
    \E t \in Threads : \/ pc[t] \in Written \ {"cleared"} /\ q \in Line(loc[t].path)
                       \/ pc[t] = "cleared" /\ q \in Tree(loc[t].path)

NoWhiteout(q) == whiteout \cap ({q} \cup Above(q)) = {}
NoOpaque(q) == opaque \cap Above(q) = {}

(* What the lookup of t has read so far still holds.                        *)
Current(t) ==
    /\ pc[t] \in {"white?", "lower?"} => loc[t].path \notin upper
    /\ pc[t] = "lower?" => NoWhiteout(loc[t].path)
    /\ pc[t] = "put" => loc[t].ans = View(loc[t].path)

PathInv == \A t \in Threads : pc[t] # "idle" => loc[t].path \in Paths
WalkInv == \A t \in Threads : pc[t] \in Walk =>
               t \in late \/ Overlap(loc[t].path) \/ Current(t)
FreshInv == \A q \in Paths : cache[q] \in {"out", View(q)} \/ q \in tainted \/ Overlap(q)

IInv == TypeOK /\ opaque \subseteq upper /\ PathInv /\ WalkInv /\ FreshInv

(* A step does not change what the upper says about q.                      *)
Quiet(q) ==
    /\ q \in upper' <=> q \in upper
    /\ NoWhiteout(q)' <=> NoWhiteout(q)
    /\ NoOpaque(q)' <=> NoOpaque(q)

-----------------------------------------------------------------------------
(* What an answer depends on.                                               *)

(* View reads the upper only through the three facts of Quiet.              *)
LEMMA QuietView ==
    ASSUME NEW q \in Paths, Quiet(q)
    PROVE  View(q)' = View(q)
BY DEF Quiet, View, BelowUpper, NoWhiteout, NoOpaque

(* Markers changed in the tree of p concern no path outside that tree:      *)
(* nothing above such a path is in it (IsInsideDirectory is transitive).    *)
LEMMA MarkersOutside ==
    ASSUME NEW p \in Paths, NEW q \in Paths, q \notin Tree(p),
           \A r \in Paths \ Tree(p) : /\ r \in whiteout' <=> r \in whiteout
                                      /\ r \in opaque' <=> r \in opaque
    PROVE  /\ NoWhiteout(q)' <=> NoWhiteout(q)
           /\ NoOpaque(q)' <=> NoOpaque(q)
<1>1. \A r \in Above(q) : r \in Paths \ Tree(p)
  BY PathCacheAssumption DEF Above, Tree, Below
<1>2. NoWhiteout(q)' <=> NoWhiteout(q)
  BY <1>1 DEF NoWhiteout
<1>3. NoOpaque(q)' <=> NoOpaque(q)
  BY <1>1 DEF NoOpaque
<1> QED BY <1>2, <1>3

-----------------------------------------------------------------------------
(* The three kinds of step, apart from those of a lookup.                   *)

(* A call that has written, and moves on without returning, overlaps what   *)
(* it overlapped and its whole line.                                        *)
LEMMA OverlapKept ==
    ASSUME NEW t \in Threads, NEW w \in Written \ {"cleared"}, TypeOK,
           pc' = [pc EXCEPT ![t] = w], loc' = loc, NEW q \in Paths
    PROVE  /\ Overlap(q) => Overlap(q)'
           /\ q \in Line(loc[t].path) => Overlap(q)'
<1>1. q \in Tree(loc[t].path) => q \in Line(loc[t].path)
  BY DEF Line
<1>2. q \in Line(loc[t].path) => Overlap(q)'
  BY DEF Overlap, TypeOK
<1>3. ASSUME NEW u \in Threads, u # t,
             \/ pc[u] \in Written \ {"cleared"} /\ q \in Line(loc[u].path)
             \/ pc[u] = "cleared" /\ q \in Tree(loc[u].path)
      PROVE  Overlap(q)'
  BY <1>3 DEF Overlap, TypeOK
<1> QED BY <1>1, <1>2, <1>3 DEF Overlap

(* A write to the upper: what it changes is overlapped afterwards.          *)
LEMMA WriteKeeps ==
    ASSUME IInv, NEW t \in Threads, NEW w, w \notin Walk, NEW S,
           pc' = [pc EXCEPT ![t] = w], UNCHANGED <<loc, cache, late, tainted>>,
           \A q \in Paths : q \in S \/ Quiet(q),
           \A q \in Paths : (q \in S \/ Overlap(q)) => Overlap(q)'
    PROVE  WalkInv' /\ FreshInv'
<1>1. ASSUME NEW q \in Paths
      PROVE  cache'[q] \in {"out", View(q)'} \/ q \in tainted' \/ Overlap(q)'
  <2>1. CASE Overlap(q)'
    BY <2>1
  <2>2. CASE ~Overlap(q)'
    <3>1. Quiet(q) /\ ~Overlap(q)
      BY <2>2
    <3>2. View(q)' = View(q)
      BY <3>1, QuietView
    <3> QED BY <3>1, <3>2 DEF IInv, FreshInv
  <2> QED BY <2>1, <2>2
<1>2. ASSUME NEW u \in Threads, pc'[u] \in Walk
      PROVE  u \in late' \/ Overlap(loc[u].path)' \/ Current(u)'
  <2>1. u # t /\ pc'[u] = pc[u]
    BY <1>2 DEF IInv, TypeOK
  <2>2. PICK q : q = loc[u].path
    OBVIOUS
  <2>3. q \in Paths
    BY <1>2, <2>1, <2>2 DEF IInv, PathInv, Walk
  <2>4. CASE Overlap(q)'
    BY <2>2, <2>4 DEF Overlap
  <2>5. CASE ~Overlap(q)'
    <3>1. Quiet(q) /\ ~Overlap(q)
      BY <2>3, <2>5
    <3>2. View(q)' = View(q)
      BY <2>3, <3>1, QuietView
    <3>3. u \in late \/ Current(u)
      BY <1>2, <2>1, <2>2, <3>1 DEF IInv, WalkInv
    <3>4. Current(u) => Current(u)'
      BY <2>1, <2>2, <3>1, <3>2 DEF Current, Quiet
    <3> QED BY <3>3, <3>4
  <2> QED BY <2>4, <2>5
<1> QED BY <1>1, <1>2 DEF WalkInv, FreshInv

(* An invalidation of the paths S, or a change of them that none follows:   *)
(* their entries are out or tainted, their lookups late, and whatever else  *)
(* the call overlapped it still does.                                       *)
LEMMA EndKeeps ==
    ASSUME IInv, NEW t \in Threads, NEW S, pc'[t] \notin Walk,
           \A u \in Threads \ {t} : pc'[u] = pc[u] /\ loc'[u] = loc[u],
           late' = late \cup Walking(S), pc[t] \notin Walk,
           \A q \in Paths \ S : /\ Quiet(q)
                                /\ cache'[q] = cache[q]
                                /\ q \in tainted => q \in tainted',
           \A q \in Paths \cap S : cache'[q] = "out" \/ q \in tainted',
           \A q \in Paths : Overlap(q) => q \in S \/ Overlap(q)'
    PROVE  WalkInv' /\ FreshInv'
<1>1. ASSUME NEW q \in Paths
      PROVE  cache'[q] \in {"out", View(q)'} \/ q \in tainted' \/ Overlap(q)'
  <2>1. CASE q \in S
    BY <2>1
  <2>2. CASE q \notin S
    <3>1. View(q)' = View(q)
      BY <2>2, QuietView
    <3>2. cache[q] \in {"out", View(q)} \/ q \in tainted \/ Overlap(q)
      BY DEF IInv, FreshInv
    <3> QED BY <2>2, <3>1, <3>2
  <2> QED BY <2>1, <2>2
<1>2. ASSUME NEW u \in Threads, pc'[u] \in Walk
      PROVE  u \in late' \/ Overlap(loc[u].path)' \/ Current(u)'
  <2>1. u # t /\ pc'[u] = pc[u] /\ loc'[u] = loc[u]
    BY <1>2
  <2>2. PICK q : q = loc[u].path
    OBVIOUS
  <2>3. q \in Paths
    BY <1>2, <2>1, <2>2 DEF IInv, PathInv, Walk
  <2>4. CASE q \in S
    BY <1>2, <2>1, <2>2, <2>4 DEF Walking, Walk
  <2>5. CASE q \notin S
    <3>1. Quiet(q)
      BY <2>3, <2>5
    <3>2. View(q)' = View(q)
      BY <2>3, <3>1, QuietView
    <3>3. u \in late \/ Current(u) \/ Overlap(q)
      BY <1>2, <2>1, <2>2 DEF IInv, WalkInv
    <3>4. Current(u) => Current(u)'
      BY <2>1, <2>2, <3>1, <3>2 DEF Current, Quiet
    <3>5. Overlap(q) => Overlap(loc[u].path)'
      BY <2>1, <2>2, <2>3, <2>5 DEF Overlap
    <3> QED BY <3>3, <3>4, <3>5
  <2> QED BY <2>4, <2>5
<1> QED BY <1>1, <1>2 DEF WalkInv, FreshInv

(* Leaving the written places: what the others overlap stays overlapped.    *)
LEMMA OverlapElsewhere ==
    ASSUME NEW t \in Threads, NEW q \in Paths,
           \A u \in Threads \ {t} : pc'[u] = pc[u] /\ loc'[u] = loc[u],
           ~(pc[t] \in Written \ {"cleared"} /\ q \in Line(loc[t].path)),
           ~(pc[t] = "cleared" /\ q \in Tree(loc[t].path)),
           Overlap(q)
    PROVE  Overlap(q)'
<1>1. PICK u \in Threads : \/ pc[u] \in Written \ {"cleared"} /\ q \in Line(loc[u].path)
                           \/ pc[u] = "cleared" /\ q \in Tree(loc[u].path)
  BY DEF Overlap
<1>2. u # t
  BY <1>1
<1> QED BY <1>1, <1>2 DEF Overlap

-----------------------------------------------------------------------------
(* Types.                                                                   *)

(* The first state has its types. *)
LEMMA TypeInit == Init => TypeOK
BY DEF Init, TypeOK, Idle, Cached, Found, Places

(* What is above and below a path are paths. *)
LEMMA LinePaths ==
    ASSUME NEW p
    PROVE  /\ Above(p) \subseteq Paths /\ Below(p) \subseteq Paths
           /\ p \in Paths => Tree(p) \subseteq Paths /\ Line(p) \subseteq Paths
BY DEF Above, Below, Tree, Line

(* The lowers give one of the answers that may be cached. *)
LEMMA BelowUpperType == \A q : BelowUpper(q) \in Cached \cup {"absent"}
BY DEF BelowUpper, Cached, Found

Locals == [path : Paths \cup {"none"}, ans : Cached \cup {"out"}, white : BOOLEAN,
           lower : BOOLEAN]

(* The places and locals are right, and every call under way has its path.  *)
CallsGood == pc \in [Threads -> Places] /\ loc \in [Threads -> Locals] /\ PathInv

(* A step of a call with new locals keeps their types. *)
LEMMA MoveType ==
    ASSUME CallsGood, NEW t \in Threads, NEW w \in Places, Goto(t, w),
           NEW r \in Locals, w # "idle" => r.path \in Paths,
           loc' = [loc EXCEPT ![t] = r]
    PROVE  CallsGood'
BY DEF CallsGood, Goto, PathInv

(* A step of a call with the same locals keeps their types. *)
LEMMA StepType ==
    ASSUME CallsGood, NEW t \in Threads, NEW w \in Places, Goto(t, w), loc' = loc,
           pc[t] # "idle"
    PROVE  CallsGood'
BY DEF CallsGood, Goto, PathInv

(* A return keeps the types of the calls. *)
LEMMA ReturnType ==
    ASSUME CallsGood, NEW t \in Threads, Return(t)
    PROVE  CallsGood'
<1>1. Idle \in Locals /\ "idle" \in Places
  BY DEF Idle, Locals, Cached, Found, Places
<1> QED BY Zenon, <1>1, MoveType DEF Return

(* An answer found keeps the types of the calls. *)
LEMMA AnsweredType ==
    ASSUME CallsGood, NEW t \in Threads, NEW a \in Cached, Answered(t, a), pc[t] # "idle"
    PROVE  CallsGood'
<1>1. PICK r : r = [loc[t] EXCEPT !.ans = a]
  BY Zenon
<1>2. r \in Locals /\ r.path \in Paths
  BY <1>1 DEF Locals, CallsGood, PathInv
<1>3. loc' = [loc EXCEPT ![t] = r]
  BY <1>1 DEF Answered, CallsGood
<1> QED BY Zenon, <1>2, <1>3, MoveType DEF Answered, Places

(* The start of a change keeps the types of the calls. *)
LEMMA StartType ==
    ASSUME CallsGood, NEW t \in Threads, NEW p \in Paths, NEW w \in Places, Start(t, p, w)
    PROVE  CallsGood'
<1>1. PICK r : r = [path |-> p, ans |-> "out", white |-> p \in whiteout,
                    lower |-> LowerHas(p)]
  BY Zenon
<1>2. LowerHas(p) \in BOOLEAN
  BY DEF LowerHas
<1>3. r \in Locals /\ r.path = p
  BY <1>1, <1>2 DEF Locals
<1> QED BY Zenon, <1>1, <1>3, MoveType DEF Start

(* The read of the cache keeps the types of the calls. *)
LEMMA GetType ==
    ASSUME CallsGood, NEW t \in Threads, NEW p \in Paths, Get(t, p)
    PROVE  CallsGood'
<1>1. PICK r : r = [loc[t] EXCEPT !.path = p]
  BY Zenon
<1>2. r \in Locals /\ r.path = p
  BY <1>1 DEF Locals, CallsGood
<1>3. loc' = [loc EXCEPT ![t] = r]
  BY <1>1 DEF Get, CallsGood
<1> QED BY Zenon, <1>2, <1>3, MoveType DEF Get, Places

(* Every step has a path for every call under way.                          *)
LEMMA CallsStep ==
    ASSUME CallsGood, Next
    PROVE  CallsGood'
<1> PICK t \in Threads : Lookups(t) \/ Calls(t) \/ Changes(t) \/ Invalidations(t)
  BY DEF Next
<1>1. CASE \E p \in Paths : Get(t, p)
  BY <1>1, GetType
<1>2. CASE ResolveInUpper(t) \/ HidingInUpper(t)
  BY <1>2, StepType, AnsweredType DEF ResolveInUpper, HidingInUpper, Places, Cached, Found
<1>3. CASE FindInLowers(t)
  BY <1>3, BelowUpperType, ReturnType, AnsweredType DEF FindInLowers
<1>4. CASE PutAnswer(t) \/ CommitFails(t) \/ Rollback(t)
  BY <1>4, ReturnType DEF PutAnswer, CommitFails, Rollback
<1>5. CASE Calls(t)
  BY <1>5, StartType DEF Calls, CopyUp, Create, Remove, RenameAway, RenameOnto, Places
<1>6. CASE CreateNew(t) \/ MoveUpperEntry(t)
  BY <1>6, StepType, ReturnType DEF CreateNew, MoveUpperEntry, Step, Places
<1>7. CASE CommitFromWorkDir(t) \/ SetOpaque(t) \/ Created(t) \/ RemoveWhiteout(t)
  BY <1>7, StepType DEF CommitFromWorkDir, SetOpaque, Created, RemoveWhiteout, Step, Places
<1>8. CASE CreateFails(t) \/ RemoveOpaque(t) \/ RemoveUpperEntry(t)
  BY <1>8, StepType DEF CreateFails, RemoveOpaque, RemoveUpperEntry, Step, Places
<1>9. CASE RemoveFails(t) \/ CreateWhiteout(t)
  BY <1>9, StepType DEF RemoveFails, CreateWhiteout, Step, Places
<1>10. CASE Finish(t)
  BY <1>10, ReturnType DEF Finish
<1>11. ASSUME NEW from \in Places \ {"idle"}, NEW to \in Places,
              InvalidateThen(t, from, to) \/ InvalidateTreeThen(t, from, to)
       PROVE  CallsGood'
  BY <1>11, StepType DEF InvalidateThen, InvalidateTreeThen
<1>12. CASE Invalidations(t)
  BY <1>10, <1>11, <1>12 DEF Invalidations, Places
<1> QED BY <1>1, <1>2, <1>3, <1>4, <1>5, <1>6, <1>7, <1>8, <1>9, <1>12 DEF Lookups, Changes

(* What the upper holds stays in Paths, and an opaque marker is only in a   *)
(* directory the upper has.                                                 *)
DiskGood ==
    /\ upper \subseteq Paths /\ whiteout \subseteq Paths
    /\ opaque \subseteq upper

(* Every step keeps the types of the upper and its markers. *)
LEMMA DiskStep ==
    ASSUME CallsGood, DiskGood, Next
    PROVE  DiskGood'
<1> PICK t \in Threads : Lookups(t) \/ Calls(t) \/ Changes(t) \/ Invalidations(t)
  BY DEF Next
<1>0. pc[t] # "idle" => loc[t].path \in Paths
  BY DEF CallsGood, PathInv
<1>1. CASE Lookups(t) \/ Calls(t)
  BY <1>1 DEF Lookups, Calls, Get, ResolveInUpper, HidingInUpper, FindInLowers, PutAnswer,
     CopyUp, Create, Remove, RenameAway, RenameOnto, Start, disk, DiskGood
<1>2. CASE CommitFromWorkDir(t) \/ CommitFails(t) \/ CreateNew(t) \/ SetOpaque(t)
  BY <1>0, <1>2, LinePaths DEF CommitFromWorkDir, CommitFails, CreateNew, SetOpaque, DiskGood
<1>3. CASE Created(t) \/ RemoveWhiteout(t) \/ CreateFails(t) \/ Rollback(t)
  BY <1>3 DEF Created, RemoveWhiteout, CreateFails, Rollback, disk, DiskGood
<1>4. CASE RemoveOpaque(t) \/ RemoveUpperEntry(t) \/ RemoveFails(t) \/ CreateWhiteout(t)
  BY <1>0, <1>4, LinePaths
     DEF RemoveOpaque, RemoveUpperEntry, RemoveFails, CreateWhiteout, disk, DiskGood
<1>5. CASE MoveUpperEntry(t)
  <2>1. loc[t].path \in Tree(loc[t].path)
    BY DEF Tree
  <2> QED BY <1>0, <1>5, <2>1, LinePaths DEF MoveUpperEntry, DiskGood
<1>6. CASE Invalidations(t)
  BY Zenon, <1>6 DEF Invalidations, InvalidateThen, InvalidateTreeThen, Finish, Invalidate,
     InvalidateWithAncestors, Erase, disk, DiskGood
<1> QED BY <1>1, <1>2, <1>3, <1>4, <1>5, <1>6 DEF Changes

(* What is cached is one of the answers that are cached.                    *)
CacheGood ==
    /\ cache \in [Paths -> Cached \cup {"out"}]
    /\ late \subseteq Threads /\ tainted \subseteq Paths

(* A Put keeps the type of the cache. *)
LEMMA PutType ==
    ASSUME CallsGood, CacheGood, NEW t \in Threads, PutAnswer(t)
    PROVE  CacheGood'
<1>1. loc[t].ans \in Cached \cup {"out"} /\ loc[t].path \in Paths
  BY DEF CallsGood, Locals, PathInv, PutAnswer
<1>2. PICK c : c = [cache EXCEPT ![loc[t].path] = loc[t].ans]
  BY Zenon
<1>3. c \in [Paths -> Cached \cup {"out"}]
  BY <1>1, <1>2 DEF CacheGood
<1>4. cache' = c \/ \E old \in Paths : cache' = [c EXCEPT ![old] = "out"]
  BY <1>2 DEF PutAnswer, Put
<1>5. cache' \in [Paths -> Cached \cup {"out"}]
  BY <1>3, <1>4
<1>6. tainted' \subseteq tainted \cup {loc[t].path}
  BY DEF PutAnswer, Put
<1> QED BY <1>1, <1>5, <1>6 DEF PutAnswer, CacheGood

(* Every step keeps the type of the cache. *)
LEMMA CacheStep ==
    ASSUME CallsGood, CacheGood, Next
    PROVE  CacheGood'
<1> PICK t \in Threads : Lookups(t) \/ Calls(t) \/ Changes(t) \/ Invalidations(t)
  BY DEF Next
<1>1. CASE PutAnswer(t)
  BY <1>1, PutType
<1>2. ASSUME NEW S, (Unannounced(S) /\ S \subseteq Paths) \/ Erase(S)
      PROVE  CacheGood'
  BY <1>2 DEF Unannounced, Erase, Walking, CacheGood
<1>3. CASE Invalidations(t)
  <2>1. Erase(Tree(loc[t].path)) \/ Erase(Line(loc[t].path))
    BY <1>3 DEF Invalidations, InvalidateThen, InvalidateTreeThen, Finish, Invalidate,
       InvalidateWithAncestors
  <2> QED BY <1>2, <2>1
<1>4. CASE Lookups(t) /\ ~PutAnswer(t)
  BY <1>4 DEF Lookups, Get, ResolveInUpper, HidingInUpper, FindInLowers, CacheGood
<1>5. CASE Calls(t)
  BY Zenon, <1>5 DEF Calls, CopyUp, Create, Remove, RenameAway, RenameOnto, Start, CacheGood
<1>6. CASE CommitFails(t) \/ Rollback(t)
  <2>1. loc[t].path \in Paths
    BY <1>6 DEF CommitFails, Rollback, CallsGood, PathInv
  <2> QED BY <1>2, <1>6, <2>1, LinePaths DEF CommitFails, Rollback
<1>7. CASE Changes(t) /\ ~CommitFails(t) /\ ~Rollback(t)
  BY Zenon, <1>7 DEF Changes, CommitFromWorkDir, CreateNew, SetOpaque, Created, RemoveWhiteout,
     CreateFails, RemoveOpaque, RemoveUpperEntry, RemoveFails, CreateWhiteout,
     MoveUpperEntry, Step, CacheGood
<1> QED BY <1>1, <1>3, <1>4, <1>5, <1>6, <1>7

(* Every step keeps the types. *)
LEMMA TypeStep ==
    ASSUME TypeOK, opaque \subseteq upper, PathInv, Next
    PROVE  TypeOK' /\ (opaque \subseteq upper)' /\ PathInv'
<1>1. CallsGood /\ DiskGood /\ CacheGood
  BY DEF TypeOK, CallsGood, DiskGood, CacheGood, Locals
<1>2. CallsGood' /\ DiskGood' /\ CacheGood'
  BY <1>1, CallsStep, DiskStep, CacheStep
<1> QED BY <1>2 DEF TypeOK, CallsGood, DiskGood, CacheGood, Locals

-----------------------------------------------------------------------------
(* Each action keeps what a lookup read and what is cached.                 *)

(* A lookup's own steps: nothing but its place and its answer changes.      *)
LEMMA LookupKeeps ==
    ASSUME IInv, NEW t \in Threads, NEW w, pc[t] \notin Written, pc' = [pc EXCEPT ![t] = w],
           w \notin Written, UNCHANGED <<upper, whiteout, opaque, cache, tainted>>,
           \A u \in Threads \ {t} : loc'[u] = loc[u] /\ (u \in late => u \in late'),
           w \in Walk => t \in late' \/ Overlap(loc[t].path)' \/ Current(t)'
    PROVE  WalkInv' /\ FreshInv'
<1>1. \A u \in Threads \ {t} : pc'[u] = pc[u]
  BY DEF IInv, TypeOK
<1>2. pc'[t] = w
  BY DEF IInv, TypeOK
<1>3. \A q \in Paths : Overlap(q) => Overlap(q)'
  BY <1>1, OverlapElsewhere DEF Written
<1>4. \A q \in Paths : View(q)' = View(q)
  BY DEF View, BelowUpper
<1>5. FreshInv'
  BY <1>3, <1>4 DEF IInv, FreshInv
<1>6. ASSUME NEW u \in Threads, u # t, pc'[u] \in Walk
      PROVE  u \in late' \/ Overlap(loc[u].path)' \/ Current(u)'
  <2>1. PICK q : q = loc[u].path
    OBVIOUS
  <2>2. q \in Paths
    BY <1>1, <1>6, <2>1 DEF IInv, PathInv, Walk
  <2>3. u \in late \/ Overlap(q) \/ Current(u)
    BY <1>1, <1>6, <2>1 DEF IInv, WalkInv
  <2>4. Overlap(q) => Overlap(loc[u].path)'
    BY <1>3, <1>6, <2>1, <2>2 DEF Overlap
  <2>5. Current(u) => Current(u)'
    BY <1>1, <1>4, <1>6, <2>1, <2>2 DEF Current, NoWhiteout
  <2> QED BY <1>6, <2>3, <2>4, <2>5
<1>7. WalkInv'
  BY <1>2, <1>6 DEF WalkInv
<1> QED BY <1>5, <1>7

(* The steps of a lookup before its Put keep what is known of walks and answers. *)
LEMMA LookupsKeep ==
    ASSUME IInv, NEW t \in Threads, Lookups(t), ~PutAnswer(t)
    PROVE  WalkInv' /\ FreshInv'
<1>0. pc[t] # "idle" => loc[t].path \in Paths
  BY DEF IInv, PathInv
<1>t. pc \in [Threads -> Places] /\ loc \in [Threads -> Locals]
  BY DEF IInv, TypeOK, Locals
<1>1. ASSUME NEW p \in Paths, Get(t, p) PROVE WalkInv' /\ FreshInv'
  <2>1. Current(t)'
    BY <1>1, <1>t DEF Get, Goto, Current
  <2> QED BY Zenon, <1>1, <1>t, <2>1, LookupKeeps DEF Get, Goto, Written
<1>2. CASE ResolveInUpper(t)
  <2>1. Current(t)'
    BY <1>2, <1>t DEF ResolveInUpper, Answered, Goto, Current, View, Locals
  <2> QED BY <1>2, <1>t, <2>1, LookupKeeps DEF ResolveInUpper, Answered, Goto, Written
<1>3. CASE HidingInUpper(t)
  <2>1. PICK q \in Paths : q = loc[t].path
    BY <1>0, <1>3 DEF HidingInUpper
  <2>2. t \in late \/ Overlap(q) \/ q \notin upper
    BY <1>3, <2>1 DEF IInv, WalkInv, Walk, Current, HidingInUpper
  <2>3. q \notin upper => Current(t)'
    BY <1>3, <1>t, <2>1 DEF HidingInUpper, Answered, Goto, Current, View, NoWhiteout, Locals
  <2>4. loc'[t].path = q /\ pc[t] = "white?" /\ pc'[t] \in {"put", "lower?"}
    BY <1>3, <1>t, <2>1 DEF HidingInUpper, Answered, Goto, Locals
  <2>5. \A u \in Threads \ {t} : pc'[u] = pc[u] /\ loc'[u] = loc[u]
    BY <1>3, <1>t DEF HidingInUpper, Answered, Goto
  <2>6. Overlap(q) => Overlap(loc[t].path)'
    BY <2>4, <2>5 DEF Overlap, Written
  <2>7. t \in late' \/ Overlap(loc[t].path)' \/ Current(t)'
    BY <1>3, <2>2, <2>3, <2>6 DEF HidingInUpper
  <2> QED BY <1>3, <2>5, <2>7, LookupKeeps DEF HidingInUpper, Answered, Goto, Written
<1>4. CASE FindInLowers(t)
  <2>1. PICK q \in Paths : q = loc[t].path
    BY <1>0, <1>4 DEF FindInLowers
  <2>2. t \in late \/ Overlap(q) \/ (q \notin upper /\ NoWhiteout(q))
    BY <1>4, <2>1 DEF IInv, WalkInv, Walk, Current, FindInLowers
  <2>5. \A u \in Threads \ {t} : pc'[u] = pc[u] /\ loc'[u] = loc[u]
    BY <1>4, <1>t DEF FindInLowers, Answered, Return, Goto
  <2>6. CASE BelowUpper(q) = "absent"
    BY <1>4, <2>1, <2>5, <2>6, LookupKeeps DEF FindInLowers, Return, Goto, Written, Walk
  <2>7. CASE BelowUpper(q) # "absent"
    <3>1. Answered(t, BelowUpper(q)) /\ late' = late
      BY <1>4, <2>1, <2>7 DEF FindInLowers
    <3>2. q \notin upper /\ NoWhiteout(q) => Current(t)'
      BY <1>4, <1>t, <2>1, <3>1 DEF FindInLowers, Answered, Goto, Current, View, BelowUpper,
              NoWhiteout,
         Locals
    <3>3. loc'[t].path = q /\ pc[t] = "lower?" /\ pc'[t] = "put"
      BY <1>4, <1>t, <2>1, <3>1 DEF FindInLowers, Answered, Goto, Locals
    <3>4. Overlap(q) => Overlap(loc[t].path)'
      BY <2>5, <3>3 DEF Overlap, Written
    <3>5. t \in late' \/ Overlap(loc[t].path)' \/ Current(t)'
      BY <2>2, <3>1, <3>2, <3>4
    <3> QED BY Zenon, <1>4, <2>5, <3>1, <3>5, LookupKeeps DEF FindInLowers, Answered, Goto, Written
  <2> QED BY <2>6, <2>7
<1> QED BY <1>1, <1>2, <1>3, <1>4 DEF Lookups

(* Put stores what the lookup read; it is current, or marked.               *)
LEMMA PutKeeps ==
    ASSUME IInv, NEW t \in Threads, PutAnswer(t)
    PROVE  WalkInv' /\ FreshInv'
<1>t. pc \in [Threads -> Places] /\ loc \in [Threads -> Locals]
  BY DEF IInv, TypeOK, Locals
<1>1. PICK p \in Paths : p = loc[t].path
  BY DEF PutAnswer, IInv, PathInv
<1>2. t \in late \/ Overlap(p) \/ loc[t].ans = View(p)
  BY <1>1 DEF PutAnswer, IInv, WalkInv, Walk, Current
<1>3. \A u \in Threads \ {t} : pc'[u] = pc[u] /\ loc'[u] = loc[u]
  BY <1>t DEF PutAnswer, Return, Goto
<1>4. pc[t] = "put" /\ pc'[t] = "idle"
  BY <1>t DEF PutAnswer, Return, Goto
<1>5. \A q \in Paths : Overlap(q) => Overlap(q)'
  BY <1>3, <1>4, OverlapElsewhere DEF Written
<1>6. \A q \in Paths : View(q)' = View(q)
  BY DEF PutAnswer, disk, View, BelowUpper
<1>7. ASSUME NEW q \in Paths
      PROVE  cache'[q] \in {"out", View(q)} \/ q \in tainted' \/ Overlap(q)
  <2>1. cache[q] \in {"out", View(q)} \/ q \in tainted \/ Overlap(q)
    BY DEF IInv, FreshInv
  <2>2. PICK c : c = [cache EXCEPT ![p] = loc[t].ans]
    BY Zenon
  <2>3. PICK marks : marks = IF t \in late THEN tainted \cup {p} ELSE tainted \ {p}
    BY Zenon
  <2>4. cache \in [Paths -> Cached \cup {"out"}]
    BY DEF IInv, TypeOK
  <2>5. c[q] \in {"out", View(q)} \/ q \in marks \/ Overlap(q)
    BY <1>2, <2>1, <2>2, <2>3, <2>4
  <2>6. \/ cache' = c /\ tainted' = marks
        \/ \E old \in Paths : cache' = [c EXCEPT ![old] = "out"] /\ tainted' = marks \ {old}
    BY <1>1, <2>2, <2>3 DEF PutAnswer, Put
  <2> QED BY <2>2, <2>4, <2>5, <2>6
<1>8. FreshInv'
  BY <1>5, <1>6, <1>7 DEF FreshInv
<1>9. ASSUME NEW u \in Threads, pc'[u] \in Walk
      PROVE  u \in late' \/ Overlap(loc[u].path)' \/ Current(u)'
  <2>1. u # t
    BY <1>4, <1>9 DEF Walk
  <2>2. PICK q : q = loc[u].path
    OBVIOUS
  <2>3. q \in Paths
    BY <1>3, <1>9, <2>1, <2>2 DEF IInv, PathInv, Walk
  <2>4. u \in late \/ Overlap(q) \/ Current(u)
    BY <1>3, <1>9, <2>1, <2>2 DEF IInv, WalkInv
  <2>5. Overlap(q) => Overlap(loc[u].path)'
    BY <1>3, <1>5, <2>1, <2>2, <2>3 DEF Overlap
  <2>6. Current(u) => Current(u)'
    BY <1>3, <1>6, <2>1, <2>2, <2>3 DEF Current, NoWhiteout, PutAnswer, disk
  <2> QED BY <2>1, <2>4, <2>5, <2>6 DEF PutAnswer
<1> QED BY <1>8, <1>9 DEF WalkInv

(* A write that leaves the markers outside the tree of its path alone, and  *)
(* the entries outside its line, and leads to a place where the line is to  *)
(* be invalidated yet.                                                      *)
LEMMA LineWriteKeeps ==
    ASSUME IInv, NEW t \in Threads, NEW p \in Paths, p = loc[t].path,
           NEW w \in Written \ {"cleared"}, Step(t, w),
           \A r \in Paths \ Tree(p) : /\ r \in whiteout' <=> r \in whiteout
                                      /\ r \in opaque' <=> r \in opaque,
           \A r \in Paths \ Line(p) : r \in upper' <=> r \in upper
    PROVE  WalkInv' /\ FreshInv'
<1>1. pc' = [pc EXCEPT ![t] = w] /\ UNCHANGED <<loc, cache, late, tainted>>
  BY DEF Step, Goto
<1>2. w \notin Walk
  BY DEF Written, Walk
<1>3. \A q \in Paths : (q \in Line(p) \/ Overlap(q)) => Overlap(q)'
  BY Zenon, <1>1, OverlapKept DEF IInv
<1>4. ASSUME NEW q \in Paths, q \notin Line(p)
      PROVE  Quiet(q)
  <2>1. q \notin Tree(p)
    BY <1>4 DEF Line
  <2> QED BY <1>4, <2>1, MarkersOutside DEF Quiet
<1> QED BY Zenon, <1>1, <1>2, <1>3, <1>4, WriteKeeps

(* A step that changes nothing in the upper, from and to places where       *)
(* nothing has been written.                                                *)
LEMMA QuietKeeps ==
    ASSUME IInv, NEW t \in Threads, NEW w, w \notin Walk, pc[t] \notin Walk \cup Written,
           pc' = [pc EXCEPT ![t] = w],
           \A u \in Threads \ {t} : loc'[u] = loc[u],
           UNCHANGED <<upper, whiteout, opaque, cache, late, tainted>>
    PROVE  WalkInv' /\ FreshInv'
<1>1. pc'[t] \notin Walk /\ pc[t] \notin Walk
  BY DEF IInv, TypeOK
<1>2. \A u \in Threads \ {t} : pc'[u] = pc[u] /\ loc'[u] = loc[u]
  BY DEF IInv, TypeOK
<1>3. \A q \in Paths : Overlap(q) => Overlap(q)'
  BY <1>2, OverlapElsewhere DEF Written
<1>4. \A q \in Paths : Quiet(q)
  BY DEF Quiet, NoWhiteout, NoOpaque
<1>5. late' = late \cup Walking({})
  BY DEF Walking
<1> QED BY <1>1, <1>2, <1>3, <1>4, <1>5, EndKeeps

(* The changes of the upper keep what is known of walks and answers. *)
LEMMA ChangesKeep ==
    ASSUME IInv, NEW t \in Threads, Changes(t)
    PROVE  WalkInv' /\ FreshInv'
<1> PICK p : p = loc[t].path
  OBVIOUS
<1>0. p \in Paths
  BY Zenon DEF IInv, PathInv, Changes, CommitFromWorkDir, CommitFails, CreateNew, SetOpaque, Created,
     RemoveWhiteout, CreateFails, Rollback, RemoveOpaque, RemoveUpperEntry, RemoveFails,
     CreateWhiteout, MoveUpperEntry
<1>t. pc \in [Threads -> Places] /\ loc \in [Threads -> Locals]
  BY DEF IInv, TypeOK, Locals
<1>l. p \in Tree(p) /\ Below(p) \subseteq Tree(p) /\ Tree(p) \subseteq Line(p)
      /\ Above(p) \subseteq Line(p)
  BY DEF Tree, Line
<1>w. /\ "finish" \in Written \ {"cleared"} /\ "mark" \in Written \ {"cleared"}
      /\ "made" \in Written \ {"cleared"} /\ "marked" \in Written \ {"cleared"}
      /\ "unwhited" \in Written \ {"cleared"} /\ "unmarked" \in Written \ {"cleared"}
      /\ "undo" \in Written \ {"cleared"} /\ "taken" \in Written \ {"cleared"}
      /\ "whited" \in Written \ {"cleared"} /\ "moved" \in Written \ {"cleared"}
  BY DEF Written
<1>u. ASSUME Return(t) PROVE \A u \in Threads \ {t} : pc'[u] = pc[u] /\ loc'[u] = loc[u]
  BY <1>u, <1>t DEF Return, Goto
<1>1. CASE CommitFromWorkDir(t)
  BY <1>0, <1>1, <1>l, <1>w, LineWriteKeeps DEF CommitFromWorkDir
<1>2. CASE CommitFails(t)
  <2> DEFINE S == Above(p) \ upper
  <2>1. pc[t] = "commit" /\ pc'[t] = "idle"
    BY <1>2, <1>t DEF CommitFails, Return, Goto
  <2>2. \A q \in Paths \ S : Quiet(q) /\ cache'[q] = cache[q] /\ (q \in tainted => q \in tainted')
    BY <1>2 DEF CommitFails, Unannounced, Quiet, NoWhiteout, NoOpaque
  <2>3. \A q \in Paths \cap S : cache'[q] = "out" \/ q \in tainted'
    BY <1>2 DEF CommitFails, Unannounced
  <2>4. late' = late \cup Walking(S)
    BY <1>2 DEF CommitFails, Unannounced
  <2>5. \A q \in Paths : Overlap(q) => Overlap(q)'
    BY <1>2, <1>u, <2>1, OverlapElsewhere DEF CommitFails, Written
  <2> HIDE DEF S
  <2> QED BY <1>2, <1>u, <2>1, <2>2, <2>3, <2>4, <2>5, EndKeeps DEF CommitFails, Walk
<1>3. CASE CreateNew(t)
  <2>1. CASE p \in upper \/ ~(Above(p) \subseteq upper)
    <3>1. pc[t] = "make" /\ pc' = [pc EXCEPT ![t] = "idle"]
          /\ UNCHANGED <<upper, whiteout, opaque, cache, late, tainted>>
      BY <1>3, <2>1 DEF CreateNew, Return, Goto
    <3>2. \A u \in Threads \ {t} : loc'[u] = loc[u]
      BY <1>3, <1>u, <2>1 DEF CreateNew
    <3> QED BY Zenon, <3>1, <3>2, QuietKeeps DEF Walk, Written
  <2>2. CASE ~(p \in upper \/ ~(Above(p) \subseteq upper))
    BY <1>0, <1>3, <1>l, <1>w, <2>2, LineWriteKeeps DEF CreateNew
  <2> QED BY <2>1, <2>2
<1>4. CASE SetOpaque(t)
  BY <1>0, <1>4, <1>l, <1>w, LineWriteKeeps DEF SetOpaque
<1>5. CASE Created(t)
  BY <1>0, <1>5, <1>w, LineWriteKeeps DEF Created, disk
<1>6. CASE RemoveWhiteout(t)
  BY <1>0, <1>6, <1>l, <1>w, LineWriteKeeps DEF RemoveWhiteout
<1>7. CASE CreateFails(t)
  <2>1. PICK w \in {"unmarked", "undo"} : Step(t, w)
    BY <1>7 DEF CreateFails
  <2> QED BY <1>0, <1>7, <1>l, <1>w, <2>1, LineWriteKeeps DEF CreateFails
<1>8. CASE Rollback(t)
  <2>1. pc[t] = "undo" /\ pc'[t] = "idle"
    BY <1>8, <1>t DEF Rollback, Return, Goto
  <2>2. \A q \in Paths \ Line(p) :
           Quiet(q) /\ cache'[q] = cache[q] /\ (q \in tainted => q \in tainted')
    BY <1>8, <1>l DEF Rollback, Unannounced, Quiet, NoWhiteout, NoOpaque
  <2>3. \A q \in Paths \cap Line(p) : cache'[q] = "out" \/ q \in tainted'
    BY <1>8 DEF Rollback, Unannounced
  <2>4. late' = late \cup Walking(Line(p))
    BY <1>8 DEF Rollback, Unannounced
  <2>5. \A q \in Paths : Overlap(q) => q \in Line(p) \/ Overlap(q)'
    BY <1>8, <1>u, <2>1, OverlapElsewhere DEF Rollback, Written
  <2> QED BY <1>8, <1>u, <2>1, <2>2, <2>3, <2>4, <2>5, EndKeeps DEF Rollback, Walk
<1>9. CASE RemoveOpaque(t)
  <2>1. CASE p \in upper \cap opaque
    <3>1. pc[t] = "remove" /\ pc' = [pc EXCEPT ![t] = "cleared"]
          /\ UNCHANGED <<loc, cache, late, tainted>>
      BY <1>9, <2>1 DEF RemoveOpaque, Step, Goto
    <3>2. \A u \in Threads \ {t} : pc'[u] = pc[u] /\ loc'[u] = loc[u]
      BY <1>t, <3>1
    <3>3. \A q \in Paths : Overlap(q) => Overlap(q)'
      BY <3>1, <3>2, OverlapElsewhere DEF Written
    <3>4. \A q \in Paths : q \in Tree(p) => Overlap(q)'
      BY <1>t, <3>1 DEF Overlap
    <3>5. \A q \in Paths : q \in Tree(p) \/ Quiet(q)
      BY <1>0, <1>9, <1>l, MarkersOutside DEF RemoveOpaque, Quiet
    <3> QED BY Zenon, <3>1, <3>3, <3>4, <3>5, WriteKeeps DEF Walk
  <2>2. CASE p \notin upper \cap opaque
    <3>1. pc[t] = "remove" /\ pc' = [pc EXCEPT ![t] = "take"]
          /\ UNCHANGED <<loc, cache, late, tainted>>
      BY <1>9, <2>2 DEF RemoveOpaque, Step, Goto
    <3>2. UNCHANGED <<upper, whiteout, opaque>>
      BY <1>9, <2>2 DEF RemoveOpaque, IInv
    <3> QED BY Zenon, <3>1, <3>2, QuietKeeps DEF Walk, Written
  <2> QED BY <2>1, <2>2
<1>10. CASE RemoveUpperEntry(t)
  <2>1. PICK w \in {"taken", "finish"} : Step(t, w)
    BY <1>10 DEF RemoveUpperEntry
  <2> QED BY <1>0, <1>10, <1>l, <1>w, <2>1, LineWriteKeeps DEF RemoveUpperEntry
<1>11. CASE RemoveFails(t)
  BY <1>0, <1>11, <1>w, LineWriteKeeps DEF RemoveFails, disk
<1>12. CASE CreateWhiteout(t)
  BY <1>0, <1>12, <1>l, <1>w, LineWriteKeeps DEF CreateWhiteout
<1>13. CASE MoveUpperEntry(t)
  <2>1. CASE p \in upper \/ ~(Above(p) \subseteq upper)
    <3>1. pc[t] = "move" /\ pc' = [pc EXCEPT ![t] = "idle"]
          /\ UNCHANGED <<upper, whiteout, opaque, cache, late, tainted>>
      BY <1>13, <2>1 DEF MoveUpperEntry, Return, Goto
    <3>2. \A u \in Threads \ {t} : loc'[u] = loc[u]
      BY <1>13, <1>u, <2>1 DEF MoveUpperEntry
    <3> QED BY Zenon, <3>1, <3>2, QuietKeeps DEF Walk, Written
  <2>2. CASE ~(p \in upper \/ ~(Above(p) \subseteq upper))
    BY <1>0, <1>13, <1>l, <1>w, <2>2, LineWriteKeeps DEF MoveUpperEntry
  <2> QED BY <2>1, <2>2
<1> QED BY <1>1, <1>2, <1>3, <1>4, <1>5, <1>6, <1>7, <1>8, <1>9, <1>10, <1>11, <1>12, <1>13
        DEF Changes

(* A call begins: nothing is written yet.                                   *)
LEMMA CallsKeep ==
    ASSUME IInv, NEW t \in Threads, Calls(t)
    PROVE  WalkInv' /\ FreshInv'
<1>1. PICK p \in Paths, w \in {"commit", "make", "remove", "take", "move"} : Start(t, p, w)
  BY DEF Calls, CopyUp, Create, Remove, RenameAway, RenameOnto
<1>2. \A u \in Threads \ {t} : loc'[u] = loc[u]
  BY <1>1 DEF Start, IInv, TypeOK
<1> QED BY Zenon, <1>1, <1>2, QuietKeeps DEF Start, Goto, Walk, Written

(* The invalidations.  Only the one after the opaque marker is cleared      *)
(* leads out of the written places with the tree alone.                     *)
LEMMA InvalidationsKeep ==
    ASSUME IInv, NEW t \in Threads, Invalidations(t)
    PROVE  WalkInv' /\ FreshInv'
<1> PICK p : p = loc[t].path
  OBVIOUS
<1>0. p \in Paths
  BY DEF IInv, PathInv, Invalidations, InvalidateThen, InvalidateTreeThen, Finish
<1>1. /\ pc'[t] \notin Walk /\ pc[t] \notin Walk
      /\ \A u \in Threads \ {t} : pc'[u] = pc[u] /\ loc'[u] = loc[u]
  BY DEF IInv, TypeOK, Invalidations, InvalidateThen, InvalidateTreeThen, Finish, Return,
     Goto, Walk
<1>2. ASSUME NEW S, Erase(S), \A q \in Paths : Overlap(q) => q \in S \/ Overlap(q)'
      PROVE  WalkInv' /\ FreshInv'
  <2>1. late' = late \cup Walking(S)
    BY <1>2 DEF Erase
  <2>2. \A q \in Paths \ S : Quiet(q) /\ cache'[q] = cache[q] /\ (q \in tainted => q \in tainted')
    BY <1>2 DEF Erase, disk, Quiet, NoWhiteout, NoOpaque
  <2>3. \A q \in Paths \cap S : cache'[q] = "out"
    BY <1>2 DEF Erase
  <2> QED BY <1>1, <1>2, <2>1, <2>2, <2>3, EndKeeps
<1>3. CASE Erase(Line(p))
  <2>1. \A q \in Paths : Overlap(q) => q \in Line(p) \/ Overlap(q)'
    BY <1>1, OverlapElsewhere DEF Line
  <2> QED BY <1>2, <1>3, <2>1
<1>4. CASE Erase(Tree(p)) /\ pc[t] = "cleared"
  <2>1. \A q \in Paths : Overlap(q) => q \in Tree(p) \/ Overlap(q)'
    BY <1>1, <1>4, OverlapElsewhere
  <2> QED BY <1>2, <1>4, <2>1
<1>5. CASE /\ Erase(Tree(p)) /\ loc' = loc
           /\ \E w \in Written \ {"cleared"} : pc' = [pc EXCEPT ![t] = w]
  <2>1. \A q \in Paths : Overlap(q) => q \in Tree(p) \/ Overlap(q)'
    BY Zenon, <1>5, OverlapKept DEF IInv
  <2> QED BY <1>2, <1>5, <2>1
<1>6. CASE InvalidateTreeThen(t, "marked", "made") \/ InvalidateTreeThen(t, "unmarked", "undo")
  <2>1. PICK w \in {"made", "undo"} : pc' = [pc EXCEPT ![t] = w]
    BY <1>6 DEF InvalidateTreeThen, Goto
  <2>2. w \in Written \ {"cleared"}
    BY <2>1 DEF Written
  <2> QED BY Zenon, <1>5, <1>6, <2>1, <2>2 DEF InvalidateTreeThen, Invalidate
<1>7. CASE InvalidateTreeThen(t, "cleared", "take")
  BY <1>4, <1>7 DEF InvalidateTreeThen, Invalidate
<1>8. CASE ~InvalidateTreeThen(t, "marked", "made") /\ ~InvalidateTreeThen(t, "unmarked", "undo")
           /\ ~InvalidateTreeThen(t, "cleared", "take")
  BY <1>3, <1>8 DEF Invalidations, InvalidateThen, Finish, InvalidateWithAncestors
<1> QED BY <1>6, <1>7, <1>8

(* Nothing changes.                                                         *)
LEMMA StutterKeeps == IInv /\ UNCHANGED vars => IInv'
BY DEF IInv, vars, TypeOK, PathInv, WalkInv, FreshInv, Overlap, Current, View, BelowUpper,
   NoWhiteout

(* Every step keeps the invariant. *)
LEMMA InductiveStep == IInv /\ [Next]_vars => IInv'
<1> SUFFICES ASSUME IInv, Next PROVE IInv'
  BY StutterKeeps
<1>1. TypeOK' /\ (opaque \subseteq upper)' /\ PathInv'
  BY TypeStep DEF IInv
<1>2. WalkInv' /\ FreshInv'
  <2> PICK t \in Threads : Lookups(t) \/ Calls(t) \/ Changes(t) \/ Invalidations(t)
    BY DEF Next
  <2> QED BY LookupsKeep, PutKeeps, CallsKeep, ChangesKeep, InvalidationsKeep
<1> QED BY <1>1, <1>2 DEF IInv

(* The first state has the invariant. *)
LEMMA InductiveInit == Init => IInv
BY TypeInit DEF Init, IInv, PathInv, WalkInv, FreshInv, Walk

(* For all paths and threads: what is cached has its types, and no path     *)
(* that no layer has is ever cached (ResolvePathInternal).                  *)
THEOREM TypeCorrect == Spec => []TypeOK
BY InductiveInit, InductiveStep, PTL DEF Spec, IInv

(* For all paths, threads and capacities: a cached answer is stale only     *)
(* during a call on its line of paths, or because an invalidation overtook  *)
(* the lookup that put it, or because a change that is not announced        *)
(* touched it (Cache.cpp, PathResolver.cpp and their callers).              *)
THEOREM StaleOnlyByOverlapAlways == Spec => []StaleOnlyByOverlap
<1>1. IInv => StaleOnlyByOverlap
  <2> SUFFICES ASSUME IInv, NEW q \in Paths, Overlap(q)
               PROVE  Pending(q) # {}
    BY DEF IInv, FreshInv, StaleOnlyByOverlap
  <2>1. PICK t \in Threads : pc[t] \in Written /\ q \in Line(loc[t].path)
    BY DEF Overlap, Written, Line
  <2> QED BY <2>1 DEF Pending
<1> QED BY <1>1, InductiveInit, InductiveStep, PTL DEF Spec

-----------------------------------------------------------------------------
(* The bound.                                                               *)

In(c) == {p \in Paths : c[p] # "out"}

(* The cached paths are finitely many. *)
LEMMA InFinite ==
    ASSUME NEW c
    PROVE  IsFiniteSet(In(c)) /\ Size(c) = Cardinality(In(c)) /\ Size(c) \in Nat
<1>1. In(c) \subseteq Paths
  BY DEF In
<1>2. IsFiniteSet(In(c))
  BY <1>1, FS_Subset, PathCacheAssumption
<1> QED BY <1>2, FS_CardinalityType DEF In, Size

(* A cache with fewer paths is no larger. *)
LEMMA FewerIn ==
    ASSUME NEW c, NEW d, In(d) \subseteq In(c)
    PROVE  Size(d) <= Size(c)
BY InFinite, FS_Subset

(* A Put evicts an entry before it exceeds the capacity. *)
LEMMA PutBounded ==
    ASSUME TypeOK, PathInv, CacheBounded, NEW t \in Threads, PutAnswer(t)
    PROVE  CacheBounded'
<1>0. Capacity \in Nat
  BY PathCacheAssumption
<1>1. PICK p \in Paths : p = loc[t].path
  BY DEF PutAnswer, PathInv
<1>2. PICK c : c = [cache EXCEPT ![p] = loc[t].ans]
  BY Zenon
<1>3. cache \in [Paths -> Cached \cup {"out"}] /\ DOMAIN c = Paths
  BY <1>2 DEF TypeOK
<1>4. Size(c) <= Size(cache) + 1
  <2>1. IsFiniteSet(In(cache) \cup {p})
        /\ Cardinality(In(cache) \cup {p}) <= Cardinality(In(cache)) + 1
    BY InFinite, FS_AddElement
  <2>2. In(c) \subseteq In(cache) \cup {p}
    BY <1>2, <1>3 DEF In
  <2>3. Cardinality(In(c)) <= Cardinality(In(cache) \cup {p})
    BY <2>1, <2>2, FS_Subset
  <2>4. Size(c) = Cardinality(In(c)) /\ Size(cache) = Cardinality(In(cache))
        /\ Size(c) \in Nat /\ Size(cache) \in Nat
    BY InFinite
  <2>5. Cardinality(In(cache) \cup {p}) \in Nat
    BY <2>1, FS_CardinalityType
  <2> QED BY <2>1, <2>3, <2>4, <2>5
<1>5. Size(c) <= Capacity + 1
  BY <1>0, <1>4, InFinite DEF CacheBounded
<1>6. CASE Size(c) > Capacity
  <2>1. PICK old \in Paths : c[old] # "out" /\ cache' = [c EXCEPT ![old] = "out"]
    BY <1>1, <1>2, <1>6 DEF PutAnswer, Put
  <2>2. In(cache') = In(c) \ {old} /\ old \in In(c)
    BY <1>3, <2>1 DEF In
  <2>3. Cardinality(In(c) \ {old}) = Cardinality(In(c)) - 1
    BY Zenon, <2>2, InFinite, FS_RemoveElement
  <2>4. Size(cache') = Size(c) - 1
    BY <2>2, <2>3, InFinite
  <2>5. Size(cache)' = Size(cache')
    BY DEF Size
  <2> QED BY <1>0, <1>5, <2>4, <2>5, InFinite DEF CacheBounded
<1>7. CASE ~(Size(c) > Capacity)
  <2>1. cache' = c
    BY <1>1, <1>2, <1>7 DEF PutAnswer, Put
  <2> QED BY <1>0, <1>7, <2>1, InFinite DEF CacheBounded, Size
<1> QED BY <1>6, <1>7

(* Every step keeps the cache within its capacity. *)
LEMMA BoundedStep ==
    ASSUME TypeOK, PathInv, CacheBounded, Next
    PROVE  CacheBounded'
<1> PICK t \in Threads : Lookups(t) \/ Calls(t) \/ Changes(t) \/ Invalidations(t)
  BY DEF Next
<1>1. CASE PutAnswer(t)
  BY <1>1, PutBounded
<1>2. CASE ~PutAnswer(t)
  <2>1. CASE \E S : Erase(S)
    <3>1. PICK S : Erase(S)
      BY <2>1
    <3>2. In(cache') \subseteq In(cache)
      BY <3>1 DEF Erase, In
    <3>3. Size(cache') <= Size(cache)
      BY <3>2, FewerIn
    <3>4. Size(cache)' = Size(cache')
      BY DEF Size
    <3> QED BY <3>3, <3>4, InFinite, PathCacheAssumption DEF CacheBounded
  <2>2. CASE cache' = cache
    BY <2>2 DEF CacheBounded, Size
  <2>3. CASE Invalidations(t)
    <3>1. Erase(Tree(loc[t].path)) \/ Erase(Line(loc[t].path))
      BY Zenon, <2>3 DEF Invalidations, InvalidateThen, InvalidateTreeThen, Finish, Invalidate,
         InvalidateWithAncestors
    <3> QED BY <2>1, <3>1
  <2>4. CASE Lookups(t)
    BY <1>2, <2>2, <2>4 DEF Lookups, Get, ResolveInUpper, HidingInUpper, FindInLowers
  <2>5. CASE Calls(t)
    BY Zenon, <2>2, <2>5 DEF Calls, CopyUp, Create, Remove, RenameAway, RenameOnto, Start
  <2>6. CASE Changes(t)
    BY Zenon, <2>2, <2>6 DEF Changes, CommitFromWorkDir, CommitFails, CreateNew, SetOpaque, Created,
       RemoveWhiteout, CreateFails, Rollback, RemoveOpaque, RemoveUpperEntry, RemoveFails,
       CreateWhiteout, MoveUpperEntry, Step, Unannounced
  <2> QED BY <2>3, <2>4, <2>5, <2>6
<1> QED BY <1>1, <1>2

(* For every capacity: Put, with the eviction of one entry, keeps the cache *)
(* within it (Cache::Put, EvictLRU).                                        *)
THEOREM CacheBoundedAlways == Spec => []CacheBounded
<1>1. Init => CacheBounded
  <2> SUFFICES ASSUME Init PROVE Size(cache) <= Capacity
    BY DEF CacheBounded
  <2>1. In(cache) = {}
    BY DEF Init, In
  <2>2. Size(cache) = 0
    BY <2>1, InFinite, FS_EmptySet
  <2> QED BY <2>2, PathCacheAssumption
<1>2. IInv /\ CacheBounded /\ [Next]_vars => CacheBounded'
  <2>1. CASE UNCHANGED vars
    BY <2>1 DEF vars, CacheBounded, Size
  <2> QED BY <2>1, BoundedStep DEF IInv
<1> QED BY <1>1, <1>2, InductiveInit, InductiveStep, PTL DEF Spec

=============================================================================
