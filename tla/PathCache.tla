----------------------------- MODULE PathCache -----------------------------
(***************************************************************************)
(* The resolved-path cache (Cache.cpp) between the lookup that fills it     *)
(* (PathResolver.cpp) and the operations that change the upper layer and    *)
(* then invalidate it.  A lookup is a Get, up to three separate reads of    *)
(* the layers and a Put; a change is one or more writes to the upper, each  *)
(* followed by an invalidation under the cache's own lock.  No lock spans a *)
(* read and its Put, or a write and its invalidation, so every step of      *)
(* every thread interleaves here.                                           *)
(*                                                                          *)
(* The lowers do not change while mounted, so they are the constant Lower.  *)
(* What a path resolves to is one of five answers; attributes and host      *)
(* paths of the answer are left out.  Module Overlay has the full set of    *)
(* operations on the layers, without the cache.                             *)
(***************************************************************************)
EXTENDS Naturals, FiniteSets

CONSTANTS
    Threads,    \* threads that call into the engine
    Paths,      \* normalized paths below the mount's root
    Dirs,       \* the paths that are directories wherever they exist
    Inside,     \* pairs <<path, directory above it>>
    Lower,      \* what the merged lowers hold
    Capacity    \* maxCapacity_ of the cache

ASSUME PathCacheAssumption ==
    /\ Dirs \subseteq Paths /\ Lower \subseteq Paths
    /\ Inside \subseteq Paths \X Dirs
    /\ \A p, q, r \in Paths :
           (<<p, q>> \in Inside /\ <<q, r>> \in Inside) => <<p, r>> \in Inside
    /\ "none" \notin Paths
    /\ IsFiniteSet(Paths)
    /\ Capacity \in Nat \ {0}

VARIABLES
    upper,      \* the paths with an entry in the upper
    whiteout,   \* the paths with a whiteout marker in the upper
    opaque,     \* the directories with an opaque marker in the upper
    cache,      \* Cache::entries_, "out" where there is no entry
    pc, loc,    \* where each thread is, and the locals of its call
    late,       \* history: the lookups that an invalidation or an unannounced
                \* change of their path overtook
    tainted     \* history: the entries such a lookup put

disk == <<upper, whiteout, opaque>>
history == <<late, tainted>>
vars == <<upper, whiteout, opaque, cache, pc, loc, late, tainted>>

Above(p) == {q \in Paths : <<p, q>> \in Inside}
Below(p) == {q \in Paths : <<q, p>> \in Inside}
Tree(p) == {p} \cup Below(p)
Line(p) == Tree(p) \cup Above(p)

Found == {"upper", "lower"}
Cached == Found \cup {"whiteout", "hidden"}

(* UpperAncestorHiding and FindInLowers: what the layers below the upper    *)
(* show at p when the upper has neither an entry nor a whiteout there.      *)
BelowUpper(p) ==
    IF opaque \cap Above(p) # {} THEN "hidden"
    ELSE IF p \in Lower THEN "lower" ELSE "absent"

(* What the layers show at p now, all reads at once: the reference that a   *)
(* cached answer is compared with.                                          *)
View(p) ==
    IF p \in upper THEN "upper"
    ELSE IF whiteout \cap ({p} \cup Above(p)) # {} THEN "whiteout"
    ELSE BelowUpper(p)

(* What a call that resolves p works with: the cached answer if there is    *)
(* one.                                                                     *)
Resolved(p) == IF cache[p] # "out" THEN cache[p] ELSE View(p)

(* ResolveLowerPath: the entry the upper's own entry or whiteout at p hides.*)
LowerHas(p) ==
    /\ p \in Lower
    /\ (whiteout \cup opaque) \cap Above(p) = {}

Idle == [path |-> "none", ans |-> "out", white |-> FALSE, lower |-> FALSE]

Init ==
    /\ upper = {} /\ whiteout = {} /\ opaque = {}
    /\ cache = [p \in Paths |-> "out"]
    /\ pc = [t \in Threads |-> "idle"]
    /\ loc = [t \in Threads |-> Idle]
    /\ late = {} /\ tainted = {}

Goto(t, where) == pc' = [pc EXCEPT ![t] = where]

Return(t) ==
    /\ Goto(t, "idle")
    /\ loc' = [loc EXCEPT ![t] = Idle]

Walking(S) == {t \in Threads : /\ pc[t] \in {"upper?", "white?", "lower?", "put"}
                               /\ loc[t].path \in S}

-----------------------------------------------------------------------------
(* The cache.                                                               *)

(* Invalidate and InvalidateWithAncestors erase what they cover under the   *)
(* exclusive lock; a lookup on the way is overtaken.                        *)
Erase(S) ==
    /\ cache' = [p \in Paths |-> IF p \in S THEN "out" ELSE cache[p]]
    /\ tainted' = tainted \ S
    /\ late' = late \cup Walking(S)
    /\ UNCHANGED disk

Invalidate(p) == Erase(Tree(p))

InvalidateWithAncestors(p) == Erase(Line(p))

(* A change of the layers at the paths S that no invalidation follows.      *)
Unannounced(S) ==
    /\ tainted' = tainted \cup {p \in S : cache[p] # "out"}
    /\ late' = late \cup Walking(S)
    /\ UNCHANGED cache

Size(c) == Cardinality({p \in Paths : c[p] # "out"})

(* Put takes the time before the lock, so any entry may turn out to be the  *)
(* oldest one, the new one included; EvictLRU erases it.                    *)
Put(t) ==
    LET p == loc[t].path
        c == [cache EXCEPT ![p] = loc[t].ans]
        marks == IF t \in late THEN tainted \cup {p} ELSE tainted \ {p}
    IN  IF Size(c) > Capacity
          THEN \E old \in Paths : /\ c[old] # "out"
                                  /\ cache' = [c EXCEPT ![old] = "out"]
                                  /\ tainted' = marks \ {old}
          ELSE cache' = c /\ tainted' = marks

-----------------------------------------------------------------------------
(* The lookup: ResolvePathInternal.                                         *)

(* A Get that misses starts the walk; a hit answers and changes nothing     *)
(* but the entry's time.                                                    *)
Get(t, p) ==
    /\ pc[t] = "idle"
    /\ cache[p] = "out"
    /\ Goto(t, "upper?")
    /\ loc' = [loc EXCEPT ![t].path = p]
    /\ UNCHANGED <<upper, whiteout, opaque, cache, late, tainted>>

Answered(t, ans) ==
    /\ Goto(t, "put")
    /\ loc' = [loc EXCEPT ![t].ans = ans]

ResolveInUpper(t) ==
    /\ pc[t] = "upper?"
    /\ IF loc[t].path \in upper
         THEN Answered(t, "upper")
         ELSE Goto(t, "white?") /\ UNCHANGED loc
    /\ UNCHANGED <<upper, whiteout, opaque, cache, late, tainted>>

HidingInUpper(t) ==
    /\ pc[t] = "white?"
    /\ IF whiteout \cap ({loc[t].path} \cup Above(loc[t].path)) # {}
         THEN Answered(t, "whiteout")
         ELSE Goto(t, "lower?") /\ UNCHANGED loc
    /\ UNCHANGED <<upper, whiteout, opaque, cache, late, tainted>>

(* A path that no layer has is not cached.                                  *)
FindInLowers(t) ==
    /\ pc[t] = "lower?"
    /\ IF BelowUpper(loc[t].path) = "absent"
         THEN Return(t) /\ late' = late \ {t}
         ELSE Answered(t, BelowUpper(loc[t].path)) /\ UNCHANGED late
    /\ UNCHANGED <<upper, whiteout, opaque, cache, tainted>>

PutAnswer(t) ==
    /\ pc[t] = "put"
    /\ Put(t)
    /\ Return(t)
    /\ late' = late \ {t}
    /\ UNCHANGED disk

-----------------------------------------------------------------------------
(* The changes.  Each starts from a resolution that may come from the       *)
(* cache, writes to the upper, and invalidates.                             *)

Start(t, p, where) ==
    /\ pc[t] = "idle"
    /\ Goto(t, where)
    /\ loc' = [loc EXCEPT ![t] = [path |-> p, ans |-> "out",
                                 white |-> p \in whiteout, lower |-> LowerHas(p)]]
    /\ UNCHANGED <<upper, whiteout, opaque, cache, late, tainted>>

Step(t, where) == Goto(t, where) /\ UNCHANGED <<cache, loc, late, tainted>>

(* The invalidation that ends a call, and one inside a call.                *)
Finish(t) ==
    /\ pc[t] = "finish"
    /\ InvalidateWithAncestors(loc[t].path)
    /\ Return(t)

InvalidateThen(t, from, to) ==
    /\ pc[t] = from
    /\ InvalidateWithAncestors(loc[t].path)
    /\ Goto(t, to)
    /\ UNCHANGED loc

InvalidateTreeThen(t, from, to) ==
    /\ pc[t] = from
    /\ Invalidate(loc[t].path)
    /\ Goto(t, to)
    /\ UNCHANGED loc

(* CopyUpFile, CopyUpDirectory: the source is staged, then CommitFromWorkDir *)
(* makes the parents it does not find and moves the staged entry in place;  *)
(* a failed move leaves the parents and invalidates nothing.                *)
CopyUp(t, p) ==
    /\ Resolved(p) = "lower" /\ p \notin upper
    /\ Start(t, p, "commit")

CommitFromWorkDir(t) ==
    LET p == loc[t].path IN
    /\ pc[t] = "commit"
    /\ p \notin upper
    /\ upper' = upper \cup {p} \cup Above(p)
    /\ UNCHANGED <<whiteout, opaque>>
    /\ Step(t, "finish")

CommitFails(t) ==
    LET p == loc[t].path IN
    /\ pc[t] = "commit"
    /\ upper' = upper \cup Above(p)
    /\ Unannounced(Above(p) \ upper)
    /\ UNCHANGED <<whiteout, opaque>>
    /\ Return(t)

(* Create: the entry is made in an upper directory; a new directory over a  *)
(* lower one is marked opaque; the whiteout at the path goes last.          *)
Create(t, p) ==
    /\ Resolved(p) \notin Found
    /\ Start(t, p, "make")

CreateNew(t) ==
    LET p == loc[t].path IN
    /\ pc[t] = "make"
    /\ IF p \in upper \/ ~(Above(p) \subseteq upper)
         THEN Return(t) /\ UNCHANGED <<upper, cache, late, tainted>>
         ELSE /\ upper' = upper \cup {p}
              /\ Step(t, IF p \in Dirs /\ loc[t].lower THEN "mark" ELSE "made")
    /\ UNCHANGED <<whiteout, opaque>>

SetOpaque(t) ==
    LET p == loc[t].path IN
    /\ pc[t] = "mark"
    /\ upper' = upper \cup {p} \cup Above(p)
    /\ opaque' = opaque \cup {p}
    /\ UNCHANGED whiteout
    /\ Step(t, "marked")

RemoveWhiteout(t) ==
    /\ pc[t] = "made" /\ loc[t].white
    /\ whiteout' = whiteout \ {loc[t].path}
    /\ UNCHANGED <<upper, opaque>>
    /\ Step(t, "unwhited")

Created(t) ==
    /\ pc[t] = "made" /\ ~loc[t].white
    /\ UNCHANGED disk
    /\ Step(t, "finish")

(* A create that fails after the entry is there: the rollback removes the   *)
(* markers of an opaque directory (and invalidates), then the entry, and    *)
(* returns without an invalidation.                                         *)
CreateFails(t) ==
    LET p == loc[t].path
        marks == p \in Dirs /\ loc[t].lower
    IN  /\ pc[t] \in {"mark", "made"}
        /\ opaque' = IF marks THEN opaque \ {p} ELSE opaque
        /\ UNCHANGED <<upper, whiteout>>
        /\ Step(t, IF marks THEN "unmarked" ELSE "undo")

Rollback(t) ==
    LET p == loc[t].path IN
    /\ pc[t] = "undo"
    /\ upper' = IF Below(p) \cap (upper \cup whiteout) = {} /\ p \notin opaque
                 THEN upper \ {p} ELSE upper
    /\ Unannounced(Line(p))
    /\ UNCHANGED <<whiteout, opaque>>
    /\ Return(t)

(* UpperEntryRemover::Remove, after CanDelete found the directory empty.    *)
Remove(t, p) ==
    /\ Resolved(p) \in Found
    /\ \A q \in Below(p) : View(q) \notin Found
    /\ Start(t, p, "remove")

(* DirectoryRename of p to a name outside Paths: the tree is copied there   *)
(* and moved away from here whatever it holds.                              *)
RenameAway(t, p) ==
    /\ Resolved(p) \in Found /\ p \in Dirs
    /\ Start(t, p, "take")

RemoveOpaque(t) ==
    LET p == loc[t].path IN
    /\ pc[t] = "remove"
    /\ opaque' = opaque \ {p}
    /\ UNCHANGED <<upper, whiteout>>
    /\ Step(t, IF p \in upper \cap opaque THEN "cleared" ELSE "take")

(* The entry goes with what is below it, markers included.                  *)
RemoveUpperEntry(t) ==
    LET p == loc[t].path IN
    /\ pc[t] = "take"
    /\ upper' = upper \ Tree(p)
    /\ whiteout' = whiteout \ Below(p)
    /\ opaque' = opaque \ Tree(p)
    /\ Step(t, IF loc[t].lower THEN "taken" ELSE "finish")

RemoveFails(t) ==
    /\ pc[t] \in {"take", "taken"}
    /\ UNCHANGED disk
    /\ Step(t, "finish")

CreateWhiteout(t) ==
    LET p == loc[t].path IN
    /\ pc[t] = "taken"
    /\ upper' = upper \cup Above(p)
    /\ whiteout' = whiteout \cup {p}
    /\ UNCHANGED opaque
    /\ Step(t, "whited")

(* DirectoryRename of a tree outside Paths onto p: it arrives with its      *)
(* opaque marker when a lower has a directory of that name; the whiteout    *)
(* at p goes last.                                                          *)
RenameOnto(t, p) ==
    /\ Resolved(p) \notin Found /\ p \in Dirs
    /\ Start(t, p, "move")

MoveUpperEntry(t) ==
    LET p == loc[t].path IN
    /\ pc[t] = "move"
    /\ IF p \in upper \/ ~(Above(p) \subseteq upper)
         THEN Return(t) /\ UNCHANGED <<upper, opaque, cache, late, tainted>>
         ELSE /\ upper' = upper \cup Tree(p)
              /\ opaque' = IF loc[t].lower THEN opaque \cup {p} ELSE opaque
              /\ Step(t, "moved")
    /\ UNCHANGED whiteout

-----------------------------------------------------------------------------
Lookups(t) ==
    \/ \E p \in Paths : Get(t, p)
    \/ ResolveInUpper(t) \/ HidingInUpper(t) \/ FindInLowers(t) \/ PutAnswer(t)

Calls(t) ==
    \E p \in Paths : \/ CopyUp(t, p) \/ Create(t, p) \/ Remove(t, p)
                      \/ RenameAway(t, p) \/ RenameOnto(t, p)

Changes(t) ==
    \/ CommitFromWorkDir(t) \/ CommitFails(t)
    \/ CreateNew(t) \/ SetOpaque(t) \/ Created(t) \/ RemoveWhiteout(t)
    \/ CreateFails(t) \/ Rollback(t)
    \/ RemoveOpaque(t) \/ RemoveUpperEntry(t) \/ RemoveFails(t) \/ CreateWhiteout(t)
    \/ MoveUpperEntry(t)

(* The invalidations inside a call, each right after its write: SetOpaque   *)
(* and RemoveOpaque cover the tree only, the others the line of ancestors   *)
(* too.                                                                     *)
Invalidations(t) ==
    \/ InvalidateTreeThen(t, "marked", "made")
    \/ InvalidateTreeThen(t, "unmarked", "undo")
    \/ InvalidateTreeThen(t, "cleared", "take")
    \/ InvalidateThen(t, "unwhited", "finish")
    \/ InvalidateThen(t, "whited", "finish")
    \/ InvalidateThen(t, "moved", "made")
    \/ Finish(t)

Next == \E t \in Threads : Lookups(t) \/ Calls(t) \/ Changes(t) \/ Invalidations(t)

Spec == Init /\ [][Next]_vars

-----------------------------------------------------------------------------
Places == {"idle", "upper?", "white?", "lower?", "put", "commit", "finish", "make",
           "mark", "marked", "made", "unwhited", "unmarked", "undo", "remove",
           "cleared", "take", "taken", "whited", "move", "moved"}

(* Types.  What is cached is one of the four answers that Put is given: a   *)
(* path found in no layer is never cached.                                  *)
TypeOK ==
    /\ upper \subseteq Paths /\ whiteout \subseteq Paths /\ opaque \subseteq Paths
    /\ cache \in [Paths -> Cached \cup {"out"}]
    /\ pc \in [Threads -> Places]
    /\ loc \in [Threads -> [path : Paths \cup {"none"}, ans : Cached \cup {"out"},
                           white : BOOLEAN, lower : BOOLEAN]]
    /\ late \subseteq Threads /\ tainted \subseteq Paths

(* The cache never holds more entries than its capacity, whatever order the *)
(* times of concurrent Gets and Puts come in (Cache::Put, EvictLRU).        *)
CacheBounded == Size(cache) <= Capacity

(* The threads that have written to the upper on the line of p and not yet  *)
(* invalidated it.                                                          *)
Written == {"finish", "mark", "marked", "made", "unwhited", "unmarked", "undo",
            "cleared", "taken", "whited", "moved"}

Pending(p) == {t \in Threads : pc[t] \in Written /\ p \in Line(loc[t].path)}

(* A cached answer is what the layers show, with three exceptions and no    *)
(* other: a call on the same line of paths is still between its write and   *)
(* its last invalidation; the entry was put by a lookup that an             *)
(* invalidation of its path overtook (PathResolver.cpp puts what it read    *)
(* with no check that it is still current); or the path was changed by a    *)
(* rolled-back create or a failed commit, which invalidate nothing.         *)
StaleOnlyByOverlap ==
    \A p \in Paths : cache[p] \in {"out", View(p)} \/ p \in tainted \/ Pending(p) # {}
=============================================================================
