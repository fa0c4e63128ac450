------------------------------ MODULE Overlay ------------------------------
(***************************************************************************)
(* The namespace operations of LayerMount (impl/LayerMount.cpp) on a stack *)
(* of layers: create, delete, rename, copy-up and the two marker calls.    *)
(* One call runs at a time.  A call is a sequence of file-system steps,    *)
(* and one action is one step.  Every step may fail; the call then runs    *)
(* the undo the code has for it, whose steps may fail too.  The process    *)
(* may stop between any two steps; the next mount empties the work         *)
(* directory (WorkDirectory::Open).                                        *)
(***************************************************************************)
EXTENDS Layers

CONSTANT LowerStacks    \* the lower stacks the overlay may be mounted on

ASSUME StackAssumption ==
    \A ls \in LowerStacks :
        /\ ls \in [1 .. NumLowers -> Layer]
        /\ \A i \in 1 .. NumLowers : WellFormed(ls[i])

VARIABLES
    upper,    \* the upper layer
    lowers,   \* the lower layers
    work,     \* the destination that a rename moved into the work directory
    call,     \* the call that runs, with its local variables
    pc,       \* its next step; "idle" when no call runs
    before    \* the view when the call started (history)

vars == <<upper, lowers, work, call, pc, before>>

Stack == [s \in Slot |-> IF s = 0 THEN upper ELSE lowers[s]]

Shown(p) == ResolvePath(Stack, p)
InLowers(p) == ResolveLowerPath(Stack, p)

(***************************************************************************)
(* A call: its arguments, and the facts it reads once and uses later.      *)
(*   whiteout   whiteoutAtPath of a create, destHadWhiteout of a rename    *)
(*   lower      the lower entry under the new directory of a create,       *)
(*              lowerHasIt of a delete, lowerHoldsSource of a rename       *)
(*   route      how a rename moves its source                              *)
(*   undoMark   UndoOpaqueMarker::Remove                                   *)
(*   stuck      a step of the undo failed                                  *)
(***************************************************************************)
NoCall ==
    [op |-> "none", path |-> Root, dest |-> Root, kind |-> "file",
     replace |-> FALSE, whiteout |-> FALSE, lower |-> FALSE,
     route |-> "file", undoMark |-> FALSE, stuck |-> FALSE]

Call ==
    [op       : {"none", "create", "delete", "rename", "copyup", "whiteout", "opaque"},
     path     : Path,
     dest     : Path,
     kind     : {"file", "dir"},
     replace  : BOOLEAN,
     whiteout : BOOLEAN,
     lower    : BOOLEAN,
     route    : {"file", "MoveUpper", "MoveUpperAndWhiteout", "MergeLower"},
     undoMark : BOOLEAN,
     stuck    : BOOLEAN]

Step ==
    {"idle", "ok", "failed",
     "c_parent", "c_make", "c_opaque", "c_settings", "c_whiteout",
     "c_undo_opaque", "c_undo_make",
     "d_opaque", "d_remove", "d_whiteout",
     "u_parent", "u_commit",
     "m_whiteout", "m_opaque",
     "r_aside", "r_parent", "r_copy_parent", "r_copy", "r_mark", "r_move",
     "r_build", "r_shadow", "r_uncopy", "r_whiteout", "r_back",
     "r_unwhite_new", "r_dest_whiteout", "r_dest_back", "r_unwhite_old",
     "r_commit", "r_restore"}

Init ==
    /\ upper = PutEntry(EmptyLayer, Root, [kind |-> "dir", tag |-> Fresh])
    /\ lowers \in LowerStacks
    /\ work = EmptyLayer
    /\ call = NoCall
    /\ pc = "idle"
    /\ before = View(Stack)

(* The call goes to step l; the layers and the call keep their values. *)
Goto(l) == pc' = l /\ UNCHANGED <<upper, lowers, work, call, before>>

(* The step changes the upper and the call goes to step l. *)
Change(u, l) ==
    /\ upper' = u
    /\ pc' = l
    /\ UNCHANGED <<lowers, work, call, before>>

(* A step of the undo failed: the entry stays where it is. *)
GotoStuck(l) ==
    /\ call' = [call EXCEPT !.stuck = TRUE]
    /\ pc' = l
    /\ UNCHANGED <<upper, lowers, work, before>>

Start(c, l) ==
    /\ call' = c
    /\ pc' = l
    /\ before' = View(Stack)
    /\ UNCHANGED <<upper, lowers, work>>

(***************************************************************************)
(* Steps that several calls share.                                         *)
(***************************************************************************)
Missing(p) == {a \in Ancestors(p) : ~Holds(upper, a)}
Topmost(S) == CHOOSE a \in S : \A b \in S : Len(a) <= Len(b)

UpperHasParent(p) == IsDirectory(upper.tree[Parent(p)])

(* CopyUp::EnsureUpperParent: it walks up to the first directory that the  *)
(* upper holds, and checks that each one it passes is shown as a           *)
(* directory.  On the way back CopyUpDirectory copies each missing one.    *)
(* Each copy commits with one rename.                                      *)
EnsureUpperParent(p, here, next, fail) ==
    /\ pc = here
    /\ \/ /\ Missing(p) = {}
          /\ Goto(IF UpperHasParent(p) THEN next ELSE fail)
       \/ /\ Missing(p) # {}
          /\ \A m \in Missing(p) : IsDirectory(Shown(m))
          /\ LET top == Topmost(Missing(p))
             IN  /\ UpperHasParent(top)
                 /\ Change(PutEntry(upper, top, InLowers(top)), here)
       \/ /\ Missing(p) # {}
          /\ Goto(fail)

(* WhiteoutManager::CreateWhiteout: EnsureDirectoryExists makes the        *)
(* directories above the marker that the upper lacks as new directories,   *)
(* then the marker file is made.                                           *)
MakeDirectory(p) == PutEntry(upper, p, [kind |-> "dir", tag |-> Fresh])

(* Faulty variant: the marker is tried again until its directory is there. *)
CreateWhiteout_Retries(p, here, next, fail) ==
    /\ pc = here
    /\ \/ /\ Missing(p) = {}
          /\ UpperHasParent(p)
          /\ Change([upper EXCEPT !.wh = @ \cup {p}], next)
       \/ Goto(here)

CreateWhiteout(p, here, next, fail) ==
    /\ pc = here
    /\ \/ /\ Missing(p) = {}
          /\ UpperHasParent(p)
          /\ Change([upper EXCEPT !.wh = @ \cup {p}], next)
       \/ /\ Missing(p) # {}
          /\ UpperHasParent(Topmost(Missing(p)))
          /\ Change(MakeDirectory(Topmost(Missing(p))), here)
       \/ Goto(fail)

(* WhiteoutManager::RemoveWhiteout. *)
RemoveWhiteout(p, here, next, fail) ==
    /\ pc = here
    /\ \/ Change([upper EXCEPT !.wh = @ \ {p}], next)
       \/ Goto(fail)

(***************************************************************************)
(* LayerMount::Create.                                                     *)
(***************************************************************************)
CreateCall(p, k) ==
    /\ pc = "idle"
    /\ p # Root
    /\ ~Found(Shown(p))
    /\ Start([NoCall EXCEPT !.op = "create", !.path = p, !.kind = k,
                            !.whiteout = HasWhiteout(upper, p),
                            !.lower = IsDirectory(InLowers(p))],
             "c_parent")

CreateParent == EnsureUpperParent(call.path, "c_parent", "c_make", "failed")

(* Faulty variant: the new directory is not made opaque. *)
CreateMake_NoOpaque ==
    /\ pc = "c_make"
    /\ \/ Change(PutEntry(upper, call.path, [kind |-> call.kind, tag |-> Fresh]),
                 "c_settings")
       \/ Goto("failed")

(* CreateDirectoryW, or CreateFileW with CREATE_NEW. *)
CreateMake ==
    /\ pc = "c_make"
    /\ \/ Change(PutEntry(upper, call.path, [kind |-> call.kind, tag |-> Fresh]),
                 IF call.kind = "dir" /\ call.lower THEN "c_opaque" ELSE "c_settings")
       \/ Goto("failed")

CreateOpaque ==
    /\ pc = "c_opaque"
    /\ \/ Change([upper EXCEPT !.opq = @ \cup {call.path}], "c_settings")
       \/ Goto("c_undo_opaque")

UndoCreate == IF call.kind = "dir" /\ call.lower THEN "c_undo_opaque" ELSE "c_undo_make"

(* Security, handle, allocation size and file information of the new       *)
(* entry.                                                                  *)
CreateSettings ==
    /\ pc = "c_settings"
    /\ \/ Goto(IF call.whiteout THEN "c_whiteout" ELSE "ok")
       \/ Goto(UndoCreate)

CreateWhiteoutGoes == RemoveWhiteout(call.path, "c_whiteout", "ok", UndoCreate)

(* DirectoryRollback: the opaque markers, then the directory. *)
CreateUndoOpaque ==
    /\ pc = "c_undo_opaque"
    /\ \/ Change([upper EXCEPT !.opq = @ \ {call.path}], "c_undo_make")
       \/ GotoStuck("c_undo_make")

(* FileRollback, or the last step of DirectoryRollback.  An opaque marker  *)
(* that stayed keeps the directory when it is the marker file, and goes    *)
(* with it when it is the stream.                                          *)
CreateUndoMake ==
    /\ pc = "c_undo_make"
    /\ \/ Change(Prune(upper, call.path), "failed")
       \/ GotoStuck("failed")

(***************************************************************************)
(* LayerMount::Delete.                                                     *)
(***************************************************************************)
DeleteCall(p) ==
    /\ pc = "idle"
    /\ p # Root
    /\ Found(Shown(p))
    /\ IsDirectory(Shown(p)) => IsEmptyDirectory(Stack, p)
    /\ Start([NoCall EXCEPT !.op = "delete", !.path = p,
                            !.kind = Shown(p).kind,
                            !.lower = Found(InLowers(p))],
             IF Holds(upper, p) THEN "d_opaque" ELSE "d_whiteout")

(* UpperEntryRemover::Remove ignores the result of RemoveOpaque. *)
DeleteOpaque ==
    /\ pc = "d_opaque"
    /\ \/ /\ IsDirectory(upper.tree[call.path])
          /\ Change([upper EXCEPT !.opq = @ \ {call.path}], "d_remove")
       \/ Goto("d_remove")

AfterRemoval == IF call.lower THEN "d_whiteout" ELSE "ok"

(* RemoveUpperEntryOfKind: fs::remove_all on a directory. *)
DeleteRemove ==
    /\ pc = "d_remove"
    /\ \/ \E u \in RemoveOneBelow(upper, call.path) : Change(u, "d_remove")
       \/ /\ RemoveOneBelow(upper, call.path) = {}
          /\ Change(Prune(upper, call.path), AfterRemoval)
       \/ Goto("failed")

DeleteWhiteout == CreateWhiteout(call.path, "d_whiteout", "ok", "failed")

(***************************************************************************)
(* LayerMount::EnsureInUpperLayer, and the copy-up of an open for write    *)
(* or of a metadata write.                                                 *)
(***************************************************************************)
CopyUpCall(p) ==
    /\ pc = "idle"
    /\ p # Root
    /\ ~Holds(upper, p)
    /\ Found(Shown(p))
    /\ Start([NoCall EXCEPT !.op = "copyup", !.path = p], "u_parent")

CopyUpParent == EnsureUpperParent(call.path, "u_parent", "u_commit", "failed")

(* CommitStagedFile, or the move of a staged directory. *)
CopyUpCommit ==
    /\ pc = "u_commit"
    /\ \/ Change(PutEntry(upper, call.path, InLowers(call.path)), "ok")
       \/ Goto("failed")

(***************************************************************************)
(* LayerMount::CreateWhiteout and LayerMount::SetOpaque.                   *)
(***************************************************************************)
MarkerCall(p, op) ==
    /\ pc = "idle"
    /\ p # Root
    /\ Start([NoCall EXCEPT !.op = op, !.path = p],
             IF op = "whiteout" THEN "m_whiteout" ELSE "m_opaque")

MarkerWhiteout == CreateWhiteout(call.path, "m_whiteout", "ok", "failed")

(* SetOpaque: EnsureDirectoryExists on the directory, then the markers.    *)
(* On a file the marker stream is written all the same.                    *)
MarkerOpaque ==
    /\ pc = "m_opaque"
    /\ LET missing == {a \in Chain(call.path) : ~Holds(upper, a)}
       IN  \/ /\ missing = {}
              /\ Change([upper EXCEPT !.opq = @ \cup {call.path}], "ok")
           \/ /\ missing # {}
              /\ UpperHasParent(Topmost(missing))
              /\ Change(MakeDirectory(Topmost(missing)), "m_opaque")
           \/ Goto("failed")

(***************************************************************************)
(* LayerMount::Rename of one path to another (a change of case only is not *)
(* modelled).                                                              *)
(***************************************************************************)

(* DirectoryRenameRouteOf, or "file" for a file source. *)
RouteOf(p) ==
    IF Shown(p).kind = "file" THEN "file"
    ELSE IF ~Found(InLowers(p)) THEN "MoveUpper"
    ELSE IF ~Holds(upper, p) THEN "MergeLower"
    ELSE IF p \in upper.opq \/ ~IsDirectory(InLowers(p)) THEN "MoveUpperAndWhiteout"
    ELSE "MergeLower"

(* CheckRenameDestination. *)
DestinationAllows(p, q, replace) ==
    /\ q \notin Within(p)
    /\ Found(Shown(q)) =>
          /\ replace
          /\ p \notin Within(q)
          /\ Shown(p).kind = Shown(q).kind
          /\ IsDirectory(Shown(q)) => IsEmptyDirectory(Stack, q)

(* Bound of the model: the moved tree has a place in Path. *)
Fits(p, q) ==
    \A r \in Below(p) :
        \/ Graft(r, p, q) \in Path
        \/ ~Holds(upper, r) /\ r \notin upper.wh /\ ~Found(Shown(r))

RenameCall(p, q, replace) ==
    /\ pc = "idle"
    /\ p # Root /\ q # Root
    /\ Found(Shown(p))
    /\ DestinationAllows(p, q, replace)
    /\ Fits(p, q)
    /\ Start([NoCall EXCEPT
                !.op = "rename", !.path = p, !.dest = q, !.kind = Shown(p).kind,
                !.replace = replace, !.route = RouteOf(p),
                !.undoMark = /\ RouteOf(p) \in {"MoveUpper", "MoveUpperAndWhiteout"}
                             /\ p \notin upper.opq],
             "r_aside")

(* SetRenameDestinationAside, then the reads before the move. *)
RenameAside ==
    /\ pc = "r_aside"
    /\ UNCHANGED <<lowers, before>>
    /\ LET aside == call.replace /\ Holds(upper, call.dest)
       IN  \/ /\ upper' = IF aside THEN Prune(upper, call.dest) ELSE upper
              /\ work' = IF aside THEN Plant(EmptyLayer, upper, call.dest, call.dest)
                                  ELSE work
              /\ call' = [call EXCEPT !.whiteout = HasWhiteout(upper, call.dest),
                                      !.lower = Found(InLowers(call.path))]
              /\ pc' = "r_parent"
           \/ /\ aside
              /\ pc' = "failed"
              /\ UNCHANGED <<upper, work, call>>

(* The start of FileRename::MoveToUpper, RenameUpperDirectory and          *)
(* RenameLowerDirectory.                                                   *)
RenameParent ==
    EnsureUpperParent(call.dest, "r_parent",
        CASE call.route = "file" /\ Holds(upper, call.path) -> "r_move"
          [] call.route = "file" /\ ~Holds(upper, call.path) -> "r_copy_parent"
          [] call.route = "MergeLower" -> "r_build"
          [] OTHER -> "r_mark",
        "r_restore")

RenameCopyParent == EnsureUpperParent(call.path, "r_copy_parent", "r_copy", "r_restore")

RenameCopy ==
    /\ pc = "r_copy"
    /\ \/ Change(PutEntry(upper, call.path, InLowers(call.path)), "r_move")
       \/ Goto("r_restore")

(* RenameUpperDirectory marks the source opaque when a lower has the       *)
(* destination path.                                                       *)
RenameMark ==
    /\ pc = "r_mark"
    /\ IF call.path \notin upper.opq /\ Found(InLowers(call.dest))
         THEN \/ Change([upper EXCEPT !.opq = @ \cup {call.path}], "r_move")
              \/ Goto("r_restore")
         ELSE Goto("r_move")

LeavesWhiteout ==
    IF call.route = "file" THEN call.lower ELSE call.route # "MoveUpper"

AfterMove == IF LeavesWhiteout THEN "r_whiteout" ELSE "r_dest_whiteout"

RenameMove ==
    /\ pc = "r_move"
    /\ \/ Change(MoveTree(upper, call.path, call.dest), AfterMove)
       \/ Goto("r_restore")

(* Faulty variant: the copy is not opaque. *)
MergedCopy_NotOpaque(p) ==
    [tree |-> [q \in Path |->
                 IF q = p THEN [Shown(p) EXCEPT !.kind = "dir"]
                 ELSE IF q \in Below(p) THEN ListedEntry(Stack, q)
                 ELSE NoEntry],
     wh   |-> {},
     opq  |-> {}]

(* CopyMergedDirectory: the listed tree, without markers, opaque itself. *)
MergedCopy(p) ==
    [tree |-> [q \in Path |->
                 IF q = p THEN [Shown(p) EXCEPT !.kind = "dir"]
                 ELSE IF q \in Below(p) THEN ListedEntry(Stack, q)
                 ELSE NoEntry],
     wh   |-> {},
     opq  |-> {p}]

RenameBuild ==
    /\ pc = "r_build"
    /\ \/ Change(Plant(upper, MergedCopy(call.path), call.path, call.dest), "r_shadow")
       \/ Goto("r_restore")

(* The upper source moves into the work directory in one step and is       *)
(* removed there.                                                          *)
RenameShadow ==
    /\ pc = "r_shadow"
    /\ \/ Change(Prune(upper, call.path), "r_whiteout")
       \/ Holds(upper, call.path) /\ Goto("r_uncopy")

(* RemoveUpperEntry on the copy at the new name. *)
RenameUncopy ==
    /\ pc = "r_uncopy"
    /\ \/ \E u \in RemoveOneBelow(upper, call.dest) : Change(u, "r_uncopy")
       \/ /\ RemoveOneBelow(upper, call.dest) = {}
          /\ Change(Prune(upper, call.dest), "r_restore")
       \/ GotoStuck("r_restore")

(* RenameRollback::WhiteOutSource. *)
RenameWhiteout ==
    CreateWhiteout(call.path, "r_whiteout", "r_dest_whiteout", "r_back")

(* RenameRollback::MoveBack.  RemoveOpaque may leave the marker. *)
MoveBack(here, next, fail) ==
    /\ pc = here
    /\ \/ /\ UpperHasParent(call.path)
          /\ LET back == MoveTree(upper, call.dest, call.path)
             IN  \/ /\ call.undoMark
                    /\ Change([back EXCEPT !.opq = @ \ {call.path}], next)
                 \/ Change(back, next)
       \/ GotoStuck(fail)

RenameBack == MoveBack("r_back", "r_restore", "r_unwhite_new")

RenameUnwhiteNew == RemoveWhiteout(call.dest, "r_unwhite_new", "r_restore", "r_restore")

(* RenameRollback::RemoveDestinationWhiteoutOrUndo. *)
RenameDestWhiteout ==
    IF call.whiteout
      THEN RemoveWhiteout(call.dest, "r_dest_whiteout", "r_commit", "r_dest_back")
      ELSE pc = "r_dest_whiteout" /\ Goto("r_commit")

RenameDestBack == MoveBack("r_dest_back", "r_unwhite_old", "r_restore")

RenameUnwhiteOld == RemoveWhiteout(call.path, "r_unwhite_old", "r_restore", "r_restore")

(* RenameDestinationAside::Commit. *)
RenameCommit ==
    /\ pc = "r_commit"
    /\ pc' = "ok"
    /\ work' \in {EmptyLayer, work}
    /\ UNCHANGED <<upper, lowers, call, before>>

(* Faulty variant: the copy is deleted instead of moved back. *)
RenameRestore_Deletes ==
    /\ pc = "r_restore"
    /\ pc' = "failed"
    /\ work' = IF call.stuck THEN work ELSE EmptyLayer
    /\ UNCHANGED <<upper, lowers, call, before>>

(* RenameDestinationAside::Release after a failed undo, or the destructor. *)
(* The destructor deletes the copy when the upper has the destination      *)
(* again; without a second caller it never has.                            *)
RenameRestore ==
    /\ pc = "r_restore"
    /\ pc' = "failed"
    /\ UNCHANGED <<lowers, before>>
    /\ \/ /\ call.stuck \/ ~Holds(work, call.dest)
          /\ UNCHANGED <<upper, work, call>>
       \/ /\ ~call.stuck /\ Holds(work, call.dest)
          /\ upper' = Plant(upper, work, call.dest, call.dest)
          /\ work' = EmptyLayer
          /\ UNCHANGED call
       \/ /\ ~call.stuck /\ Holds(work, call.dest)
          /\ call' = [call EXCEPT !.stuck = TRUE]
          /\ UNCHANGED <<upper, work>>

(***************************************************************************)
(* The call returns, or the process stops in the middle of it.             *)
(***************************************************************************)

(* The overlay is idle again.  Entries left in the work directory have     *)
(* unique names, so no later call meets them.                              *)
Reset ==
    /\ pc' = "idle"
    /\ call' = NoCall
    /\ work' = EmptyLayer
    /\ before' = View(Stack)
    /\ UNCHANGED <<upper, lowers>>

Return == pc \in {"ok", "failed"} /\ Reset

(* The next mount opens the work directory: ResetStagingArea empties it. *)
Crash == pc \notin {"idle", "ok", "failed"} /\ Reset

Advance ==
    \/ CreateParent \/ CreateMake \/ CreateOpaque \/ CreateSettings
    \/ CreateWhiteoutGoes \/ CreateUndoOpaque \/ CreateUndoMake
    \/ DeleteOpaque \/ DeleteRemove \/ DeleteWhiteout
    \/ CopyUpParent \/ CopyUpCommit
    \/ MarkerWhiteout \/ MarkerOpaque
    \/ RenameAside \/ RenameParent \/ RenameCopyParent \/ RenameCopy
    \/ RenameMark \/ RenameMove \/ RenameBuild \/ RenameShadow
    \/ RenameUncopy \/ RenameWhiteout \/ RenameBack \/ RenameUnwhiteNew
    \/ RenameDestWhiteout \/ RenameDestBack \/ RenameUnwhiteOld
    \/ RenameCommit \/ RenameRestore
    \/ Return

Begin ==
    \/ \E p \in Path, k \in {"file", "dir"} : CreateCall(p, k)
    \/ \E p \in Path : DeleteCall(p)
    \/ \E p \in Path : CopyUpCall(p)
    \/ \E p \in Path, op \in {"whiteout", "opaque"} : MarkerCall(p, op)
    \/ \E p, q \in Path, replace \in BOOLEAN : RenameCall(p, q, replace)

Next == Begin \/ Advance \/ Crash

Spec == Init /\ [][Next]_vars

(* A call that runs takes its next step: the code never waits inside one.  *)
FairSpec == Spec /\ WF_vars(Advance)

(***************************************************************************)
(* Properties.                                                             *)
(***************************************************************************)

(* Every variable keeps its type. *)
TypeOK ==
    /\ upper \in Layer
    /\ lowers \in [1 .. NumLowers -> Layer]
    /\ work \in Layer
    /\ call \in Call
    /\ pc \in Step
    /\ before \in [Path -> Entry]

(* No sequence of steps, faults and crashes asks the file system for an    *)
(* entry or a marker file whose directory is not there (EnsureUpperParent, *)
(* EnsureDirectoryExists and the order of each undo).                      *)
UpperWellFormed == WellFormed(upper)

(* In the merged view, whatever the markers of the layers are, an entry    *)
(* has a directory above it: the lookup of a path and the lookup of the    *)
(* directory above it agree (ResolvePathInternal, FindInLowers).           *)
ViewIsTree ==
    \A p \in Path \ {Root} : Found(Shown(p)) => IsDirectory(Shown(Parent(p)))

(* The two algorithms that read the stack agree: a listing gives a name    *)
(* from a layer exactly when the lookup of that path finds it there        *)
(* (MergeDirectoryWithAncestry against ResolvePathInternal).               *)
ListingMatchesLookup ==
    \A p \in Path \ {Root}, s \in Slot :
        ListedFrom(Stack, s, p) <=> ResolvesTo(Stack, s, p)

(* Create over a whiteout: at no step, failed undo included, does the new  *)
(* directory show what lowers hold below it (CreateDirectoryInUpper makes  *)
(* the directory opaque before FinishCreatedEntry drops the whiteout).     *)
CreateShowsNothingBelow ==
    call.op = "create" => \A p \in Below(call.path) : ~Found(Shown(p))

(* A rename that fails, and whose undo did not fail too, leaves the view   *)
(* as it was.  A directory above the source may have been made anew by     *)
(* CreateWhiteout.                                                         *)
RenameUndone ==
    pc = "failed" /\ call.op = "rename" /\ ~call.stuck =>
        \A p \in Path :
            IF p \in Ancestors(call.path)
              THEN Shown(p).kind = before[p].kind
              ELSE Shown(p) = before[p]

(* A call returns, whatever fails: every loop of a call ends. *)
CallReturns == pc # "idle" ~> pc = "idle"

(***************************************************************************)
(* The overlay implements the namespace of module Namespace.               *)
(***************************************************************************)
AtRest == pc \in {"idle", "ok", "failed"}

N == INSTANCE Namespace WITH
        view    <- IF AtRest THEN View(Stack) ELSE before,
        request <- [op |-> call.op, path |-> call.path, dest |-> call.dest,
                    kind |-> call.kind],
        status  <- IF AtRest THEN pc ELSE "busy"

(* Each call, however many steps it takes and wherever it fails or stops,  *)
(* is one change of the merged view, and only of what it names.            *)
ImplementsNamespace == N!Spec
=============================================================================
