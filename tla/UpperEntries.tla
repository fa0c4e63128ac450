---------------------------- MODULE UpperEntries ----------------------------
(***************************************************************************)
(* Entries of the upper and of the work directory, and the sidecar store   *)
(* that keeps their records where the file system has no streams           *)
(* (impl/LayerPath.cpp, impl/MetadataStore.cpp, impl/SidecarMetadata.cpp). *)
(*                                                                         *)
(* A move of an entry is one rename on disk.  A record in a stream goes    *)
(* with it.  A record in the sidecar store is a file named after the path  *)
(* of its entry, so the move renames it too, entry by entry, and undoes    *)
(* everything when one of them is stuck.  A removal removes the entries    *)
(* first and their records then.                                           *)
(*                                                                         *)
(* A call is a list of phases, each with the steps of one function of the  *)
(* code and the steps that run when one of them fails.  This module has    *)
(* the steps that move and remove; StagedCopy has those that build.        *)
(***************************************************************************)
EXTENDS Integers, Sequences, FiniteSets, SequencesExt

CONSTANTS
    WorkNames,  \* the unique names that a call takes in the work directory
    MaxFaults   \* bound: how many host calls fail

VARIABLES
    host,       \* what the volume of the upper can do
    disk,       \* the entries on disk, by path
    side,       \* the files of the sidecar store: records and opaque markers
    pc, call,   \* where the call that runs is, and its locals
    faults,     \* how many host calls failed
    past        \* history: what earlier failures left behind: "left" (a stuck
                \* record that the code knows of), "lost" (one it does not),
                \* "litter" (a removal in the upper failed), "staged" (one in
                \* the work directory), "stopped" (the process stopped between
                \* a change on disk and that of its records)

diskVars == <<host, disk, side, pc, call, faults, past>>

(***************************************************************************)
(* Paths and partial functions.  A path is a sequence of names.            *)
(***************************************************************************)
InWork(p) == p[1] \in WorkNames

Below(p) == {q \in DOMAIN disk : IsPrefix(p, q)}

Rebase(q, from, to) == to \o SubSeq(q, Len(from) + 1, Len(q))

Without(f, S) == [q \in DOMAIN f \ S |-> f[q]]

(***************************************************************************)
(* The steps of a call.                                                    *)
(***************************************************************************)
Step(do, at, of) == [do |-> do, at |-> at, of |-> of]

Phase(steps, undo) == [steps |-> steps, undo |-> undo]

NoCall ==
    [kind |-> "none", from |-> <<>>, into |-> <<>>, todo |-> <<>>, undo |-> <<>>,
     rest |-> <<>>, failed |-> FALSE, blind |-> FALSE, hit |-> FALSE, next |-> 1, visits |-> <<>>, moved |-> <<>>,
     back |-> FALSE, err |-> FALSE, keys |-> {}]

Doing(do) == pc = "run" /\ call.todo # <<>> /\ Head(call.todo).do = do

At == Head(call.todo).at

(* The next step, with the locals of this one reset. *)
Advanced(c) ==
    [c EXCEPT !.todo = Tail(@), !.next = 1, !.visits = <<>>, !.moved = <<>>,
              !.back = FALSE, !.err = FALSE, !.keys = {}]

(* An early return with a failure: the caller cleans up. *)
Failed(c) ==
    [Advanced(c) EXCEPT !.todo = c.undo, !.undo = <<>>, !.rest = <<>>, !.failed = TRUE]

Hit(n) == faults + n <= MaxFaults /\ faults' = faults + n

Marked(c, n) == IF n = 0 THEN c ELSE [c EXCEPT !.hit = TRUE]

(* A host call of a step fails, and the function returns its error. *)
StepFails(steps) ==
    /\ pc = "run" /\ call.todo # <<>> /\ Head(call.todo).do \in steps
    /\ Hit(1)
    /\ call' = Marked(Failed(call), 1)
    /\ UNCHANGED <<host, disk, side, pc, past>>

NextPhase ==
    /\ pc = "run" /\ call.todo = <<>> /\ call.rest # <<>>
    /\ call' = [call EXCEPT !.todo = Head(call.rest).steps,
                            !.undo = Head(call.rest).undo,
                            !.rest = Tail(call.rest)]
    /\ UNCHANGED <<host, disk, side, pc, faults, past>>

(***************************************************************************)
(* The sidecar store.                                                      *)
(***************************************************************************)
(* A file moves over a file at the new name; without one, the file at the  *)
(* new name goes.                                                          *)
MoveRecordFile(f, from, to) ==
    IF from \in DOMAIN f THEN (to :> f[from]) @@ Without(f, {from})
    ELSE Without(f, {to})

(* A file of the store that another program holds cannot move. *)
CanStick(f, from, to) == {from, to} \cap DOMAIN f # {}

(* SidecarMetadata::Move: the record, then the opaque marker; when the     *)
(* marker is stuck the record moves back, and nobody looks whether it did. *)
SidecarMove(from, to) ==
    LET meta == MoveRecordFile(side.meta, from, to)
        both == [meta |-> meta, opaque |-> MoveRecordFile(side.opaque, from, to)]
        back == [side EXCEPT !.meta = MoveRecordFile(meta, to, from)]
        O(s, ok, lost, cost) == [side |-> s, ok |-> ok, lost |-> lost, cost |-> cost]
    IN  {O(both, TRUE, FALSE, 0)}
        \cup (IF CanStick(side.meta, from, to) THEN {O(side, FALSE, FALSE, 1)} ELSE {})
        \cup (IF CanStick(side.opaque, from, to) THEN {O(back, FALSE, FALSE, 1)} ELSE {})
        \cup (IF CanStick(side.opaque, from, to) /\ CanStick(meta, from, to)
              THEN {O([side EXCEPT !.meta = meta], FALSE, TRUE, 2)} ELSE {})

HasRecord(s, p) == p \in DOMAIN s.meta

RemoveRecord(s, keys) == [s EXCEPT !.meta = Without(@, keys)]

RemoveOpaque(s, keys) == [s EXCEPT !.opaque = Without(@, keys)]

(* RemoveRecordsOfReplacedEntry.  The removals may fail without notice. *)
RemoveRecordsOfReplacedEntry(s, from, to) ==
    IF HasRecord(s, from) THEN RemoveOpaque(RemoveRecord(s, {to}), {to})
                          ELSE RemoveOpaque(s, {to})

(* RemoveSidecarRecordsOfGoneEntries: of the listed keys, those without an *)
(* entry; `stuck` are the keys whose files another program holds.          *)
RemoveRecordsOfGone(s, keys, stuck) ==
    RemoveOpaque(RemoveRecord(s, keys \ stuck), keys \ stuck)

Keyed(keys) == keys \cap (DOMAIN side.meta \cup DOMAIN side.opaque)

(***************************************************************************)
(* MoveUpperEntry and MoveUpperEntryLeavingStuckRecords.                   *)
(***************************************************************************)
MoveStep(from, to, loose) ==
    [do |-> IF loose THEN "replace" ELSE "move", at |-> from, of |-> to]

To == Head(call.todo).of

Relocated(from, to) ==
    LET kept  == DOMAIN disk \ (Below(from) \cup Below(to))
        moved == {Rebase(q, from, to) : q \in Below(from)}
    IN  [q \in kept \cup moved |->
            IF q \in kept THEN disk[q] ELSE disk[Rebase(q, to, from)]]

(* ForEachMovedEntry: the old and the new path of the entry, then of those *)
(* below it, for an entry that is now at `here`.                           *)
MovedEntries(from, to, here) ==
    LET shorter(a, b) == Len(a[1]) < Len(b[1])
        visit(q)      == <<Rebase(q, here, from), Rebase(q, here, to)>>
    IN  SortSeq(FoldSet(LAMBDA q, walk : Append(walk, visit(q)), <<>>, Below(here)), shorter)

(* The rename on disk.  A move without replacement meets no entry at its   *)
(* new path.                                                               *)
MoveUpperEntryOnDisk ==
    /\ Doing("move") \/ Doing("replace")
    /\ At \in DOMAIN disk
    /\ Doing("replace") \/ To \notin DOMAIN disk
    /\ disk' = Relocated(At, To)
    /\ IF host.ads
         THEN call' = Advanced(call) /\ pc' = pc
         ELSE /\ call' = [call EXCEPT !.visits = MovedEntries(At, To, At)]
              /\ pc' = IF Doing("move") THEN "records" ELSE "stuck"
    /\ UNCHANGED <<host, side, faults, past>>

(* The next record of the walk, in MoveSidecarRecords. *)
MoveSidecarRecord ==
    /\ pc = "records" /\ call.visits # <<>>
    /\ \E o \in SidecarMove(Head(call.visits)[1], Head(call.visits)[2]) :
          /\ Hit(o.cost)
          /\ side' = o.side
          /\ past' = IF o.lost THEN past \cup {"lost"} ELSE past
          /\ IF o.ok
               THEN /\ call' = [call EXCEPT !.visits = Tail(@),
                                            !.moved = Append(@, Head(call.visits))]
                    /\ pc' = pc
               ELSE /\ call' = Marked([call EXCEPT !.visits = <<>>], 1)
                    /\ pc' = "entryback"
    /\ UNCHANGED <<host, disk>>

(* ForEachEntryBelow cannot list the moved directory, or lists a part of   *)
(* it; or IsDirectoryButNotLink cannot read it and takes it for a leaf.    *)
ListingFails ==
    /\ pc \in {"records", "stuck"}
    /\ call.visits # <<>> /\ Len(Head(call.visits)[2]) > Len(To)
    /\ Hit(1)
    /\ \/ /\ call' = Marked([call EXCEPT !.visits = <<>>, !.err = TRUE], 1)
          /\ pc' = IF pc = "records" THEN "entryback" ELSE pc
          /\ past' = past
       \/ /\ call' = Marked([call EXCEPT !.visits = <<>>], 1)
          /\ past' = past \cup {"lost"}
          /\ pc' = pc
    /\ UNCHANGED <<host, disk, side>>

RecordsMoved ==
    /\ pc = "records" /\ call.visits = <<>>
    /\ pc' = "run"
    /\ call' = Advanced(call)
    /\ UNCHANGED <<host, disk, side, faults, past>>

(* The undo: the entry moves back, without replacing, and then the records *)
(* that moved.  It follows a failure, so its own is not counted.           *)
MoveEntryBack ==
    /\ pc = "entryback"
    /\ \/ /\ disk' = Relocated(To, At)
          /\ call' = [call EXCEPT !.back = TRUE, !.err = FALSE]
       \/ /\ disk' = disk
          /\ call' = [call EXCEPT !.err = FALSE]
    /\ pc' = "recordsback"
    /\ UNCHANGED <<host, side, faults, past>>

MoveSidecarRecordBack ==
    /\ pc = "recordsback" /\ call.moved # <<>>
    /\ \E o \in SidecarMove(Last(call.moved)[2], Last(call.moved)[1]) :
          /\ Hit(o.cost)
          /\ side' = o.side
          /\ past' = IF o.lost THEN past \cup {"lost"} ELSE past
          /\ call' = [call EXCEPT !.moved = Front(@), !.err = @ \/ ~o.ok]
    /\ UNCHANGED <<host, disk, pc>>

(* The result of MoveUpperEntry: failed when the entry is back; else       *)
(* success, after a walk that leaves the stuck records when all the others *)
(* are back.                                                               *)
UndoDone ==
    /\ pc = "recordsback" /\ call.moved = <<>>
    /\ past' = IF call.err THEN past \cup {"left"} ELSE past
    /\ CASE call.back -> call' = Failed(call) /\ pc' = "run"
         [] ~call.back /\ call.err -> call' = Advanced(call) /\ pc' = "run"
         [] ~call.back /\ ~call.err ->
                /\ call' = [call EXCEPT !.visits = MovedEntries(At, To, To)]
                /\ pc' = "stuck"
    /\ UNCHANGED <<host, disk, side, faults>>

(* The next record in MoveSidecarRecordsLeavingStuckOnes. *)
MoveOrLeaveSidecarRecord ==
    /\ pc = "stuck" /\ call.visits # <<>>
    /\ LET from == Head(call.visits)[1]
           to   == Head(call.visits)[2]
       IN  \E o \in SidecarMove(from, to), litter \in BOOLEAN :
              LET after == IF o.ok \/ litter THEN o.side
                           ELSE RemoveRecordsOfReplacedEntry(o.side, from, to)
              IN  /\ litter => ~o.ok /\ RemoveRecordsOfReplacedEntry(o.side, from, to) # o.side
                  /\ Hit(o.cost + IF litter THEN 1 ELSE 0)
                  /\ side' = after
                  /\ past' = past \cup (IF o.lost THEN {"lost"} ELSE {})
                                  \cup (IF litter THEN {"litter"} ELSE {})
                  /\ call' = Marked([call EXCEPT !.visits = Tail(@), !.err = @ \/ ~o.ok],
                                    o.cost)
    /\ UNCHANGED <<host, disk, pc>>

StuckRecordsLeft ==
    /\ pc = "stuck" /\ call.visits = <<>>
    /\ past' = IF call.err THEN past \cup {"left"} ELSE past
    /\ pc' = "run"
    /\ call' = Advanced(call)
    /\ UNCHANGED <<host, disk, side, faults>>

(***************************************************************************)
(* Removal.  A tree goes leaf by leaf, and may stop at any of them.        *)
(***************************************************************************)
(* What may be left of the tree at p: it contains the directory of each    *)
(* entry that is left.                                                     *)
Remainders(p) ==
    {S \in SUBSET Below(p) :
        \A q \in S : \A r \in Below(p) : IsPrefix(r, q) => r \in S}

(* RemoveStagedEntry: the tree, and the records of what it deleted.  The   *)
(* caller drops its result.                                                *)
RemoveStagedEntry ==
    /\ Doing("remove")
    /\ \E S \in Remainders(At) :
          \E stuck \in SUBSET Keyed(Below(At) \ S) :
             /\ Hit(IF S # {} \/ stuck # {} THEN 1 ELSE 0)
             /\ disk' = Without(disk, Below(At) \ S)
             /\ side' = IF host.ads THEN side
                        ELSE RemoveRecordsOfGone(side, Below(At) \ S, stuck)
             /\ past' = IF S # {} \/ stuck # {} THEN past \cup {"staged"} ELSE past
    /\ call' = Advanced(call)
    /\ UNCHANGED <<host, pc>>

(* RemoveUpperEntryOfKind: the keys are listed first (a directory that     *)
(* cannot be listed gives its own key only), the entries go, and the       *)
(* records of those that are gone follow.                                  *)
RemoveUpperEntryOnDisk ==
    /\ Doing("delete")
    /\ \E S \in Remainders(At), listed \in BOOLEAN :
          /\ ~listed => Cardinality(Below(At)) > 1
          /\ Hit(IF S # {} \/ ~listed THEN 1 ELSE 0)
          /\ disk' = Without(disk, Below(At) \ S)
          /\ past' = IF (listed \/ host.ads) /\ (S = {} \/ ~call.failed)
                     THEN past ELSE past \cup {"litter"}
          /\ call' = Marked([call EXCEPT !.keys = IF listed THEN Below(At) ELSE {At},
                                         !.err = (S # {})],
                            IF S # {} THEN 1 ELSE 0)
    /\ pc' = "gone"
    /\ UNCHANGED <<host, side>>

(* Faulty variant: the records of every listed entry go. *)
RemoveRecordsOfGoneEntries_All ==
    /\ pc = "gone"
    /\ side' = IF host.ads THEN side ELSE RemoveRecordsOfGone(side, call.keys, {})
    /\ pc' = "run"
    /\ call' = IF call.err THEN Failed(call) ELSE Advanced(call)
    /\ UNCHANGED <<host, disk, faults, past>>

RemoveRecordsOfGoneEntries ==
    /\ pc = "gone"
    /\ LET gone == call.keys \ DOMAIN disk
       IN  \E stuck \in SUBSET Keyed(gone) :
              /\ Hit(IF stuck # {} THEN 1 ELSE 0)
              /\ past' = IF stuck # {} THEN past \cup {"litter"} ELSE past
              /\ side' = IF host.ads THEN side ELSE RemoveRecordsOfGone(side, gone, stuck)
    /\ pc' = "run"
    /\ call' = IF call.err THEN Failed(call) ELSE Advanced(call)
    /\ UNCHANGED <<host, disk>>

MoveOrRemove ==
    \/ MoveUpperEntryOnDisk \/ MoveSidecarRecord \/ ListingFails \/ RecordsMoved
    \/ MoveEntryBack \/ MoveSidecarRecordBack \/ UndoDone
    \/ MoveOrLeaveSidecarRecord \/ StuckRecordsLeft
    \/ RemoveStagedEntry \/ RemoveUpperEntryOnDisk \/ RemoveRecordsOfGoneEntries
    \/ NextPhase
=============================================================================
