----------------------------- MODULE VhdLayers -----------------------------
(***************************************************************************)
(* VHD layers: the handle calls of AbiVhd.cpp, the virtual-disk operations  *)
(* of VHDLayerManager.cpp behind them, and the layer registry of            *)
(* Manifest.cpp with its cross-process lock.                                *)
(*                                                                          *)
(* The operating system's side is external and modelled from how the code   *)
(* uses it: a virtual disk file takes one open handle at a time; an attach  *)
(* is permanent, or scoped to the handle it was made with and gone when     *)
(* that handle closes; an attached disk can be detached by somebody else.   *)
(* One process makes the calls on handles; others use the registry too.     *)
(* Any of them may die at any step.                                         *)
(***************************************************************************)
EXTENDS Naturals, FiniteSets

CONSTANTS
    Threads,    \* threads of the process
    Others,     \* other processes that use the registry, one thread each
    Handles,    \* VhdHolder objects (a bound), each named by its handle
    Capacity,   \* slots of the VHD handle table
    Files,      \* paths of virtual disk files
    Layers,     \* layer ids in the registry
    None        \* no thread, handle or owner

ASSUME VhdLayersAssumption ==
    /\ None \notin Threads \cup Others \cup Handles \cup Files \cup Layers
    /\ Threads \cap (Handles \cup Others) = {} /\ Handles \cap Others = {}
    /\ Capacity \in Nat

VARIABLES
    exists,     \* the disk files that exist
    owner,      \* external: who has each file open (a handle's holder, a call)
    attach,     \* external: "none", "scoped" or "permanent" for each file
    holder,     \* VhdHolder of each handle: the file, the lifetime asked for, and
                \* whether open and attachedPhysicalPath are set
    live,       \* the handles the table resolves
    mutex,      \* stateMutex of each holder
    registry,   \* the layers in the registry file
    lock,       \* the registry's named mutex
    pc, loc,    \* the threads and the locals of their calls
    gone        \* history: the layers an unregister reported removed

disks == <<exists, owner, attach>>
handles == <<holder, live, mutex>>
reg == <<registry, lock, gone>>
vars == <<exists, owner, attach, holder, live, mutex, registry, lock, pc, loc, gone>>

Actors == Threads \cup Others
Lifetimes == {"scoped", "permanent"}
NoHolder == [file |-> None, lifetime |-> "scoped", open |-> FALSE, path |-> FALSE]
NoCall == [handle |-> None, file |-> None, read |-> {}, layer |-> None]

Init ==
    /\ exists \in SUBSET Files
    /\ owner = [f \in Files |-> None]
    /\ attach = [f \in Files |-> "none"]
    /\ holder = [h \in Handles |-> NoHolder]
    /\ live = {}
    /\ mutex = [h \in Handles |-> None]
    /\ registry = Layers
    /\ lock = None
    /\ pc = [t \in Actors |-> "idle"]
    /\ loc = [t \in Actors |-> NoCall]
    /\ gone = {}

Goto(t, where) == pc' = [pc EXCEPT ![t] = where]

Return(t) ==
    /\ Goto(t, "idle")
    /\ loc' = [loc EXCEPT ![t] = NoCall]

(* The calls that resolved h and are still inside it.                       *)
Inside(h, others) == {t \in others : loc[t].handle = h}

-----------------------------------------------------------------------------
(* The virtual disk service.                                                *)

(* OpenVirtualDisk with all access.                                         *)
Opens(f, who) ==
    /\ f \in exists /\ owner[f] = None
    /\ owner' = [owner EXCEPT ![f] = who]

(* The file's handle closes; a scoped attach goes with it.                  *)
Closed(f) ==
    /\ owner' = [owner EXCEPT ![f] = None]
    /\ attach' = [attach EXCEPT ![f] = IF @ = "scoped" THEN "none" ELSE @]

(* DetachVirtualDisk through an open handle, which closes after it.         *)
DetachedClosed(f) ==
    /\ owner' = [owner EXCEPT ![f] = None]
    /\ attach' = [attach EXCEPT ![f] = "none"]

(* Another program takes an attached disk offline.                          *)
DetachedElsewhere(f) ==
    /\ attach[f] # "none"
    /\ attach' = [attach EXCEPT ![f] = "none"]
    /\ UNCHANGED <<exists, owner, handles, reg, pc, loc>>

-----------------------------------------------------------------------------
(* Handles.                                                                 *)

(* The file of a new handle is made first; when the handle table is full    *)
(* the call fails and the file stays.                                       *)
Allocate(f, lifetime) ==
    IF Cardinality(live) < Capacity
      THEN \E h \in Handles :
              /\ holder[h].file = None
              /\ holder' = [holder EXCEPT ![h] =
                               [NoHolder EXCEPT !.file = f, !.lifetime = lifetime]]
              /\ live' = live \cup {h}
      ELSE UNCHANGED <<holder, live>>

VhdCreate(t, f, lifetime) ==
    /\ pc[t] = "idle" /\ f \notin exists
    /\ exists' = exists \cup {f}
    /\ Allocate(f, lifetime)
    /\ UNCHANGED <<owner, attach, mutex, reg, pc, loc>>

VhdOpen(t, f, lifetime) ==
    /\ pc[t] = "idle" /\ f \in exists
    /\ Allocate(f, lifetime)
    /\ UNCHANGED <<disks, mutex, reg, pc, loc>>

(* The holder goes when its handle is freed and the last call inside it     *)
(* returns; its open handle closes with it.                                 *)
Drop(t, h) ==
    IF h \in live' \/ Inside(h, Threads \ {t}) # {}
      THEN UNCHANGED <<holder, owner, attach>>
      ELSE /\ holder' = [holder EXCEPT ![h] = NoHolder]
           /\ IF holder[h].open THEN Closed(holder[h].file) ELSE UNCHANGED <<owner, attach>>

VhdClose(t, h) ==
    /\ pc[t] = "idle" /\ h \in live
    /\ live' = live \ {h}
    /\ Drop(t, h)
    /\ UNCHANGED <<exists, mutex, reg, pc, loc>>

(* Attach and Detach resolve the handle and wait for its state mutex.       *)
Call(t, h, where) ==
    /\ pc[t] = "idle" /\ h \in live
    /\ loc' = [loc EXCEPT ![t] = [NoCall EXCEPT !.handle = h, !.file = holder[h].file]]
    /\ Goto(t, where)
    /\ UNCHANGED <<disks, handles, reg>>

LockState(t, from, to) ==
    /\ pc[t] = from /\ mutex[loc[t].handle] = None
    /\ mutex' = [mutex EXCEPT ![loc[t].handle] = t]
    /\ Goto(t, to)
    /\ UNCHANGED <<disks, holder, live, reg, loc>>

(* The state mutex is released and the call's reference to the holder goes. *)
Leave(t) ==
    /\ pc[t] = "leave"
    /\ mutex' = [h \in Handles |-> IF mutex[h] = t THEN None ELSE mutex[h]]
    /\ UNCHANGED <<exists, live, reg>>
    /\ Drop(t, loc[t].handle)
    /\ Return(t)

(* LayerMountVhdAttach and VHDLayerManager::AttachVHD.  A cached physical   *)
(* path is handed out again; else the file is opened, attached and asked    *)
(* for its physical path, and a failure of the last step detaches again.    *)
AttachOpen(t) ==
    LET h == loc[t].handle IN
    /\ pc[t] = "attach"
    /\ \/ ~holder[h].path /\ Opens(loc[t].file, t) /\ Goto(t, "attaching")
       \/ Goto(t, "leave") /\ UNCHANGED owner
    /\ UNCHANGED <<exists, attach, handles, reg, loc>>

AttachDisk(t) ==
    LET f == loc[t].file IN
    /\ pc[t] = "attaching"
    /\ \/ /\ attach[f] = "none"
          /\ attach' = [attach EXCEPT ![f] = holder[loc[t].handle].lifetime]
          /\ Goto(t, "pathof")
          /\ UNCHANGED owner
       \/ Closed(f) /\ Goto(t, "leave")
    /\ UNCHANGED <<exists, handles, reg, loc>>

AttachKeep(t) ==
    LET h == loc[t].handle IN
    /\ pc[t] = "pathof"
    /\ holder' = [holder EXCEPT ![h].open = TRUE, ![h].path = TRUE]
    /\ owner' = [owner EXCEPT ![loc[t].file] = h]
    /\ Goto(t, "leave")
    /\ UNCHANGED <<exists, attach, live, mutex, reg, loc>>

AttachUndo(t) ==
    /\ pc[t] = "pathof"
    /\ DetachedClosed(loc[t].file) \/ Closed(loc[t].file)
    /\ Goto(t, "leave")
    /\ UNCHANGED <<exists, handles, reg, loc>>

(* Changed: the cached physical path outlives the detach.                   *)
DetachKeepsPath(t) ==
    LET h == loc[t].handle IN
    /\ pc[t] = "detach" /\ holder[h].open
    /\ DetachedClosed(loc[t].file)
    /\ holder' = [holder EXCEPT ![h].open = FALSE]
    /\ Goto(t, "leave")
    /\ UNCHANGED <<exists, live, mutex, reg, loc>>

(* LayerMountVhdDetach through the held handle.  Also when another program  *)
(* detached the disk first (ERROR_NOT_READY) the holder lets go of it.      *)
DetachHeld(t) ==
    LET h == loc[t].handle IN
    /\ pc[t] = "detach" /\ holder[h].open
    /\ DetachedClosed(loc[t].file)
    /\ holder' = [holder EXCEPT ![h].open = FALSE, ![h].path = FALSE]
    /\ Goto(t, "leave")
    /\ UNCHANGED <<exists, live, mutex, reg, loc>>

DetachFails(t) ==
    /\ pc[t] = "detach"
    /\ Goto(t, "leave")
    /\ UNCHANGED <<disks, handles, reg, loc>>

(* With nothing held, the disk is opened by path and a permanent attach     *)
(* that outlived its handle is taken offline.                               *)
DetachByPath(t) ==
    /\ pc[t] = "detach" /\ ~holder[loc[t].handle].open
    /\ Opens(loc[t].file, t)
    /\ Goto(t, "bypath")
    /\ UNCHANGED <<exists, attach, handles, reg, loc>>

DetachOpened(t) ==
    /\ pc[t] = "bypath"
    /\ DetachedClosed(loc[t].file) \/ Closed(loc[t].file)
    /\ Goto(t, "leave")
    /\ UNCHANGED <<exists, handles, reg, loc>>

(* LayerMountVhdMerge takes no state mutex; the open fails while anybody    *)
(* has the file open.                                                       *)
MergeOpen(t) ==
    /\ pc[t] = "merge"
    /\ \/ Opens(loc[t].file, t) /\ Goto(t, "merging")
       \/ UNCHANGED owner /\ Goto(t, "leave")
    /\ UNCHANGED <<exists, attach, handles, reg, loc>>

MergeDone(t) ==
    /\ pc[t] = "merging"
    /\ Closed(loc[t].file)
    /\ Goto(t, "leave")
    /\ UNCHANGED <<exists, handles, reg, loc>>

-----------------------------------------------------------------------------
(* ImportDirectory: a new file is made, attached for the call, filled, and  *)
(* detached; a failed step discards the file.  ExportToDirectory attaches   *)
(* an existing file for the call.  A removal fails while somebody has the   *)
(* file open.                                                               *)

Import(t, f) ==
    /\ pc[t] = "idle" /\ f \notin exists
    /\ exists' = exists \cup {f}
    /\ loc' = [loc EXCEPT ![t].file = f]
    /\ Goto(t, "import")
    /\ UNCHANGED <<owner, attach, handles, reg>>

Removed(f) ==
    exists' = IF owner[f] = None /\ attach[f] = "none" THEN exists \ {f} ELSE exists

ImportAttach(t) ==
    LET f == loc[t].file IN
    /\ pc[t] = "import"
    /\ \/ /\ attach[f] = "none"
          /\ Opens(f, t)
          /\ attach' = [attach EXCEPT ![f] = "scoped"]
          /\ Goto(t, "copy")
          /\ UNCHANGED exists
       \/ Goto(t, "remove") /\ UNCHANGED disks
    /\ UNCHANGED <<handles, reg, loc>>

ImportDone(t) ==
    /\ pc[t] = "copy"
    /\ DetachedClosed(loc[t].file)
    /\ Return(t)
    /\ UNCHANGED <<exists, handles, reg>>

DiscardVhd(t) ==
    /\ pc[t] = "copy"
    /\ DetachedClosed(loc[t].file)
    /\ Goto(t, "remove")
    /\ UNCHANGED <<exists, handles, reg, loc>>

ImportRemove(t) ==
    /\ pc[t] = "remove"
    /\ Removed(loc[t].file)
    /\ Return(t)
    /\ UNCHANGED <<owner, attach, handles, reg>>

Export(t, f) ==
    /\ pc[t] = "idle"
    /\ attach[f] = "none"
    /\ Opens(f, t)
    /\ attach' = [attach EXCEPT ![f] = "scoped"]
    /\ loc' = [loc EXCEPT ![t].file = f]
    /\ Goto(t, "export")
    /\ UNCHANGED <<exists, handles, reg>>

ExportDone(t) ==
    /\ pc[t] = "export"
    /\ DetachedClosed(loc[t].file)
    /\ Return(t)
    /\ UNCHANGED <<exists, handles, reg>>

-----------------------------------------------------------------------------
(* The registry: ListLayers and GetLayerMetadataJson (layer None), and      *)
(* UnregisterLayer.                                                         *)

Registry(t, layer) ==
    /\ pc[t] = "idle"
    /\ loc' = [loc EXCEPT ![t].layer = layer]
    /\ Goto(t, "lock")
    /\ UNCHANGED <<disks, handles, reg>>

(* Changed: the call goes on without the mutex.                             *)
LockNotAwaited(t) ==
    /\ pc[t] = "lock"
    /\ lock' = t
    /\ Goto(t, "load")
    /\ UNCHANGED <<disks, handles, registry, gone, loc>>

(* The wait ends with the mutex, also when its last owner died with it      *)
(* (WAIT_ABANDONED).                                                        *)
ManifestLock(t) ==
    /\ pc[t] = "lock" /\ lock = None
    /\ lock' = t
    /\ Goto(t, "load")
    /\ UNCHANGED <<disks, handles, registry, gone, loc>>

ManifestLockTimeout(t) ==
    /\ pc[t] = "lock" /\ lock # None
    /\ Return(t)
    /\ UNCHANGED <<disks, handles, reg>>

(* A registry that is missing or cannot be read ends the call.              *)
Load(t) ==
    /\ pc[t] = "load"
    /\ \/ /\ loc[t].layer \in registry
          /\ loc' = [loc EXCEPT ![t].read = registry]
          /\ Goto(t, "save")
       \/ Goto(t, "unlock") /\ UNCHANGED loc
    /\ UNCHANGED <<disks, handles, reg>>

(* Save writes a temporary file and moves it over the registry in one step; *)
(* a death before the move leaves the registry as it was.                   *)
Save(t) ==
    /\ pc[t] = "save"
    /\ registry' = loc[t].read \ {loc[t].layer}
    /\ gone' = gone \cup {loc[t].layer}
    /\ Goto(t, "unlock")
    /\ UNCHANGED <<disks, handles, lock, loc>>

SaveFails(t) ==
    /\ pc[t] = "save"
    /\ Goto(t, "unlock")
    /\ UNCHANGED <<disks, handles, reg, loc>>

Unlock(t) ==
    /\ pc[t] = "unlock"
    /\ lock' = IF lock = t THEN None ELSE lock
    /\ Return(t)
    /\ UNCHANGED <<disks, handles, registry, gone>>

-----------------------------------------------------------------------------
(* A process ends: its calls, handles, open files and mutexes go; what it   *)
(* attached for good stays attached.                                        *)
Dies(gang) ==
    /\ pc' = [t \in Actors |-> IF t \in gang THEN "idle" ELSE pc[t]]
    /\ loc' = [t \in Actors |-> IF t \in gang THEN NoCall ELSE loc[t]]
    /\ lock' = IF lock \in gang THEN None ELSE lock
    /\ UNCHANGED <<exists, registry, gone>>

ProcessDies ==
    /\ Dies(Threads)
    /\ owner' = [f \in Files |-> None]
    /\ attach' = [f \in Files |-> IF attach[f] = "scoped" THEN "none" ELSE attach[f]]
    /\ holder' = [h \in Handles |-> NoHolder]
    /\ live' = {}
    /\ mutex' = [h \in Handles |-> None]

OtherDies(o) == Dies({o}) /\ UNCHANGED <<owner, attach, handles>>

HandleCalls(t) ==
    \/ \E f \in Files, lifetime \in Lifetimes :
           VhdCreate(t, f, lifetime) \/ VhdOpen(t, f, lifetime)
    \/ \E h \in Handles :
           \/ VhdClose(t, h)
           \/ Call(t, h, "attach?") \/ Call(t, h, "detach?") \/ Call(t, h, "merge")

HandleSteps(t) ==
    \/ LockState(t, "attach?", "attach") \/ LockState(t, "detach?", "detach")
    \/ AttachOpen(t) \/ AttachDisk(t) \/ AttachKeep(t) \/ AttachUndo(t)
    \/ DetachHeld(t) \/ DetachFails(t) \/ DetachByPath(t) \/ DetachOpened(t)
    \/ MergeOpen(t) \/ MergeDone(t) \/ Leave(t)

WholeVolumeSteps(t) ==
    \/ \E f \in Files : Import(t, f) \/ Export(t, f)
    \/ ImportAttach(t) \/ ImportDone(t) \/ DiscardVhd(t) \/ ImportRemove(t)
    \/ ExportDone(t)

RegistrySteps(t) ==
    \/ \E layer \in Layers \cup {None} : Registry(t, layer)
    \/ ManifestLock(t) \/ ManifestLockTimeout(t) \/ Load(t)
    \/ Save(t) \/ SaveFails(t) \/ Unlock(t)

Next ==
    \/ \E t \in Threads : HandleCalls(t) \/ HandleSteps(t) \/ WholeVolumeSteps(t)
    \/ \E t \in Actors : RegistrySteps(t)
    \/ \E f \in Files : DetachedElsewhere(f)
    \/ ProcessDies
    \/ \E o \in Others : OtherDies(o)

Spec == Init /\ [][Next]_vars

-----------------------------------------------------------------------------
(* The calls that have a file open while they run.                          *)
Using(f) ==
    {t \in Threads : /\ loc[t].file = f
                     /\ pc[t] \in {"attaching", "pathof", "bypath", "merging", "copy",
                                   "export"}}

(* Who has a disk open is always known and is one: a call on its way, or    *)
(* the one holder whose physical path is cached.  So an attach scoped to a  *)
(* handle is owned until it ends, and no handle reports a physical path     *)
(* for a disk that another handle or an import has (VhdHolder's open and    *)
(* attachedPhysicalPath, AttachVHD, DetachVHD, LayerMountVhdClose).         *)
HolderOwnsDisk ==
    /\ \A h \in Handles :
          /\ holder[h].path = holder[h].open
          /\ holder[h].open => owner[holder[h].file] = h
          /\ holder[h].open => holder[h].file \in exists
    /\ \A f \in Files :
          /\ Using(f) # {} => Using(f) = {owner[f]}
          /\ owner[f] \in Handles => holder[owner[f]].open
          /\ owner[f] \in Actors => owner[f] \in Using(f)
          /\ attach[f] = "scoped" => owner[f] # None

(* A layer whose unregister reported it removed is not in the registry      *)
(* again, whatever other processes do at the same time or where they die:   *)
(* no update made under the registry's lock is lost, as long as all spell   *)
(* its path alike, since the lock's name is made from the text              *)
(* (ManifestLock, Manifest::Save, LayerMountVhdUnregisterLayer).            *)
RemovedStaysRemoved == registry \cap gone = {}
=============================================================================
