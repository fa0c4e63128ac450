---------------------------- MODULE VhdTransfer ----------------------------
(***************************************************************************)
(* VHDLayerManager::ImportDirectory and ExportToDirectory inside: what      *)
(* happens between the attach and the detach of a VHD, which VhdLayers      *)
(* takes as one place ("copy", "export") of a call.  Every step of this     *)
(* module is a step of VhdLayers or leaves its state alone, so both run     *)
(* together: handles, other threads, other programs and the end of the      *)
(* process meet an import or export at any of its steps.                    *)
(*                                                                          *)
(* A directory or volume is the set of its root entries, each with all that *)
(* is below it.  Every export goes into one directory.  Disk management,    *)
(* the volume list and the mount manager are external: any step of theirs   *)
(* may fail, and none succeeds on a disk that is no longer attached.        *)
(***************************************************************************)
EXTENDS VhdLayers

CONSTANTS
    Source,     \* root entries of the directory that is imported
    Internals,  \* root entries that NTFS keeps on every volume
    Sidecar     \* the root entry that opens as .overlay

ASSUME VhdTransferAssumption ==
    /\ Sidecar \notin Internals
    /\ Internals # {} /\ Source \cap Internals = {}
    /\ None \notin Source \cup Internals

VARIABLES
    volume,     \* the root entries on each file's volume, {} without a volume
    walk,       \* the import or export of each thread: its step, the entries still
                \* to copy, the one an export is copying, and whether the result is
                \* an error by now
    mounts,     \* the threads whose call has its volume mounted under temp_mounts
    dest,       \* the entries that are whole in the directory exports go into
    broken,     \* history: the entries that an export stopped in the middle of
    imported,   \* history: the files whose import reported success
    exported    \* history: the entries that an export reported copied

transfer == <<volume, walk, mounts, dest, broken, imported, exported>>

directory == <<dest, broken, exported>>

NoWalk == [step |-> "none", todo |-> {}, entry |-> None, error |-> FALSE]

(* A root entry whose name opens as .overlay is not imported.               *)
ImportedRootEntries == Source \ {Sidecar}

(* The export leaves out NTFS's own entries and whatever would land in a    *)
(* .overlay of the destination.                                             *)
SkippedAtVolumeRoot(e) == e \in Internals \cup {Sidecar}

(* A disk found at the start was made elsewhere, with anything on it.       *)
TransferInit ==
    /\ Init
    /\ volume \in [Files -> {{}, Internals \cup Source}]
    /\ \A f \in Files \ exists : volume[f] = {}
    /\ walk = [t \in Threads |-> NoWalk]
    /\ mounts = {} /\ imported = {}
    /\ dest = {} /\ broken = {} /\ exported = {}

Step(t, where) == walk' = [walk EXCEPT ![t].step = where]

Failed(t, where) ==
    walk' = [walk EXCEPT ![t].step = where, ![t].entry = None, ![t].error = TRUE]

(* The entries that an export is in the middle of.                          *)
InHand(threads) == {walk[t].entry : t \in threads} \ {None}

(* The disk of t's call is attached still.                                  *)
Online(t) == attach[loc[t].file] = "scoped"

At(t, place, step) == pc[t] = place /\ walk[t].step = step

-----------------------------------------------------------------------------
(* The call's steps in VhdLayers, with what they do here.                   *)

ImportStart(t, f) ==
    /\ Import(t, f)
    /\ walk' = [walk EXCEPT ![t].todo = ImportedRootEntries]
    /\ UNCHANGED <<volume, mounts, imported, directory>>

ImportAttached(t) ==
    /\ ImportAttach(t)
    /\ Step(t, IF pc'[t] = "copy" THEN "initialize" ELSE "discard")
    /\ UNCHANGED <<volume, mounts, imported, directory>>

ExportStart(t, f) ==
    /\ Export(t, f)
    /\ Step(t, "mount")
    /\ UNCHANGED <<volume, mounts, imported, directory>>

(* A mount point that a call could not take away stays; no later call uses  *)
(* its directory.                                                           *)
Ends(t) ==
    /\ walk' = [walk EXCEPT ![t] = NoWalk]
    /\ mounts' = mounts \ {t}

ImportReturns(t) ==
    /\ walk[t].step = "detach"
    /\ ImportDone(t)
    /\ Ends(t)
    /\ imported' = IF walk[t].error THEN imported ELSE imported \cup {loc[t].file}
    /\ UNCHANGED <<volume, directory>>

Discards(t) ==
    /\ walk[t].step = "discard"
    /\ DiscardVhd(t)
    /\ UNCHANGED transfer

(* Somebody else who has the file open keeps it from being removed.         *)
DiscardReturns(t) ==
    LET f == loc[t].file IN
    /\ ImportRemove(t)
    /\ Ends(t)
    /\ volume' = [volume EXCEPT ![f] = IF f \in exists' THEN @ ELSE {}]
    /\ UNCHANGED <<imported, directory>>

ExportReturns(t) ==
    LET copied == {e \in volume[loc[t].file] : ~SkippedAtVolumeRoot(e)} IN
    /\ walk[t].step = "detach"
    /\ ExportDone(t)
    /\ Ends(t)
    /\ exported' = IF walk[t].error THEN exported ELSE exported \cup copied
    /\ UNCHANGED <<volume, imported, dest, broken>>

(* What the process had under way ends with it.                             *)
TransfersDie ==
    /\ ProcessDies
    /\ walk' = [t \in Threads |-> NoWalk]
    /\ mounts' = {}
    /\ broken' = broken \cup InHand(Threads)
    /\ UNCHANGED <<volume, imported, dest, exported>>

-----------------------------------------------------------------------------
(* InitializeVHD: one partition is laid out, the volume that the system     *)
(* makes for it is looked for, several times, and formatted.  When the disk *)
(* cannot be laid out, or no volume turns up, diskpart is tried instead; a  *)
(* disk too small for a partition, and any other failure, ends the import.  *)

InitializeVHD(t) ==
    /\ At(t, "copy", "initialize")
    /\ \/ Online(t) /\ Step(t, "find")
       \/ Step(t, "diskpart")
       \/ Failed(t, "discard")
    /\ UNCHANGED <<vars, volume, mounts, imported, directory>>

FindNewVolume(t) ==
    /\ At(t, "copy", "find")
    /\ \/ Online(t) /\ Step(t, "format")
       \/ Step(t, "diskpart")
       \/ Failed(t, "discard")
    /\ UNCHANGED <<vars, volume, mounts, imported, directory>>

(* A formatting that fails or takes too long leaves no volume to copy to.   *)
Formats(t) ==
    /\ \/ /\ Online(t)
          /\ volume' = [volume EXCEPT ![loc[t].file] = Internals]
          /\ Step(t, "mount")
       \/ UNCHANGED volume /\ Failed(t, "discard")
    /\ UNCHANGED <<vars, mounts, imported, directory>>

FormatVolume(t) == At(t, "copy", "format") /\ Formats(t)

InitializeVHDDiskpart(t) == At(t, "copy", "diskpart") /\ Formats(t)

-----------------------------------------------------------------------------
(* The volume is looked up by its disk and mounted on a directory of its    *)
(* own under temp_mounts.                                                   *)

GetVolumeGuidForPhysicalDisk(t) == Online(t) /\ volume[loc[t].file] # {}

Mount(t) ==
    /\ walk[t].step = "mount" /\ pc[t] \in {"copy", "export"}
    /\ \/ /\ GetVolumeGuidForPhysicalDisk(t)
          /\ mounts' = mounts \cup {t}
          /\ Step(t, IF pc[t] = "copy" THEN "copying" ELSE "list")
       \/ /\ UNCHANGED mounts
          /\ Failed(t, IF pc[t] = "copy" THEN "discard" ELSE "detach")
    /\ UNCHANGED <<vars, volume, imported, directory>>

(* The directory to mount on cannot be made: the exception leaves           *)
(* ImportDirectory past discardVhd, and the file stays.                     *)
MountThrows(t) ==
    /\ At(t, "copy", "mount")
    /\ GetVolumeGuidForPhysicalDisk(t)
    /\ Failed(t, "detach")
    /\ UNCHANGED <<vars, volume, mounts, imported, directory>>

(* Changed: the failure of an entry is not kept.                            *)
CopyRootEntryGoesOn(t, e) ==
    LET f == loc[t].file IN
    /\ At(t, "copy", "copying") /\ e \in walk[t].todo
    /\ \/ /\ Online(t)
          /\ volume' = [volume EXCEPT ![f] = @ \cup {e}]
          /\ walk' = [walk EXCEPT ![t].todo = @ \ {e}]
       \/ UNCHANGED volume /\ Step(t, "unmount")
    /\ UNCHANGED <<vars, mounts, imported, directory>>

(* The import stops at the first entry that cannot be copied whole; a part  *)
(* of it may be on the volume.                                              *)
CopyRootEntry(t, e) ==
    LET f == loc[t].file
        filled == [volume EXCEPT ![f] = @ \cup {e}]
    IN
    /\ At(t, "copy", "copying") /\ e \in walk[t].todo
    /\ \/ /\ Online(t)
          /\ volume' = filled
          /\ walk' = [walk EXCEPT ![t].todo = @ \ {e}]
       \/ volume' \in {volume, filled} /\ Failed(t, "unmount")
    /\ UNCHANGED <<vars, mounts, imported, directory>>

(* The export makes the destination and lists the volume's root.  When it   *)
(* cannot make it, the exception detaches on its way out, and unmounts if   *)
(* it can.                                                                  *)
ListVolume(t) ==
    /\ At(t, "export", "list")
    /\ \/ /\ Online(t)
          /\ walk' = [walk EXCEPT ![t].step = "copying", ![t].todo = volume[loc[t].file]]
          /\ UNCHANGED mounts
       \/ Failed(t, "unmount") /\ UNCHANGED mounts
       \/ Failed(t, "detach") /\ mounts' \in {mounts, mounts \ {t}}
    /\ UNCHANGED <<vars, volume, imported, directory>>

(* The loop over the volume's root takes its next entry.                    *)
NextRootEntry(t, e) ==
    /\ At(t, "export", "copying")
    /\ walk[t].entry = None /\ e \in walk[t].todo
    /\ IF SkippedAtVolumeRoot(e)
         THEN walk' = [walk EXCEPT ![t].todo = @ \ {e}] /\ UNCHANGED broken
         ELSE walk' = [walk EXCEPT ![t].entry = e] /\ broken' = broken \ {e}
    /\ UNCHANGED <<vars, volume, mounts, imported, dest, exported>>

Copying(t) == At(t, "export", "copying") /\ walk[t].entry # None

(* CopyTree overwrites the files that are in the destination, and           *)
(* CopySymlinkReplacing removes what is in the place of a link first, so an *)
(* entry that was whole is not while it is copied again.                    *)
CopyReplaces(t) ==
    /\ Copying(t)
    /\ dest' = dest \ {walk[t].entry}
    /\ UNCHANGED <<vars, volume, walk, mounts, imported, broken, exported>>

(* Changed: the loop goes on after an entry that failed.                    *)
CopyTreeGoesOn(t) ==
    LET e == walk[t].entry IN
    /\ Copying(t)
    /\ walk' = [walk EXCEPT ![t].entry = None, ![t].todo = @ \ {e}]
    /\ dest' \in {dest, dest \cup {e}}
    /\ UNCHANGED <<vars, volume, mounts, imported, broken, exported>>

(* The entry is copied.  It is whole in the destination unless another      *)
(* export is in the middle of it, or stopped there while this one was.      *)
CopyTree(t) ==
    LET e == walk[t].entry IN
    /\ Copying(t) /\ Online(t)
    /\ walk' = [walk EXCEPT ![t].entry = None, ![t].todo = @ \ {e}]
    /\ \/ dest' = dest \cup {e}
       \/ e \in broken \cup InHand(Threads \ {t}) /\ UNCHANGED dest
    /\ UNCHANGED <<vars, volume, mounts, imported, broken, exported>>

(* The export too stops at the first failure, and what it has copied and    *)
(* replaced by then stays so.                                               *)
CopyTreeFails(t) ==
    /\ Copying(t)
    /\ Failed(t, "unmount")
    /\ broken' = broken \cup {walk[t].entry}
    /\ UNCHANGED <<vars, volume, mounts, imported, dest, exported>>

(* The last entry is copied, or the next one of an export cannot be listed. *)
Copied(t) ==
    /\ walk[t].step = "copying" /\ walk[t].entry = None
    /\ \/ walk[t].todo = {} /\ Step(t, "unmount")
       \/ pc[t] = "export" /\ Failed(t, "unmount")
    /\ UNCHANGED <<vars, volume, mounts, imported, directory>>

AfterUnmount(t) == IF pc[t] = "copy" /\ walk[t].error THEN "discard" ELSE "detach"

(* Changed: a mount point that does not go away is no error.                *)
UnmountErrorLost(t) ==
    /\ walk[t].step = "unmount"
    /\ mounts' \in {mounts, mounts \ {t}}
    /\ Step(t, AfterUnmount(t))
    /\ UNCHANGED <<vars, volume, imported, directory>>

(* A mount point or a directory that does not go away is an error of the    *)
(* call, but only a failed copy discards the import's file.                 *)
Unmount(t) ==
    /\ walk[t].step = "unmount"
    /\ \/ mounts' = mounts \ {t} /\ Step(t, AfterUnmount(t))
       \/ mounts' \in {mounts, mounts \ {t}} /\ Failed(t, AfterUnmount(t))
    /\ UNCHANGED <<vars, volume, imported, directory>>

-----------------------------------------------------------------------------
TransferSteps(t) ==
    \/ \E f \in Files : ImportStart(t, f) \/ ExportStart(t, f)
    \/ ImportAttached(t) \/ ImportReturns(t) \/ Discards(t) \/ DiscardReturns(t)
    \/ ExportReturns(t)
    \/ InitializeVHD(t) \/ FindNewVolume(t) \/ FormatVolume(t) \/ InitializeVHDDiskpart(t)
    \/ Mount(t) \/ MountThrows(t) \/ ListVolume(t) \/ Copied(t) \/ Unmount(t)
    \/ CopyReplaces(t) \/ CopyTree(t) \/ CopyTreeFails(t)
    \/ \E e \in Source \cup Internals : CopyRootEntry(t, e) \/ NextRootEntry(t, e)

LayerSteps ==
    \/ \E t \in Threads : HandleCalls(t) \/ HandleSteps(t)
    \/ \E t \in Actors : RegistrySteps(t)
    \/ \E f \in Files : DetachedElsewhere(f)
    \/ \E o \in Others : OtherDies(o)

TransferNext ==
    \/ \E t \in Threads : TransferSteps(t)
    \/ LayerSteps /\ UNCHANGED transfer
    \/ TransfersDie

TransferSpec == TransferInit /\ [][TransferNext]_<<vars, transfer>>

-----------------------------------------------------------------------------
(* A file whose import reported success holds every entry of the directory  *)
(* except its sidecar, whatever failed on the way and whoever took the disk *)
(* offline (ImportDirectory, InitializeVHD, TempMount).                     *)
ImportedWhole ==
    \A f \in imported : f \in exists /\ volume[f] = Internals \cup ImportedRootEntries

(* What an export reported copied is whole in the destination from then on, *)
(* also when other exports overlap it, fail or die there: only an export    *)
(* that is at the same entry now, or stopped in the middle of it, takes it  *)
(* away again (ExportToDirectory, CopyTree, CopySymlinkReplacing).          *)
ExportedExactly == exported \subseteq dest \cup broken \cup InHand(Threads)

(* A call that is past its unmount, also on the way out of an exception,    *)
(* and has its volume mounted still does not report success (TempMount,     *)
(* ImportDirectory, ExportToDirectory).                                     *)
NothingLeftBehind ==
    \A t \in mounts :
        walk[t].step \in {"copying", "list", "unmount"} \/ walk[t].error
=============================================================================
