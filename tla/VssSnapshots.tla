---------------------------- MODULE VssSnapshots ----------------------------
(***************************************************************************)
(* Volume shadow copies: VSSManager.cpp and its calls in AbiVss.cpp.        *)
(*                                                                          *)
(* The shadow copy service is external and modelled from how the code uses  *)
(* it: any call on it may fail; a shadow copy made for a backup             *)
(* (non-persistent) goes some time after the IVssBackupComponents that made *)
(* it is released; a persistent one stays; other programs delete shadow     *)
(* copies too.  Ids are never used again, so Ids bounds the creations.      *)
(***************************************************************************)
EXTENDS Naturals, FiniteSets

CONSTANTS
    Threads,
    Ids,             \* the ids the service gives out
    HandleCapacity,  \* slots of the snapshot handle table
    None             \* no thread or id

ASSUME VssSnapshotsAssumption ==
    /\ None \notin Threads \cup Ids
    /\ HandleCapacity \in Nat

VARIABLES
    kind,       \* of each id: "unused", "temp" (non-persistent) or "persistent"
    shadows,    \* external: the shadow copies that exist
    fading,     \* external: those whose backup components are released
    tracked,    \* the keys of snapshots_
    receipts,   \* the ids with a live handle
    mutex,      \* mutex_ of the manager
    pc, loc,    \* the threads and the locals of their calls
    named,      \* history: the ids handed to a caller
    lost,       \* history: the ids whose deletion failed or whose maker died
    elsewhere   \* history: the ids another program deleted

service == <<kind, shadows, fading>>
manager == <<tracked, receipts, mutex>>
history == <<named, lost, elsewhere>>
vars == <<kind, shadows, fading, tracked, receipts, mutex, pc, loc, named, lost,
          elsewhere>>

(* id: the snapshot a create or delete is about; todo and failed: what a    *)
(* cleanup still has to delete and what it could not (its result is an      *)
(* error unless failed is empty); began: history, what it collected.        *)
NoCall == [id |-> None, todo |-> {}, failed |-> {}, began |-> {}]

Init ==
    /\ kind = [id \in Ids |-> "unused"]
    /\ shadows = {} /\ fading = {} /\ tracked = {} /\ receipts = {}
    /\ mutex = None
    /\ pc = [t \in Threads |-> "idle"]
    /\ loc = [t \in Threads |-> NoCall]
    /\ named = {} /\ lost = {} /\ elsewhere = {}

Goto(t, where) == pc' = [pc EXCEPT ![t] = where]

Return(t) ==
    /\ Goto(t, "idle")
    /\ loc' = [loc EXCEPT ![t] = NoCall]

-----------------------------------------------------------------------------
(* The service.                                                             *)

(* Releasing the backup components of some ids starts the end of the        *)
(* non-persistent shadow copies among them.                                 *)
Released(some) == fading' = fading \cup {id \in some \cap shadows' : kind[id] = "temp"}

Vanish(id) ==
    /\ id \in fading
    /\ shadows' = shadows \ {id} /\ fading' = fading \ {id}
    /\ UNCHANGED <<kind, manager, pc, loc, history>>

DeletedElsewhere(id) ==
    /\ id \in shadows
    /\ shadows' = shadows \ {id} /\ fading' = fading \ {id}
    /\ elsewhere' = elsewhere \cup {id}
    /\ UNCHANGED <<kind, manager, pc, loc, named, lost>>

-----------------------------------------------------------------------------
(* CreateSnapshot.                                                          *)

CreateSnapshot(t) ==
    /\ pc[t] = "idle" /\ mutex = None
    /\ mutex' = t
    /\ Goto(t, "create")
    /\ UNCHANGED <<service, tracked, receipts, loc, history>>

(* Up to DoSnapshotSet a failure leaves nothing behind.                     *)
CreateFails(t) ==
    /\ pc[t] = "create"
    /\ mutex' = None
    /\ Return(t)
    /\ UNCHANGED <<service, tracked, receipts, history>>

DoSnapshotSet(t, id, k) ==
    /\ pc[t] = "create" /\ kind[id] = "unused"
    /\ kind' = [kind EXCEPT ![id] = k]
    /\ shadows' = shadows \cup {id}
    /\ loc' = [loc EXCEPT ![t].id = id]
    /\ Goto(t, "properties")
    /\ UNCHANGED <<fading, manager, history>>

(* Changed: the failed create releases the backup components and deletes    *)
(* nothing.                                                                 *)
JustReleased(t) ==
    LET id == loc[t].id IN
    /\ pc[t] = "properties"
    /\ UNCHANGED <<shadows, lost>> /\ Released({id})
    /\ mutex' = None
    /\ Return(t)
    /\ UNCHANGED <<kind, tracked, receipts, named, elsewhere>>

(* GetSnapshotProperties failed: the shadow copy is deleted, best effort,   *)
(* and the backup components are released.                                  *)
PropertiesFail(t) ==
    LET id == loc[t].id IN
    /\ pc[t] = "properties"
    /\ \/ shadows' = shadows \ {id} /\ UNCHANGED lost
       \/ UNCHANGED shadows /\ lost' = lost \cup {id}
    /\ Released({id})
    /\ mutex' = None
    /\ Return(t)
    /\ UNCHANGED <<kind, tracked, receipts, named, elsewhere>>

(* Changed: the backup components are released at the end of the create.    *)
TrackReleased(t) ==
    /\ pc[t] = "properties"
    /\ UNCHANGED shadows /\ Released({loc[t].id})
    /\ tracked' = tracked \cup {loc[t].id}
    /\ mutex' = None
    /\ Goto(t, "allocate")
    /\ UNCHANGED <<kind, receipts, loc, history>>

(* The snapshot is kept in snapshots_, a non-persistent one together with   *)
(* its backup components.                                                   *)
Track(t) ==
    /\ pc[t] = "properties"
    /\ tracked' = tracked \cup {loc[t].id}
    /\ mutex' = None
    /\ Goto(t, "allocate")
    /\ UNCHANGED <<service, receipts, loc, history>>

(* The receipt handle; with the table full the snapshot is deleted again.   *)
Allocate(t) ==
    /\ pc[t] = "allocate"
    /\ IF Cardinality(receipts) < HandleCapacity
         THEN /\ receipts' = receipts \cup {loc[t].id}
              /\ named' = named \cup {loc[t].id}
              /\ Return(t)
         ELSE Goto(t, "delete") /\ UNCHANGED <<receipts, named, loc>>
    /\ UNCHANGED <<service, tracked, mutex, lost, elsewhere>>

CloseSnapshot(t, id) ==
    /\ pc[t] = "idle" /\ id \in receipts
    /\ receipts' = receipts \ {id}
    /\ UNCHANGED <<service, tracked, mutex, pc, loc, history>>

-----------------------------------------------------------------------------
(* DeleteSnapshot: under the mutex the shadow copy is deleted first; only   *)
(* then its entry goes, and with it the backup components.  An id that is   *)
(* not tracked is deleted too.  The service refuses an id it does not have. *)

DeleteShadow(id) ==
    /\ id \in shadows
    /\ shadows' = shadows \ {id} /\ fading' = fading \ {id}
    /\ tracked' = tracked \ {id}
    /\ UNCHANGED lost

DeleteFails(id) ==
    /\ UNCHANGED <<shadows, fading, tracked>>
    /\ lost' = lost \cup {id}

DeleteSnapshot(t, id) ==
    /\ pc[t] = "idle" /\ kind[id] # "unused"
    /\ loc' = [loc EXCEPT ![t].id = id]
    /\ Goto(t, "delete")
    /\ UNCHANGED <<service, manager, history>>

Delete(t) ==
    /\ pc[t] = "delete" /\ mutex = None
    /\ DeleteShadow(loc[t].id) \/ DeleteFails(loc[t].id)
    /\ Return(t)
    /\ UNCHANGED <<kind, receipts, mutex, named, elsewhere>>

-----------------------------------------------------------------------------
(* CleanupNonPersistent: the ids are collected under the mutex, then each   *)
(* is deleted under it; a failure is remembered and the loop goes on.       *)

CleanupNonPersistent(t) ==
    LET temp == {id \in tracked : kind[id] = "temp"} IN
    /\ pc[t] = "idle" /\ mutex = None
    /\ loc' = [loc EXCEPT ![t].todo = temp, ![t].began = temp]
    /\ Goto(t, "cleanup")
    /\ UNCHANGED <<service, manager, history>>

(* Changed: the loop ends at the first failure.                             *)
CleanupStopsEarly(t, id) ==
    /\ pc[t] = "cleanup" /\ mutex = None /\ id \in loc[t].todo
    /\ \/ /\ DeleteShadow(id)
          /\ loc' = [loc EXCEPT ![t].todo = @ \ {id}]
       \/ /\ DeleteFails(id)
          /\ loc' = [loc EXCEPT ![t].todo = {}, ![t].failed = @ \cup {id}]
    /\ UNCHANGED <<kind, receipts, mutex, pc, named, elsewhere>>

CleanupOne(t, id) ==
    /\ pc[t] = "cleanup" /\ mutex = None /\ id \in loc[t].todo
    /\ \/ /\ DeleteShadow(id)
          /\ loc' = [loc EXCEPT ![t].todo = @ \ {id}]
       \/ /\ DeleteFails(id)
          /\ loc' = [loc EXCEPT ![t].todo = @ \ {id}, ![t].failed = @ \cup {id}]
    /\ UNCHANGED <<kind, receipts, mutex, pc, named, elsewhere>>

CleanupReturns(t) ==
    /\ pc[t] = "cleanup" /\ loc[t].todo = {}
    /\ Return(t)
    /\ UNCHANGED <<service, manager, history>>

-----------------------------------------------------------------------------
(* The manager goes with its mount, which a call inside it keeps: the held  *)
(* backup components are released.                                          *)
ManagerDestroyed ==
    /\ \A t \in Threads : pc[t] = "idle"
    /\ tracked # {}
    /\ tracked' = {}
    /\ UNCHANGED <<kind, shadows, receipts, mutex, pc, loc, history>>
    /\ Released(tracked)

(* The process dies; the service releases what it held.  A persistent       *)
(* shadow copy whose id had not been handed out has lost its maker.         *)
Crash ==
    /\ tracked' = {} /\ receipts' = {} /\ mutex' = None
    /\ pc' = [t \in Threads |-> "idle"]
    /\ loc' = [t \in Threads |-> NoCall]
    /\ UNCHANGED <<kind, shadows, named, elsewhere>>
    /\ Released(shadows)
    /\ lost' = lost \cup {loc[t].id : t \in {u \in Threads :
                                  pc[u] \in {"properties", "allocate", "delete"}}}

Next ==
    \/ \E t \in Threads :
          \/ CreateSnapshot(t) \/ CreateFails(t) \/ PropertiesFail(t) \/ Track(t)
          \/ Allocate(t) \/ Delete(t) \/ CleanupNonPersistent(t) \/ CleanupReturns(t)
          \/ \E id \in Ids :
                \/ \E k \in {"temp", "persistent"} : DoSnapshotSet(t, id, k)
                \/ CloseSnapshot(t, id) \/ DeleteSnapshot(t, id)
                \/ CleanupOne(t, id)
    \/ \E id \in Ids : Vanish(id) \/ DeletedElsewhere(id)
    \/ ManagerDestroyed \/ Crash

Spec == Init /\ [][Next]_vars

-----------------------------------------------------------------------------
(* The ids a create is still working on.                                    *)
Making == {loc[t].id : t \in {u \in Threads :
                                 pc[u] \in {"properties", "allocate", "delete"}}}

(* No shadow copy is forgotten.  One that exists is on its way out, in a    *)
(* create or delete under way, or, when persistent, known to a caller, and, *)
(* when not, held by the manager, unless its deletion failed or the process *)
(* died while making it (the roll-backs of CreateSnapshot and               *)
(* LayerMountVssCreateSnapshot, DeleteSnapshot, ~VSSManager).               *)
ShadowsAccounted ==
    \A id \in shadows :
        \/ id \in fading \cup Making
        \/ kind[id] = "persistent" /\ id \in named \cup lost
        \/ kind[id] = "temp" /\ id \in tracked

(* An entry of snapshots_ stands for a shadow copy that is there and is not *)
(* on its way out, unless another program deleted it: so a tracked snapshot *)
(* stays usable, and one whose deletion failed stays tracked for a retry    *)
(* (CreateSnapshot, DeleteSnapshot, CleanupNonPersistent).                  *)
TrackedAlive == \A id \in tracked : id \in (shadows \ fading) \cup elsewhere

(* One snapshot that cannot be deleted strands no other, and the result of  *)
(* a cleanup is true: what it collected and is still there is to be tried   *)
(* yet or is a failure it reports, and stays tracked for the next cleanup   *)
(* (CleanupNonPersistent, also when other calls delete the same ids).       *)
CleanupTruthful ==
    \A t \in Threads :
        loc[t].began \cap shadows \subseteq (loc[t].todo \cup loc[t].failed) \cap tracked
=============================================================================
