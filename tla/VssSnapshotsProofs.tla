------------------------- MODULE VssSnapshotsProofs -------------------------
(***************************************************************************)
(* Proofs about VssSnapshots, for any threads, ids and handle capacity.     *)
(*                                                                          *)
(* The three properties are not inductive.  The thread that makes a         *)
(* snapshot holds the mutex until it is tracked (MakerInv), so no delete    *)
(* comes between; from then on a non-persistent shadow copy is tracked or   *)
(* fading (TempInv) and a persistent one is known, or its call still under  *)
(* way (PersistentInv).                                                     *)
(***************************************************************************)
EXTENDS VssSnapshots, TLAPS

Kinds == {"unused", "temp", "persistent"}
Places == {"idle", "create", "properties", "allocate", "delete", "cleanup"}

TypeInv ==
    /\ kind \in [Ids -> Kinds]
    /\ shadows \subseteq Ids /\ fading \subseteq shadows /\ tracked \subseteq Ids
    /\ mutex \in Threads \cup {None}
    /\ pc \in [Threads -> Places]
    /\ loc \in [Threads -> [id : Ids \cup {None}, todo : SUBSET Ids, failed : SUBSET Ids,
                           began : SUBSET Ids]]

(* Only ids that were given out are in use.                                 *)
UsedInv ==
    /\ \A id \in Ids : kind[id] = "unused" => id \notin shadows \cup elsewhere
    /\ shadows \cap elsewhere = {}
    /\ \A t \in Threads : /\ \A id \in loc[t].began : kind[id] # "unused"
                          /\ pc[t] # "cleanup" => loc[t].began = {}
                          /\ pc[t] = "delete" => loc[t].id \in Ids

MakerInv ==
    \A t \in Threads :
        /\ pc[t] \in {"create", "properties"} => mutex = t
        /\ pc[t] \in {"properties", "allocate"} =>
              loc[t].id \in Ids /\ kind[loc[t].id] # "unused"
        /\ pc[t] = "properties" => /\ loc[t].id \in (shadows \ fading) \cup elsewhere
                                  /\ loc[t].id \notin tracked

TempInv ==
    \A id \in shadows : kind[id] = "temp" =>
        \/ id \in fading \cup tracked
        \/ \E t \in Threads : pc[t] = "properties" /\ loc[t].id = id

PersistentInv ==
    \A id \in shadows : kind[id] = "persistent" =>
        \/ id \in named \cup lost
        \/ \E t \in Threads : /\ pc[t] \in {"properties", "allocate", "delete"}
                              /\ loc[t].id = id

IInv == /\ TypeInv /\ UsedInv /\ MakerInv /\ TempInv /\ PersistentInv
        /\ TrackedAlive /\ CleanupTruthful
-----------------------------------------------------------------------------
(* Steps: one lemma for each part of the invariant.                         *)

(* Types.                                                                   *)
LEMMA TypeInvStep ==
    ASSUME IInv, Next
    PROVE  TypeInv'
<1> USE VssSnapshotsAssumption DEF IInv, service, manager, history
<1>1. ASSUME NEW t \in Threads, CreateSnapshot(t) PROVE TypeInv'
  BY <1>1 DEF CreateSnapshot, Goto, TypeInv, UsedInv, MakerInv, Kinds, Places
<1>2. ASSUME NEW t \in Threads, CreateFails(t) PROVE TypeInv'
  BY <1>2 DEF CreateFails, Return, Goto, NoCall, TypeInv, UsedInv, MakerInv, Kinds, Places
<1>3. ASSUME NEW t \in Threads, PropertiesFail(t) PROVE TypeInv'
  BY <1>3 DEF PropertiesFail, Released, Return, Goto, NoCall, TypeInv, UsedInv, MakerInv,
     Kinds, Places
<1>4. ASSUME NEW t \in Threads, Track(t) PROVE TypeInv'
  BY <1>4 DEF Track, Goto, TypeInv, UsedInv, MakerInv, Kinds, Places
<1>5. ASSUME NEW t \in Threads, Allocate(t) PROVE TypeInv'
  <2>1. UNCHANGED <<kind, shadows, fading, tracked, mutex>> /\ pc[t] = "allocate"
    BY <1>5 DEF Allocate
  <2>2. Return(t) \/ (Goto(t, "delete") /\ UNCHANGED loc)
    BY <1>5 DEF Allocate
  <2>3. CASE Return(t)
    BY <2>1, <2>3 DEF Return, Goto, NoCall, TypeInv, UsedInv, MakerInv, Kinds, Places
  <2>4. CASE Goto(t, "delete") /\ UNCHANGED loc
    BY <2>1, <2>4 DEF Goto, TypeInv, UsedInv, MakerInv, Kinds, Places
  <2> QED BY <2>2, <2>3, <2>4
<1>6. ASSUME NEW t \in Threads, Delete(t) PROVE TypeInv'
  BY <1>6 DEF Delete, DeleteShadow, DeleteFails, Return, Goto, NoCall, TypeInv, UsedInv,
     MakerInv, Kinds, Places
<1>7. ASSUME NEW t \in Threads, CleanupNonPersistent(t) PROVE TypeInv'
  <2>1. PICK r : r = [loc[t] EXCEPT !.todo = {id \in tracked : kind[id] = "temp"},
                                     !.began = {id \in tracked : kind[id] = "temp"}]
    BY Zenon
  <2>2. r \in [id : Ids \cup {None}, todo : SUBSET Ids, failed : SUBSET Ids, began : SUBSET Ids]
    BY Zenon, <2>1 DEF TypeInv
  <2>3. loc' = [loc EXCEPT ![t] = r]
    BY Zenon, <1>7, <2>1 DEF CleanupNonPersistent, TypeInv
  <2>4. UNCHANGED <<kind, shadows, fading, tracked, mutex>> /\ pc' = [pc EXCEPT ![t] = "cleanup"]
    BY <1>7 DEF CleanupNonPersistent, Goto
  <2> QED BY <2>2, <2>3, <2>4 DEF TypeInv, Places
<1>8. ASSUME NEW t \in Threads, CleanupReturns(t) PROVE TypeInv'
  BY <1>8 DEF CleanupReturns, Return, Goto, NoCall, TypeInv, UsedInv, MakerInv, Kinds,
     Places
<1>9. ASSUME NEW t \in Threads, NEW id \in Ids, NEW k \in {"temp", "persistent"},
   DoSnapshotSet(t, id, k) PROVE TypeInv'
  BY <1>9 DEF DoSnapshotSet, Goto, TypeInv, UsedInv, MakerInv, Kinds, Places
<1>10. ASSUME NEW t \in Threads, NEW id \in Ids, CloseSnapshot(t, id) PROVE TypeInv'
  BY <1>10 DEF CloseSnapshot, TypeInv, UsedInv, MakerInv, Kinds, Places
<1>11. ASSUME NEW t \in Threads, NEW id \in Ids, DeleteSnapshot(t, id) PROVE TypeInv'
  BY <1>11 DEF DeleteSnapshot, Goto, TypeInv, UsedInv, MakerInv, Kinds, Places
<1>12. ASSUME NEW t \in Threads, NEW id \in Ids, CleanupOne(t, id) PROVE TypeInv'
  BY <1>12 DEF CleanupOne, DeleteShadow, DeleteFails, TypeInv, UsedInv, MakerInv, Kinds,
     Places
<1>13. ASSUME NEW id \in Ids, Vanish(id) PROVE TypeInv'
  BY <1>13 DEF Vanish, TypeInv, UsedInv, MakerInv, Kinds, Places
<1>14. ASSUME NEW id \in Ids, DeletedElsewhere(id) PROVE TypeInv'
  BY <1>14 DEF DeletedElsewhere, TypeInv, UsedInv, MakerInv, Kinds, Places
<1>15. CASE ManagerDestroyed
  BY <1>15 DEF ManagerDestroyed, Released, TypeInv, UsedInv, MakerInv, Kinds, Places
<1>16. CASE Crash
  BY <1>16 DEF Crash, Released, NoCall, TypeInv, UsedInv, MakerInv, Kinds, Places
<1> QED BY <1>1, <1>2, <1>3, <1>4, <1>5, <1>6, <1>7, <1>8, <1>9, <1>10, <1>11, <1>12,
   <1>13, <1>14, <1>15, <1>16 DEF Next

(* Ids in use were given out.                                               *)
LEMMA UsedInvStep ==
    ASSUME IInv, Next
    PROVE  UsedInv'
<1> USE VssSnapshotsAssumption DEF IInv, service, manager, history
<1>1. ASSUME NEW t \in Threads, CreateSnapshot(t) PROVE UsedInv'
  BY <1>1 DEF CreateSnapshot, Goto, TypeInv, UsedInv, MakerInv
<1>2. ASSUME NEW t \in Threads, CreateFails(t) PROVE UsedInv'
  BY <1>2 DEF CreateFails, Return, Goto, NoCall, TypeInv, UsedInv, MakerInv
<1>3. ASSUME NEW t \in Threads, PropertiesFail(t) PROVE UsedInv'
  BY <1>3 DEF PropertiesFail, Released, Return, Goto, NoCall, TypeInv, UsedInv, MakerInv
<1>4. ASSUME NEW t \in Threads, Track(t) PROVE UsedInv'
  BY <1>4 DEF Track, Goto, TypeInv, UsedInv, MakerInv
<1>5. ASSUME NEW t \in Threads, Allocate(t) PROVE UsedInv'
  BY <1>5 DEF Allocate, Return, Goto, NoCall, TypeInv, UsedInv, MakerInv
<1>6. ASSUME NEW t \in Threads, Delete(t) PROVE UsedInv'
  BY <1>6 DEF Delete, DeleteShadow, DeleteFails, Return, Goto, NoCall, TypeInv, UsedInv,
     MakerInv
<1>7. ASSUME NEW t \in Threads, CleanupNonPersistent(t) PROVE UsedInv'
  BY <1>7 DEF CleanupNonPersistent, Goto, TypeInv, UsedInv, MakerInv
<1>8. ASSUME NEW t \in Threads, CleanupReturns(t) PROVE UsedInv'
  BY <1>8 DEF CleanupReturns, Return, Goto, NoCall, TypeInv, UsedInv, MakerInv
<1>9. ASSUME NEW t \in Threads, NEW id \in Ids, NEW k \in {"temp", "persistent"},
   DoSnapshotSet(t, id, k) PROVE UsedInv'
  BY <1>9 DEF DoSnapshotSet, Goto, TypeInv, UsedInv, MakerInv
<1>10. ASSUME NEW t \in Threads, NEW id \in Ids, CloseSnapshot(t, id) PROVE UsedInv'
  BY <1>10 DEF CloseSnapshot, TypeInv, UsedInv, MakerInv
<1>11. ASSUME NEW t \in Threads, NEW id \in Ids, DeleteSnapshot(t, id) PROVE UsedInv'
  BY <1>11 DEF DeleteSnapshot, Goto, TypeInv, UsedInv, MakerInv
<1>12. ASSUME NEW t \in Threads, NEW id \in Ids, CleanupOne(t, id) PROVE UsedInv'
  BY <1>12 DEF CleanupOne, DeleteShadow, DeleteFails, TypeInv, UsedInv, MakerInv
<1>13. ASSUME NEW id \in Ids, Vanish(id) PROVE UsedInv'
  BY <1>13 DEF Vanish, TypeInv, UsedInv, MakerInv
<1>14. ASSUME NEW id \in Ids, DeletedElsewhere(id) PROVE UsedInv'
  BY <1>14 DEF DeletedElsewhere, TypeInv, UsedInv, MakerInv
<1>15. CASE ManagerDestroyed
  BY <1>15 DEF ManagerDestroyed, Released, TypeInv, UsedInv, MakerInv
<1>16. CASE Crash
  BY <1>16 DEF Crash, Released, NoCall, TypeInv, UsedInv, MakerInv
<1> QED BY <1>1, <1>2, <1>3, <1>4, <1>5, <1>6, <1>7, <1>8, <1>9, <1>10, <1>11, <1>12,
   <1>13, <1>14, <1>15, <1>16 DEF Next

(* The maker of a snapshot holds the mutex, and its snapshot is there.      *)
LEMMA MakerInvStep ==
    ASSUME IInv, Next
    PROVE  MakerInv'
<1> USE VssSnapshotsAssumption DEF IInv, service, manager, history
<1>1. ASSUME NEW t \in Threads, CreateSnapshot(t) PROVE MakerInv'
  BY <1>1 DEF CreateSnapshot, Goto, TypeInv, UsedInv, MakerInv, TrackedAlive
<1>2. ASSUME NEW t \in Threads, CreateFails(t) PROVE MakerInv'
  BY <1>2 DEF CreateFails, Return, Goto, NoCall, TypeInv, UsedInv, MakerInv, TrackedAlive
<1>3. ASSUME NEW t \in Threads, PropertiesFail(t) PROVE MakerInv'
  BY <1>3 DEF PropertiesFail, Released, Return, Goto, NoCall, TypeInv, UsedInv, MakerInv,
     TrackedAlive
<1>4. ASSUME NEW t \in Threads, Track(t) PROVE MakerInv'
  BY <1>4 DEF Track, Goto, TypeInv, UsedInv, MakerInv, TrackedAlive
<1>5. ASSUME NEW t \in Threads, Allocate(t) PROVE MakerInv'
  BY <1>5 DEF Allocate, Return, Goto, NoCall, TypeInv, UsedInv, MakerInv, TrackedAlive
<1>6. ASSUME NEW t \in Threads, Delete(t) PROVE MakerInv'
  BY <1>6 DEF Delete, DeleteShadow, DeleteFails, Return, Goto, NoCall, TypeInv, UsedInv,
     MakerInv, TrackedAlive
<1>7. ASSUME NEW t \in Threads, CleanupNonPersistent(t) PROVE MakerInv'
  BY <1>7 DEF CleanupNonPersistent, Goto, TypeInv, UsedInv, MakerInv, TrackedAlive
<1>8. ASSUME NEW t \in Threads, CleanupReturns(t) PROVE MakerInv'
  BY <1>8 DEF CleanupReturns, Return, Goto, NoCall, TypeInv, UsedInv, MakerInv,
     TrackedAlive
<1>9. ASSUME NEW t \in Threads, NEW id \in Ids, NEW k \in {"temp", "persistent"},
   DoSnapshotSet(t, id, k) PROVE MakerInv'
  BY <1>9 DEF DoSnapshotSet, Goto, TypeInv, UsedInv, MakerInv, TrackedAlive
<1>10. ASSUME NEW t \in Threads, NEW id \in Ids, CloseSnapshot(t, id) PROVE MakerInv'
  BY <1>10 DEF CloseSnapshot, TypeInv, UsedInv, MakerInv, TrackedAlive
<1>11. ASSUME NEW t \in Threads, NEW id \in Ids, DeleteSnapshot(t, id) PROVE MakerInv'
  BY <1>11 DEF DeleteSnapshot, Goto, TypeInv, UsedInv, MakerInv, TrackedAlive
<1>12. ASSUME NEW t \in Threads, NEW id \in Ids, CleanupOne(t, id) PROVE MakerInv'
  BY Zenon, <1>12 DEF CleanupOne, DeleteShadow, DeleteFails, TypeInv, UsedInv, MakerInv,
     TrackedAlive
<1>13. ASSUME NEW id \in Ids, Vanish(id) PROVE MakerInv'
  BY <1>13 DEF Vanish, TypeInv, UsedInv, MakerInv, TrackedAlive
<1>14. ASSUME NEW id \in Ids, DeletedElsewhere(id) PROVE MakerInv'
  BY <1>14 DEF DeletedElsewhere, TypeInv, UsedInv, MakerInv, TrackedAlive
<1>15. CASE ManagerDestroyed
  BY <1>15 DEF ManagerDestroyed, Released, TypeInv, UsedInv, MakerInv, TrackedAlive
<1>16. CASE Crash
  BY <1>16 DEF Crash, Released, NoCall, TypeInv, UsedInv, MakerInv, TrackedAlive
<1> QED BY <1>1, <1>2, <1>3, <1>4, <1>5, <1>6, <1>7, <1>8, <1>9, <1>10, <1>11, <1>12,
   <1>13, <1>14, <1>15, <1>16 DEF Next

(* Non-persistent shadow copies.                                            *)
LEMMA TempInvStep ==
    ASSUME IInv, Next
    PROVE  TempInv'
<1> USE VssSnapshotsAssumption DEF IInv, service, manager, history
<1>1. ASSUME NEW t \in Threads, CreateSnapshot(t) PROVE TempInv'
  BY <1>1 DEF CreateSnapshot, Goto, TypeInv, UsedInv, MakerInv, TempInv
<1>2. ASSUME NEW t \in Threads, CreateFails(t) PROVE TempInv'
  BY <1>2 DEF CreateFails, Return, Goto, NoCall, TypeInv, UsedInv, MakerInv, TempInv
<1>3. ASSUME NEW t \in Threads, PropertiesFail(t) PROVE TempInv'
  BY <1>3 DEF PropertiesFail, Released, Return, Goto, NoCall, TypeInv, UsedInv, MakerInv,
     TempInv
<1>4. ASSUME NEW t \in Threads, Track(t) PROVE TempInv'
  BY <1>4 DEF Track, Goto, TypeInv, UsedInv, MakerInv, TempInv
<1>5. ASSUME NEW t \in Threads, Allocate(t) PROVE TempInv'
  BY <1>5 DEF Allocate, Return, Goto, NoCall, TypeInv, UsedInv, MakerInv, TempInv
<1>6. ASSUME NEW t \in Threads, Delete(t) PROVE TempInv'
  BY <1>6 DEF Delete, DeleteShadow, DeleteFails, Return, Goto, NoCall, TypeInv, UsedInv,
     MakerInv, TempInv
<1>7. ASSUME NEW t \in Threads, CleanupNonPersistent(t) PROVE TempInv'
  BY <1>7 DEF CleanupNonPersistent, Goto, TypeInv, UsedInv, MakerInv, TempInv
<1>8. ASSUME NEW t \in Threads, CleanupReturns(t) PROVE TempInv'
  BY <1>8 DEF CleanupReturns, Return, Goto, NoCall, TypeInv, UsedInv, MakerInv, TempInv
<1>9. ASSUME NEW t \in Threads, NEW id \in Ids, NEW k \in {"temp", "persistent"},
   DoSnapshotSet(t, id, k) PROVE TempInv'
  BY <1>9 DEF DoSnapshotSet, Goto, TypeInv, UsedInv, MakerInv, TempInv
<1>10. ASSUME NEW t \in Threads, NEW id \in Ids, CloseSnapshot(t, id) PROVE TempInv'
  BY <1>10 DEF CloseSnapshot, TypeInv, UsedInv, MakerInv, TempInv
<1>11. ASSUME NEW t \in Threads, NEW id \in Ids, DeleteSnapshot(t, id) PROVE TempInv'
  BY <1>11 DEF DeleteSnapshot, Goto, TypeInv, UsedInv, MakerInv, TempInv
<1>12. ASSUME NEW t \in Threads, NEW id \in Ids, CleanupOne(t, id) PROVE TempInv'
  BY <1>12 DEF CleanupOne, DeleteShadow, DeleteFails, TypeInv, UsedInv, MakerInv, TempInv
<1>13. ASSUME NEW id \in Ids, Vanish(id) PROVE TempInv'
  BY <1>13 DEF Vanish, TypeInv, UsedInv, MakerInv, TempInv
<1>14. ASSUME NEW id \in Ids, DeletedElsewhere(id) PROVE TempInv'
  BY <1>14 DEF DeletedElsewhere, TypeInv, UsedInv, MakerInv, TempInv
<1>15. CASE ManagerDestroyed
  BY <1>15 DEF ManagerDestroyed, Released, TypeInv, UsedInv, MakerInv, TempInv
<1>16. CASE Crash
  BY <1>16 DEF Crash, Released, NoCall, TypeInv, UsedInv, MakerInv, TempInv
<1> QED BY <1>1, <1>2, <1>3, <1>4, <1>5, <1>6, <1>7, <1>8, <1>9, <1>10, <1>11, <1>12,
   <1>13, <1>14, <1>15, <1>16 DEF Next

(* Persistent shadow copies.                                                *)
LEMMA PersistentInvStep ==
    ASSUME IInv, Next
    PROVE  PersistentInv'
<1> USE VssSnapshotsAssumption DEF IInv, service, manager, history
<1>1. ASSUME NEW t \in Threads, CreateSnapshot(t) PROVE PersistentInv'
  BY <1>1 DEF CreateSnapshot, Goto, TypeInv, UsedInv, MakerInv, PersistentInv
<1>2. ASSUME NEW t \in Threads, CreateFails(t) PROVE PersistentInv'
  BY <1>2 DEF CreateFails, Return, Goto, NoCall, TypeInv, UsedInv, MakerInv, PersistentInv
<1>3. ASSUME NEW t \in Threads, PropertiesFail(t) PROVE PersistentInv'
  BY <1>3 DEF PropertiesFail, Released, Return, Goto, NoCall, TypeInv, UsedInv, MakerInv,
     PersistentInv
<1>4. ASSUME NEW t \in Threads, Track(t) PROVE PersistentInv'
  BY <1>4 DEF Track, Goto, TypeInv, UsedInv, MakerInv, PersistentInv
<1>5. ASSUME NEW t \in Threads, Allocate(t) PROVE PersistentInv'
  BY <1>5 DEF Allocate, Return, Goto, NoCall, TypeInv, UsedInv, MakerInv, PersistentInv
<1>6. ASSUME NEW t \in Threads, Delete(t) PROVE PersistentInv'
  BY <1>6 DEF Delete, DeleteShadow, DeleteFails, Return, Goto, NoCall, TypeInv, UsedInv,
     MakerInv, PersistentInv
<1>7. ASSUME NEW t \in Threads, CleanupNonPersistent(t) PROVE PersistentInv'
  BY Zenon, <1>7 DEF CleanupNonPersistent, Goto, TypeInv, UsedInv, MakerInv, PersistentInv
<1>8. ASSUME NEW t \in Threads, CleanupReturns(t) PROVE PersistentInv'
  BY <1>8 DEF CleanupReturns, Return, Goto, NoCall, TypeInv, UsedInv, MakerInv,
     PersistentInv
<1>9. ASSUME NEW t \in Threads, NEW id \in Ids, NEW k \in {"temp", "persistent"},
   DoSnapshotSet(t, id, k) PROVE PersistentInv'
  BY <1>9 DEF DoSnapshotSet, Goto, TypeInv, UsedInv, MakerInv, PersistentInv
<1>10. ASSUME NEW t \in Threads, NEW id \in Ids, CloseSnapshot(t, id) PROVE PersistentInv'
  BY <1>10 DEF CloseSnapshot, TypeInv, UsedInv, MakerInv, PersistentInv
<1>11. ASSUME NEW t \in Threads, NEW id \in Ids, DeleteSnapshot(t, id) PROVE
   PersistentInv'
  BY <1>11 DEF DeleteSnapshot, Goto, TypeInv, UsedInv, MakerInv, PersistentInv
<1>12. ASSUME NEW t \in Threads, NEW id \in Ids, CleanupOne(t, id) PROVE PersistentInv'
  BY <1>12 DEF CleanupOne, DeleteShadow, DeleteFails, TypeInv, UsedInv, MakerInv,
     PersistentInv
<1>13. ASSUME NEW id \in Ids, Vanish(id) PROVE PersistentInv'
  BY <1>13 DEF Vanish, TypeInv, UsedInv, MakerInv, PersistentInv
<1>14. ASSUME NEW id \in Ids, DeletedElsewhere(id) PROVE PersistentInv'
  BY <1>14 DEF DeletedElsewhere, TypeInv, UsedInv, MakerInv, PersistentInv
<1>15. CASE ManagerDestroyed
  BY <1>15 DEF ManagerDestroyed, Released, TypeInv, UsedInv, MakerInv, PersistentInv
<1>16. CASE Crash
  BY <1>16 DEF Crash, Released, NoCall, TypeInv, UsedInv, MakerInv, PersistentInv
<1> QED BY <1>1, <1>2, <1>3, <1>4, <1>5, <1>6, <1>7, <1>8, <1>9, <1>10, <1>11, <1>12,
   <1>13, <1>14, <1>15, <1>16 DEF Next

(* Tracked snapshots are there.                                             *)
LEMMA TrackedAliveStep ==
    ASSUME IInv, Next
    PROVE  TrackedAlive'
<1> USE VssSnapshotsAssumption DEF IInv, service, manager, history
<1>1. ASSUME NEW t \in Threads, CreateSnapshot(t) PROVE TrackedAlive'
  BY <1>1 DEF CreateSnapshot, Goto, TypeInv, UsedInv, MakerInv, TrackedAlive
<1>2. ASSUME NEW t \in Threads, CreateFails(t) PROVE TrackedAlive'
  BY <1>2 DEF CreateFails, Return, Goto, NoCall, TypeInv, UsedInv, MakerInv, TrackedAlive
<1>3. ASSUME NEW t \in Threads, PropertiesFail(t) PROVE TrackedAlive'
  BY <1>3 DEF PropertiesFail, Released, Return, Goto, NoCall, TypeInv, UsedInv, MakerInv,
     TrackedAlive
<1>4. ASSUME NEW t \in Threads, Track(t) PROVE TrackedAlive'
  BY <1>4 DEF Track, Goto, TypeInv, UsedInv, MakerInv, TrackedAlive
<1>5. ASSUME NEW t \in Threads, Allocate(t) PROVE TrackedAlive'
  BY <1>5 DEF Allocate, Return, Goto, NoCall, TypeInv, UsedInv, MakerInv, TrackedAlive
<1>6. ASSUME NEW t \in Threads, Delete(t) PROVE TrackedAlive'
  BY <1>6 DEF Delete, DeleteShadow, DeleteFails, Return, Goto, NoCall, TypeInv, UsedInv,
     MakerInv, TrackedAlive
<1>7. ASSUME NEW t \in Threads, CleanupNonPersistent(t) PROVE TrackedAlive'
  BY <1>7 DEF CleanupNonPersistent, Goto, TypeInv, UsedInv, MakerInv, TrackedAlive
<1>8. ASSUME NEW t \in Threads, CleanupReturns(t) PROVE TrackedAlive'
  BY <1>8 DEF CleanupReturns, Return, Goto, NoCall, TypeInv, UsedInv, MakerInv,
     TrackedAlive
<1>9. ASSUME NEW t \in Threads, NEW id \in Ids, NEW k \in {"temp", "persistent"},
   DoSnapshotSet(t, id, k) PROVE TrackedAlive'
  BY <1>9 DEF DoSnapshotSet, Goto, TypeInv, UsedInv, MakerInv, TrackedAlive
<1>10. ASSUME NEW t \in Threads, NEW id \in Ids, CloseSnapshot(t, id) PROVE TrackedAlive'
  BY <1>10 DEF CloseSnapshot, TypeInv, UsedInv, MakerInv, TrackedAlive
<1>11. ASSUME NEW t \in Threads, NEW id \in Ids, DeleteSnapshot(t, id) PROVE TrackedAlive'
  BY <1>11 DEF DeleteSnapshot, Goto, TypeInv, UsedInv, MakerInv, TrackedAlive
<1>12. ASSUME NEW t \in Threads, NEW id \in Ids, CleanupOne(t, id) PROVE TrackedAlive'
  BY <1>12 DEF CleanupOne, DeleteShadow, DeleteFails, TypeInv, UsedInv, MakerInv,
     TrackedAlive
<1>13. ASSUME NEW id \in Ids, Vanish(id) PROVE TrackedAlive'
  BY <1>13 DEF Vanish, TypeInv, UsedInv, MakerInv, TrackedAlive
<1>14. ASSUME NEW id \in Ids, DeletedElsewhere(id) PROVE TrackedAlive'
  BY <1>14 DEF DeletedElsewhere, TypeInv, UsedInv, MakerInv, TrackedAlive
<1>15. CASE ManagerDestroyed
  BY <1>15 DEF ManagerDestroyed, Released, TypeInv, UsedInv, MakerInv, TrackedAlive
<1>16. CASE Crash
  BY <1>16 DEF Crash, Released, NoCall, TypeInv, UsedInv, MakerInv, TrackedAlive
<1> QED BY <1>1, <1>2, <1>3, <1>4, <1>5, <1>6, <1>7, <1>8, <1>9, <1>10, <1>11, <1>12,
   <1>13, <1>14, <1>15, <1>16 DEF Next

(* Cleanups.                                                                *)
LEMMA CleanupTruthfulStep ==
    ASSUME IInv, Next
    PROVE  CleanupTruthful'
<1> USE VssSnapshotsAssumption DEF IInv, service, manager, history
<1>1. ASSUME NEW t \in Threads, CreateSnapshot(t) PROVE CleanupTruthful'
  BY <1>1 DEF CreateSnapshot, Goto, TypeInv, UsedInv, CleanupTruthful
<1>2. ASSUME NEW t \in Threads, CreateFails(t) PROVE CleanupTruthful'
  BY <1>2 DEF CreateFails, Return, Goto, NoCall, TypeInv, UsedInv, CleanupTruthful
<1>3. ASSUME NEW t \in Threads, PropertiesFail(t) PROVE CleanupTruthful'
  BY <1>3 DEF PropertiesFail, Released, Return, Goto, NoCall, TypeInv, UsedInv,
     CleanupTruthful
<1>4. ASSUME NEW t \in Threads, Track(t) PROVE CleanupTruthful'
  BY <1>4 DEF Track, Goto, TypeInv, UsedInv, CleanupTruthful
<1>5. ASSUME NEW t \in Threads, Allocate(t) PROVE CleanupTruthful'
  <2>1. UNCHANGED <<kind, shadows, fading, tracked, mutex>> /\ pc[t] = "allocate"
    BY <1>5 DEF Allocate
  <2>2. Return(t) \/ (Goto(t, "delete") /\ UNCHANGED loc)
    BY <1>5 DEF Allocate
  <2>3. CASE Return(t)
    BY <2>1, <2>3 DEF Return, Goto, NoCall, TypeInv, UsedInv, CleanupTruthful
  <2>4. CASE Goto(t, "delete") /\ UNCHANGED loc
    BY <2>1, <2>4 DEF Goto, TypeInv, UsedInv, CleanupTruthful
  <2> QED BY <2>2, <2>3, <2>4
<1>6. ASSUME NEW t \in Threads, Delete(t) PROVE CleanupTruthful'
  BY <1>6 DEF Delete, DeleteShadow, DeleteFails, Return, Goto, NoCall, TypeInv, UsedInv,
     CleanupTruthful
<1>7. ASSUME NEW t \in Threads, CleanupNonPersistent(t) PROVE CleanupTruthful'
  BY <1>7 DEF CleanupNonPersistent, Goto, TypeInv, UsedInv, CleanupTruthful
<1>8. ASSUME NEW t \in Threads, CleanupReturns(t) PROVE CleanupTruthful'
  BY <1>8 DEF CleanupReturns, Return, Goto, NoCall, TypeInv, UsedInv, CleanupTruthful
<1>9. ASSUME NEW t \in Threads, NEW id \in Ids, NEW k \in {"temp", "persistent"},
   DoSnapshotSet(t, id, k) PROVE CleanupTruthful'
  BY <1>9 DEF DoSnapshotSet, Goto, TypeInv, UsedInv, CleanupTruthful
<1>10. ASSUME NEW t \in Threads, NEW id \in Ids, CloseSnapshot(t, id) PROVE
   CleanupTruthful'
  BY <1>10 DEF CloseSnapshot, TypeInv, UsedInv, CleanupTruthful
<1>11. ASSUME NEW t \in Threads, NEW id \in Ids, DeleteSnapshot(t, id) PROVE
   CleanupTruthful'
  BY <1>11 DEF DeleteSnapshot, Goto, TypeInv, UsedInv, CleanupTruthful
<1>12. ASSUME NEW t \in Threads, NEW id \in Ids, CleanupOne(t, id) PROVE CleanupTruthful'
  BY <1>12 DEF CleanupOne, DeleteShadow, DeleteFails, TypeInv, UsedInv, CleanupTruthful
<1>13. ASSUME NEW id \in Ids, Vanish(id) PROVE CleanupTruthful'
  BY <1>13 DEF Vanish, TypeInv, UsedInv, CleanupTruthful
<1>14. ASSUME NEW id \in Ids, DeletedElsewhere(id) PROVE CleanupTruthful'
  BY <1>14 DEF DeletedElsewhere, TypeInv, UsedInv, CleanupTruthful
<1>15. CASE ManagerDestroyed
  BY <1>15 DEF ManagerDestroyed, Released, TypeInv, UsedInv, CleanupTruthful
<1>16. CASE Crash
  BY <1>16 DEF Crash, Released, NoCall, TypeInv, UsedInv, CleanupTruthful
<1> QED BY <1>1, <1>2, <1>3, <1>4, <1>5, <1>6, <1>7, <1>8, <1>9, <1>10, <1>11, <1>12,
   <1>13, <1>14, <1>15, <1>16 DEF Next

LEMMA InductiveStep == IInv /\ [Next]_vars => IInv'
<1>1. ASSUME IInv, UNCHANGED vars PROVE IInv'
  BY <1>1 DEF IInv, vars, TypeInv, UsedInv, MakerInv, TempInv, PersistentInv, TrackedAlive,
     CleanupTruthful
<1>2. ASSUME IInv, Next PROVE IInv'
  BY <1>2, TypeInvStep, UsedInvStep, MakerInvStep, TempInvStep, PersistentInvStep,
     TrackedAliveStep, CleanupTruthfulStep DEF IInv
<1> QED BY <1>1, <1>2

LEMMA InductiveInit == Init => IInv
BY VssSnapshotsAssumption DEF Init, IInv, NoCall, TypeInv, UsedInv, MakerInv, TempInv,
   PersistentInv, TrackedAlive, CleanupTruthful, Kinds, Places

-----------------------------------------------------------------------------
(* For any number of threads and snapshots: every shadow copy that exists   *)
(* is held, known to a caller, on its way out, or was reported as not       *)
(* deleted (CreateSnapshot's and LayerMountVssCreateSnapshot's roll-backs,  *)
(* DeleteSnapshot, ~VSSManager).                                            *)
THEOREM NoShadowForgotten == Spec => []ShadowsAccounted
<1>1. ASSUME IInv, NEW id \in shadows
      PROVE  \/ id \in fading \cup Making
             \/ kind[id] = "persistent" /\ id \in named \cup lost
             \/ kind[id] = "temp" /\ id \in tracked
  <2>1. id \in Ids /\ kind[id] \in {"temp", "persistent"}
    BY <1>1 DEF IInv, TypeInv, UsedInv, Kinds
  <2> QED BY <1>1, <2>1 DEF IInv, TempInv, PersistentInv, Making
<1>2. IInv => ShadowsAccounted
  BY <1>1 DEF ShadowsAccounted
<1> QED BY <1>2, InductiveInit, InductiveStep, PTL DEF Spec

(* For any number of threads and snapshots: a tracked snapshot is there and *)
(* held, unless another program deleted it (CreateSnapshot,                 *)
(* DeleteSnapshot).                                                         *)
THEOREM TrackedStayAlive == Spec => []TrackedAlive
BY InductiveInit, InductiveStep, PTL DEF Spec, IInv

(* For any number of threads and snapshots: a cleanup tries every id it     *)
(* collected, and what it leaves behind it reports and keeps tracked        *)
(* (CleanupNonPersistent).                                                  *)
THEOREM CleanupsTruthful == Spec => []CleanupTruthful
BY InductiveInit, InductiveStep, PTL DEF Spec, IInv

=============================================================================
