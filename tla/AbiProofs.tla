------------------------------ MODULE AbiProofs ------------------------------
(***************************************************************************)
(* Proofs about two modules of src/abi: MountLifetime, for any number of   *)
(* threads, instances, files and directories, and EventEmitter, for any    *)
(* number of threads and registrations.                                    *)
(***************************************************************************)
EXTENDS MountLifetime, FiniteSetTheorems, TLAPS

(* The holder is still, or again, owned by one thread. *)
Alone ==
    {"lockWork", "lockUpper", "reset", "build", "publish",
     "dispose", "unlockUpper", "unlockWork"}

(* Types without the sign of childCount, which needs ChildrenCounted. *)
Shape ==
    /\ pc \in [Threads -> Places]
    /\ ref \in [Threads -> Instances \cup {None}]
    /\ file \in [Threads -> FileHandles \cup {None}]
    /\ mounts \subseteq Instances
    /\ files \in [FileHandles -> Instances \cup {None}]
    /\ engine \subseteq Instances
    /\ hostAttached \in [Instances -> BOOLEAN]
    /\ childCount \in [Instances -> Int]
    /\ workLock \in [Directories -> Instances \cup {None}]
    /\ upperLock \in [Directories -> Instances \cup {None}]

(* A thread keeps a holder exactly while it is in a call, and alone where *)
(* the table does not have the holder yet or no longer has it.            *)
RefFacts ==
    \A t \in Threads :
        /\ pc[t] = "idle" <=> ref[t] = None
        /\ pc[t] \in Alone => ~OthersRefer(t, ref[t])

(* A core is there from Build to Dispose, and something refers to it. *)
EngineFacts ==
    /\ mounts \subseteq engine
    /\ \A f \in FileHandles : files[f] # None => files[f] \in engine
    /\ \A t \in Threads :
         /\ pc[t] \in Places \ (Alone \cup {"idle", "return"}) => ref[t] \in engine
         /\ pc[t] = "publish" => ref[t] \in engine
         /\ pc[t] \in {"lockWork", "lockUpper", "reset", "build", "unlockUpper", "unlockWork"}
              => ref[t] \notin engine
    /\ \A i \in engine :
         \/ i \in mounts
         \/ \E f \in FileHandles : files[f] = i
         \/ \E t \in Threads : ref[t] = i

(* A core has both locks, and a create has those that it took. *)
LockFacts ==
    /\ \A i \in engine : workLock[workDir[i]] = i /\ upperLock[upperDir[i]] = i
    /\ \A t \in Threads :
         /\ pc[t] \in {"lockUpper", "reset", "build"} => workLock[workDir[ref[t]]] = ref[t]
         /\ pc[t] \in {"reset", "build"} => upperLock[upperDir[ref[t]]] = ref[t]

(* A reserved handle is in no table and in no other call. *)
FileFacts ==
    \A t \in Threads : pc[t] \in {"openCall", "count", "install"} =>
        /\ file[t] \in FileHandles
        /\ files[file[t]] = None
        /\ \A u \in Threads \ {t} : file[u] # file[t]

IInv == Shape /\ RefFacts /\ EngineFacts /\ LockFacts /\ FileFacts /\ ChildrenCounted

(***************************************************************************)
(* Init.                                                                   *)
(***************************************************************************)

(* The initial state satisfies the inductive invariant. *)
LEMMA InitIInv == Init => IInv
  <1> SUFFICES ASSUME Init PROVE IInv
    OBVIOUS
  <1> USE ConfigAssumption
  <1>1. Shape
    BY DEF Init, Shape, Places
  <1>2. RefFacts /\ EngineFacts /\ LockFacts /\ FileFacts
    BY DEF Init, RefFacts, EngineFacts, LockFacts, FileFacts, Alone, Places
  <1>3. \A i \in Instances : OpenFiles(i) = {} /\ InPassage(i) = {}
    <2> SUFFICES ASSUME NEW i \in Instances PROVE OpenFiles(i) = {} /\ InPassage(i) = {}
      OBVIOUS
    <2>1. \A f \in FileHandles : files[f] # i
      BY DEF Init
    <2>2. \A t \in Threads : ref[t] # i
      BY DEF Init
    <2> QED
      BY <2>1, <2>2 DEF OpenFiles, InPassage
  <1>4. ChildrenCounted
    <2>1. Cardinality({}) = 0
      BY FS_EmptySet
    <2>2. \A i \in Instances : childCount[i] = 0
      BY DEF Init
    <2> QED
      BY <1>3, <2>1, <2>2 DEF ChildrenCounted
  <1> QED
    BY <1>1, <1>2, <1>4 DEF IInv

(***************************************************************************)
(* The children.                                                           *)
(***************************************************************************)

(* A step that moves no file of an instance keeps its count. *)
LEMMA CountKept ==
    ASSUME ChildrenCounted,
           \A i \in Instances :
              \/ /\ childCount'[i] = childCount[i]
                 /\ OpenFiles(i)' = OpenFiles(i)
                 /\ InPassage(i)' = InPassage(i)
              \/ childCount'[i] = 0 /\ OpenFiles(i)' = {} /\ InPassage(i)' = {}
    PROVE  ChildrenCounted'
  BY FS_EmptySet DEF ChildrenCounted

(* Both sets of children are finite. *)
LEMMA ChildrenFinite ==
    ASSUME NEW i \in Instances
    PROVE  IsFiniteSet(OpenFiles(i)) /\ IsFiniteSet(InPassage(i))
  <1>1. OpenFiles(i) \subseteq FileHandles /\ InPassage(i) \subseteq Threads
    BY DEF OpenFiles, InPassage
  <1> QED
    BY <1>1, FS_Subset, ConfigAssumption

(***************************************************************************)
(* The steps, without the count.                                           *)
(***************************************************************************)

(* Every step keeps the types. *)
LEMMA ShapeStep == IInv /\ Next => Shape'
  <1> SUFFICES ASSUME IInv, NEW t \in Threads, Call(t) \/ Advance(t)
               PROVE  Shape'
    BY DEF Next
  <1> USE ConfigAssumption DEF IInv, Shape, Places, Goto, Enter, Keep, locks, holder, tables
  <1>1. ASSUME NEW i \in Instances, Create(t, i) PROVE Shape'
    BY <1>1 DEF Create
  <1>2. ASSUME NEW i \in Instances, OpenFile(t, i) PROVE Shape'
    BY <1>2 DEF OpenFile
  <1>3. ASSUME NEW i \in Instances, UseMount(t, i) PROVE Shape'
    BY <1>3 DEF UseMount
  <1>4. ASSUME NEW i \in Instances, SetHostAttached(t, i) PROVE Shape'
    BY <1>4 DEF SetHostAttached
  <1>5. ASSUME NEW i \in Instances, Destroy(t, i) PROVE Shape'
    BY <1>5 DEF Destroy
  <1>6. ASSUME NEW f \in FileHandles, UseFile(t, f) PROVE Shape'
    BY <1>6 DEF UseFile
  <1>7. ASSUME NEW f \in FileHandles, CloseFile(t, f) PROVE Shape'
    BY <1>7 DEF CloseFile
  <1>8. CASE LockWork(t)
    BY <1>8 DEF LockWork
  <1>9. CASE LockUpper(t)
    BY <1>9 DEF LockUpper
  <1>10. CASE ResetStaging(t)
    BY <1>10 DEF ResetStaging
  <1>11. CASE Build(t)
    BY <1>11 DEF Build, RefFacts
  <1>12. CASE Publish(t)
    BY <1>12 DEF Publish, RefFacts
  <1>13. CASE Reserve(t)
    BY <1>13 DEF Reserve
  <1>14. CASE OpenCall(t)
    BY <1>14 DEF OpenCall
  <1>15. CASE Count(t)
    BY <1>15 DEF Count, RefFacts
  <1>16. CASE Install(t)
    BY Zenon, <1>16 DEF Install
  <1>17. CASE Use(t)
    BY <1>17 DEF Use
  <1>18. CASE StoreAttached(t)
    <2>1. PICK attached \in BOOLEAN : hostAttached' = [hostAttached EXCEPT ![ref[t]] = attached]
      BY Zenon, <1>18 DEF StoreAttached
    <2>2. hostAttached' \in [Instances -> BOOLEAN]
      BY Zenon, <2>1
    <2> QED
      BY <1>18, <2>2 DEF StoreAttached
  <1>19. CASE CloseCall(t)
    BY <1>19 DEF CloseCall
  <1>20. CASE Uncount(t)
    BY <1>20 DEF Uncount, RefFacts
  <1>21. CASE CheckAttached(t)
    BY <1>21 DEF CheckAttached
  <1>22. CASE CheckChildren(t)
    BY <1>22 DEF CheckChildren
  <1>23. CASE Free(t)
    BY <1>23 DEF Free
  <1>24. CASE Return(t)
    BY <1>24 DEF Return
  <1>25. CASE Dispose(t)
    BY <1>25 DEF Dispose
  <1>26. CASE UnlockUpper(t)
    BY <1>26 DEF UnlockUpper, Drop
  <1>27. CASE UnlockWork(t)
    BY <1>27 DEF UnlockWork, Drop
  <1> QED
    BY Zenon, <1>1, <1>2, <1>3, <1>4, <1>5, <1>6, <1>7, <1>8, <1>9, <1>10, <1>11, <1>12, <1>13,
       <1>14, <1>15, <1>16, <1>17, <1>18, <1>19, <1>20, <1>21, <1>22, <1>23, <1>24, <1>25,
       <1>26, <1>27 DEF Call, Advance
(* A step keeps the references exact. *)
LEMMA RefStep ==
    ASSUME IInv, Shape', NEW t \in Threads, Call(t) \/ Advance(t)
    PROVE  RefFacts'
  <1> USE ConfigAssumption
  <1> USE DEF IInv, Shape, Places, Alone, Goto, Enter, Keep, locks, holder, tables
  <1>1. ASSUME NEW i \in Instances, Create(t, i) PROVE RefFacts'
    BY <1>1 DEF Create, RefFacts, OthersRefer
  <1>2. ASSUME NEW i \in Instances,
                OpenFile(t, i) \/ UseMount(t, i) \/ SetHostAttached(t, i) \/ Destroy(t, i)
         PROVE  RefFacts'
    BY <1>2 DEF OpenFile, UseMount, SetHostAttached, Destroy, RefFacts, OthersRefer
  <1>3. ASSUME NEW f \in FileHandles, UseFile(t, f) PROVE RefFacts'
    BY <1>3 DEF UseFile, RefFacts, OthersRefer
  <1>4. ASSUME NEW f \in FileHandles, CloseFile(t, f) PROVE RefFacts'
    BY <1>4 DEF CloseFile, RefFacts, OthersRefer
  <1>5. CASE LockWork(t)
    BY <1>5 DEF LockWork, RefFacts, OthersRefer
  <1>6. CASE LockUpper(t)
    BY <1>6 DEF LockUpper, RefFacts, OthersRefer
  <1>7. CASE ResetStaging(t)
    BY <1>7 DEF ResetStaging, RefFacts, OthersRefer
  <1>8. CASE Build(t)
    BY <1>8 DEF Build, RefFacts, OthersRefer
  <1>9. CASE Publish(t)
    BY <1>9 DEF Publish, RefFacts, OthersRefer
  <1>10. CASE Reserve(t)
    BY <1>10 DEF Reserve, RefFacts, OthersRefer
  <1>11. CASE OpenCall(t)
    BY <1>11 DEF OpenCall, RefFacts, OthersRefer
  <1>12. CASE Count(t)
    BY <1>12 DEF Count, RefFacts, OthersRefer
  <1>13. CASE Install(t)
    BY <1>13 DEF Install, RefFacts, OthersRefer, FileFacts
  <1>14. CASE Use(t) \/ StoreAttached(t) \/ CloseCall(t) \/ Uncount(t) \/ CheckAttached(t) \/
          CheckChildren(t) \/ Free(t)
    BY <1>14 DEF Use, StoreAttached, CloseCall, Uncount, CheckAttached, CheckChildren, Free,
            RefFacts, OthersRefer
  <1>15. CASE Return(t)
    BY <1>15 DEF Return, RefFacts, OthersRefer
  <1>16. CASE Dispose(t)
    BY <1>16 DEF Dispose, RefFacts, OthersRefer
  <1>17. CASE UnlockUpper(t)
    BY <1>17 DEF UnlockUpper, RefFacts, OthersRefer, Drop
  <1>18. CASE UnlockWork(t)
    BY <1>18 DEF UnlockWork, RefFacts, OthersRefer, Drop
  <1> QED
    BY <1>1, <1>2, <1>3, <1>4, <1>5, <1>6, <1>7, <1>8, <1>9, <1>10, <1>11, <1>12, <1>13,
       <1>14, <1>15, <1>16, <1>17, <1>18 DEF Call, Advance

(* A core stays while anything refers to it, and not longer. *)
LEMMA EngineStep ==
    ASSUME IInv, Shape', NEW t \in Threads, Call(t) \/ Advance(t)
    PROVE  EngineFacts'
  <1> USE ConfigAssumption
  <1> USE DEF IInv, Shape, Places, Alone, Goto, Enter, Keep, locks, holder, tables
  <1>1. ASSUME NEW i \in Instances, Create(t, i) PROVE EngineFacts'
    BY <1>1 DEF Create, RefFacts, EngineFacts, OthersRefer
  <1>2. ASSUME NEW i \in Instances,
                OpenFile(t, i) \/ UseMount(t, i) \/ SetHostAttached(t, i) \/ Destroy(t, i)
         PROVE  EngineFacts'
    BY <1>2 DEF OpenFile, UseMount, SetHostAttached, Destroy, RefFacts, EngineFacts, OthersRefer
  <1>3. ASSUME NEW f \in FileHandles, UseFile(t, f) PROVE EngineFacts'
    BY <1>3 DEF UseFile, RefFacts, EngineFacts, OthersRefer
  <1>4. ASSUME NEW f \in FileHandles, CloseFile(t, f) PROVE EngineFacts'
    BY <1>4 DEF CloseFile, RefFacts, EngineFacts, OthersRefer
  <1>5. CASE LockWork(t)
    BY <1>5 DEF LockWork, RefFacts, EngineFacts, OthersRefer
  <1>6. CASE LockUpper(t)
    BY <1>6 DEF LockUpper, RefFacts, EngineFacts, OthersRefer
  <1>7. CASE ResetStaging(t)
    BY <1>7 DEF ResetStaging, RefFacts, EngineFacts, OthersRefer
  <1>8. CASE Build(t)
    BY <1>8 DEF Build, RefFacts, EngineFacts, OthersRefer
  <1>9. CASE Publish(t)
    BY <1>9 DEF Publish, RefFacts, EngineFacts, OthersRefer
  <1>10. CASE Reserve(t)
    BY <1>10 DEF Reserve, RefFacts, EngineFacts, OthersRefer
  <1>11. CASE OpenCall(t)
    BY <1>11 DEF OpenCall, RefFacts, EngineFacts, OthersRefer
  <1>12. CASE Count(t)
    BY <1>12 DEF Count, RefFacts, EngineFacts, OthersRefer
  <1>13. CASE Install(t)
    BY <1>13 DEF Install, RefFacts, EngineFacts, OthersRefer, FileFacts
  <1>14. CASE Use(t) \/ StoreAttached(t) \/ CloseCall(t) \/ Uncount(t) \/ CheckAttached(t) \/
          CheckChildren(t) \/ Free(t)
    BY <1>14 DEF Use, StoreAttached, CloseCall, Uncount, CheckAttached, CheckChildren, Free,
            RefFacts, EngineFacts, OthersRefer
  <1>15. CASE Return(t)
    BY <1>15 DEF Return, RefFacts, EngineFacts, OthersRefer
  <1>16. CASE Dispose(t)
    BY <1>16 DEF Dispose, RefFacts, EngineFacts, OthersRefer
  <1>17. CASE UnlockUpper(t)
    BY <1>17 DEF UnlockUpper, RefFacts, EngineFacts, OthersRefer, Drop
  <1>18. CASE UnlockWork(t)
    BY <1>18 DEF UnlockWork, RefFacts, EngineFacts, OthersRefer, Drop
  <1> QED
    BY <1>1, <1>2, <1>3, <1>4, <1>5, <1>6, <1>7, <1>8, <1>9, <1>10, <1>11, <1>12, <1>13,
       <1>14, <1>15, <1>16, <1>17, <1>18 DEF Call, Advance

(* No step takes or drops a lock of another instance. *)
LEMMA LockStep ==
    ASSUME IInv, Shape', NEW t \in Threads, Call(t) \/ Advance(t)
    PROVE  LockFacts'
  <1> USE ConfigAssumption
  <1> USE DEF IInv, Shape, Places, Alone, Goto, Enter, Keep, locks, holder, tables
  <1>1. ASSUME NEW i \in Instances, Create(t, i) PROVE LockFacts'
    BY <1>1 DEF Create, RefFacts, EngineFacts, LockFacts, OthersRefer
  <1>2. ASSUME NEW i \in Instances,
                OpenFile(t, i) \/ UseMount(t, i) \/ SetHostAttached(t, i) \/ Destroy(t, i)
         PROVE  LockFacts'
    BY <1>2 DEF OpenFile, UseMount, SetHostAttached, Destroy, RefFacts, EngineFacts, LockFacts,
            OthersRefer
  <1>3. ASSUME NEW f \in FileHandles, UseFile(t, f) PROVE LockFacts'
    BY <1>3 DEF UseFile, RefFacts, EngineFacts, LockFacts, OthersRefer
  <1>4. ASSUME NEW f \in FileHandles, CloseFile(t, f) PROVE LockFacts'
    BY <1>4 DEF CloseFile, RefFacts, EngineFacts, LockFacts, OthersRefer
  <1>5. CASE LockWork(t)
    BY <1>5 DEF LockWork, RefFacts, EngineFacts, LockFacts, OthersRefer
  <1>6. CASE LockUpper(t)
    BY <1>6 DEF LockUpper, RefFacts, EngineFacts, LockFacts, OthersRefer
  <1>7. CASE ResetStaging(t)
    BY <1>7 DEF ResetStaging, RefFacts, EngineFacts, LockFacts, OthersRefer
  <1>8. CASE Build(t)
    BY <1>8 DEF Build, RefFacts, EngineFacts, LockFacts, OthersRefer
  <1>9. CASE Publish(t)
    BY <1>9 DEF Publish, RefFacts, EngineFacts, LockFacts, OthersRefer
  <1>10. CASE Reserve(t)
    BY <1>10 DEF Reserve, RefFacts, EngineFacts, LockFacts, OthersRefer
  <1>11. CASE OpenCall(t)
    BY <1>11 DEF OpenCall, RefFacts, EngineFacts, LockFacts, OthersRefer
  <1>12. CASE Count(t)
    BY <1>12 DEF Count, RefFacts, EngineFacts, LockFacts, OthersRefer
  <1>13. CASE Install(t)
    BY <1>13 DEF Install, RefFacts, EngineFacts, LockFacts, OthersRefer, FileFacts
  <1>14. CASE Use(t) \/ StoreAttached(t) \/ CloseCall(t) \/ Uncount(t) \/ CheckAttached(t) \/
          CheckChildren(t) \/ Free(t)
    BY <1>14 DEF Use, StoreAttached, CloseCall, Uncount, CheckAttached, CheckChildren, Free,
            RefFacts, EngineFacts, LockFacts, OthersRefer
  <1>15. CASE Return(t)
    BY <1>15 DEF Return, RefFacts, EngineFacts, LockFacts, OthersRefer
  <1>16. CASE Dispose(t)
    BY <1>16 DEF Dispose, RefFacts, EngineFacts, LockFacts, OthersRefer
  <1>17. CASE UnlockUpper(t)
    BY <1>17 DEF UnlockUpper, RefFacts, EngineFacts, LockFacts, OthersRefer, Drop
  <1>18. CASE UnlockWork(t)
    BY <1>18 DEF UnlockWork, RefFacts, EngineFacts, LockFacts, OthersRefer, Drop
  <1> QED
    BY <1>1, <1>2, <1>3, <1>4, <1>5, <1>6, <1>7, <1>8, <1>9, <1>10, <1>11, <1>12, <1>13,
       <1>14, <1>15, <1>16, <1>17, <1>18 DEF Call, Advance

(* A reserved file handle stays the reserving call's own. *)
LEMMA FileStep ==
    ASSUME IInv, Shape', NEW t \in Threads, Call(t) \/ Advance(t)
    PROVE  FileFacts'
  <1> USE ConfigAssumption
  <1> USE DEF IInv, Shape, Places, Alone, Goto, Enter, Keep, locks, holder, tables
  <1>1. ASSUME NEW i \in Instances, Create(t, i) PROVE FileFacts'
    BY <1>1 DEF Create, RefFacts, FileFacts
  <1>2. ASSUME NEW i \in Instances,
                OpenFile(t, i) \/ UseMount(t, i) \/ SetHostAttached(t, i) \/ Destroy(t, i)
         PROVE  FileFacts'
    BY <1>2 DEF OpenFile, UseMount, SetHostAttached, Destroy, RefFacts, FileFacts
  <1>3. ASSUME NEW f \in FileHandles, UseFile(t, f) PROVE FileFacts'
    BY <1>3 DEF UseFile, RefFacts, FileFacts
  <1>4. ASSUME NEW f \in FileHandles, CloseFile(t, f) PROVE FileFacts'
    BY <1>4 DEF CloseFile, RefFacts, FileFacts
  <1>5. CASE LockWork(t)
    BY <1>5 DEF LockWork, RefFacts, FileFacts
  <1>6. CASE LockUpper(t)
    BY <1>6 DEF LockUpper, RefFacts, FileFacts
  <1>7. CASE ResetStaging(t)
    BY <1>7 DEF ResetStaging, RefFacts, FileFacts
  <1>8. CASE Build(t)
    BY <1>8 DEF Build, RefFacts, FileFacts
  <1>9. CASE Publish(t)
    BY <1>9 DEF Publish, RefFacts, FileFacts
  <1>10. CASE Reserve(t)
    BY <1>10 DEF Reserve, RefFacts, FileFacts
  <1>11. CASE OpenCall(t)
    BY <1>11 DEF OpenCall, RefFacts, FileFacts
  <1>12. CASE Count(t)
    BY <1>12 DEF Count, RefFacts, FileFacts
  <1>13. CASE Install(t)
    BY <1>13 DEF Install, RefFacts, FileFacts
  <1>14. CASE Use(t) \/ StoreAttached(t) \/ CloseCall(t) \/ Uncount(t) \/ CheckAttached(t) \/
          CheckChildren(t) \/ Free(t)
    BY <1>14 DEF Use, StoreAttached, CloseCall, Uncount, CheckAttached, CheckChildren, Free,
            RefFacts, FileFacts
  <1>15. CASE Return(t)
    BY <1>15 DEF Return, RefFacts, FileFacts
  <1>16. CASE Dispose(t)
    BY <1>16 DEF Dispose, RefFacts, FileFacts
  <1>17. CASE UnlockUpper(t)
    BY <1>17 DEF UnlockUpper, RefFacts, FileFacts, Drop
  <1>18. CASE UnlockWork(t)
    BY <1>18 DEF UnlockWork, RefFacts, FileFacts, Drop
  <1> QED
    BY <1>1, <1>2, <1>3, <1>4, <1>5, <1>6, <1>7, <1>8, <1>9, <1>10, <1>11, <1>12, <1>13,
       <1>14, <1>15, <1>16, <1>17, <1>18 DEF Call, Advance

(***************************************************************************)
(* The steps and the count.                                                *)
(***************************************************************************)

(* A step that leaves the file table and the three places of InPassage     *)
(* alone keeps the count.                                                  *)
LEMMA QuietCount ==
    ASSUME ChildrenCounted, Shape, NEW t \in Threads,
           files' = files, childCount' = childCount,
           pc' = [pc EXCEPT ![t] = pc'[t]],
           \A u \in Threads \ {t} : ref'[u] = ref[u],
           pc[t] \notin {"install", "closeCall", "uncount"},
           pc'[t] \notin {"install", "closeCall", "uncount"}
    PROVE  ChildrenCounted'
  <1>1. ASSUME NEW i \in Instances
        PROVE  OpenFiles(i)' = OpenFiles(i) /\ InPassage(i)' = InPassage(i)
    BY DEF OpenFiles, InPassage, Shape
  <1> QED
    BY <1>1, CountKept

(* A new element adds one to the cardinality. *)
LEMMA OneMore ==
    ASSUME NEW S, IsFiniteSet(S), NEW x, x \notin S
    PROVE  Cardinality(S \cup {x}) = Cardinality(S) + 1
  BY FS_AddElement

(* An element removed takes one away. *)
LEMMA OneLess ==
    ASSUME NEW S, IsFiniteSet(S), NEW x, x \in S
    PROVE  Cardinality(S \ {x}) = Cardinality(S) - 1
  BY FS_RemoveElement

(* childCount stays exact. *)
LEMMA CountStep ==
    ASSUME IInv, Shape', NEW t \in Threads, Call(t) \/ Advance(t)
    PROVE  ChildrenCounted'
  <1> USE ConfigAssumption
  <1> USE DEF IInv, Shape, Goto, Enter, Keep, locks, holder, tables
  <1>1. ASSUME NEW i \in Instances, Create(t, i) PROVE ChildrenCounted'
    <2>1. pc[t] = "idle" /\ pc' = [pc EXCEPT ![t] = "lockWork"]
          /\ ref' = [ref EXCEPT ![t] = i] /\ files' = files
          /\ childCount' = [childCount EXCEPT ![i] = 0] /\ ~OthersRefer(t, i)
      BY <1>1 DEF Create
    <2>2. ASSUME NEW j \in Instances, j # i
          PROVE  /\ childCount'[j] = childCount[j]
                 /\ OpenFiles(j)' = OpenFiles(j)
                 /\ InPassage(j)' = InPassage(j)
      BY <2>1, <2>2 DEF OpenFiles, InPassage, RefFacts
    <2>3. childCount'[i] = 0 /\ OpenFiles(i)' = {} /\ InPassage(i)' = {}
      BY <2>1 DEF OpenFiles, InPassage, OthersRefer
    <2> QED
      BY <2>2, <2>3, CountKept
  <1>2. ASSUME NEW i \in Instances,
                OpenFile(t, i) \/ UseMount(t, i) \/ SetHostAttached(t, i) \/ Destroy(t, i)
         PROVE  ChildrenCounted'
    BY <1>2, QuietCount DEF OpenFile, UseMount, SetHostAttached, Destroy
  <1>3. ASSUME NEW f \in FileHandles, UseFile(t, f) PROVE ChildrenCounted'
    BY Zenon, <1>3, QuietCount DEF UseFile
  <1>4. ASSUME NEW f \in FileHandles, CloseFile(t, f) PROVE ChildrenCounted'
    <2> PICK k \in Instances : k = files[f]
      BY <1>4 DEF CloseFile
    <2>1. pc[t] = "idle" /\ ref[t] = None /\ pc' = [pc EXCEPT ![t] = "closeCall"]
          /\ ref' = [ref EXCEPT ![t] = k] /\ files' = [files EXCEPT ![f] = None]
          /\ childCount' = childCount
      BY <1>4 DEF CloseFile, RefFacts
    <2>2. ASSUME NEW j \in Instances, j # k
          PROVE  OpenFiles(j)' = OpenFiles(j) /\ InPassage(j)' = InPassage(j)
      BY <2>1, <2>2 DEF OpenFiles, InPassage
    <2>3. OpenFiles(k)' = OpenFiles(k) \ {f} /\ f \in OpenFiles(k)
      BY <2>1 DEF OpenFiles
    <2>4. InPassage(k)' = InPassage(k) \cup {t} /\ t \notin InPassage(k)
      BY <2>1 DEF InPassage
    <2>5. childCount'[k] = Cardinality(OpenFiles(k)') + Cardinality(InPassage(k)')
      <3>1. childCount[k] = Cardinality(OpenFiles(k)) + Cardinality(InPassage(k))
        BY DEF ChildrenCounted
      <3>2. Cardinality(OpenFiles(k)) \in Nat /\ Cardinality(InPassage(k)) \in Nat
        BY ChildrenFinite, FS_CardinalityType
      <3>3. Cardinality(OpenFiles(k)') = Cardinality(OpenFiles(k)) - 1
        BY <2>3, ChildrenFinite, OneLess
      <3>4. Cardinality(InPassage(k)') = Cardinality(InPassage(k)) + 1
        BY <2>4, ChildrenFinite, OneMore
      <3> QED
        BY <2>1, <3>1, <3>2, <3>3, <3>4
    <2> QED
      BY <2>1, <2>2, <2>5 DEF ChildrenCounted
  <1>5. CASE LockWork(t) \/ LockUpper(t) \/ ResetStaging(t) \/ Build(t) \/ Publish(t)
    BY <1>5, QuietCount DEF LockWork, LockUpper, ResetStaging, Build, Publish
  <1>6. CASE Reserve(t) \/ OpenCall(t) \/ Use(t) \/ StoreAttached(t)
    BY <1>6, QuietCount DEF Reserve, OpenCall, Use, StoreAttached
  <1>7. CASE Count(t)
    <2> PICK k \in Instances : k = ref[t]
      BY <1>7 DEF Count, RefFacts
    <2>1. pc[t] = "count" /\ pc' = [pc EXCEPT ![t] = "install"] /\ ref' = ref
          /\ files' = files /\ childCount' = [childCount EXCEPT ![k] = childCount[k] + 1]
      BY <1>7 DEF Count
    <2>2. ASSUME NEW j \in Instances, j # k
          PROVE  OpenFiles(j)' = OpenFiles(j) /\ InPassage(j)' = InPassage(j)
                 /\ childCount'[j] = childCount[j]
      BY <2>1, <2>2 DEF OpenFiles, InPassage
    <2>3. OpenFiles(k)' = OpenFiles(k)
      BY <2>1 DEF OpenFiles
    <2>4. InPassage(k)' = InPassage(k) \cup {t} /\ t \notin InPassage(k)
      BY <2>1 DEF InPassage
    <2>5. childCount'[k] = Cardinality(OpenFiles(k)') + Cardinality(InPassage(k)')
      <3>1. childCount[k] = Cardinality(OpenFiles(k)) + Cardinality(InPassage(k))
        BY DEF ChildrenCounted
      <3>2. Cardinality(OpenFiles(k)) \in Nat /\ Cardinality(InPassage(k)) \in Nat
        BY ChildrenFinite, FS_CardinalityType
      <3>3. Cardinality(InPassage(k)') = Cardinality(InPassage(k)) + 1
        BY <2>4, ChildrenFinite, OneMore
      <3> QED
        BY <2>1, <3>1, <3>2, <2>3, <3>3
    <2> QED
      BY <2>2, <2>5 DEF ChildrenCounted
  <1>8. CASE Install(t)
    <2> PICK k \in Instances : k = ref[t]
      BY <1>8 DEF Install, RefFacts
    <2> PICK f \in FileHandles : f = file[t]
      BY <1>8 DEF Install, FileFacts
    <2>1. pc[t] = "install" /\ pc' = [pc EXCEPT ![t] = "return"] /\ ref' = ref
          /\ files' = [files EXCEPT ![f] = k] /\ files[f] = None /\ childCount' = childCount
      BY <1>8 DEF Install, FileFacts
    <2>2. ASSUME NEW j \in Instances, j # k
          PROVE  OpenFiles(j)' = OpenFiles(j) /\ InPassage(j)' = InPassage(j)
      BY <2>1, <2>2 DEF OpenFiles, InPassage
    <2>3. OpenFiles(k)' = OpenFiles(k) \cup {f} /\ f \notin OpenFiles(k)
      BY <2>1 DEF OpenFiles
    <2>4. InPassage(k)' = InPassage(k) \ {t} /\ t \in InPassage(k)
      BY <2>1 DEF InPassage
    <2>5. childCount'[k] = Cardinality(OpenFiles(k)') + Cardinality(InPassage(k)')
      <3>1. childCount[k] = Cardinality(OpenFiles(k)) + Cardinality(InPassage(k))
        BY DEF ChildrenCounted
      <3>2. Cardinality(OpenFiles(k)) \in Nat /\ Cardinality(InPassage(k)) \in Nat
        BY ChildrenFinite, FS_CardinalityType
      <3>3. Cardinality(OpenFiles(k)') = Cardinality(OpenFiles(k)) + 1
        BY <2>3, ChildrenFinite, OneMore
      <3>4. Cardinality(InPassage(k)') = Cardinality(InPassage(k)) - 1
        BY <2>4, ChildrenFinite, OneLess
      <3> QED
        BY <2>1, <3>1, <3>2, <3>3, <3>4
    <2> QED
      BY <2>1, <2>2, <2>5 DEF ChildrenCounted
  <1>9. CASE CloseCall(t)
    <2>1. pc[t] = "closeCall" /\ pc' = [pc EXCEPT ![t] = "uncount"] /\ ref' = ref
          /\ files' = files /\ childCount' = childCount
      BY <1>9 DEF CloseCall
    <2>2. ASSUME NEW j \in Instances
          PROVE  OpenFiles(j)' = OpenFiles(j) /\ InPassage(j)' = InPassage(j)
      BY <2>1 DEF OpenFiles, InPassage
    <2> QED
      BY <2>1, <2>2, CountKept
  <1>10. CASE Uncount(t)
    <2> PICK k \in Instances : k = ref[t]
      BY <1>10 DEF Uncount, RefFacts
    <2>1. pc[t] = "uncount" /\ pc' = [pc EXCEPT ![t] = "return"] /\ ref' = ref
          /\ files' = files /\ childCount' = [childCount EXCEPT ![k] = childCount[k] - 1]
      BY <1>10 DEF Uncount
    <2>2. ASSUME NEW j \in Instances, j # k
          PROVE  OpenFiles(j)' = OpenFiles(j) /\ InPassage(j)' = InPassage(j)
                 /\ childCount'[j] = childCount[j]
      BY <2>1, <2>2 DEF OpenFiles, InPassage
    <2>3. OpenFiles(k)' = OpenFiles(k)
      BY <2>1 DEF OpenFiles
    <2>4. InPassage(k)' = InPassage(k) \ {t} /\ t \in InPassage(k)
      BY <2>1 DEF InPassage
    <2>5. childCount'[k] = Cardinality(OpenFiles(k)') + Cardinality(InPassage(k)')
      <3>1. childCount[k] = Cardinality(OpenFiles(k)) + Cardinality(InPassage(k))
        BY DEF ChildrenCounted
      <3>2. Cardinality(OpenFiles(k)) \in Nat /\ Cardinality(InPassage(k)) \in Nat
        BY ChildrenFinite, FS_CardinalityType
      <3>3. Cardinality(InPassage(k)') = Cardinality(InPassage(k)) - 1
        BY <2>4, ChildrenFinite, OneLess
      <3> QED
        BY <2>1, <3>1, <3>2, <2>3, <3>3
    <2> QED
      BY <2>2, <2>5 DEF ChildrenCounted
  <1>11. CASE CheckAttached(t) \/ CheckChildren(t) \/ Free(t)
    BY <1>11, QuietCount DEF CheckAttached, CheckChildren, Free
  <1>12. CASE Return(t) \/ Dispose(t) \/ UnlockUpper(t) \/ UnlockWork(t)
    BY <1>12, QuietCount DEF Return, Dispose, UnlockUpper, UnlockWork
  <1> QED
    BY <1>1, <1>2, <1>3, <1>4, <1>5, <1>6, <1>7, <1>8, <1>9, <1>10, <1>11, <1>12
       DEF Call, Advance

(***************************************************************************)
(* The theorems.                                                           *)
(***************************************************************************)

(* The strengthened invariant holds of every behaviour. *)
THEOREM IInvHolds == Spec => []IInv
  <1>1. IInv /\ [Next]_vars => IInv'
    <2> SUFFICES ASSUME IInv, [Next]_vars PROVE IInv'
      OBVIOUS
    <2>1. CASE Next
      <3> PICK t \in Threads : Call(t) \/ Advance(t)
        BY <2>1 DEF Next
      <3>1. Shape'
        BY <2>1, ShapeStep
      <3> QED
        BY <3>1, RefStep, EngineStep, LockStep, FileStep, CountStep DEF IInv
    <2>2. CASE UNCHANGED vars
      <3> USE <2>2 DEF vars
      <3>1. ASSUME NEW i \in Instances
            PROVE  OpenFiles(i)' = OpenFiles(i) /\ InPassage(i)' = InPassage(i)
        BY DEF OpenFiles, InPassage
      <3>2. ChildrenCounted'
        BY <3>1 DEF IInv, ChildrenCounted
      <3>3. Shape'
        BY DEF IInv, Shape
      <3>4. RefFacts' /\ EngineFacts'
        BY DEF IInv, RefFacts, EngineFacts, OthersRefer
      <3>5. LockFacts' /\ FileFacts'
        BY DEF IInv, LockFacts, FileFacts, OthersRefer
      <3> QED
        BY <3>2, <3>3, <3>4, <3>5 DEF IInv
    <2> QED
      BY <2>1, <2>2
  <1> QED
    BY InitIInv, <1>1, PTL DEF Spec

(* childCount is a natural number: no close counts a child down that was   *)
(* not counted up, for any number of concurrent opens and closes.          *)
THEOREM TypesHold == Spec => []TypeOK
  <1>1. ASSUME IInv PROVE TypeOK
    <2>1. ASSUME NEW i \in Instances PROVE childCount[i] \in Nat
      BY <1>1, ChildrenFinite, FS_CardinalityType DEF IInv, ChildrenCounted
    <2> QED
      BY <1>1, <2>1 DEF IInv, Shape, TypeOK
  <1> QED
    BY IInvHolds, <1>1, PTL

(* No call runs inside an engine that is gone. *)
THEOREM EngineIsPinned == Spec => []EngineOutlivesCalls
  <1>1. IInv => EngineOutlivesCalls
    BY DEF IInv, EngineFacts, EngineOutlivesCalls, Alone, Places
  <1> QED
    BY IInvHolds, <1>1, PTL

(* The lock files keep a directory to one engine, and its staging area.    *)
THEOREM DirectoriesAreExclusive == Spec => []OneEnginePerDirectory
  <1>1. IInv => OneEnginePerDirectory
    BY ConfigAssumption
       DEF IInv, Shape, RefFacts, EngineFacts, LockFacts, OneEnginePerDirectory, Alone, Places
  <1> QED
    BY IInvHolds, <1>1, PTL

(* What LayerMountDestroy reads is the number of children. *)
THEOREM ChildCountIsExact == Spec => []ChildrenCounted
  <1>1. IInv => ChildrenCounted
    BY DEF IInv
  <1> QED
    BY IInvHolds, <1>1, PTL


(***************************************************************************)
(* EventEmitter, by an instance: its variables are those of an emitter of  *)
(* its own, place its pc.  Of its assumption only the finitely many        *)
(* threads are needed, which ConfigAssumption has too.                     *)
(***************************************************************************)

CONSTANT Registrations
VARIABLES callback, inflight, place, snapshot, draining, used, freed
Emitter == INSTANCE EventEmitter WITH pc <- place

(* inflight_ counts the calls, so that zero means that there is none. *)
EmitterCount == inflight = Cardinality(Emitter!InFlight)

(* What an Emit can still snapshot is not freed, nor about to be. *)
EmitterSlots ==
    /\ callback # None => callback \in used \ freed
    /\ \A t \in Threads : draining[t] \subseteq used
    /\ callback # None => \A t \in Threads : callback \notin draining[t]

EmitterIInv == Emitter!TypeOK /\ EmitterCount /\ EmitterSlots /\ Emitter!NoCallAfterClear

(* The threads in a call are finitely many. *)
LEMMA InFlightFinite == IsFiniteSet(Emitter!InFlight)
  <1>1. Emitter!InFlight \subseteq Threads
    BY DEF Emitter!InFlight
  <1> QED
    BY <1>1, FS_Subset, ConfigAssumption

(* The initial state satisfies the inductive invariant. *)
LEMMA EmitterInit == Emitter!Init => EmitterIInv
  <1> SUFFICES ASSUME Emitter!Init PROVE EmitterIInv
    OBVIOUS
  <1>1. Emitter!InFlight = {}
    BY DEF Emitter!Init, Emitter!InFlight
  <1>2. Cardinality({}) = 0
    BY FS_EmptySet
  <1>3. EmitterCount
    BY <1>1, <1>2 DEF Emitter!Init, EmitterCount
  <1>4. Emitter!TypeOK /\ EmitterSlots /\ Emitter!NoCallAfterClear
    BY <1>1, ConfigAssumption
    DEF Emitter!Init, Emitter!TypeOK, EmitterSlots, Emitter!NoCallAfterClear
  <1> QED
    BY <1>3, <1>4 DEF EmitterIInv

(* Emit adds its thread to the calls, and pins what is not freed. *)
LEMMA EmitStep == ASSUME EmitterIInv, NEW t \in Threads, Emitter!Emit(t) PROVE EmitterIInv'
  <1> USE DEF EmitterIInv, Emitter!Emit, Emitter!Goto
  <1>1. Emitter!InFlight' = Emitter!InFlight \cup {t} /\ t \notin Emitter!InFlight
    BY DEF Emitter!TypeOK, Emitter!InFlight
  <1>2. Cardinality(Emitter!InFlight \cup {t}) = Cardinality(Emitter!InFlight) + 1
    BY Zenon, <1>1, InFlightFinite, FS_AddElement
  <1>3. EmitterCount'
    BY <1>1, <1>2 DEF EmitterCount
  <1>4. Emitter!TypeOK'
    BY DEF Emitter!TypeOK
  <1>5. EmitterSlots'
    BY DEF EmitterSlots
  <1>6. Emitter!NoCallAfterClear'
    <2> SUFFICES ASSUME NEW u \in Threads, u \in Emitter!InFlight' PROVE snapshot'[u] \notin freed
      BY DEF Emitter!NoCallAfterClear, Emitter!InFlight
    <2>1. CASE u = t
      BY <2>1 DEF Emitter!TypeOK, EmitterSlots
    <2>2. CASE u # t
      BY <1>1, <2>2 DEF Emitter!TypeOK, Emitter!NoCallAfterClear
    <2> QED
      BY <2>1, <2>2
  <1> QED
    BY <1>3, <1>4, <1>5, <1>6

(* Finish takes its thread from the calls, so that the count was positive. *)
LEMMA FinishStep == ASSUME EmitterIInv, NEW t \in Threads, Emitter!Finish(t) PROVE EmitterIInv'
  <1> USE DEF EmitterIInv, Emitter!Finish, Emitter!Goto
  <1>1. Emitter!InFlight' = Emitter!InFlight \ {t} /\ t \in Emitter!InFlight
    BY DEF Emitter!TypeOK, Emitter!InFlight
  <1>2. Cardinality(Emitter!InFlight \ {t}) = Cardinality(Emitter!InFlight) - 1
    BY Zenon, <1>1, InFlightFinite, FS_RemoveElement
  <1>3. Cardinality(Emitter!InFlight \ {t}) \in Nat
    BY InFlightFinite, FS_RemoveElement, FS_CardinalityType
  <1>4. EmitterCount' /\ inflight' \in Nat
    BY <1>1, <1>2, <1>3 DEF EmitterCount
  <1>5. Emitter!TypeOK'
    BY <1>4 DEF Emitter!TypeOK
  <1>6. EmitterSlots'
    BY DEF EmitterSlots
  <1>7. Emitter!NoCallAfterClear'
    BY <1>1 DEF Emitter!TypeOK, Emitter!NoCallAfterClear, Emitter!InFlight
  <1> QED
    BY <1>4, <1>5, <1>6, <1>7

(* When Clear reads zero there is no call at all, so it frees nothing in use. *)
LEMMA DrainedStep == ASSUME EmitterIInv, NEW t \in Threads, Emitter!Drained(t) PROVE EmitterIInv'
  <1> USE DEF EmitterIInv, Emitter!Drained, Emitter!Goto
  <1>1. Emitter!InFlight = {}
    BY Zenon, InFlightFinite, FS_EmptySet DEF EmitterCount
  <1>2. Emitter!InFlight' = Emitter!InFlight
    BY DEF Emitter!TypeOK, Emitter!InFlight
  <1>3. Emitter!TypeOK'
    BY DEF Emitter!TypeOK, EmitterSlots
  <1>4. EmitterSlots'
    BY DEF Emitter!TypeOK, EmitterSlots
  <1> QED
    BY Zenon, <1>1, <1>2, <1>3, <1>4 DEF EmitterCount, Emitter!NoCallAfterClear

(* Every step keeps the inductive invariant. *)
LEMMA EmitterNext == EmitterIInv /\ [Emitter!Next]_Emitter!vars => EmitterIInv'
  <1> SUFFICES ASSUME EmitterIInv, [Emitter!Next]_Emitter!vars PROVE EmitterIInv'
    OBVIOUS
  <1> USE ConfigAssumption
  <1>1. ASSUME NEW t \in Threads, NEW r \in Registrations, Emitter!Set(t, r) PROVE EmitterIInv'
    <2> USE <1>1 DEF EmitterIInv, Emitter!Set
    <2>1. Emitter!InFlight' = Emitter!InFlight
      BY DEF Emitter!InFlight
    <2> QED
      BY <2>1 DEF Emitter!TypeOK, EmitterCount, EmitterSlots, Emitter!NoCallAfterClear
  <1>2. ASSUME NEW t \in Threads, Emitter!Clear(t) PROVE EmitterIInv'
    <2> USE <1>2 DEF EmitterIInv, Emitter!Clear, Emitter!Goto
    <2>1. Emitter!InFlight' = Emitter!InFlight
      BY DEF Emitter!TypeOK, Emitter!InFlight
    <2> QED
      BY <2>1 DEF Emitter!TypeOK, EmitterCount, EmitterSlots, Emitter!NoCallAfterClear
  <1>3. ASSUME NEW t \in Threads, Emitter!Invoke(t) PROVE EmitterIInv'
    <2> USE <1>3 DEF EmitterIInv, Emitter!Invoke, Emitter!Goto
    <2>1. Emitter!InFlight' = Emitter!InFlight
      BY DEF Emitter!TypeOK, Emitter!InFlight
    <2> QED
      BY <2>1 DEF Emitter!TypeOK, EmitterCount, EmitterSlots, Emitter!NoCallAfterClear
  <1>4. CASE UNCHANGED Emitter!vars
    <2>1. Emitter!InFlight' = Emitter!InFlight
      BY <1>4 DEF Emitter!vars, Emitter!InFlight
    <2> QED
      BY <1>4, <2>1
      DEF Emitter!vars, EmitterIInv, Emitter!TypeOK, EmitterCount, EmitterSlots,
          Emitter!NoCallAfterClear
  <1> QED
    BY <1>1, <1>2, <1>3, <1>4, EmitStep, FinishStep, DrainedStep DEF Emitter!Next, Emitter!Yield

(* The strengthened invariant holds of every behaviour. *)
THEOREM EmitterIInvHolds == Emitter!Spec => []EmitterIInv
  BY EmitterInit, EmitterNext, PTL DEF Emitter!Spec

(* The in-flight count does not wrap below zero. *)
THEOREM EmitterTypesHold == Emitter!Spec => []Emitter!TypeOK
  <1>1. EmitterIInv => Emitter!TypeOK
    BY DEF EmitterIInv
  <1> QED
    BY EmitterIInvHolds, <1>1, PTL

(* Once an uninstalling call has returned, the engine never calls with a   *)
(* context of before, for any number of emitting and clearing threads.     *)
THEOREM ContextsMayBeFreed == Emitter!Spec => []Emitter!NoCallAfterClear
  <1>1. EmitterIInv => Emitter!NoCallAfterClear
    BY DEF EmitterIInv
  <1> QED
    BY EmitterIInvHolds, <1>1, PTL
=============================================================================
