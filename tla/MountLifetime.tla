--------------------------- MODULE MountLifetime ---------------------------
(***************************************************************************)
(* The life of an overlay instance behind the C interface: AbiCore.cpp     *)
(* creates and destroys it, FileHandleOpen.cpp and AbiFile.cpp open, use   *)
(* and close its files, and WorkDirectory.cpp keeps a second instance off  *)
(* its directories.  Any thread may make any call on any handle at any     *)
(* time (public/LayerMount.h, THREAD-SAFETY).                              *)
(*                                                                         *)
(* A handle is the instance or the file it names.  HandleTable shows that  *)
(* a closed handle names nothing again, so an instance or a file may be    *)
(* used anew once nothing refers to it.  A call on a handle that names     *)
(* nothing returns E_HANDLE and changes nothing.                           *)
(***************************************************************************)
EXTENDS Integers, FiniteSets

CONSTANTS
    Threads,
    Instances,     \* LayerMountHolder objects
    FileHandles,   \* the file table's slots
    Directories,
    None,
    workDir,       \* the work directory of an instance's LM_CONFIG
    upperDir       \* its upper

ASSUME ConfigAssumption ==
    /\ workDir \in [Instances -> Directories]
    /\ upperDir \in [Instances -> Directories]
    /\ None \notin Instances \cup FileHandles
    /\ IsFiniteSet(Threads) /\ IsFiniteSet(FileHandles)

VARIABLES
    pc,          \* the place of each thread in its call
    ref,         \* the holder that a thread's shared_ptr or unique_ptr keeps
    file,        \* the file handle that a thread's call is about
    mounts,      \* the mount table
    files,       \* the file table: the parentOwner of each open file
    engine,      \* the instances with a core
    hostAttached,
    childCount,
    workLock,    \* the holder of .layermount.lock in each directory
    upperLock    \* the holder of .layermount.upper.lock

vars == <<pc, ref, file, mounts, files, engine, hostAttached, childCount,
          workLock, upperLock>>

locks == <<workLock, upperLock>>
holder == <<engine, hostAttached, childCount>>
tables == <<mounts, files>>

Places ==
    {"idle", "return",
     "lockWork", "lockUpper", "reset", "build", "publish",
     "reserve", "openCall", "count", "install",
     "use", "attach", "closeCall", "uncount",
     "checkAttached", "checkChildren", "free",
     "dispose", "unlockUpper", "unlockWork"}

Init ==
    /\ pc = [t \in Threads |-> "idle"]
    /\ ref = [t \in Threads |-> None]
    /\ file = [t \in Threads |-> None]
    /\ mounts = {}
    /\ files = [f \in FileHandles |-> None]
    /\ engine = {}
    /\ hostAttached = [i \in Instances |-> FALSE]
    /\ childCount = [i \in Instances |-> 0]
    /\ workLock = [d \in Directories |-> None]
    /\ upperLock = [d \in Directories |-> None]

Goto(t, place) == pc' = [pc EXCEPT ![t] = place]

(* Between two statements of a call: nothing but the place changes. *)
Keep == UNCHANGED <<ref, file>>

(* A call resolves its handle and keeps the holder that it names. *)
Enter(t, i, f, place) ==
    /\ pc[t] = "idle"
    /\ Goto(t, place)
    /\ ref' = [ref EXCEPT ![t] = i]
    /\ file' = [file EXCEPT ![t] = f]

(* Faulty variant: a file holder does not keep its parent. *)
OthersRefer_FilesForgotten(t, i) ==
    \/ i \in mounts
    \/ \E u \in Threads \ {t} : ref[u] = i

(* The shared_ptr count of i without the reference of t. *)
OthersRefer(t, i) ==
    \/ i \in mounts
    \/ \E f \in FileHandles : files[f] = i
    \/ \E u \in Threads \ {t} : ref[u] = i

(***************************************************************************)
(* LayerMountCreate.                                                       *)
(***************************************************************************)

(* A new holder: no instance is made twice at a time. *)
Create(t, i) ==
    /\ ~OthersRefer(t, i)
    /\ Enter(t, i, None, "lockWork")
    /\ hostAttached' = [hostAttached EXCEPT ![i] = FALSE]
    /\ childCount' = [childCount EXCEPT ![i] = 0]
    /\ UNCHANGED <<engine, tables, locks>>

(* TakeLock opens the file unshared; the open may fail for other reasons.  *)
LockWork(t) ==
    LET d == workDir[ref[t]] IN
    /\ pc[t] = "lockWork"
    /\ \/ /\ workLock[d] = None
          /\ workLock' = [workLock EXCEPT ![d] = ref[t]]
          /\ Goto(t, "lockUpper")
       \/ Goto(t, "return") /\ UNCHANGED workLock
    /\ Keep /\ UNCHANGED <<holder, tables, upperLock>>

(* Faulty variant: only the work directory is locked. *)
LockUpper_Shared(t) ==
    /\ pc[t] = "lockUpper"
    /\ Goto(t, "reset")
    /\ Keep /\ UNCHANGED <<holder, tables, locks>>

LockUpper(t) ==
    LET d == upperDir[ref[t]] IN
    /\ pc[t] = "lockUpper"
    /\ \/ /\ upperLock[d] = None
          /\ upperLock' = [upperLock EXCEPT ![d] = ref[t]]
          /\ Goto(t, "reset")
          /\ UNCHANGED workLock
       \/ /\ workLock' = [workLock EXCEPT ![workDir[ref[t]]] = None]
          /\ Goto(t, "return")
          /\ UNCHANGED upperLock
    /\ Keep /\ UNCHANGED <<holder, tables>>

(* ResetStagingArea; on a failure Open's locals give both locks back. *)
ResetStaging(t) ==
    /\ pc[t] = "reset"
    /\ \/ Goto(t, "build") /\ UNCHANGED locks
       \/ /\ workLock' = [workLock EXCEPT ![workDir[ref[t]]] = None]
          /\ upperLock' = [upperLock EXCEPT ![upperDir[ref[t]]] = None]
          /\ Goto(t, "return")
    /\ Keep /\ UNCHANGED <<holder, tables>>

(* The constructor may throw; the holder then goes with its locks. *)
Build(t) ==
    /\ pc[t] = "build"
    /\ \/ engine' = engine \cup {ref[t]} /\ Goto(t, "publish")
       \/ Goto(t, "return") /\ UNCHANGED engine
    /\ Keep /\ UNCHANGED <<hostAttached, childCount, tables, locks>>

(* Allocate moves the holder into the table, or finds the table full. *)
Publish(t) ==
    /\ pc[t] = "publish"
    /\ \/ /\ mounts' = mounts \cup {ref[t]}
          /\ ref' = [ref EXCEPT ![t] = None]
          /\ Goto(t, "idle")
       \/ Goto(t, "return") /\ UNCHANGED <<mounts, ref>>
    /\ UNCHANGED <<file, files, holder, locks>>

(***************************************************************************)
(* LayerMountOpenFile and LayerMountCreateFile: ReserveThenRun.            *)
(***************************************************************************)

OpenFile(t, i) ==
    /\ i \in mounts
    /\ Enter(t, i, None, "reserve")
    /\ UNCHANGED <<holder, tables, locks>>

Reserve(t) ==
    /\ pc[t] = "reserve"
    /\ \/ \E f \in FileHandles :
            /\ files[f] = None
            /\ \A u \in Threads : file[u] # f
            /\ file' = [file EXCEPT ![t] = f]
            /\ Goto(t, "openCall")
       \/ Goto(t, "return") /\ UNCHANGED file
    /\ UNCHANGED <<ref, holder, tables, locks>>

(* The engine's Open or Create; a failure releases the reserved handle. *)
OpenCall(t) ==
    /\ pc[t] = "openCall"
    /\ \/ Goto(t, "count") /\ UNCHANGED file
       \/ Goto(t, "return") /\ file' = [file EXCEPT ![t] = None]
    /\ UNCHANGED <<ref, holder, tables, locks>>

Count(t) ==
    /\ pc[t] = "count"
    /\ childCount' = [childCount EXCEPT ![ref[t]] = @ + 1]
    /\ Goto(t, "install")
    /\ Keep /\ UNCHANGED <<engine, hostAttached, tables, locks>>

Install(t) ==
    /\ pc[t] = "install"
    /\ files' = [files EXCEPT ![file[t]] = ref[t]]
    /\ Goto(t, "return")
    /\ Keep /\ UNCHANGED <<mounts, holder, locks>>

(***************************************************************************)
(* Calls that use the engine, on a mount or on a file.                     *)
(***************************************************************************)

UseMount(t, i) ==
    /\ i \in mounts
    /\ Enter(t, i, None, "use")
    /\ UNCHANGED <<holder, tables, locks>>

(* ResolveFileHolder: the file's holder keeps the parent. *)
UseFile(t, f) ==
    /\ files[f] # None
    /\ Enter(t, files[f], f, "use")
    /\ UNCHANGED <<holder, tables, locks>>

Use(t) ==
    /\ pc[t] = "use"
    /\ Goto(t, "return")
    /\ Keep /\ UNCHANGED <<holder, tables, locks>>

SetHostAttached(t, i) ==
    /\ i \in mounts
    /\ Enter(t, i, None, "attach")
    /\ UNCHANGED <<holder, tables, locks>>

StoreAttached(t) ==
    /\ pc[t] = "attach"
    /\ \E attached \in BOOLEAN : hostAttached' = [hostAttached EXCEPT ![ref[t]] = attached]
    /\ Goto(t, "return")
    /\ Keep /\ UNCHANGED <<engine, childCount, tables, locks>>

(***************************************************************************)
(* LayerMountCloseFile.                                                    *)
(***************************************************************************)

CloseFile(t, f) ==
    /\ files[f] # None
    /\ Enter(t, files[f], f, "closeCall")
    /\ files' = [files EXCEPT ![f] = None]
    /\ UNCHANGED <<holder, mounts, locks>>

CloseCall(t) ==
    /\ pc[t] = "closeCall"
    /\ Goto(t, "uncount")
    /\ Keep /\ UNCHANGED <<holder, tables, locks>>

(* Faulty variant: a store of zero in place of fetch_sub. *)
Uncount_All(t) ==
    /\ pc[t] = "uncount"
    /\ childCount' = [childCount EXCEPT ![ref[t]] = 0]
    /\ Goto(t, "return")
    /\ Keep /\ UNCHANGED <<engine, hostAttached, tables, locks>>

Uncount(t) ==
    /\ pc[t] = "uncount"
    /\ childCount' = [childCount EXCEPT ![ref[t]] = @ - 1]
    /\ Goto(t, "return")
    /\ Keep /\ UNCHANGED <<engine, hostAttached, tables, locks>>

(***************************************************************************)
(* LayerMountDestroy: two checks, then Free.                               *)
(***************************************************************************)

Destroy(t, i) ==
    /\ i \in mounts
    /\ Enter(t, i, None, "checkAttached")
    /\ UNCHANGED <<holder, tables, locks>>

CheckAttached(t) ==
    /\ pc[t] = "checkAttached"
    /\ Goto(t, IF hostAttached[ref[t]] THEN "return" ELSE "checkChildren")
    /\ Keep /\ UNCHANGED <<holder, tables, locks>>

CheckChildren(t) ==
    /\ pc[t] = "checkChildren"
    /\ Goto(t, IF childCount[ref[t]] # 0 THEN "return" ELSE "free")
    /\ Keep /\ UNCHANGED <<holder, tables, locks>>

(* A second Destroy finds the slot free already. *)
Free(t) ==
    /\ pc[t] = "free"
    /\ mounts' = mounts \ {ref[t]}
    /\ Goto(t, "return")
    /\ Keep /\ UNCHANGED <<files, holder, locks>>

(***************************************************************************)
(* A call returns and drops its reference; the last one runs               *)
(* ~LayerMountHolder: the engine, then the work directory's two locks.     *)
(***************************************************************************)

(* Faulty variant: the last reference goes and no destructor runs. *)
Return_Leaks(t) ==
    /\ pc[t] = "return"
    /\ ref' = [ref EXCEPT ![t] = None]
    /\ file' = [file EXCEPT ![t] = None]
    /\ Goto(t, "idle")
    /\ UNCHANGED <<holder, tables, locks>>

Return(t) ==
    /\ pc[t] = "return"
    /\ file' = [file EXCEPT ![t] = None]
    /\ \/ /\ OthersRefer(t, ref[t])
          /\ ref' = [ref EXCEPT ![t] = None]
          /\ Goto(t, "idle")
       \/ /\ ~OthersRefer(t, ref[t])
          /\ Goto(t, "dispose")
          /\ UNCHANGED ref
    /\ UNCHANGED <<holder, tables, locks>>

Dispose(t) ==
    /\ pc[t] = "dispose"
    /\ engine' = engine \ {ref[t]}
    /\ Goto(t, "unlockUpper")
    /\ Keep /\ UNCHANGED <<hostAttached, childCount, tables, locks>>

(* A lock that the create did not take stays with its holder. *)
Drop(lock, i) == [d \in Directories |-> IF lock[d] = i THEN None ELSE lock[d]]

UnlockUpper(t) ==
    /\ pc[t] = "unlockUpper"
    /\ upperLock' = Drop(upperLock, ref[t])
    /\ Goto(t, "unlockWork")
    /\ Keep /\ UNCHANGED <<holder, tables, workLock>>

UnlockWork(t) ==
    /\ pc[t] = "unlockWork"
    /\ workLock' = Drop(workLock, ref[t])
    /\ ref' = [ref EXCEPT ![t] = None]
    /\ Goto(t, "idle")
    /\ UNCHANGED <<file, holder, tables, upperLock>>

(***************************************************************************)
(* The specification.  A host may stop making calls; a call that is        *)
(* running goes on, as the calls wait for nothing.                         *)
(***************************************************************************)

Call(t) ==
    \/ \E i \in Instances :
         \/ Create(t, i)
         \/ OpenFile(t, i)
         \/ UseMount(t, i)
         \/ SetHostAttached(t, i)
         \/ Destroy(t, i)
    \/ \E f \in FileHandles :
         \/ UseFile(t, f)
         \/ CloseFile(t, f)

Advance(t) ==
    \/ LockWork(t) \/ LockUpper(t) \/ ResetStaging(t) \/ Build(t) \/ Publish(t)
    \/ Reserve(t) \/ OpenCall(t) \/ Count(t) \/ Install(t)
    \/ Use(t) \/ StoreAttached(t)
    \/ CloseCall(t) \/ Uncount(t)
    \/ CheckAttached(t) \/ CheckChildren(t) \/ Free(t)
    \/ Return(t) \/ Dispose(t) \/ UnlockUpper(t) \/ UnlockWork(t)

Next == \E t \in Threads : Call(t) \/ Advance(t)

Spec == Init /\ [][Next]_vars
FairSpec == Spec /\ \A t \in Threads : WF_vars(Advance(t))

(***************************************************************************)
(* Properties.                                                             *)
(***************************************************************************)

(* Types of the variables; childCount, a uint32_t, does not wrap below zero. *)
TypeOK ==
    /\ pc \in [Threads -> Places]
    /\ ref \in [Threads -> Instances \cup {None}]
    /\ file \in [Threads -> FileHandles \cup {None}]
    /\ mounts \subseteq Instances
    /\ files \in [FileHandles -> Instances \cup {None}]
    /\ engine \subseteq Instances
    /\ hostAttached \in [Instances -> BOOLEAN]
    /\ childCount \in [Instances -> Nat]
    /\ workLock \in [Directories -> Instances \cup {None}]
    /\ upperLock \in [Directories -> Instances \cup {None}]

(* No thread is inside the engine of an instance whose core is gone, however *)
(* Destroy, Close and the other calls interleave (HandleTypes.h: the holders *)
(* "pin the parent via a shared_ptr").                                       *)
EngineOutlivesCalls ==
    \A t \in Threads : pc[t] \in {"openCall", "use", "closeCall"} => ref[t] \in engine

(* Two live engines share neither work directory nor upper, and no create   *)
(* empties the staging area under a live engine (WorkDirectory::Open and    *)
(* the order of ~LayerMountHolder).                                         *)
OneEnginePerDirectory ==
    /\ \A i, j \in engine : i # j => workDir[i] # workDir[j] /\ upperDir[i] # upperDir[j]
    /\ \A t \in Threads : pc[t] = "reset" =>
           \A i \in engine : workDir[i] # workDir[ref[t]] /\ upperDir[i] # upperDir[ref[t]]

(* The files of i that a running call counts and the table does not show. *)
InPassage(i) ==
    {t \in Threads : ref[t] = i /\ pc[t] \in {"install", "closeCall", "uncount"}}

OpenFiles(i) == {f \in FileHandles : files[f] = i}

(* childCount is exact: the open files and the ones that a thread is about   *)
(* to install or still closes.  Destroy's check reads it.                    *)
ChildrenCounted ==
    \A i \in Instances :
        childCount[i] = Cardinality(OpenFiles(i)) + Cardinality(InPassage(i))

Holds(i) == workLock[workDir[i]] = i \/ upperLock[upperDir[i]] = i

(* An instance that no handle names gives its directories back, whichever   *)
(* call drops the last reference and however its create failed.             *)
DirectoriesComeBack ==
    \A i \in Instances :
        Holds(i) ~> (~Holds(i) \/ i \in mounts \/ OpenFiles(i) # {})
=============================================================================
