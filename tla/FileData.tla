------------------------------ MODULE FileData ------------------------------
(***************************************************************************)
(* The data path of one file that a lower layer holds, with its parent     *)
(* directory: CopyUp.cpp (reservations, staging, metacopy shells, fills),  *)
(* the calls of LayerMount.cpp that open, read, write, truncate and change *)
(* the attributes and the security of the file, and the copy-up record     *)
(* (MetadataStore.cpp).                                                    *)
(*                                                                         *)
(* Each thread runs one call at a time and has a file context of its own.  *)
(* A step reads or writes shared state once: the upper, the record, a      *)
(* reservation.  What a call does to its own context or builds in the work *)
(* directory is part of the step beside it, and so is the check it makes   *)
(* when it has its reservation: only the holder changes what it looks at.  *)
(* A file is a few blocks; the copy in the upper is a shell (holes, a      *)
(* record with metacopy) or full.  The origin never changes.  A closed     *)
(* handle reopens on the context's path (EnsureHandleReady), so handles    *)
(* are not part of the state.  Delete, rename and links are in Overlay;    *)
(* the cache, whose answers may be old, is in PathCache.                   *)
(***************************************************************************)
EXTENDS Naturals, FiniteSets

CONSTANTS
    Threads,
    Size,       \* the blocks of the file (a bound)
    Setups,     \* the mounts to consider
    Opens,      \* the rights that callers of Open ask for
    Faults,     \* whether calls to the host file system may fail
    NoThread

(* The rights a caller may ask for: "attr" reads attributes, "wattr"       *)
(* changes attributes or security, "read" and "write" are about data.      *)
Rights == {"attr", "wattr", "read", "write"}

ASSUME FileDataAssumption ==
    /\ NoThread \notin Threads /\ Size \in Nat \ {0}
    /\ Threads \cap {"hole", "origin", "eof"} = {}
    /\ Setups \subseteq [large : BOOLEAN, sparse : BOOLEAN, ads : BOOLEAN]
    /\ Opens \subseteq Rights
    /\ Faults \in BOOLEAN

VARIABLES
    setup,      \* large: above kShellOnlyAboveBytes; sparse, ads: LM_CAP_*
    dirUp,      \* whether the upper holds the parent directory
    data,       \* the blocks of the upper file
    flag,       \* "absent" (no upper file), or its record: "shell" (metacopy),
                \*   "full", "blank" (an empty stream: the default record)
    held,       \* inFlightCopyUps_: the holder of each reservation
    ctx,        \* the FileContext of each thread
    pc,         \* the place of each thread
    loc,        \* the local variables of its call
    got         \* what its last call returned

upperVars == <<dirUp, data, flag>>
vars == <<setup, dirUp, data, flag, held, ctx, pc, loc, got>>

Entries == {"dir", "file"}
Blocks == 1..Size
Values == {"hole", "origin", "eof"} \cup Threads
Origin == [b \in Blocks |-> "origin"]
Holes == [b \in Blocks |-> "hole"]
Emptied == [b \in Blocks |-> "eof"]

HasWriteAccess(access) == access \in {"wattr", "write"}
HasFileDataAccess(access) == access \in {"read", "write"}

(* FileContext.  "on" is the layer of actualPath, which is the upper just  *)
(* when the context is writable; "shell" is isMetacopyOnly.                *)
NoContext == [live |-> FALSE, access |-> "attr", on |-> "lower", shell |-> FALSE]

(* The locals: the call, the entry that is looked up, the form and the     *)
(* continuation of a copy-up or fill, the blocks a fill has copied, and    *)
(* the block to read or write.  A local goes back when its function ends.  *)
NoCall == [op |-> "none", key |-> "file", mode |-> "full", next |-> "idle",
           copied |-> 0, block |-> 0]

Init ==
    /\ setup \in Setups
    /\ dirUp = FALSE
    /\ data = Holes
    /\ flag = "absent"
    /\ held = [e \in Entries |-> NoThread]
    /\ ctx = [t \in Threads |-> NoContext]
    /\ pc = [t \in Threads |-> "idle"]
    /\ loc = [t \in Threads |-> NoCall]
    /\ got = [t \in Threads |-> "none"]

Goto(t, place) == pc' = [pc EXCEPT ![t] = place]

(* The call returns r. *)
Return(t, r) ==
    /\ Goto(t, "idle")
    /\ got' = [got EXCEPT ![t] = r]
    /\ loc' = [loc EXCEPT ![t] = NoCall]

(* Changed: a failed call does not release its reservations. *)
FailKeepsReservation(t) ==
    /\ Faults
    /\ Return(t, "fault")
    /\ ctx' = IF ctx[t].live THEN ctx ELSE [ctx EXCEPT ![t] = NoContext]
    /\ UNCHANGED held

(* PathReservation's destructor, for every reservation of the call. *)
Released(t) == [e \in Entries |-> IF held[e] = t THEN NoThread ELSE held[e]]

(* The call fails: its reservations end, and an open leaves no context. *)
Abandon(t, r) ==
    /\ Return(t, r)
    /\ held' = Released(t)
    /\ ctx' = IF ctx[t].live THEN ctx ELSE [ctx EXCEPT ![t] = NoContext]

(* A call to the host file system fails. *)
Fail(t) == Faults /\ Abandon(t, "fault")

ExistsInUpper(e) == IF e = "dir" THEN dirUp ELSE flag # "absent"
Metacopy == flag = "shell"

-----------------------------------------------------------------------------
(* The calls begin.                                                        *)

Call(t, o, place) ==
    /\ loc' = [loc EXCEPT ![t] = [NoCall EXCEPT !.op = o]]
    /\ Goto(t, place)

BlockCall(t, o, place) ==
    /\ \E b \in Blocks :
        loc' = [loc EXCEPT ![t] = [NoCall EXCEPT !.op = o, !.block = b]]
    /\ Goto(t, place)

Open(t) ==
    /\ ~ctx[t].live
    /\ \E access \in Opens :
        ctx' = [ctx EXCEPT ![t] = [NoContext EXCEPT !.access = access]]
    /\ Call(t, "open", "lookup")

SetSecurity(t) ==
    /\ Call(t, "setsec", "lookup")
    /\ UNCHANGED ctx

SetSecurityOfParent(t) ==
    /\ loc' = [loc EXCEPT ![t] = [NoCall EXCEPT !.op = "setsecdir", !.key = "dir"]]
    /\ Goto(t, "lookup")
    /\ UNCHANGED ctx

EnsureInUpperLayer(t) ==
    /\ Call(t, "ensure", IF ExistsInUpper("file") THEN "apply" ELSE "lookup")
    /\ UNCHANGED ctx

Read(t) ==
    /\ ctx[t].live
    /\ HasFileDataAccess(ctx[t].access)
    /\ BlockCall(t, "read", "apply")
    /\ UNCHANGED ctx

Write(t) ==
    /\ ctx[t].live
    /\ ctx[t].access = "write"
    /\ BlockCall(t, "write", "upper")
    /\ UNCHANGED ctx

(* Overwrite, and SetInfo with a new size; then SetInfo without one. *)
Truncate(t) ==
    /\ ctx[t].live
    /\ Call(t, "truncate", "upper")
    /\ UNCHANGED ctx

SetInfo(t) ==
    /\ ctx[t].live
    /\ Call(t, "setattr", "upper")
    /\ UNCHANGED ctx

Close(t) ==
    /\ ctx[t].live
    /\ ctx' = [ctx EXCEPT ![t] = NoContext]
    /\ UNCHANGED <<pc, loc>>

Begin(t) ==
    /\ pc[t] = "idle"
    /\ \/ Open(t)
       \/ SetSecurity(t) \/ SetSecurityOfParent(t) \/ EnsureInUpperLayer(t)
       \/ Read(t) \/ Write(t) \/ Truncate(t) \/ SetInfo(t)
       \/ Close(t)
    /\ got' = [got EXCEPT ![t] = "none"]
    /\ UNCHANGED <<setup, upperVars, held>>

-----------------------------------------------------------------------------
(* CopyUp::CopyUpFileOrShell and CopyUpFile.                               *)

(* A shell needs sparse files; an open makes one of a large file only, and *)
(* EnsureInUpperLayer none.                                                *)
ShellMode(o) == setup.sparse /\ o # "ensure" /\ (o = "open" => setup.large)

(* The call of a copy-up: CopyUpMetadataOnly looks at the upper before it  *)
(* reserves the path, CopyUpFile does not.                                 *)
CopyUpFileOrShell(t) ==
    LET shell == ShellMode(loc[t].op) IN
    /\ loc' = [loc EXCEPT ![t].mode = IF shell THEN "shell" ELSE "full"]
    /\ Goto(t, IF shell THEN "shellcheck" ELSE "reserve")

(* A copy-up returned success: the caller goes on.  CopyUpForHandle marks  *)
(* the context when the result says that a shell was staged, and a context *)
(* with data access fills it.                                              *)
CopyUpDone(t) ==
    LET o     == loc[t].op
        shell == ctx[t].shell \/ loc[t].mode = "shell"
        next  == IF o = "open" THEN "handle" ELSE "switch"
        fill  == shell /\ HasFileDataAccess(ctx[t].access)
        local == [loc[t] EXCEPT !.mode = "full"]
    IN
    IF o \in {"setsec", "ensure"}
      THEN /\ Goto(t, "apply")
           /\ loc' = [loc EXCEPT ![t] = local]
           /\ UNCHANGED ctx
      ELSE /\ ctx' = [ctx EXCEPT ![t].shell = shell,
                                 ![t].on = IF o = "open" THEN "upper" ELSE @]
           /\ loc' = [loc EXCEPT ![t] = IF fill THEN [local EXCEPT !.next = next]
                                                ELSE local]
           /\ Goto(t, IF fill THEN "freserve" ELSE next)

CheckForShell(t) ==
    /\ pc[t] = "shellcheck"
    /\ IF ExistsInUpper("file")
         THEN CopyUpDone(t)
         ELSE Goto(t, "reserve") /\ UNCHANGED <<ctx, loc>>
    /\ UNCHANGED <<setup, upperVars, held, got>>

(* PathReservation's constructor waits for the holder to finish. *)
Reservable(t, e) == held[e] = NoThread
Reserved(t, e) == held' = [held EXCEPT ![e] = t]

(* CopyUpFile: the file that another thread placed meanwhile is enough. *)
ReserveFile(t) ==
    /\ pc[t] = "reserve"
    /\ Reservable(t, "file")
    /\ IF ExistsInUpper("file")
         THEN CopyUpDone(t) /\ UNCHANGED held
         ELSE Goto(t, "parent") /\ Reserved(t, "file") /\ UNCHANGED <<ctx, loc>>
    /\ UNCHANGED <<setup, upperVars, got>>

(* EnsureUpperParent looks at the upper, then asks for a lookup. *)
EnsureUpperParent(t) ==
    /\ pc[t] = "parent"
    /\ IF ExistsInUpper("dir")
         THEN Goto(t, "commit") /\ UNCHANGED loc
         ELSE Goto(t, "lookup") /\ loc' = [loc EXCEPT ![t].key = "dir"]
    /\ UNCHANGED <<setup, upperVars, held, ctx, got>>

(* The copy is built in the work directory; CommitFromWorkDir moves it, and *)
(* its record with it, to the upper path.  The move replaces no entry: it  *)
(* fails with STATUS_OBJECT_NAME_COLLISION.                                *)
Commit(t) ==
    /\ pc[t] = "commit"
    /\ \/ IF flag = "absent"
            THEN /\ flag' = loc[t].mode
                 /\ data' = IF loc[t].mode = "shell" THEN Holes ELSE Origin
                 /\ CopyUpDone(t)
                 /\ held' = Released(t)
                 /\ UNCHANGED got
            ELSE Abandon(t, "collision") /\ UNCHANGED <<data, flag>>
       \/ Fail(t) /\ UNCHANGED <<data, flag>>
    /\ UNCHANGED <<setup, dirUp>>

(* CopyUpDirectory, for SetSecurity of the parent or inside the copy-up of *)
(* the file, whose reservation the thread then holds as well.              *)
DirectoryDone(t) ==
    IF loc[t].op = "setsecdir"
      THEN Goto(t, "apply") /\ UNCHANGED loc
      ELSE Goto(t, "commit") /\ loc' = [loc EXCEPT ![t].key = "file"]

ReserveDir(t) ==
    /\ pc[t] = "dreserve"
    /\ Reservable(t, "dir")
    /\ IF ExistsInUpper("dir")
         THEN DirectoryDone(t) /\ UNCHANGED held
         ELSE Goto(t, "dcommit") /\ Reserved(t, "dir") /\ UNCHANGED loc
    /\ UNCHANGED <<setup, upperVars, ctx, got>>

CommitDir(t) ==
    /\ pc[t] = "dcommit"
    /\ \/ IF ~dirUp
            THEN /\ dirUp' = TRUE
                 /\ DirectoryDone(t)
                 /\ held' = [held EXCEPT !["dir"] = NoThread]
                 /\ UNCHANGED <<ctx, got>>
            ELSE Abandon(t, "collision") /\ UNCHANGED dirUp
       \/ Fail(t) /\ UNCHANGED dirUp
    /\ UNCHANGED <<setup, data, flag>>

-----------------------------------------------------------------------------
(* PathResolver::ResolvePath, and what the caller does with the answer.    *)

(* An answer from the cache may be older than the copy-up of its entry, so *)
(* what the upper holds may still be found in the lower.                   *)
Hits(e) == {"lower"} \cup (IF ExistsInUpper(e) THEN {"upper"} ELSE {})

(* SetOpenPath. *)
OpenFound(t, hit) ==
    /\ loc[t].op = "open" /\ loc[t].key = "file"
    /\ IF hit = "lower" /\ HasWriteAccess(ctx[t].access)
         THEN CopyUpFileOrShell(t) /\ UNCHANGED ctx
         ELSE /\ ctx' = [ctx EXCEPT ![t].on = hit]
              /\ IF hit = "upper"
                   THEN Goto(t, "flag") /\ loc' = [loc EXCEPT ![t].next = "handle"]
                   ELSE Goto(t, "handle") /\ UNCHANGED loc
    /\ UNCHANGED <<held, got>>

SetSecurityFound(t, hit) ==
    /\ loc[t].op = "setsec" /\ loc[t].key = "file"
    /\ IF hit = "lower" THEN CopyUpFileOrShell(t) ELSE Goto(t, "apply") /\ UNCHANGED loc
    /\ UNCHANGED <<held, ctx, got>>

SetSecurityOfParentFound(t, hit) ==
    /\ loc[t].op = "setsecdir"
    /\ Goto(t, IF hit = "lower" THEN "dreserve" ELSE "apply")
    /\ UNCHANGED <<held, ctx, loc, got>>

EnsureFound(t) ==
    /\ loc[t].op = "ensure" /\ loc[t].key = "file"
    /\ CopyUpFileOrShell(t)
    /\ UNCHANGED <<held, ctx, got>>

(* EnsureUpperParent copies a lower directory up.  Every other answer,     *)
(* that the parent is in the upper included, makes it report the parent as *)
(* missing.                                                                *)
ParentFound(t, hit) ==
    /\ loc[t].op # "setsecdir" /\ loc[t].key = "dir"
    /\ IF hit = "lower"
         THEN Goto(t, "dreserve") /\ UNCHANGED <<held, ctx, loc, got>>
         ELSE Abandon(t, "lost")

Resolve(t) ==
    /\ pc[t] = "lookup"
    /\ \/ EnsureFound(t)
       \/ \E hit \in Hits(loc[t].key) :
            \/ OpenFound(t, hit) \/ SetSecurityFound(t, hit)
            \/ SetSecurityOfParentFound(t, hit) \/ ParentFound(t, hit)
    /\ UNCHANGED <<setup, upperVars>>

-----------------------------------------------------------------------------
(* CopyUp::CompleteLazyCopyUp.                                             *)

(* The caller of a flag read or a fill goes on. *)
Continue(t) ==
    /\ Goto(t, loc[t].next)
    /\ loc' = [loc EXCEPT ![t].next = "idle"]

(* LayerMount::FillShell: the context is no shell after a fill. *)
FillDone(t) ==
    /\ ctx' = [ctx EXCEPT ![t].shell = FALSE]
    /\ Continue(t)

(* Changed: the fill trusts the context and does not read the record again. *)
ReserveFillAgain(t) ==
    /\ pc[t] = "freserve"
    /\ Reservable(t, "file")
    /\ Goto(t, "fcopy")
    /\ Reserved(t, "file")
    /\ UNCHANGED <<setup, upperVars, ctx, loc, got>>

(* The record is read under the reservation: it may be filled by now. *)
ReserveFill(t) ==
    /\ pc[t] = "freserve"
    /\ Reservable(t, "file")
    /\ IF Metacopy
         THEN Goto(t, "fcopy") /\ Reserved(t, "file") /\ UNCHANGED <<ctx, loc>>
         ELSE FillDone(t) /\ UNCHANGED held
    /\ UNCHANGED <<setup, upperVars, got>>

(* FillMetacopyShell: the data goes in block by block and may stop.        *)
FillCopy(t) ==
    /\ pc[t] = "fcopy"
    /\ \/ LET b == loc[t].copied + 1 IN
          /\ data' = [data EXCEPT ![b] = "origin"]
          /\ loc' = [loc EXCEPT ![t].copied = b % Size]
          /\ Goto(t, IF b < Size THEN "fcopy"
                     ELSE IF setup.ads THEN "frecord" ELSE "fwrite")
          /\ UNCHANGED <<held, ctx, got>>
       \/ Fail(t) /\ UNCHANGED data
    /\ UNCHANGED <<setup, dirUp, flag>>

(* FinishFilledShell.  WriteAdsOnly empties the stream, then writes it; a  *)
(* sidecar record is replaced by one rename.                               *)
FillEmptyRecord(t) ==
    /\ pc[t] = "frecord"
    /\ \/ /\ flag' = "blank"
          /\ Goto(t, "fwrite")
          /\ UNCHANGED <<held, ctx, loc, got>>
       \/ Fail(t) /\ UNCHANGED flag
    /\ UNCHANGED <<setup, dirUp, data>>

(* The times and attributes go back last; when that fails, the call fails  *)
(* with the fill in place.                                                 *)
FillWriteRecord(t) ==
    /\ pc[t] = "fwrite"
    /\ \/ flag' = "full" /\ FillDone(t) /\ held' = Released(t) /\ UNCHANGED got
       \/ flag' \in {flag, "full"} /\ Fail(t)
    /\ UNCHANGED <<setup, dirUp, data>>

-----------------------------------------------------------------------------
(* The calls on a context go on.                                           *)

(* Changed: the flag is read after the context is asked whether to fill. *)
ReadFlagTooLate(t) ==
    /\ pc[t] = "flag"
    /\ ctx' = [ctx EXCEPT ![t].shell = Metacopy]
    /\ IF ctx[t].shell /\ HasFileDataAccess(ctx[t].access)
         THEN Goto(t, "freserve") /\ UNCHANGED loc
         ELSE Continue(t)
    /\ UNCHANGED <<setup, upperVars, held, got>>

(* ReadMetacopyFlag and FillShellForDataAccess. *)
ReadFlag(t) ==
    /\ pc[t] = "flag"
    /\ ctx' = [ctx EXCEPT ![t].shell = Metacopy]
    /\ IF Metacopy /\ HasFileDataAccess(ctx[t].access)
         THEN Goto(t, "freserve") /\ UNCHANGED loc
         ELSE Continue(t)
    /\ UNCHANGED <<setup, upperVars, held, got>>

(* OpenContextHandleWithAccess, the end of Open. *)
OpenHandle(t) ==
    /\ pc[t] = "handle"
    /\ \/ /\ ctx' = [ctx EXCEPT ![t].live = TRUE]
          /\ Return(t, "ok")
          /\ UNCHANGED held
       \/ Fail(t)
    /\ UNCHANGED <<setup, upperVars>>

(* EnsureMetacopyMaterialized, before data or the size changes. *)
EnsureMetacopyMaterialized(t) ==
    IF ctx[t].shell /\ loc[t].op # "setattr"
      THEN Goto(t, "freserve") /\ loc' = [loc EXCEPT ![t].next = "apply"]
      ELSE Goto(t, "apply") /\ UNCHANGED loc

(* EnsureInUpperLayer of a context: being on the upper, or a file that is  *)
(* in the upper already, is enough.                                        *)
EnsureContextInUpper(t) ==
    /\ pc[t] = "upper"
    /\ CASE ctx[t].on = "upper" -> EnsureMetacopyMaterialized(t)
         [] ctx[t].on = "lower" /\ ExistsInUpper("file") ->
              Goto(t, "flag") /\ loc' = [loc EXCEPT ![t].next = "switch"]
         [] OTHER -> CopyUpFileOrShell(t)
    /\ UNCHANGED <<setup, upperVars, held, ctx, got>>

(* The end of EnsureInUpperLayer: the context takes the upper path and is  *)
(* on the upper, also when its handle does not reopen there.               *)
Switch(t) ==
    /\ pc[t] = "switch"
    /\ ctx' = [ctx EXCEPT ![t].on = "upper"]
    /\ \/ EnsureMetacopyMaterialized(t) /\ UNCHANGED got
       \/ Faults /\ Return(t, "fault")
    /\ UNCHANGED <<setup, upperVars, held>>

-----------------------------------------------------------------------------
(* The calls take effect.                                                  *)

DataOf(t) == IF ctx[t].on = "upper" THEN data ELSE Origin

ReadFile(t) ==
    /\ loc[t].op = "read"
    /\ Return(t, DataOf(t)[loc[t].block])
    /\ UNCHANGED data

WriteFile(t) ==
    /\ loc[t].op = "write"
    /\ data' = [data EXCEPT ![loc[t].block] = t]
    /\ Return(t, "ok")

SetEndOfFile(t) ==
    /\ loc[t].op = "truncate"
    /\ data' = Emptied
    /\ Return(t, "ok")

(* Attributes, times and security are not part of the state. *)
SetAttributes(t) ==
    /\ loc[t].op \in {"setattr", "ensure", "setsec", "setsecdir"}
    /\ Return(t, "ok")
    /\ UNCHANGED data

Apply(t) ==
    /\ pc[t] = "apply"
    /\ \/ /\ ReadFile(t) \/ WriteFile(t) \/ SetEndOfFile(t) \/ SetAttributes(t)
          /\ UNCHANGED <<held, ctx>>
       \/ Fail(t) /\ UNCHANGED data
    /\ UNCHANGED <<setup, dirUp, flag>>

-----------------------------------------------------------------------------
Waits(t) == ReserveFile(t) \/ ReserveDir(t) \/ ReserveFill(t)

Runs(t) ==
    \/ Resolve(t) \/ CheckForShell(t) \/ EnsureUpperParent(t) \/ Commit(t)
    \/ CommitDir(t) \/ FillCopy(t) \/ FillEmptyRecord(t) \/ FillWriteRecord(t)
    \/ ReadFlag(t) \/ OpenHandle(t) \/ EnsureContextInUpper(t) \/ Switch(t)
    \/ Apply(t)

(* The process stops and mounts again: the layers are what is left. *)
Crash ==
    /\ Faults
    /\ held' = [e \in Entries |-> NoThread]
    /\ ctx' = [t \in Threads |-> NoContext]
    /\ pc' = [t \in Threads |-> "idle"]
    /\ loc' = [t \in Threads |-> NoCall]
    /\ got' = [t \in Threads |-> "none"]
    /\ UNCHANGED <<setup, upperVars>>

Next ==
    \/ \E t \in Threads : Begin(t) \/ Waits(t) \/ Runs(t)
    \/ Crash

(* A thread inside a call runs.  A release wakes every waiter (notify_all), *)
(* and no waiter is overtaken for ever.                                    *)
Fairness == \A t \in Threads : WF_vars(Runs(t)) /\ SF_vars(Waits(t))

Spec == Init /\ [][Next]_vars /\ Fairness

-----------------------------------------------------------------------------
Contexts == [live : BOOLEAN, access : Rights, on : {"lower", "upper"},
             shell : BOOLEAN]

Calls == [op : {"none", "open", "setsec", "setsecdir", "ensure", "read", "write",
                "truncate", "setattr"},
          key : Entries, mode : {"full", "shell"},
          next : {"idle", "handle", "switch", "apply"},
          copied : 0..Size, block : 0..Size]

Places == {"idle", "lookup", "shellcheck", "reserve", "parent", "commit",
           "dreserve", "dcommit", "freserve", "fcopy", "frecord", "fwrite",
           "flag", "handle", "upper", "switch", "apply"}

Answers == {"none", "ok", "fault", "lost", "collision"} \cup Values

(* The type of every variable. *)
TypeOK ==
    /\ setup \in Setups
    /\ dirUp \in BOOLEAN
    /\ data \in [Blocks -> Values]
    /\ flag \in {"absent", "shell", "blank", "full"}
    /\ held \in [Entries -> Threads \cup {NoThread}]
    /\ ctx \in [Threads -> Contexts]
    /\ pc \in [Threads -> Places]
    /\ loc \in [Threads -> Calls]
    /\ got \in [Threads -> Answers]

(* Open fills a shell before it opens a handle for data: no live context   *)
(* with data access is on an upper file whose record still says metacopy.  *)
NoHandleOnShell ==
    \A t \in Threads :
        ctx[t].live /\ ctx[t].on = "upper" /\ HasFileDataAccess(ctx[t].access)
            => ~Metacopy

(* The data behind copy-up, shells and fills is one content: a fill undoes *)
(* no write or truncate, no read sees the holes of a shell, and a handle   *)
(* that has been moved to the upper never shows the lower file again.      *)
Content == INSTANCE FileContent WITH
    content <- IF flag \in {"absent", "shell"} THEN Origin ELSE data,
    sees <- [t \in Threads |-> IF ~ctx[t].live THEN "closed"
                               ELSE IF ctx[t].on = "upper" THEN "content" ELSE "lower"]

ImplementsContent == Content!Spec

(* Every call returns (a thread is idle again and again): no reservation   *)
(* is kept, none is waited for in a circle.                                *)
CallsReturn == \A t \in Threads : []<>(pc[t] = "idle")
=============================================================================
