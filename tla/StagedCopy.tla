----------------------------- MODULE StagedCopy -----------------------------
(***************************************************************************)
(* How a copy of a lower entry is built in the work directory and becomes  *)
(* an entry of the upper: copy-up of a file, of a shell, of a directory    *)
(* and of a link (impl/CopyUp.cpp, impl/EntryCopy.cpp), and the rename of  *)
(* a directory that is in a lower (impl/DirectoryRename.cpp).              *)
(*                                                                         *)
(* The lists of steps below have the order of the code.  Each step is one  *)
(* host call or a loop of them, and each may fail.  Moves and removals are *)
(* those of UpperEntries.                                                  *)
(*                                                                         *)
(* One call runs at a time: reservations, two openers and the fill of a    *)
(* shell are in FileData, whiteouts and lookups in Overlay.                *)
(***************************************************************************)
EXTENDS UpperEntries

CONSTANTS
    Lower,      \* the lower entries, by the path at which the view shows them
    Blocks,     \* length of a file
    Batch,      \* how many ranges one query returns
    Fresh,      \* paths at which a host program makes a new file or directory
    Renames,    \* pairs of paths <<from, to>> that a call renames
    Starts,     \* what the volume of the upper can do (streams, holes, EAs), and the
                \* lower paths that earlier calls copied up and hid
    MaxCalls    \* bound: number of calls

VARIABLES
    hidden,     \* the lower paths that a whiteout hides
    before,     \* history: disk and sidecar store when the call began
    calls       \* number of calls so far

vars == <<host, disk, side, pc, call, faults, past, hidden, before, calls>>

copyVars == <<hidden, before, calls>>

Staged    == <<"staged">>
Container == <<"container">>
Built     == <<"container", "entry">>
Aside     == <<"aside">>
New       == <<>>

ASSUME StagedCopyAssumption ==
    /\ Blocks \in Nat \ {0} /\ Batch \in Nat \ {0}
    /\ MaxCalls \in Nat /\ MaxFaults \in Nat
    /\ WorkNames = {"staged", "container", "aside"}
    /\ \A p \in DOMAIN Lower :
          /\ ~InWork(p)
          /\ Lower[p].kind \in {"file", "directory", "link"}
          /\ Lower[p].data \subseteq 0 .. Blocks - 1
          /\ Lower[p].alloc \subseteq 0 .. Blocks - 1
          /\ ~Lower[p].remote => Lower[p].data \subseteq Lower[p].alloc

(***************************************************************************)
(* Entries and records.                                                    *)
(***************************************************************************)
Record(of, shell) == [of |-> of, shell |-> shell]
NoRecord == Record(New, FALSE)

(* An entry as CreateFileW or CreateDirectoryW makes it. *)
EmptyEntry(kind, of, shell) ==
    [kind |-> kind, of |-> of, shell |-> shell, written |-> {}, size |-> 0,
     streams |-> {}, eas |-> {}, marks |-> {}, rec |-> NoRecord]

AllBlocks == 0 .. Blocks - 1

(* What a program made in the upper, and its attributes. *)
NewDirectory == EmptyEntry("directory", New, FALSE)

NewFile == [EmptyEntry("file", New, FALSE) EXCEPT !.written = AllBlocks, !.size = Blocks]

Plain ==
    [kind |-> "file", data |-> AllBlocks, alloc |-> AllBlocks, remote |-> FALSE,
     sparse |-> FALSE, streams |-> <<>>, eas |-> <<>>, crypt |-> FALSE,
     compressed |-> FALSE, readonly |-> FALSE]

(* A record that is not there, or cannot be read, reads as the default.    *)
ReadAdsOnly(p) == IF host.ads THEN disk[p].rec ELSE NoRecord

SidecarRead(p) == IF p \in DOMAIN side.meta THEN side.meta[p] ELSE NoRecord

(* ReadLayerMountMetadata: the sidecar store answers for a default record. *)
RecordOf(p) == IF ReadAdsOnly(p) # NoRecord THEN ReadAdsOnly(p) ELSE SidecarRead(p)

HasOpaqueMark(p) == "opaque" \in disk[p].marks

SidecarHasOpaque(p) == p \in DOMAIN side.opaque

IsOpaque(p) == HasOpaqueMark(p) \/ SidecarHasOpaque(p)

InView(p) == p \in DOMAIN disk \/ p \in DOMAIN Lower \ hidden

KindInView(p) == IF p \in DOMAIN disk THEN disk[p].kind ELSE Lower[p].kind

(***************************************************************************)
(* What a step copies: the lower entry, or, in a merged directory, the     *)
(* entry of the upper.                                                     *)
(***************************************************************************)
Of == Head(call.todo).of

FromUpper == Of \in DOMAIN disk

Origin(p) == IF p \in DOMAIN disk THEN disk[p].of ELSE p

AttributesOf(of) == IF of = New THEN Plain ELSE Lower[of]

Source == AttributesOf(Origin(Of))

IsShell == FromUpper /\ disk[Of].shell

(* The ranges that a query of the source reports, and its length. *)
SourceRanges == IF FromUpper THEN disk[Of].written ELSE Lower[Of].alloc
SourceSize == IF FromUpper THEN disk[Of].size ELSE Blocks

(* The attributes of the source. *)
IsSparse == IF FromUpper THEN "sparse" \in disk[Of].marks ELSE Lower[Of].sparse
IsCompressed == IF FromUpper THEN "compressed" \in disk[Of].marks ELSE Lower[Of].compressed
IsEncrypted == IF FromUpper THEN "encrypted" \in disk[Of].marks ELSE Lower[Of].crypt
IsReadOnly == IF FromUpper THEN "readonly" \in disk[Of].marks ELSE Lower[Of].readonly

(* History: the parts that the code goes on without when the host refuses  *)
(* a call.  A copy of a copy keeps them: the length of a shell, the holes, *)
(* the owner or the DACL, the times, the attributes, the record.           *)
FlawMarks == {"unsized", "dense", "unsecured", "untimed", "unflagged", "unread"}

Flaws == IF FromUpper THEN disk[Of].marks \cap FlawMarks ELSE {}

SourceStreams ==
    IF FromUpper THEN SetToSeq(disk[Of].streams) ELSE Lower[Of].streams

(* The extended attributes in the order of the query; those of the kernel  *)
(* cannot be set by a user program.                                        *)
SourceEas ==
    IF FromUpper THEN SelectSeq(Source.eas, LAMBDA e : e \in disk[Of].eas) ELSE Lower[Of].eas

KernelEas == {"kernel"}

(***************************************************************************)
(* Jobs.                                                                   *)
(***************************************************************************)
Steps(dos, at, of) == [i \in DOMAIN dos |-> Step(dos[i], at, of)]

(* The attributes go on after the last write, because NTFS refuses a new   *)
(* stream on a read-only file.                                             *)
RecordStagedFile(record) == <<record, "restore">>

FinishStagedFile == <<"streams">> \o RecordStagedFile("record")

CopyStagedFileMetadata == <<"encrypt", "eas", "security">>

StageFileInWorkDir == <<"create", "sparse", "compress", "data">> \o CopyStagedFileMetadata

StageMetacopyShellInWorkDir ==
    <<"createshell", "sparse", "compress", "size">> \o CopyStagedFileMetadata

CopyDirectoryOwnMetadata == <<"query", "compress", "encrypt", "streams", "eas">>

BuildStagedDirectory ==
    <<"create">> \o CopyDirectoryOwnMetadata \o <<"security", "record">>

(* The entry is built in the work directory and moved; when a step fails,  *)
(* what was built goes (CommitFromWorkDir).                                *)
StageAndMove(build, p) ==
    <<Phase(Steps(build, Staged, p) \o <<MoveStep(Staged, p, FALSE)>>,
            <<Step("remove", Staged, p)>>)>>

(* Faulty variant: the attributes go on before the streams. *)
CopyUpFile_RestoreFirst(p) ==
    StageAndMove(<<"query">> \o StageFileInWorkDir \o <<"restore", "streams", "record">>, p)

CopyUpFile(p) ==
    StageAndMove(<<"query">> \o StageFileInWorkDir \o FinishStagedFile, p)

BuildMetacopyShell ==
    <<"checkedquery">> \o StageMetacopyShellInWorkDir \o RecordStagedFile("recordshell")

CopyUpMetadataOnly(p) == StageAndMove(BuildMetacopyShell, p)

CopyUpDirectory(p) == StageAndMove(BuildStagedDirectory \o <<"guard">>, p)

(* The directories above p that only a lower has are copied first, each by *)
(* a copy of its own, which stays when a later one fails.  Those in `made` *)
(* an earlier part of the job copies.                                      *)
EnsureUpperParentAfter(p, made) ==
    LET above(i) == SubSeq(p, 1, i)
    IN  FlattenSeq([i \in 1 .. Len(p) - 1 |->
                       IF above(i) \in DOMAIN disk \cup made THEN <<>>
                       ELSE CopyUpDirectory(above(i))])

EnsureUpperParent(p) == EnsureUpperParentAfter(p, {})

(* BuildInContainerAndMove: the entry is made in a directory that passes   *)
(* on what the parent of its final path passes on.                         *)
BuildInContainerAndMove(build, to) ==
    <<Phase(<<Step("container", Container, to), Step("inherit", Container, to)>>
              \o build \o <<MoveStep(Built, to, FALSE)>>,
            <<Step("remove", Container, to)>>),
      Phase(<<Step("remove", Container, to)>>, <<>>)>>

CloneSteps == <<"create", "reparse", "eas", "record">>

CloneReparsePointThroughWorkDir(p, to) ==
    BuildInContainerAndMove(Steps(CloneSteps, Built, p), to)

CopyFileMetadataAfterData == <<"encrypt", "streams", "eas", "inheritsecurity", "record">>

CopyFilePreservingMetadata ==
    <<"checkedquery", "create", "sparse", "compress", "data">>
      \o CopyFileMetadataAfterData \o <<"times">>

MergedChildren(p) ==
    {q \in DOMAIN disk \cup (DOMAIN Lower \ hidden) : Len(q) = Len(p) + 1 /\ IsPrefix(p, q)}

(* The copied security may deny a listing, so it goes on last. *)
ApplyDirectoryBasicInfoAndSecurity == <<"basicinfo", "inheritsecurity">>

FinishCopiedDirectory(record, marks) ==
    CopyDirectoryOwnMetadata \o <<record>> \o marks \o ApplyDirectoryBasicInfoAndSecurity

(* CopyEntry of a child at the path `at`: a link, a file, or a directory   *)
(* with its children, which gets no opaque mark of its own.                *)
RECURSIVE CopyMergedEntry(_, _)
CopyMergedEntry(p, at) ==
    LET child(q) == CopyMergedEntry(q, Append(at, Last(q)))
        children == FlattenSeq(SetToSeq({child(q) : q \in MergedChildren(p)}))
    IN  CASE KindInView(p) = "link" -> Steps(CloneSteps, at, p)
          [] KindInView(p) = "file" -> Steps(CopyFilePreservingMetadata, at, p)
          [] KindInView(p) = "directory" ->
                Steps(<<"create">>, at, p) \o children
                  \o Steps(FinishCopiedDirectory("record", <<>>), at, p)

CopyMergedDirectory(p) ==
    LET child(q) == CopyMergedEntry(q, Append(Built, Last(q)))
    IN  Steps(<<"create">>, Built, p)
          \o FlattenSeq(SetToSeq({child(q) : q \in MergedChildren(p)}))
          \o Steps(FinishCopiedDirectory("recordnew", <<"mark">>), Built, p)

(* Faulty variant: the copy at the new name stays when the old directory   *)
(* cannot move aside.                                                      *)
RenameLowerDirectory_CopyStays(p, to) ==
    EnsureUpperParent(to)
      \o BuildInContainerAndMove(
             IF Lower[p].kind = "link" THEN Steps(CloneSteps, Built, p)
             ELSE CopyMergedDirectory(p), to)
      \o (IF p \in DOMAIN disk
          THEN <<Phase(<<MoveStep(p, Aside, FALSE), Step("remove", Aside, p)>>, <<>>)>>
          ELSE <<>>)

(* The copy at the new name, then the old upper directory aside; when that *)
(* fails, the copy goes.                                                   *)
RenameLowerDirectory(p, to) ==
    EnsureUpperParent(to)
      \o BuildInContainerAndMove(
             IF Lower[p].kind = "link" THEN Steps(CloneSteps, Built, p)
             ELSE CopyMergedDirectory(p), to)
      \o (IF p \in DOMAIN disk
          THEN <<Phase(<<MoveStep(p, Aside, FALSE)>>, <<Step("delete", to, p)>>),
                 Phase(<<Step("remove", Aside, p)>>, <<>>)>>
          ELSE <<>>)

(***************************************************************************)
(* The steps that build a copy.                                            *)
(***************************************************************************)
Copy == disk[At]

(* A write moves the time of the last write. *)
Wrote(e) == [e EXCEPT !.marks = @ \ {"times"}]

With(e, marks) == [e EXCEPT !.marks = @ \cup marks]

(* The step is done and the copy is now e. *)
StepDone(e) ==
    /\ disk' = [disk EXCEPT ![At] = e]
    /\ call' = Advanced(call)
    /\ UNCHANGED <<host, side, pc, past>>

(* A new entry takes what its directory passes on, and changes its time. *)
CreateEntry(e) ==
    LET parent    == Front(At)
        inherited == IF parent \in DOMAIN disk
                          /\ disk[parent].marks \cap {"inherits", "inherited"} # {}
                     THEN {"inherited"} ELSE {}
        old       == [q \in DOMAIN disk |->
                        IF q = parent THEN Wrote(disk[q]) ELSE disk[q]]
    IN  /\ At \notin DOMAIN disk
        /\ disk' = (At :> With(e, inherited)) @@ old
        /\ call' = Advanced(call)
        /\ UNCHANGED <<host, side, pc, faults, past>>

Create ==
    \/ /\ Doing("create")
       /\ CreateEntry(With(EmptyEntry(KindInView(Of), Origin(Of), IsShell), Flaws))
    \/ Doing("createshell") /\ CreateEntry(EmptyEntry("file", Of, TRUE))
    \/ Doing("container") /\ CreateEntry(EmptyEntry("directory", New, FALSE))

(* GetFileAttributesW of the source.  Where nobody looks at its result the *)
(* copy goes on as if the source had no flag.                              *)
QueryAttributes ==
    /\ Doing("query") \/ Doing("checkedquery")
    /\ \/ call' = [Advanced(call) EXCEPT !.blind = FALSE] /\ UNCHANGED faults
       \/ Doing("query") /\ Hit(1) /\ call' = [Advanced(call) EXCEPT !.blind = TRUE]
    /\ UNCHANGED <<host, disk, side, pc, past>>

HasFileAttribute(flag) == flag /\ ~call.blind

WriteSecurityToInheritAs ==
    Doing("inherit") /\ StepDone(With(Copy, {"inherits"})) /\ UNCHANGED faults

(* SetSparse runs on a shell, and on a copy of a sparse file where the     *)
(* volume has sparse files.  A refusal fails the copy.                     *)
SetsSparse == host.sparse /\ (Copy.shell \/ HasFileAttribute(IsSparse))

SetSparse ==
    /\ Doing("sparse")
    /\ StepDone(IF SetsSparse THEN With(Copy, {"sparse"}) ELSE Copy)
    /\ UNCHANGED faults

(* A refusal to compress is ignored. *)
SetCompressedIfSource ==
    LET compresses == HasFileAttribute(IsCompressed)
    IN  /\ Doing("compress")
        /\ \/ /\ StepDone(IF compresses THEN With(Copy, {"compressed"}) ELSE Copy)
              /\ UNCHANGED faults
           \/ compresses /\ Hit(1) /\ StepDone(Copy)

(* SetEndOfFile of a shell, whose result nobody reads. *)
SetShellSize ==
    /\ Doing("size")
    /\ \/ StepDone([Copy EXCEPT !.size = Blocks]) /\ UNCHANGED faults
       \/ Hit(1) /\ StepDone(With(Copy, {"unsized"}))

(***************************************************************************)
(* CopyFileDataKeepingHoles                                                *)
(***************************************************************************)
(* Faulty variant: a file whose data is elsewhere is asked for ranges. *)
CopiesRanges_Remote == IsSparse /\ "sparse" \in Copy.marks

CopiesRanges == IsSparse /\ ~Source.remote /\ "sparse" \in Copy.marks

(* Every byte, so that a hole becomes written zeros. *)
Dense(e) == Wrote([e EXCEPT !.written = 0 .. SourceSize - 1, !.size = SourceSize])

CopyBytesToEnd ==
    /\ Doing("data") /\ ~CopiesRanges
    /\ StepDone(Dense(Copy))
    /\ UNCHANGED faults

(* The volume refuses a query: all bytes are copied from the start. *)
RangesRefused ==
    /\ Doing("data") /\ CopiesRanges
    /\ Hit(1)
    /\ StepDone(With(Dense(Copy), {"dense"}))

(* One query of CopyAllocatedRanges and the ranges it returns.  The next   *)
(* query begins where the last range ended; after the last one the end of  *)
(* the file is set, which makes the hole at the end.                       *)
CopyAllocatedRanges ==
    LET rest  == {b \in SourceRanges : b >= call.next - 1}
        batch == {b \in rest : Cardinality({c \in rest : c < b}) < Batch}
        last  == CHOOSE b \in batch : \A c \in batch : c <= b
        e     == [Copy EXCEPT !.written = @ \cup batch]
    IN  /\ Doing("data") /\ CopiesRanges
        /\ IF batch = rest
             THEN StepDone(Wrote([e EXCEPT !.size = SourceSize]))
             ELSE /\ disk' = [disk EXCEPT ![At] = Wrote([e EXCEPT !.size = last + 1])]
                  /\ call' = [call EXCEPT !.next = last + 2]
                  /\ UNCHANGED <<host, side, pc, past>>
        /\ UNCHANGED faults

(***************************************************************************)
(* Streams, extended attributes, security, record, attributes and times.   *)
(***************************************************************************)
(* NTFS refuses a new stream on a read-only entry, and a volume without    *)
(* streams refuses every one.                                              *)
RefusesStreams == ~host.ads \/ "readonly" \in Copy.marks

(* The next stream, CopyAlternateStream.  A refusal fails the copy; only   *)
(* the volume's is the host's doing.                                       *)
CopyUserAlternateDataStreams ==
    /\ Doing("streams")
    /\ IF call.next > Len(SourceStreams) THEN StepDone(Copy)
       ELSE IF RefusesStreams
       THEN /\ call' = IF host.ads THEN Failed(call) ELSE Marked(Failed(call), 1)
            /\ UNCHANGED <<host, disk, side, pc, past>>
       ELSE /\ disk' = [disk EXCEPT ![At] =
                           Wrote([Copy EXCEPT !.streams = @ \cup {SourceStreams[call.next]}])]
            /\ call' = [call EXCEPT !.next = @ + 1]
            /\ UNCHANGED <<host, side, pc, past>>
    /\ UNCHANGED faults

(* One query of the extended attributes returns those that fit, and the    *)
(* next one starts at the index after them.                                *)
CopyExtendedAttributes ==
    /\ Doing("eas")
    /\ IF ~host.eas \/ call.next > Len(SourceEas) THEN StepDone(Copy)
       ELSE \E k \in call.next .. Len(SourceEas) :
               LET some == {SourceEas[i] : i \in call.next .. k} \ KernelEas
               IN  /\ disk' = [disk EXCEPT ![At] =
                                 IF some = {} THEN Copy
                                 ELSE Wrote([Copy EXCEPT !.eas = @ \cup some])]
                   /\ call' = [call EXCEPT !.next = k + 1]
                   /\ UNCHANGED <<host, side, pc, past>>
    /\ UNCHANGED faults

(* Flags that could not be read count as none, and the step succeeds. *)
ApplyEncryptedStateIfNeeded ==
    /\ Doing("encrypt")
    /\ StepDone(CASE call.blind -> With(Copy, {"unflagged"})
                  [] HasFileAttribute(IsEncrypted) -> With(Copy, {"encrypted"})
                  [] OTHER -> Copy)
    /\ UNCHANGED faults

CopySecurityDescriptor ==
    Doing("security") /\ StepDone(With(Copy, {"security"})) /\ UNCHANGED faults

(* A failed write fails the copy.  The owner, the DACL and the SACL have a *)
(* query each, and one that fails leaves its part out.                     *)
CopySecurityKeepingInheritance ==
    /\ Doing("inheritsecurity")
    /\ \/ StepDone(With(Copy, {"security"})) /\ UNCHANGED faults
       \/ Hit(1) /\ StepDone(With(Copy, {"unsecured"}))

CopyUpReparsePointEntry ==
    Doing("reparse") /\ StepDone(With(Copy, {"reparse"})) /\ UNCHANGED faults

(* A shell's record says so; an upper entry keeps its record, and a lower  *)
(* one, and every merged directory, gets a new one.                        *)
CopiedRecord ==
    CASE Doing("recordshell") -> Record(Of, TRUE)
      [] Doing("recordnew")   -> Record(Of, FALSE)
      [] Doing("record")      -> IF FromUpper THEN RecordOf(Of) ELSE Record(Of, FALSE)

WriteAdsOnly(r, marks) ==
    IF RefusesStreams THEN disk
    ELSE [disk EXCEPT ![At] = With(Wrote([Copy EXCEPT !.rec = r]), marks)]

(* A file beside the record replaces it, so a stop leaves the old or the   *)
(* new record.                                                             *)
SidecarWrite(r) == [side EXCEPT !.meta = (At :> r) @@ @]

(* A carried record that cannot be read is written as the default one. *)
WriteLayerMountMetadata ==
    /\ Doing("record") \/ Doing("recordnew") \/ Doing("recordshell")
    /\ \E read \in BOOLEAN :
          LET r     == IF read THEN CopiedRecord ELSE NoRecord
              marks == IF read THEN {} ELSE {"unread"}
          IN  /\ ~read => Doing("record") /\ FromUpper
              /\ Hit(IF read THEN 0 ELSE 1)
              /\ IF host.ads
                   THEN /\ disk' = WriteAdsOnly(r, marks) /\ side' = side
                        /\ call' = IF RefusesStreams THEN Failed(call) ELSE Advanced(call)
                   ELSE /\ disk' = [disk EXCEPT ![At] = With(Copy, marks)]
                        /\ side' = SidecarWrite(r) /\ call' = Advanced(call)
    /\ UNCHANGED <<host, pc, past>>

SidecarSetOpaque == [side EXCEPT !.opaque = (At :> Copy.of) @@ @]

SetOpaqueAdsOnly == With(Copy, {"opaque"})

(* WriteOpaqueMarkers: the stream or sidecar marker and the marker file;   *)
(* one of them is enough.                                                  *)
SetOpaqueAtPath ==
    /\ Doing("mark")
    /\ \E file, meta \in BOOLEAN :
          /\ file \/ meta
          /\ Hit(IF file /\ meta THEN 0 ELSE 1)
          /\ disk' = [disk EXCEPT ![At] =
                         IF file \/ host.ads THEN SetOpaqueAdsOnly ELSE Copy]
          /\ side' = IF meta /\ ~host.ads THEN SidecarSetOpaque ELSE side
    /\ call' = Advanced(call)
    /\ UNCHANGED <<host, pc, past>>

(* WriteEntryTimes puts on what could be read of the source: `timed` when  *)
(* its times were, `flagged` when its attributes were.  The copy-up of a   *)
(* file fails when the write does; the others ignore it.                   *)
WriteEntryTimes ==
    \E timed, flagged, written \in BOOLEAN :
        LET failures == {b \in {1, 2, 3} : ~<<timed, flagged, written>>[b]}
        IN  /\ \/ Doing("restore") /\ written /\ flagged = ~call.blind
               \/ Doing("guard") /\ (~written => timed /\ flagged)
               \/ Doing("times") /\ flagged /\ (~written => timed)
               \/ Doing("basicinfo") /\ timed /\ flagged
            /\ Hit(Cardinality(IF Doing("restore") THEN failures \ {2} ELSE failures))
            /\ StepDone(With(Copy,
                    (IF timed /\ written THEN {"times"} ELSE {"untimed"}) \cup
                    (CASE ~(flagged /\ written) -> {"unflagged"}
                       [] flagged /\ written /\ IsReadOnly -> {"readonly"}
                       [] OTHER -> {})))

CopyFails ==
    \/ StepFails({"checkedquery", "create", "createshell", "container", "inherit", "data",
                  "eas", "streams", "security", "inheritsecurity", "reparse", "record",
                  "recordnew", "recordshell", "restore", "mark", "move", "replace"})
    \/ Doing("sparse") /\ SetsSparse /\ StepFails({"sparse"})
    \/ Doing("encrypt") /\ HasFileAttribute(IsEncrypted) /\ StepFails({"encrypt"})

CopyStep ==
    \/ QueryAttributes \/ Create \/ WriteSecurityToInheritAs
    \/ SetSparse \/ SetCompressedIfSource \/ SetShellSize
    \/ CopyBytesToEnd \/ RangesRefused \/ CopyAllocatedRanges
    \/ CopyUserAlternateDataStreams \/ CopyExtendedAttributes
    \/ ApplyEncryptedStateIfNeeded \/ CopySecurityDescriptor
    \/ CopySecurityKeepingInheritance \/ CopyUpReparsePointEntry
    \/ WriteLayerMountMetadata \/ SetOpaqueAtPath \/ WriteEntryTimes
    \/ CopyFails

(***************************************************************************)
(* The calls.                                                              *)
(***************************************************************************)
Idle == pc = "idle" /\ calls < MaxCalls

Begin(kind, from, into, job) ==
    /\ pc' = "run"
    /\ call' = [NoCall EXCEPT !.kind = kind, !.from = from, !.into = into, !.rest = job]
    /\ before' = [disk |-> disk, side |-> side]
    /\ calls' = calls + 1
    /\ UNCHANGED <<host, disk, side, faults, past, hidden>>

(* PrepareCopyUpTarget finds p in a lower and brings the directories above *)
(* it to the upper.                                                        *)
NeedsCopyUp(p) == p \in DOMAIN Lower \ hidden /\ p \notin DOMAIN disk

PrepareCopyUpTarget(p, copy) == EnsureUpperParent(p) \o copy

Above(p) == {SubSeq(p, 1, i) : i \in 1 .. Len(p) - 1}

BeginCopyUp(p) ==
    /\ NeedsCopyUp(p)
    /\ Begin("copy", p, p, PrepareCopyUpTarget(p,
             CASE Lower[p].kind = "file"      -> CopyUpFile(p)
               [] Lower[p].kind = "directory" -> CopyUpDirectory(p)
               [] Lower[p].kind = "link"      -> CloneReparsePointThroughWorkDir(p, p)))

HasUserAlternateDataStream(p) == Lower[p].streams # <<>>

(* A shell, where the volume has sparse files and the source no streams. *)
MayBeShell(p) ==
    /\ NeedsCopyUp(p) /\ Lower[p].kind = "file"
    /\ host.sparse /\ ~HasUserAlternateDataStream(p)

CopyUpFileOrShell(p) ==
    MayBeShell(p) /\ Begin("copy", p, p, PrepareCopyUpTarget(p, CopyUpMetadataOnly(p)))

(* The directory above the new name, PrepareRenameDestination. *)
HasParent(to) ==
    Len(to) > 1 => InView(Front(to)) /\ KindInView(Front(to)) = "directory"

BeginRenameLowerDirectory(p, to) ==
    /\ p \in DOMAIN Lower \ hidden /\ KindInView(p) # "file"
    /\ ~InView(to) /\ HasParent(to)
    /\ Begin("rename", p, to, RenameLowerDirectory(p, to))

(* A directory that only the upper has: it turns opaque before it moves    *)
(* over a lower entry, and stays so when the move fails.                   *)
RenameUpperDirectory(p, to) ==
    /\ p \in DOMAIN disk \ (DOMAIN Lower \ hidden) /\ disk[p].kind # "file"
    /\ ~InView(to) /\ HasParent(to)
    /\ Begin("rename", p, to, EnsureUpperParent(to) \o
             <<Phase((IF disk[p].kind = "directory" /\ ~IsOpaque(p) /\ to \in DOMAIN Lower
                      THEN <<Step("mark", p, p)>> ELSE <<>>)
                       \o <<MoveStep(p, to, FALSE)>>, <<>>)>>)

(* A file moves to a free name, or over a file in place.  The directories  *)
(* above the new name come first; a file that only a lower has is copied   *)
(* up next, in full or as a shell.                                         *)
RenameFile(p, to) ==
    /\ InView(p) /\ KindInView(p) = "file"
    /\ HasParent(to)
    /\ InView(to) => KindInView(to) = "file"
    /\ \E copy \in (IF p \in DOMAIN disk THEN {<<>>} ELSE {CopyUpFile(p)})
                      \cup (IF MayBeShell(p) THEN {CopyUpMetadataOnly(p)} ELSE {}) :
          Begin("rename", p, to,
                EnsureUpperParent(to) \o EnsureUpperParentAfter(p, Above(to)) \o copy
                  \o <<Phase(<<MoveStep(p, to, to \in DOMAIN disk)>>, <<>>)>>)

RemoveUpperEntry(p) ==
    /\ p \in DOMAIN disk
    /\ Begin("delete", p, p, <<Phase(<<Step("delete", p, p)>>, <<>>)>>)

(* A host program makes a new file at a free name, or a directory at one   *)
(* that no lower has.                                                      *)
CreateEntryOfProgram(p) ==
    /\ ~InView(p)
    /\ Len(p) = 1 \/ Front(p) \in DOMAIN disk
    /\ \E e \in {NewFile, NewDirectory} :
          /\ e = NewDirectory => p \notin DOMAIN Lower
          /\ disk' = (p :> e) @@ disk
    /\ calls' = calls + 1
    /\ UNCHANGED <<host, side, pc, call, faults, past, hidden, before>>

InUpper(f) == Without(f, {q \in DOMAIN f : InWork(q)})

(* The call returns.  Names in the work directory are never used again.    *)
(* What the call took away has its whiteout.                               *)
Return ==
    /\ pc = "run" /\ call.todo = <<>> /\ call.rest = <<>>
    /\ pc' = "idle"
    /\ call' = NoCall
    /\ disk' = InUpper(disk)
    /\ side' = [meta |-> InUpper(side.meta), opaque |-> InUpper(side.opaque)]
    /\ past' = past \ {"staged"}
    /\ hidden' = IF call.failed \/ call.kind = "copy" THEN hidden
                 ELSE hidden \cup {q \in DOMAIN Lower : IsPrefix(call.from, q)}
    /\ before' = [disk |-> disk', side |-> side']
    /\ UNCHANGED <<host, faults, calls>>

(* The process stops; the next mount empties the work directory. *)
Crash ==
    /\ pc # "idle" /\ Hit(1)
    /\ pc' = "idle"
    /\ call' = NoCall
    /\ disk' = InUpper(disk)
    /\ side' = [meta |-> InUpper(side.meta), opaque |-> InUpper(side.opaque)]
    /\ past' = IF pc = "run" THEN past \ {"staged"} ELSE past \cup {"stopped"}
    /\ before' = [disk |-> disk', side |-> side']
    /\ UNCHANGED <<host, hidden, calls>>

(* A copy of p that earlier calls completed. *)
Copied(p, h) ==
    LET s     == Lower[p]
        holes == s.sparse /\ h.sparse
        if(b, mark) == IF b THEN {mark} ELSE {}
    IN  [EmptyEntry(s.kind, p, FALSE) EXCEPT
            !.written = IF s.kind # "file" THEN {}
                        ELSE IF holes /\ ~s.remote THEN s.alloc ELSE AllBlocks,
            !.size    = IF s.kind = "file" THEN Blocks ELSE 0,
            !.streams = ToSet(s.streams),
            !.eas     = IF h.eas THEN ToSet(s.eas) \ KernelEas ELSE {},
            !.marks   = {"security", "times"} \cup if(holes, "sparse")
                          \cup if(s.crypt, "encrypted") \cup if(s.readonly, "readonly")
                          \cup if(s.compressed, "compressed"),
            !.rec     = IF h.ads THEN Record(p, FALSE) ELSE NoRecord]

Init ==
    /\ \E s \in Starts :
          /\ host = s.host
          /\ disk = [p \in s.copied |-> Copied(p, host)]
          /\ side = [meta   |-> [p \in IF host.ads THEN {} ELSE s.copied |-> Record(p, FALSE)],
                     opaque |-> [p \in {} |-> New]]
          /\ hidden = s.hidden
    /\ pc = "idle" /\ call = NoCall
    /\ faults = 0 /\ past = {} /\ calls = 0
    /\ before = [disk |-> disk, side |-> side]

NextCall ==
    \/ \E p \in DOMAIN Lower : BeginCopyUp(p) \/ CopyUpFileOrShell(p)
    \/ \E r \in Renames : \/ BeginRenameLowerDirectory(r[1], r[2])
                          \/ RenameUpperDirectory(r[1], r[2]) \/ RenameFile(r[1], r[2])
    \/ \E p \in DOMAIN disk : RemoveUpperEntry(p)
    \/ \E p \in Fresh : CreateEntryOfProgram(p)

Next ==
    \/ Idle /\ NextCall
    \/ (CopyStep \/ MoveOrRemove) /\ UNCHANGED copyVars
    \/ Return \/ Crash

Spec == Init /\ [][Next]_vars

-----------------------------------------------------------------------------
(***************************************************************************)
(* Properties.                                                             *)
(***************************************************************************)
Upper == {p \in DOMAIN disk : ~InWork(p)}

(* The data of the source, and no more where its holes can be kept. *)
HasData(e, s) ==
    /\ s.data \subseteq e.written
    /\ e.size = Blocks
    /\ s.sparse /\ host.sparse /\ ~s.remote /\ e.marks \cap {"dense", "unflagged"} = {}
          => e.written \subseteq s.alloc

(* Each flaw excuses its own part only. *)
Whole(e) ==
    LET s           == AttributesOf(e.of)
        but(flaw)   == flaw \in e.marks
        has(m, why) == m \in e.marks \/ but(why)
    IN  /\ e.kind = s.kind
        /\ e.kind = "file" /\ ~e.shell => HasData(e, s)
        /\ e.shell => s.streams = <<>> /\ (e.size = Blocks \/ but("unsized"))
        /\ e.kind # "link" => ToSet(s.streams) \subseteq e.streams
        /\ host.eas => ToSet(s.eas) \ KernelEas \subseteq e.eas
        /\ IF e.kind = "link" THEN {"reparse", "inherited"} \subseteq e.marks
                              ELSE has("security", "unsecured")
        /\ s.crypt => has("encrypted", "unflagged")
        /\ s.readonly => has("readonly", "unflagged")
        /\ e.kind = "file" => has("times", "untimed")
        /\ host.ads => e.rec = Record(e.of, e.shell) \/ but("unread")

(* At every moment, after every failure and every stop, each entry of the  *)
(* upper that copies a lower entry has its data, streams and extended      *)
(* attributes, a link its target and inherited security.  Holes,           *)
(* encryption, attributes, security, times, the length of a shell and, on  *)
(* a volume with streams, the record are there too, but for a part whose   *)
(* own call the host refused where the code goes on without it: a query of *)
(* flags (CopyUp.cpp:433), ranges, owner or DACL, times, or a record.  So  *)
(* nothing half built is moved out of the work directory, whatever the     *)
(* order of the steps and of their undo (CopyUp::CommitFromWorkDir,        *)
(* BuildInContainerAndMove).                                               *)
UpperWhole == \A p \in Upper : disk[p].of # New => Whole(disk[p])

(* A directory at a path whose lower entries are not its own is opaque, or *)
(* is below one that is.                                                   *)
HidesLower(p) ==
    \E n \in 1 .. Len(p) : SubSeq(p, 1, n) \in Upper /\ IsOpaque(SubSeq(p, 1, n))

(* Between two changes, every entry of the upper has its own record, which *)
(* says that a shell is one, a directory that came from elsewhere hides    *)
(* the lower entries below its path, and no record or marker waits at a    *)
(* path for an entry that is not its own: moves, their undo, replacements  *)
(* and removals keep the sidecar store in step with the disk unless the    *)
(* code met a stuck record, could not read or remove one, or stopped in    *)
(* between (MoveUpperEntry, RemoveUpperEntryOfKind, RenameUpperDirectory). *)
RecordsInPlace ==
    pc \in {"idle", "run"} /\ past \subseteq {"staged"} =>
        /\ \A p \in Upper :
              /\ \/ RecordOf(p) = Record(disk[p].of, disk[p].shell)
                 \/ "unread" \in disk[p].marks /\ RecordOf(p) = NoRecord
              /\ disk[p].kind = "directory" /\ disk[p].of # p
                    /\ (disk[p].of # New \/ p \in DOMAIN Lower) => HidesLower(p)
        /\ DOMAIN InUpper(side.meta) \subseteq Upper
        /\ \A p \in DOMAIN InUpper(side.opaque) : p \in Upper /\ disk[p].of = side.opaque[p]

(* What a failed call may add: copies of the directories above its paths,  *)
(* and of the file that it was to rename, each at its own path.            *)
CopiedUpAt(p) ==
    /\ p \in DOMAIN Lower \ hidden /\ disk[p].of = p
    /\ \/ IsStrictPrefix(p, call.from) \/ IsStrictPrefix(p, call.into)
       \/ call.kind = "rename" /\ p = call.from /\ disk[p].kind = "file"

(* Its source may keep the opaque mark that it got for the new path. *)
SameBut(p, e) ==
    \/ disk[p] = e
    \/ /\ call.kind = "rename" /\ p = call.from /\ e.kind = "directory"
       /\ call.into \in DOMAIN Lower /\ disk[p] = With(e, {"opaque"})

(* A copy-up or a rename that returns a failure leaves every entry, record *)
(* and marker of the upper as it found it and nothing in the work          *)
(* directory, unless an undo or a removal failed too.  It may leave copies *)
(* of the directories above (EnsureUpperParent) and of the file to rename  *)
(* (FileRename::MoveToUpper), which show what the lower showed, and a      *)
(* directory that only the upper has may keep its new opaque mark          *)
(* (DirectoryRename::RenameUpperDirectory).                                *)
FailedCallChangesNothing ==
    (pc = "run" /\ call.todo = <<>> /\ call.failed /\ call.kind # "delete" /\ past = {})
        => /\ DOMAIN before.disk \subseteq DOMAIN disk
           /\ \A p \in DOMAIN disk : IF p \in DOMAIN before.disk
                                     THEN SameBut(p, before.disk[p]) ELSE CopiedUpAt(p)
           /\ Without(side.meta, DOMAIN disk \ DOMAIN before.disk) = before.side.meta
           /\ \/ side.opaque = before.side.opaque
              \/ /\ call.kind = "rename" /\ call.into \in DOMAIN Lower
                 /\ side.opaque = (call.from :> disk[call.from].of) @@ before.side.opaque

(* A copy or a rename fails only when the host refused one of its calls:   *)
(* no order of the code's own steps makes a later one impossible, such as  *)
(* a stream after the read-only attribute.                                 *)
RefusedOnlyByHost == call.failed => call.hit
=============================================================================
