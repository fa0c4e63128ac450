----------------------------- MODULE LayerImage -----------------------------
(***************************************************************************)
(* Layer images (impl/image/LayerImageManager.cpp, abi/AbiImage.cpp): a    *)
(* directory is packed into an image file, alone or as the difference to a *)
(* base directory, and an image is unpacked into a directory that a mount  *)
(* later uses as a layer.                                                  *)
(*                                                                         *)
(* Three directories: "src", which other programs change at any time, also *)
(* while it is packed; "base", which a full image is unpacked into; and    *)
(* "layer", for the differential image.  A stack of layer over base is     *)
(* read with the lookup of Layers.  The tag of a file is its data and its  *)
(* last-write time; a pack keeps neither times nor attributes of a         *)
(* directory, so the tag of a directory says nothing.  Names that differ   *)
(* in case only, and UTF-8, are left out.                                  *)
(*                                                                         *)
(* A write to an image or to an unpacked file fails at any step, with or   *)
(* without a word to the caller; the process stops at any step; and an     *)
(* image can be damaged while no call runs.                                *)
(***************************************************************************)
EXTENDS Layers, FiniteSets

CONSTANTS
    Walk,       \* every entry and marker file a walk can meet, in its order
    Sidecar,    \* the path of the ".overlay" directory at a root
    Data,       \* what a file can contain
    Empty,      \* the contents of size zero
    NewData,    \* what other programs write into src
    MaxTime,    \* bound: how often other programs change src
    MaxPacks,   \* bound: how many packs start
    MaxUnpacks, \* bound: how many unpacks start
    Starts      \* what src, base and the image file can be at first

ASSUME LayerImageAssumption ==
    /\ NumLowers = 2
    /\ Tag = [data : Data, time : 0 .. (MaxTime + 1)]
    /\ NewData \subseteq Data
    /\ Fresh = [data |-> Empty, time |-> 0]
    /\ Sidecar \in Children(Root)
    /\ \A i \in DOMAIN Walk :
          Walk[i] \in [what : {"entry", "wh", "opq"}, path : Path \ {Root}]

VARIABLES
    dirs,       \* the three directories
    img,        \* the image file
    pc, call,   \* the next step of the call that runs, and its locals
    packs,      \* how many packs started
    unpacks,    \* how many unpacks started
    now,        \* the time of the last change of src
    made,       \* history: the pack that wrote img, if src is still the same, and
                \* if every unpack into base had undamaged data
    restored    \* history: what an unpack put into a directory that was empty, and
                \* what it lost on the way without an error

vars == <<dirs, img, pc, call, packs, unpacks, now, made, restored>>

(***************************************************************************)
(* Files, markers and directories on disk.                                 *)
(***************************************************************************)
SizeOf(data) == IF data = Empty THEN 0 ELSE 1

Directory == [kind |-> "dir", tag |-> Fresh]

EmptyDirectory == PutEntry(EmptyLayer, Root, Directory)

Exists(l, w) ==
    CASE w.what = "entry" -> Holds(l, w.path)
      [] w.what = "wh"    -> HasWhiteout(l, w.path)
      [] w.what = "opq"   -> w.path \in l.opq

(* The directory that holds w: a whiteout ".wh.<name>" is beside the path  *)
(* it hides, the opaque marker ".wh..wh..opq" is in the directory.         *)
FolderOf(w) == IF w.what = "opq" THEN w.path ELSE Parent(w.path)

(* StepPastRootSidecar: the walk leaves the sidecar out, and not its       *)
(* whiteout.                                                               *)
OpensAsSidecar(w) == w.path \in Within(Sidecar) /\ w # [what |-> "wh", path |-> Sidecar]

(* Faulty variant: the unpack asks for the name in the archive alone. *)
UnpackSkipsEntry_AsNamed(l, w) == w.path \in Within(Sidecar) /\ w.what # "short"

(* An unpack leaves out the sidecar, its whiteout, and an entry under the  *)
(* short name of a sidecar that the target holds.                          *)
UnpackSkipsEntry(l, w) ==
    w.path \in Within(Sidecar) /\ (w.what = "short" => Holds(l, Sidecar))

(* fs::create_directories: every missing directory down to d, and nothing  *)
(* when a file is in the way.                                              *)
CreateDirectories(l, d) ==
    IF HasNonDirectorySelfOrAncestorInLayer(l, d) THEN l
    ELSE [l EXCEPT !.tree = [q \in Path |->
             IF q \in Chain(d) /\ ~Holds(l, q) THEN Directory ELSE l.tree[q]]]

Targets == {"base", "layer"}

(* The stack that mounts layer over base, with nothing in the upper. *)
Stack == [i \in Slot |-> IF i = 0 THEN EmptyDirectory
                         ELSE dirs[IF i = 1 THEN "layer" ELSE "base"]]

(***************************************************************************)
(* The image file.  Its parts are written in the order header, metadata,   *)
(* data, and the header once more; a "blank" header has the magic and no   *)
(* offsets.  The checksum of the header fits the data unless the data was  *)
(* damaged: "torn" data does not decompress to an end, "altered" data      *)
(* decompresses to other items.                                            *)
(***************************************************************************)
NoImage ==
    [exists |-> FALSE, header |-> "none", whiteouts |-> << >>, items |-> << >>, data |-> "none"]

(* ReadHeaderAndMetadata succeeds: the magic is there and the metadata is  *)
(* not before the end of the header.                                       *)
ReadHeaderAndMetadata(m) == m.exists /\ m.header = "full"

(* ComputeSHA256Stream gives the checksum of the header. *)
ChecksumFits(m) == m.data = "whole"

ValidateImage(m) == ReadHeaderAndMetadata(m) /\ ChecksumFits(m)

(* The archives that DecompressBuffer and ReadArchiveEntry can give: a     *)
(* torn one ends before its end marker.                                    *)
Decompressed(m) ==
    IF m.data = "torn"
      THEN [items : {SubSeq(m.items, 1, n) : n \in 0 .. Len(m.items)}, ends : {FALSE}]
      ELSE {[items |-> m.items, ends |-> TRUE]}

(***************************************************************************)
(* Packing.                                                                *)
(***************************************************************************)
NoCall ==
    [op |-> "none", dir |-> "src", at |-> 0,
     snaps |-> [d \in {"src", "base"} |-> << >>], todo |-> << >>, gone |-> << >>,
     archive |-> << >>, ends |-> FALSE, fresh |-> FALSE, clean |-> FALSE, lost |-> {}]

NotRestored == [op |-> "no", lost |-> {}]

Range(s) == {s[i] : i \in DOMAIN s}

Return == pc' = "idle" /\ call' = NoCall

NoMarkers(l) == l.wh = {} /\ l.opq = {}

(* CreateImage and CreateDifferentialImage begin with the walk of src. *)
BeginPack(op) ==
    /\ pc = "idle" /\ packs < MaxPacks
    /\ pc' = "scan"
    /\ call' = [NoCall EXCEPT !.op = op, !.clean = TRUE]
    /\ packs' = packs + 1
    /\ UNCHANGED <<dirs, img, unpacks, now, made, restored>>

(* The receipt handle that a pack returns carries no state; a full handle  *)
(* table fails the call after the image was written.                       *)
LayerMountImagePack == BeginPack("pack")

(* The base has no markers of its own: the whiteout of a marker file names *)
(* nothing that a lookup asks for.                                         *)
LayerMountImagePackDifferential == NoMarkers(dirs["base"]) /\ BeginPack("diff")

FillFileEntry(l, w) ==
    LET e == l.tree[w.path]
        file == w.what = "entry" /\ ~IsDirectory(e)
    IN  [at |-> w, dir |-> w.what = "entry" /\ ~file,
         size |-> IF file THEN SizeOf(e.tag.data) ELSE 0,
         time |-> IF file THEN e.tag.time ELSE 0]

(* The walk steps past the sidecar and enters the directories it listed. *)
Meets(l, snap, w) ==
    /\ Exists(l, w)
    /\ ~OpensAsSidecar(w)
    /\ FolderOf(w) = Root \/ \E e \in Range(snap) : e.dir /\ e.at.path = FolderOf(w)

Ahead(l, snap, i) == {j \in DOMAIN Walk : j > i /\ Meets(l, snap, Walk[j])}

(* One entry of the walk, read while other programs change src. *)
ScanEntry ==
    LET l == dirs[call.dir]
        snap == call.snaps[call.dir]
        ahead == Ahead(l, snap, call.at)
        next == CHOOSE j \in ahead : \A k \in ahead : j <= k
    IN  /\ pc = "scan" /\ ahead # {}
        /\ call' = [call EXCEPT !.at = next,
                                !.snaps[call.dir] = Append(@, FillFileEntry(l, Walk[next]))]
        /\ UNCHANGED <<dirs, img, pc, packs, unpacks, now, made, restored>>

(* Faulty variant: a change that keeps the size is not seen. *)
Differs_TimeForgotten(s, b) == s.dir # b.dir \/ (~s.dir /\ s.size # b.size)

Differs(s, b) ==
    s.dir # b.dir \/ (~s.dir /\ (s.size # b.size \/ s.time # b.time))

ChangedEntries(source, base) ==
    LET Changed(s) == \A b \in Range(base) : b.at = s.at => Differs(s, b)
    IN  SelectSeq(source, Changed)

DeletedPaths(source, base) ==
    LET Deleted(b) == \A s \in Range(source) : s.at # b.at
    IN  SelectSeq(base, Deleted)

(* CreateImage packs every entry, CreateDifferentialImage walks the base   *)
(* after the source and packs what changed.                                *)
ScanDone ==
    /\ pc = "scan" /\ Ahead(dirs[call.dir], call.snaps[call.dir], call.at) = {}
    /\ IF call.op = "diff" /\ call.dir = "src"
         THEN call' = [call EXCEPT !.dir = "base", !.at = 0] /\ UNCHANGED pc
         ELSE /\ pc' = "pack"
              /\ call' = [NoCall EXCEPT
                    !.op = call.op, !.clean = call.clean,
                    !.todo = ChangedEntries(call.snaps["src"], call.snaps["base"]),
                    !.gone = DeletedPaths(call.snaps["src"], call.snaps["base"])]
    /\ UNCHANGED <<dirs, img, packs, unpacks, now, made, restored>>

(* The walk or a read meets an error: the call returns before it touches   *)
(* the output.                                                             *)
PackRefused ==
    /\ pc \in {"scan", "pack"}
    /\ Return
    /\ UNCHANGED <<dirs, img, packs, unpacks, now, made, restored>>

Archived(w, dir, tag) == [at |-> w, dir |-> dir, tag |-> tag]

(* AddDirectory or AddFile for the next entry of the snapshot.  A file     *)
(* that had a size is read now, under the time that the walk saw; one      *)
(* that was empty is not read again.                                       *)
PackEntry ==
    LET s == Head(call.todo)
        e == dirs["src"].tree[s.at.path]
        data == IF s.size = 0 THEN Empty ELSE e.tag.data
    IN  /\ pc = "pack" /\ call.todo # << >>
        /\ s.size > 0 => e.kind = "file"
        /\ call' = [call EXCEPT !.todo = Tail(@),
                                !.archive = Append(@, Archived(s.at, s.dir,
                                    [data |-> data, time |-> s.time]))]
        /\ UNCHANGED <<dirs, img, pc, packs, unpacks, now, made, restored>>

MakeWhiteoutMarkerPath(w) == [what |-> "wh", path |-> w.path]

(* Finish follows the last marker. *)
AddWhiteoutMarkers ==
    LET Marker(i) == Archived(MakeWhiteoutMarkerPath(call.gone[i].at), FALSE, Fresh)
    IN  /\ pc = "pack" /\ call.todo = << >>
        /\ call' = [call EXCEPT !.archive = @ \o [i \in DOMAIN call.gone |-> Marker(i)]]
        /\ pc' = "open"
        /\ UNCHANGED <<dirs, img, packs, unpacks, now, made, restored>>

(***************************************************************************)
(* WriteImageFile.                                                         *)
(***************************************************************************)
PutImage(at, next, m) ==
    /\ pc = at
    /\ pc' = next
    /\ img' = m
    /\ UNCHANGED <<dirs, call, packs, unpacks, now, made, restored>>

OpenOutput == PutImage("open", "blank", [NoImage EXCEPT !.exists = TRUE])

(* Faulty variant: the header is complete before the data is there. *)
WriteBlankHeader_Complete == PutImage("blank", "metadata", [img EXCEPT !.header = "full"])

WriteBlankHeader == PutImage("blank", "metadata", [img EXCEPT !.header = "blank"])

WriteMetadata ==
    PutImage("metadata", "data",
        [img EXCEPT !.whiteouts = [i \in DOMAIN call.gone |-> call.gone[i].at.path]])

WriteDataWithHash ==
    PutImage("data", "header", [img EXCEPT !.items = call.archive, !.data = "whole"])

(* The header of offsets and checksum is in the buffer of the stream until *)
(* the stream is closed.  The code does not ask if the close worked.       *)
CloseOutput ==
    /\ pc = "header"
    /\ \/ img' = [img EXCEPT !.header = "full"]
       \/ UNCHANGED img
    /\ made' = [made EXCEPT !.op = call.op, !.clean = call.clean]
    /\ Return
    /\ UNCHANGED <<dirs, packs, unpacks, now, restored>>

(* Any of these fails; part of the data may be there. *)
WriteFails ==
    /\ pc \in {"open", "blank", "metadata", "data", "header"}
    /\ img' = IF pc = "data" THEN [img EXCEPT !.items = call.archive, !.data = "torn"] ELSE img
    /\ pc' = "remove" /\ call' = NoCall
    /\ UNCHANGED <<dirs, packs, unpacks, now, made, restored>>

(* WriteImage removes what is at the output path; the removal can fail. *)
RemovePartial ==
    /\ pc = "remove"
    /\ img' \in {NoImage, img}
    /\ Return
    /\ UNCHANGED <<dirs, packs, unpacks, now, made, restored>>

(***************************************************************************)
(* Unpacking.                                                              *)
(***************************************************************************)
InTarget(l) == [dirs EXCEPT ![call.dir] = l]

Bare(l) == \A i \in DOMAIN Walk : Exists(l, Walk[i]) => Walk[i].path \in Within(Sidecar)

(* Faulty variant: a damaged image is unpacked without a question. *)
Accepts_Unverified(m, verify) == ReadHeaderAndMetadata(m)

(* The checks of ExtractImage before it decompresses. *)
Accepts(m, verify) == IF verify THEN ValidateImage(m) ELSE ReadHeaderAndMetadata(m)

(* ExtractImage up to the first entry.  Its early returns, and those of    *)
(* ValidateImage and GetImageInfo, change nothing.                         *)
ExtractImage(to, verify) ==
    /\ pc = "idle" /\ unpacks < MaxUnpacks
    /\ Accepts(img, verify)
    /\ \E a \in Decompressed(img) :
          call' = [NoCall EXCEPT !.op = "unpack", !.dir = to,
                                 !.archive = a.items, !.ends = a.ends,
                                 !.fresh = Bare(dirs[to]) /\ (verify \/ ChecksumFits(img))]
    /\ pc' = "extract"
    /\ unpacks' = unpacks + 1
    /\ made' = [made EXCEPT !.clean = @ /\ ~(to = "base" /\ made.op = "diff"),
                            !.sound = @ /\ (to = "base" => ChecksumFits(img))]
    /\ restored' = [d \in DOMAIN restored |->
                      IF d = to \/ to = "base" THEN NotRestored ELSE restored[d]]
    /\ UNCHANGED <<dirs, img, packs, now>>

LayerMountImageUnpack == \E to \in Targets, verify \in BOOLEAN : ExtractImage(to, verify)

(* WriteExtractedFile can open its target: no file is above it and no      *)
(* directory at it.                                                        *)
CanWrite(l, w) ==
    /\ ~HasNonDirectorySelfOrAncestorInLayer(l, FolderOf(w))
    /\ w.what \in {"entry", "short"} => ~IsDirectory(l.tree[w.path])

(* An entry under the short name of a sidecar that is not there becomes an *)
(* entry of that name, which no path of the model has.                     *)
Elsewhere(l, w) == w.what = "short" /\ ~Holds(l, Sidecar)

MakeFolder(l, w) == IF Elsewhere(l, w) THEN l ELSE CreateDirectories(l, FolderOf(w))

PutFile(l, w, tag) ==
    LET m == MakeFolder(l, w)
    IN  CASE Elsewhere(l, w) -> l
          [] w.what \in {"entry", "short"} -> PutEntry(m, w.path, [kind |-> "file", tag |-> tag])
          [] w.what = "wh"  -> [m EXCEPT !.wh = @ \cup {w.path}]
          [] w.what = "opq" -> [m EXCEPT !.opq = @ \cup {w.path}]

(* The file before it gets its time back.  Its time is that of the unpack, *)
(* which no change of src has.                                             *)
WrittenWithoutTime(l, a) ==
    IF CanWrite(l, a.at) THEN {PutFile(l, a.at, [a.tag EXCEPT !.time = MaxTime + 1])} ELSE {}

(* What an entry did to the target l, and the path it lost without an      *)
(* error.                                                                  *)
Outcome(l, lost) == [dir |-> l, lost |-> lost]

(* The data is in the buffer of the stream until the stream is closed.     *)
(* The code does not ask if the close worked: the file gets its time all   *)
(* the same.                                                               *)
WriteExtractedFile(l, a) ==
    IF ~CanWrite(l, a.at) THEN {}
    ELSE {Outcome(PutFile(l, a.at, a.tag), {})}
         \cup (IF a.tag.data = Empty THEN {}
               ELSE {Outcome(PutFile(l, a.at, [a.tag EXCEPT !.data = Empty]), {a.at.path})})

(* fs::create_directories with an error that the code does not look at. *)
MakeDirectory(l, p) ==
    {Outcome(CreateDirectories(l, p), {}), Outcome(l, {p})}

Extracted(l, a) ==
    IF UnpackSkipsEntry(l, a.at) THEN {Outcome(l, {})}
    ELSE IF a.dir THEN MakeDirectory(l, a.at.path)
    ELSE WriteExtractedFile(l, a)

ExtractEntry ==
    /\ pc = "extract" /\ call.at < Len(call.archive)
    /\ \E o \in Extracted(dirs[call.dir], call.archive[call.at + 1]) :
          /\ dirs' = InTarget(o.dir)
          /\ call' = [call EXCEPT !.at = @ + 1, !.lost = @ \cup o.lost]
    /\ UNCHANGED <<img, pc, packs, unpacks, now, made, restored>>

(* What an entry leaves behind when it cannot be written in full. *)
Remains(l, a) ==
    IF a.dir \/ UnpackSkipsEntry(l, a.at) THEN {}
    ELSE {MakeFolder(l, a.at)} \cup WrittenWithoutTime(l, a)

ExtractFails ==
    /\ pc = "extract" /\ call.at < Len(call.archive)
    /\ \E l \in Remains(dirs[call.dir], call.archive[call.at + 1]) : dirs' = InTarget(l)
    /\ Return
    /\ UNCHANGED <<img, packs, unpacks, now, made, restored>>

(* ReadArchiveEntry: the archive ends, or is cut before its end marker. *)
ArchiveEnds ==
    /\ pc = "extract" /\ call.at = Len(call.archive)
    /\ IF call.ends THEN pc' = "markers" /\ call' = [call EXCEPT !.at = 0] ELSE Return
    /\ UNCHANGED <<dirs, img, packs, unpacks, now, made, restored>>

(* MaterializeMetadataWhiteouts writes the markers that the archive did    *)
(* not hold, and stops at the first that it cannot write.                  *)
MaterializeWhiteout ==
    LET w == [what |-> "wh", path |-> img.whiteouts[call.at + 1]]
        held == \E a \in Range(call.archive) : a.at = w
        skips == held \/ UnpackSkipsEntry(dirs[call.dir], w)
    IN  /\ pc = "markers" /\ call.at < Len(img.whiteouts)
        /\ \/ /\ skips
              /\ call' = [call EXCEPT !.at = @ + 1]
              /\ UNCHANGED <<dirs, pc>>
           \/ /\ ~skips /\ CanWrite(dirs[call.dir], w)
              /\ dirs' = InTarget(PutFile(dirs[call.dir], w, Fresh))
              /\ call' = [call EXCEPT !.at = @ + 1]
              /\ UNCHANGED pc
           \/ ~skips /\ Return /\ UNCHANGED dirs
        /\ UNCHANGED <<img, packs, unpacks, now, made, restored>>

UnpackDone ==
    /\ pc = "markers" /\ call.at = Len(img.whiteouts)
    /\ restored' = [restored EXCEPT ![call.dir] =
                      IF call.fresh /\ made.clean /\ made.sound
                        THEN [op |-> made.op, lost |-> call.lost] ELSE NotRestored]
    /\ Return
    /\ UNCHANGED <<dirs, img, packs, unpacks, now, made>>

(***************************************************************************)
(* Other programs and faults.                                              *)
(***************************************************************************)
Leaf(l, p) ==
    /\ Holds(l, p)
    /\ p \notin l.opq
    /\ \A q \in Below(p) : ~Holds(l, q) /\ q \notin l.wh

(* A write takes the time of the change. *)
Edited(l, p) ==
         {PutEntry(l, p, [kind |-> "file", tag |-> [data |-> d, time |-> now + 1]]) :
              d \in IF IsDirectory(l.tree[p]) THEN {} ELSE NewData}
    \cup (IF Holds(l, p) THEN {} ELSE {PutEntry(l, p, Directory)})
    \cup (IF Leaf(l, p) THEN {Prune(l, p)} ELSE {})

Edit ==
    /\ now < MaxTime
    /\ now' = now + 1
    /\ \E p \in Path \ (Within(Sidecar) \cup {Root}) :
          /\ IsDirectory(dirs["src"].tree[Parent(p)])
          /\ \E l \in Edited(dirs["src"], p) : dirs' = [dirs EXCEPT !["src"] = l]
    /\ call' = [call EXCEPT !.clean = FALSE]
    /\ made' = [made EXCEPT !.clean = FALSE]
    /\ restored' = [d \in DOMAIN restored |-> NotRestored]
    /\ UNCHANGED <<img, pc, packs, unpacks>>

Crash ==
    /\ pc # "idle"
    /\ Return
    /\ UNCHANGED <<dirs, img, packs, unpacks, now, made, restored>>

Damage ==
    /\ pc = "idle" /\ img.exists /\ img.data = "whole"
    /\ \/ img' = [img EXCEPT !.data = "torn"]
       \/ \E i \in DOMAIN img.items, d \in Data \ {Empty} :
             /\ img.items[i].tag.data \notin {Empty, d}
             /\ img' = [img EXCEPT !.data = "altered", !.items[i].tag.data = d]
    /\ UNCHANGED <<dirs, pc, call, packs, unpacks, now, made, restored>>

(***************************************************************************)
(* The specification.                                                      *)
(***************************************************************************)
Init ==
    /\ \E s \in Starts :
          /\ dirs = [src |-> s.src, base |-> s.base, layer |-> EmptyDirectory]
          /\ img = s.img /\ now = s.now
    /\ pc = "idle" /\ call = NoCall
    /\ packs = 0 /\ unpacks = 0
    /\ made = [op |-> "none", clean |-> FALSE, sound |-> TRUE]
    /\ restored = [d \in Targets |-> NotRestored]

Begin == LayerMountImagePack \/ LayerMountImagePackDifferential \/ LayerMountImageUnpack

Step ==
    \/ ScanEntry \/ ScanDone \/ PackRefused \/ PackEntry \/ AddWhiteoutMarkers
    \/ OpenOutput \/ WriteBlankHeader \/ WriteMetadata \/ WriteDataWithHash
    \/ CloseOutput \/ WriteFails \/ RemovePartial
    \/ ExtractEntry \/ ExtractFails \/ ArchiveEnds \/ MaterializeWhiteout \/ UnpackDone

Next == Begin \/ Step \/ Edit \/ Crash \/ Damage

Spec == Init /\ [][Next]_vars

(***************************************************************************)
(* Properties.                                                             *)
(***************************************************************************)

(* An image whose header a reader accepts has all of its data section,     *)
(* whatever step the pack failed or stopped at and whatever image was at   *)
(* its path before (WriteImageFile).                                       *)
AcceptedImageIsWhole ==
    ReadHeaderAndMetadata(img) =>
        /\ img.data # "none"
        /\ pc \notin {"blank", "metadata", "data", "header"}

Emptied(e) == [e EXCEPT !.tag.data = Empty]

(* view shows the source.  A path that was lost without an error is a file *)
(* of the right time and no data, or is a directory that is not there, so  *)
(* that what lies under it shows.                                          *)
ShowsSource(view, under, lost) ==
    \A p \in Path \ Within(Sidecar) :
        LET e == dirs["src"].tree[p]
        IN  \/ view[p] = e
            \/ p \in lost /\ e.kind = "file" /\ view[p] = Emptied(e)
            \/ p \in lost /\ IsDirectory(e) /\ view[p] = under[p]

MarkersOf(l) == <<l.wh \ Within(Sidecar), l.opq \ Within(Sidecar)>>

(* A verified unpack into an empty directory that reports success gives    *)
(* the directory that was packed, with its data, times, whiteouts and      *)
(* opaque markers and without its sidecar, as long as nobody changed it    *)
(* since the pack began (CreateImage, ExtractImage).  The two errors that  *)
(* the unpack does not look at cost what they hit and nothing else: a file *)
(* whose close failed has its name and time, a directory that was not made *)
(* is missing only when no file or marker is in it.                        *)
UnpackRestores ==
    \A d \in Targets : restored[d].op = "pack" =>
        /\ ShowsSource(dirs[d].tree, EmptyLayer.tree, restored[d].lost)
        /\ MarkersOf(dirs[d]) = MarkersOf(dirs["src"])

(* A differential image, unpacked and mounted over the base that it was    *)
(* made against, shows the source: every change since the base was packed, *)
(* those made while it was packed included, is in the image                *)
(* (CreateDifferentialImage, Differs, DeletedPaths).  What the unpack of   *)
(* the base lost without an error is in the image too; what the unpack of  *)
(* the layer lost so shows as an empty file, or as what the base has.      *)
DifferentialRestores ==
    restored["layer"].op = "diff" /\ NoMarkers(dirs["src"]) =>
        ShowsSource([p \in Path |-> ResolvePath(Stack, p)], dirs["base"].tree,
                    restored["layer"].lost)

(* An unpack never makes, removes or changes the sidecar of its target,    *)
(* also when an older writer packed one, or packed an entry that the       *)
(* target opens as its sidecar (UnpackSkipsEntry).                         *)
SidecarKept ==
    [][\A d \in Targets, p \in Within(Sidecar) :
          dirs'[d].tree[p] = dirs[d].tree[p] /\ (p \in dirs'[d].wh <=> p \in dirs[d].wh)]_vars
=============================================================================
