# A TLA+ verification of the LayerMount engine

LayerMount shows a stack of directories as one tree: a writable *upper* over
read-only *lowers*. This directory holds TLA+ models of the parts of the engine
where a mistake is hard to test, TLC configurations that check them on small
instances, and proofs that TLAPS checks for every instance. Paths below are
relative to `src/LayerMount.dll/` of the repository unless they start with `docs/`.

## 1. Inventory

| Part | State | Operations | What makes it hard | What must hold |
|---|---|---|---|---|
| Path lookup (`impl/PathResolver`, `impl/LayerPath`) | the layers on disk | resolve a path, resolve below the upper | whiteouts, opaque markers and files in each layer hide what is below, with early exits | an entry shown has a directory above it |
| Merged listing (`impl/DirectoryMerge`) | the same | list a directory | a second algorithm for the same question | it agrees with the lookup, name by name and layer by layer |
| Markers (`impl/WhiteoutManager`) | marker files in the upper | set, remove, query | several disk steps, made under missing directories | no marker without its directory |
| Create, delete (`impl/LayerMount`, `impl/UpperEntryRemover`) | the upper | one call, several disk steps | each step fails, undo fails, the process stops | a call is one change of the view, or one of the documented remainders |
| Rename (`impl/FileRename`, `impl/DirectoryRename`, `impl/RenameRollback`) | the upper, the entry set aside | four routes, rollback | the longest sequence of steps, with two levels of undo | a failed rename whose undo works changes nothing in the view |
| Copy-up (`impl/CopyUp`, `impl/EntryCopy`) | the upper, staged copies, reservations | copy, shell, fill | two openers, a shell without data, a copy of many parts | one content; no half-built copy in the upper |
| File data (`impl/LayerMount`) | file contexts | open, read, write, truncate, attributes, security | a handle moves from the lower to the upper | no data is lost, none is read from a hole |
| Path cache (`impl/Cache`) | map with ages | get, put, invalidate | a put that comes after an invalidation | a stale answer only in the overlaps named |
| Handle tables (`abi/HandleTable.h`) | slots, free list | allocate, reserve, install, release, free, resolve | stale values, last generation, full table | a closed handle stays closed |
| Instance lifetime (`abi/AbiCore`, `abi/FileHandleOpen`, `abi/AbiFile`) | tables, reference counts, child counts | create, open, use, close, attach, destroy | any call on any thread at any time | no call meets a destroyed engine |
| Work directory (`impl/WorkDirectory`) | two lock files | open, destructor | creates that compete, failure in the middle | one engine per directory; locks come back |
| Event callback (`abi/EventEmitter.h`) | callback, in-flight count | set, clear, emit | a call that has started when the callback is cleared | no call after Clear returned |
| Metadata records (`impl/MetadataStore`, `impl/SidecarMetadata`) | streams, sidecar files | read, write, move | two files per record, no atomic write | records follow entries |
| Process tracker (`impl/ProcessTracker`) | rules, log ring, cache of names | check, log, query, swap | the ring wraps, pids are recycled, the tracker is swapped | the log is exact, names are fresh, rules are in force |
| VHD layers (`impl/vhd`, `abi/AbiVhd`) | disks, handles, registry | create, attach, detach, merge, import, export | other programs, a lock between processes, partial failure | one owner per disk; no update lost; a transfer is whole |
| VSS snapshots (`impl/vss`, `abi/AbiVss`) | shadow copies, receipts | create, delete, clean up | every service call fails | no shadow copy is forgotten |
| Layer images (`impl/image`) | an image file | pack, unpack | the directory changes meanwhile, writes fail | an accepted image is whole; unpack inverts pack |
| Links in the view, conversions, thread error state, mount points, helpers | - | - | name syntax, single system calls, tables | not modelled |
| Managed wrapper (`src/LayerMount.NET`) | safe handles | P/Invoke | finalizer order | not modelled |

How they meet: the C interface resolves a handle to an instance (`HandleTable`,
`MountLifetime`). The instance owns its work directory and its engine, and emits
events (`EventEmitter`). The engine asks the process tracker (`ProcessTracker`),
resolves paths (`Layers`) through the cache (`PathCache`) and changes the upper
(`Overlay`). What a data call does with one file is `FileData`; how a copy is
built and moved with its records is `StagedCopy` over `UpperEntries`. The lowers
come from directories, from unpacked images (`LayerImage`), from virtual disks
(`VhdLayers`, `VhdTransfer`) or from shadow copies (`VssSnapshots`).

## 2. Modules

| Module | Models | Extends |
|---|---|---|
| `Layers` | a stack of layers, lookup, listing, changes of one layer | - |
| `Namespace` | abstract: one tree that each call changes in one step | `Layers` |
| `Overlay` | create, delete, rename, copy-up and marker calls, step by step | `Layers`, refines `Namespace` |
| `PathCache` | lookups, the cache and the calls that change the upper, on several threads | - |
| `FileContent` | abstract: one file content that only writes change | - |
| `FileData` | open, data and attribute calls, reservations, shells and fills | refines `FileContent` |
| `UpperEntries` | moves and removals of entries with their records | - |
| `StagedCopy` | copies of files, links and directories, and directory renames | `UpperEntries` |
| `HandleTable` | `abi/HandleTable.h` | - |
| `MountLifetime` | instances, files, locks and threads behind the C interface | - |
| `EventEmitter` | `abi/EventEmitter.h` | - |
| `ProcessTracker` | checks, log, rules and the hot swap | - |
| `VhdLayers` | disk handles, their calls, the registry | - |
| `VhdTransfer` | an import and an export between attach and detach | `VhdLayers`, refines it |
| `VssSnapshots` | the snapshot manager against the service | - |
| `LayerImage` | pack and unpack | `Layers` |
| `*Proofs` | the theorems (section 5) | the module it is about, `TLAPS` |
| `MC*` | the instance that TLC checks | that module |

**Layers.** A layer is a function from paths to entries, a set of whiteouts
named by the path they hide, and a set of opaque directories. An entry is a
kind and a *tag*, which stands for its data, security and times, so "the same
entry" can be stated. Loops over layers with early exits (`FindInLowers`,
`ForEachScannedLayer`) are written as the facts that let the loop reach a
layer. Lookup and listing are translated separately, each from its own source
file, and then compared.

**Overlay.** `pc` is the next disk step of the call that runs and `call` its
local variables, including the facts that the code reads early and uses late
(`whiteout`, `lower`, `route`). Each step has a branch in which it fails. Undo
steps can fail too, which sets `stuck`. `remove_all` removes one leaf or marker
per step. `Crash` stops the process anywhere; the next mount empties the work
directory. One call runs at a time. A commit of a staged copy is one rename, as
in the code, so staging itself is not a step here.

**PathCache.** A lookup is a get, up to three reads of the layers and a put; a
change is one or more writes, each followed by its invalidation. No lock spans
two of these steps. `tainted` (history) are the paths whose entry was put by a
lookup that an invalidation overtook, or that were changed without one.

**FileData.** One file with its parent directory, several threads, each with one
context. Reservations are `held`; the record of the copy-up is `flag`, which a
fill empties and rewrites in place when records are streams. `setup` is the
mount: large or small file, sparse files, streams.

**UpperEntries, StagedCopy.** A call is a list of phases, each with its steps and
the steps that run when one of them fails, in the order of the code. The copies of
the parent directories (`EnsureUpperParent`) are the first phases of a call and
stay when a later one fails. A failure that the code does not look at (the query
of flags, of allocated ranges, of times, of the owner or the DACL, a record that
cannot be read) lets the call go on and marks the copy (`FlawMarks`). A
record in a stream moves with its entry; a record in the sidecar is a file named
after the path and moves by itself, entry by entry. `past` (history) says what
earlier failures left behind.

**HandleTable.** Each public method holds the exclusive lock and is one action.
`returned` and `dead` are history. Arithmetic is that of the encoding, with
the widths as constants.

**MountLifetime.** One action per statement that another thread can observe.
`ref[t]` is the `shared_ptr` of a thread. An instance is disposed by whichever
thread drops the last reference. Calls that only use the engine are `Use`.

**EventEmitter.** A registration stands for a callback with its context.
`freed` are the contexts that the host may free after Clear.

**ProcessTracker.** Each of the tracker's locks is taken for one step. A tracker
is a number, shared by the mount and the calls that pinned it. `last` (the
entries logged) and `seen` (when a name was last true) are history. Patterns are
matched character by character, because a property is about them.

**VhdLayers, VhdTransfer.** The operating system is external: a disk file takes
one open handle at a time, an attach is permanent or scoped to a handle, and
other programs detach disks. `VhdTransfer` replaces the places "copy" and
"export" of a call by their steps; every other step is one of `VhdLayers`. All
exports go to one directory, `dest`: a copy takes away what it replaces when it
begins, so two of them can be at the same entry. `broken` are the entries that an
export stopped in and `exported` those that one reported (both history). A mount
point that does not go away stays in `mounts` and gives the call an error.

**VssSnapshots.** The service is external: any call may fail, a shadow copy of a
backup fades after its components are released, and other programs delete shadow
copies. `named` and `lost` are history.

**LayerImage.** A pack scans, then writes a blank header, metadata, data and the
final header, while other programs change the directory. An unpack reads the
header, verifies if asked, and writes entry by entry. Two errors of an unpack are
lost, as in the code: a close that fails leaves an empty file, and a directory
that cannot be made is passed over; `lost` (history) has their paths. An entry may
be named by the short name under which the target opens its sidecar. The stack of
the unpacked directories is read with the lookup of `Layers`.


## 3. Runs

| Run | Instance | Checks |
|---|---|---|
| `overlay` | two lowers, paths `a`, `b`, `a/x`, `b/x`, three lower stacks, three calls | `ViewIsTree`, `ListingMatchesLookup`, `CreateShowsNothingBelow`, `RenameUndone`, `CallReturns`, `ImplementsNamespace` |
| `path_cache` | two threads, paths `d`, `d/f`, `g`, a cache of two | `StaleOnlyByOverlap` |
| `file_data` | two threads, a large file of two blocks, faults and stops | `NoHandleOnShell`, `ImplementsContent`, `CallsReturn` |
| `shell_race` | the same with a small file, no faults | violated: see Findings |
| `staged_copy` | a directory with a sparse file and, one level down, a placeholder; a file with streams; a link; three kinds of volume; two calls, two faults | `UpperWhole`, `RecordsInPlace`, `FailedCallChangesNothing`, `RefusedOnlyByHost` |
| `handle_table` | three slots, three generations, two payloads | `ClosedStaysClosed`, `FreeListSound`, `NoSlotLost`, `ValuesAreFresh` |
| `mount_lifetime` | two threads, three instances, two files | `EngineOutlivesCalls`, `OneEnginePerDirectory`, `ChildrenCounted`, `DirectoriesComeBack` |
| `event_emitter` | three threads, three registrations | `NoCallAfterClear`, `ClearReturns` |
| `process_tracker` | two threads, one pid, two names, a log of two entries, two trackers, three calls | `RecentEntries`, `NameFresh`, `RulesInForce`, `PatternsMatch` |
| `vhd_layers` | two threads, another process, three handles for two slots, two disks, two layers, a directory of two entries and a sidecar | `HolderOwnsDisk`, `RemovedStaysRemoved`, `ImportedWhole`, `ExportedExactly`, `NothingLeftBehind` |
| `vss_snapshots` | two threads, three shadow copies, one receipt slot | `ShadowsAccounted`, `TrackedAlive`, `CleanupTruthful` |
| `layer_image` | a directory with one place, a sidecar with one record, two starts; two packs, two unpacks, two changes (one in the second start) | `AcceptedImageIsWhole`, `UnpackRestores`, `DifferentialRestores`, `SidecarKept` |

What the runs show, beyond the names. Each call of `Overlay` is one change of
the tree a user sees, however it fails, with the remainders that `Namespace`
lists. A failed rename changes nothing unless its undo fails too. A stale lookup
is cached only if it raced a call on its line of paths, or if a change failed
without an invalidation. Behind shells and fills there is one content. The undo
of a failed copy or move restores entries and records, and what cannot be
restored is known. An entry of the upper lacks a part only if the host refused the
call for that very part, and the code goes on without it. Every open disk has one
owner. An import that reports success moved everything. What an export reported is
whole until another one is at that entry or stops in it, and no transfer hides
that its volume is mounted still. An unpack gives back what was packed, but for a
file whose close failed and a directory that was not made.

**Bounds, and why they are enough.**

* `overlay`: two lowers are the fewest in which a lower hides another. The paths
  allow a move of a directory with a child into another directory. The lower
  stacks have a shared directory, an opaque lower directory, a file over a
  directory, and whiteouts of directory and child. Three calls allow a marker to
  be left by the first, met by the second and moved by the third.
* `path_cache`: `d` with `d/f` has an ancestor to invalidate, `g` is in no
  lower, and a cache of two evicts. The threads are symmetric.
* `file_data`: two threads are an opener and its rival. Two blocks let a fill
  stop half way. The rights asked for are attributes, read and write.
* `staged_copy`: the volumes are NTFS, one without streams and one with neither
  streams, holes nor extended attributes. Two faults are a failure and the failure
  of its undo. Two calls meet what the first one left; `Starts` has what
  earlier calls did: nothing, copies of a part of the directory, or its removal
  from the view. A rename to a new name and one back to a name
  of the lower need an opaque mark.
* `handle_table`: three generations let each slot be used, reused and retired.
* `mount_lifetime`: `i1`, `i2` share an upper and `i2`, `i3` a work directory, so
  both locks are fought over.
* `event_emitter`: two clears may overlap with a call, and a callback may be
  replaced and set again.
* `process_tracker`: a log of two wraps after three calls; a time to live of one
  tick expires between two calls; patterns begin or end with a star. Two trackers
  are the current one and one that a call still holds.
* `vhd_layers`: a table of two slots fills while a third holder is still in a
  call. The registry shares no state with the disks, nor the directory of the
  exports with handles and imports. So a constraint (`MCOneAtATime`) follows the
  registry while there is no disk, handles and imports while there is at most one
  disk and no export copies, and two overlapping exports while the rest is idle. A
  disk has at most three entries in its root: two of an import and the system's own.
* `vss_snapshots`: one receipt slot is full after one snapshot.
* `layer_image`: the file at `d/f` can be data, empty, deleted or hidden. The
  second start has markers and an image of an older writer, with a sidecar under
  its long and its short name, and a target that has a sidecar already.

Deadlock is checked in all runs but four. Calls are bounded in `overlay`,
`staged_copy` and `layer_image`, so these may stop when idle. A handle table
whose slots have all retired stops too.

**Fairness.** Weak fairness of the steps of a running call, never of the start
of one: the operating system schedules a runnable thread. In `EventEmitter`, a
callback returns (the header asks callbacks not to re-enter) and Clear's loop is
scheduled. `ClearReturns` has an exception: when another thread sets a callback
again while Clear waits, overlapping calls may keep the counter above zero for
ever. In `FileData` a thread may wait for a reservation. Waiting has strong
fairness, because a release wakes every waiter (`notify_all`) and none is
overtaken for ever. The other modules claim no liveness.

**Mutants.** Beside the code's definitions stand changed ones (`..._Wraps`,
`JustReleased`), each with a comment that says what is changed. Put in place of
the definition it follows, each breaks the property that is about it.

## 4. Findings

* `shell_race`. An open for writing of a small file asks for a full copy. When
  SetSecurity on another thread has meanwhile placed a metacopy shell,
  `CopyUpFile` finds an upper entry and returns (`impl/CopyUp.cpp:406`), and the
  handle opens on the shell, without the fill that `docs/engine/ARCHITECTURE.md:838`
  promises ("The shell fills at the first open that asks for data").

Met while modelling and not the subject of a run:

* A lookup may put an answer that an invalidation has overtaken, and the entry
  stays until the next change (`impl/PathResolver.cpp:221`). `StaleOnlyByOverlap`
  names this case.
* `docs/engine/ARCHITECTURE.md:1067` says that when the move back of a failed
  rename fails too, the engine deletes the replaced entry in the work directory.
  `RenameDestinationAside::Release` (`impl/CopyUp.cpp:886`) leaves it there until
  the next mount.
* `abi/HandleTypes.h:69` says that Destroy refuses while a child is outstanding.
  Destroy reads the count and frees the handle in two steps (`abi/AbiCore.cpp:208`,
  `:220`), and an open may come in between. The engine stays alive until that
  file is closed (`EngineOutlivesCalls`).
* `WildcardMatch` never reaches its branch for `*middle*`
  (`impl/ProcessTracker.cpp:259`): the rest of such a pattern is a literal suffix.
* Rename and copy-up on a volume without streams: a shell is in the upper before
  its record is (`docs/engine/ARCHITECTURE.md:113`), `CommitFromWorkDir` ignores
  that a record stayed behind (`impl/CopyUp.cpp:262`), the undo of a record's move
  is not looked at (`impl/SidecarMetadata.cpp:288`), and a file with streams can
  never be copied up. `RecordsInPlace` names what these leave.
* Layer images: a base directory that became a file cannot be unpacked over it; a
  deleted directory with children comes back empty when the differential image
  is used as an upper; an unpack does not look at the close of a file nor at the
  error of a directory (`:735`, `:846`) and reports success; a failure before the first write removes an older image at
  the same path (`impl/image/LayerImageManager.cpp:714`); a difference is size or
  time only (`:514`). `public/LayerMount.h` says of the manifest that "the helper
  reads and hashes each one"; the code reads the header.
* `GetFileAttributesW` of the source is not checked in a copy-up
  (`impl/CopyUp.cpp:433`): when it fails, the copy has no flags and is not
  encrypted. `UpperWhole` names this case.
* VHD export: a file or link of the destination is replaced in place
  (`impl/vhd/VHDLayerManager.cpp:683`), so an export that fails takes away what an
  earlier one wrote. `ExportedExactly` names this case.
* VHD import: two throwing calls skip the removal of the new file
  (`TempMount::Mount`, `ImportDirectory`), and a full handle table leaves it too
  (`abi/AbiVhd.cpp:181`).

## 5. Proofs

All theorems hold for every value of the constants that satisfies the named
assumptions of their module (`PathAssumption`, `LayerAssumption`,
`StackAssumption`, `SpanAssumption`, `ConfigAssumption`, `EmitterAssumption`,
`PathCacheAssumption`, `ProcessTrackerAssumption`, `VhdLayersAssumption`,
`VhdTransferAssumption`, `VssSnapshotsAssumption`). They say what sizes are
natural numbers, that names which stand for "none" are no members, and that
paths have their prefixes. Bounds such as `MaxTime` are arbitrary. An inductive
invariant was first checked by TLC on the instance of its run.

* **OverlayProofs.** On well-formed layers, the listing takes a name from layer
  *s* exactly when the lookup finds it in *s*, and what the lookup shows is a
  tree: both algorithms pass a layer under the same facts about the directory
  above the name. `IInv` is the type invariant, well-formedness of the upper,
  and what holds at each step of a call: neither path of a rename is within the
  other (`CallFacts`), the source is or is not in the upper and its parent is
  where a step makes an entry (`SourceFacts`), the destination's parent is there
  from the move on (`DestFacts`), and the entry set aside can be planted back
  (`WorkFacts`). `UpperWellFormed` alone is not inductive, because a move or an
  undo needs the directory that an earlier step made. `ViewIsTree` and
  `ListingMatchesLookup` follow. For `CreateShowsNothingBelow`, `CreateFacts` adds
  what each step of a create has hidden by then: the whiteout until the opaque
  marker is there, or nothing below the path in the lowers.
* **HandleTableProofs.** `IInv` adds that every value handed out is behind its
  slot: not later than the slot's generation, and earlier while the slot waits
  on the free list. A closed value is then never the value of a slot in use,
  and a slot is only taken with a generation that nobody was given. The lemmas
  on the encoding hold for any widths.
* **AbiProofs.** For `MountLifetime`, `IInv` adds, per place of a thread, what it
  refers to and where it does so alone (`RefFacts`), when the engine is there
  (`EngineFacts`), which locks go with it (`LockFacts`) and that a reserved file
  handle is in no other call (`FileFacts`). The two exclusion properties are not
  inductive without them. For `EventEmitter`, taken as an instance with the same
  threads, the invariant adds that the counter is the number of threads in a call,
  and that what an Emit can still read from the slot is neither freed nor being
  drained.
* **PathCacheProofs.** `IInv` adds what a lookup knows at each of its reads
  (`WalkInv`) and that an answer it is about to put is right, overtaken or in
  someone's overlap (`FreshInv`). The size bound is proved by itself.
* **ProcessTrackerProofs.** `IInv` adds that the buffer of each tracker is the
  entries last logged, cell by cell from the head backwards (`LogOf`), that a
  cached name was true when its life began (`KnownOf`), that a tracker in use has
  rules (`ObjOk`), and what a call knows of its name (`CallOk`). The arithmetic of
  the circular log is in lemmas on the remainder. A step of one thread on one
  tracker leaves the rest alone (`FrameStep`).
* **VhdProofs.** For `VhdLayers`, the registry needs that whoever is between load
  and unlock has the lock and read what the registry holds. The disks need that a
  call with a disk open is its owner. The state mutexes are not needed: one open
  handle per disk is enough. For `VhdTransfer`, every step is shown to be a step
  of `VhdLayers` or to leave its state alone (`TransfersImplementLayers`), so the
  first two properties hold of it too. Its own invariant says what the volume of a
  transfer holds at each step and that a volume is mounted only between its mount
  and its unmount, or the call has an error. For the exports it has
  `exported` within `Covered`: an entry reported is whole, broken, or in the hands
  of an export. That is not inductive by itself: it needs that the entries which an
  export has behind it, and has no error for, are covered already (`ExportInv`), and
  that an entry is in hand only at the step that copies it (`WalkInv`). A step
  disturbs only its thread and file (`OnlyOf`).
* **VssSnapshotsProofs.** `IInv` adds which ids have been used, who makes each
  shadow copy, and where a temporary and a persistent one may be.

Only model-checked, and why:

* `CallReturns`, `CallsReturn`, `DirectoriesComeBack`, `ClearReturns`: liveness.
* `PatternsMatch`: what a pattern matches is compared with a definition by
  splitting the text; for texts of any length this is an induction over data.
* `ImplementsNamespace` and `RenameUndone`: they relate the view to the one at the
  start of a call. Their invariants have to say of every step what the undo would
  restore, which needs an algebra of moved and pruned trees that is not done.
* `UpperWhole`, `RecordsInPlace`, `FailedCallChangesNothing`, `RefusedOnlyByHost`,
  and the properties of `layer_image`: their models work through lists of steps or
  of entries whose order matters, so the invariants are inductions over those lists.
* `NoHandleOnShell` and `ImplementsContent`: the argument needs, for every place of
  every pair of threads, what a reservation excludes; it is not written down yet.

## 6. Not modelled

`components` in `PROJECT.json` has each part with its reason. In short:

* Links in the view: the walk splices texts of link targets into paths, which the
  path sets here do not have. Name case is left out for the same reason.
* The product of deletes and copy-ups on several threads (`impl/CopyUp.cpp:374`):
  `FileData` has one file that nobody deletes and `Overlay` one call at a time.
* Appends of two threads (`impl/LayerMount.cpp:1739`): blocks have no length.
* The manifest of an image, which reads one header.
* The rights that a copied DACL takes from a later step of the same copy: in
  `StagedCopy` only the read-only attribute stands in the way of a later step.
* Two spellings of the registry's path (`impl/vhd/Manifest.cpp:37`): the lock's name
  is a hash of the text, and `VhdLayers` has one text.
* The size of a new disk, volume names and the parent of a differencing disk.
* Text formats: records, rules, manifests, images as bytes.
* Single system calls: mount points, COM, privileges, status conversion. The
  managed wrapper marshals over the C interface, whose lifetimes are modelled.
