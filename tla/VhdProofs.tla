----------------------------- MODULE VhdProofs -----------------------------
(***************************************************************************)
(* Proofs for VhdLayers, for any number of threads, processes, handles,     *)
(* disks and layers: who has a disk open is known and is one, and no update *)
(* of the registry is lost.                                                 *)
(*                                                                          *)
(* Neither is inductive alone.  The registry needs the lock: the actor      *)
(* between its load and its unlock has it, and what it read is what the     *)
(* registry holds.  The disks need the calls: a call that has a disk open   *)
(* is the disk's owner, and a call inside a holder keeps that holder on its *)
(* file.  The state mutexes are not needed: that a disk takes one open      *)
(* handle at a time is enough.                                              *)
(*                                                                          *)
(* The invariant of the disks is said of each thread, handle and file by    *)
(* itself.  A step changes one of each at most, and one that changes the    *)
(* owner of a file has owned it or found it free; so the others keep their  *)
(* part (FrameStep), and an action has to keep the parts of its own.        *)
(***************************************************************************)
EXTENDS VhdTransfer, TLAPS

UsePlaces == {"attaching", "pathof", "bypath", "merging", "copy", "export"}
HandlePlaces == {"attach?", "attach", "attaching", "pathof", "detach?", "detach",
                 "bypath", "merge", "merging", "leave"}
ImportPlaces == {"import", "copy", "remove", "export"}
RegistryPlaces == {"lock", "load", "save", "unlock"}
Places == {"idle"} \cup HandlePlaces \cup ImportPlaces \cup RegistryPlaces

Owners == Threads \cup Handles \cup {None}
Attaches == Lifetimes \cup {"none"}
Holders == [file : Files \cup {None}, lifetime : Lifetimes, open : BOOLEAN, path : BOOLEAN]
Locals == [handle : Handles \cup {None}, file : Files \cup {None},
           read : SUBSET Layers, layer : Layers \cup {None}]

TypeInv ==
    /\ exists \subseteq Files
    /\ owner \in [Files -> Owners]
    /\ attach \in [Files -> Attaches]
    /\ holder \in [Handles -> Holders]
    /\ live \subseteq Handles
    /\ registry \subseteq Layers
    /\ pc \in [Actors -> Places]
    /\ loc \in [Actors -> Locals]

(* Under the lock, what was read is what is there.                          *)
RegistryInv ==
    /\ \A t \in Actors :
          /\ pc[t] \in {"load", "save", "unlock"} => lock = t
          /\ pc[t] = "save" => loc[t].read = registry
    /\ registry \cap gone = {}

(* A call inside a holder keeps it on its file, and a call that uses a file *)
(* owns it.                                                                 *)
ThreadOk(t) ==
    /\ pc[t] \in HandlePlaces => /\ loc[t].handle \in Handles
                                 /\ loc[t].file \in Files
                                 /\ holder[loc[t].handle].file = loc[t].file
    /\ pc[t] \notin HandlePlaces => loc[t].handle = None
    /\ pc[t] \in ImportPlaces => loc[t].file \in Files
    /\ pc[t] \in UsePlaces => owner[loc[t].file] = t /\ loc[t].file \in exists

(* A holder that is open owns its file.                                     *)
HandleOk(h) ==
    /\ h \in live \/ holder[h].open => holder[h].file \in Files
    /\ holder[h].path = holder[h].open
    /\ holder[h].open => owner[holder[h].file] = h /\ holder[h].file \in exists

(* An owner is a call that uses the file or a holder that is open on it.    *)
FileOk(f) ==
    /\ owner[f] \in Handles => holder[owner[f]].open /\ holder[owner[f]].file = f
    /\ owner[f] \in Threads => pc[owner[f]] \in UsePlaces /\ loc[owner[f]].file = f
    /\ attach[f] = "scoped" => owner[f] # None

DiskInv ==
    /\ \A t \in Threads : ThreadOk(t)
    /\ \A h \in Handles : HandleOk(h)
    /\ \A f \in Files : FileOk(f)

IInv == TypeInv /\ RegistryInv /\ DiskInv
-----------------------------------------------------------------------------
(* What a step leaves alone: every call, file and holder but one of each.   *)

CallsBut(t) ==
    /\ pc' \in [Actors -> Places] /\ loc' \in [Actors -> Locals]
    /\ \A u \in Actors \ {t} : pc'[u] = pc[u] /\ loc'[u] = loc[u]

DisksBut(f) ==
    /\ exists' \subseteq Files /\ registry' \subseteq Layers
    /\ owner' \in [Files -> Owners] /\ attach' \in [Files -> Attaches]
    /\ \A g \in Files \ {f} : /\ owner'[g] = owner[g] /\ attach'[g] = attach[g]
                              /\ g \in exists' <=> g \in exists

HoldersBut(h) ==
    /\ holder' \in [Handles -> Holders] /\ live' \subseteq Handles
    /\ \A k \in Handles \ {h} : holder'[k] = holder[k] /\ (k \in live' => k \in live)

(* The places of the calls on handles, imports and the registry are apart. *)
LEMMA PlacesFacts ==
    /\ UsePlaces \subseteq HandlePlaces \cup ImportPlaces
    /\ HandlePlaces \cap ImportPlaces = {}
    /\ \A p \in RegistryPlaces \cup {"idle"} :
          p \notin HandlePlaces /\ p \notin ImportPlaces /\ p \notin UsePlaces
    /\ Threads \subseteq Actors /\ None \notin Files /\ None \notin Handles /\ None \notin Threads
    /\ Threads \cap Handles = {} /\ Actors \cap Handles = {}
BY Zenon, VhdLayersAssumption
   DEF UsePlaces, HandlePlaces, ImportPlaces, RegistryPlaces, Actors

(* The frame argument: t, f and h are what the step may have changed, and   *)
(* None where it changed nothing.                                           *)
LEMMA FrameStep ==
    ASSUME TypeInv, DiskInv,
           NEW t \in Actors \cup {None}, NEW f, NEW h \in Handles \cup {None},
           CallsBut(t), DisksBut(f), HoldersBut(h),
           t \in Threads => ThreadOk(t)',
           f \in Files => FileOk(f)' /\ owner[f] \in {None, t, h},
           h \in Handles => HandleOk(h)',
           h \in Handles => \/ holder'[h].file = holder[h].file
                            \/ \A u \in Threads \ {t} : loc[u].handle # h,
           h \in Handles /\ holder[h].open => holder[h].file = f,
           t \in Threads /\ pc[t] \in UsePlaces => loc[t].file = f
    PROVE  TypeInv' /\ DiskInv'
<1>1. TypeInv'
  BY Zenon DEF TypeInv, CallsBut, DisksBut, HoldersBut
<1>2. ASSUME NEW u \in Threads, u # t PROVE ThreadOk(u)'
  <2>1. ThreadOk(u) /\ pc'[u] = pc[u] /\ loc'[u] = loc[u]
    BY Zenon, <1>2, PlacesFacts DEF DiskInv, CallsBut
  <2>2. ASSUME pc[u] \in HandlePlaces PROVE holder'[loc[u].handle].file = loc[u].file
    <3>1. loc[u].handle \in Handles /\ holder[loc[u].handle].file = loc[u].file
      BY Zenon, <2>1, <2>2 DEF ThreadOk
    <3>2. CASE loc[u].handle # h
      BY Zenon, <3>1, <3>2 DEF HoldersBut
    <3>3. CASE loc[u].handle = h
      BY Zenon, <1>2, <3>1, <3>3
    <3> QED BY Zenon, <3>2, <3>3
  <2>3. ASSUME pc[u] \in UsePlaces PROVE owner'[loc[u].file] = u /\ loc[u].file \in exists'
    <3>1. loc[u].file \in Files /\ owner[loc[u].file] = u /\ loc[u].file \in exists
      BY Zenon, <2>1, <2>3, PlacesFacts DEF ThreadOk
    <3>2. loc[u].file # f
      BY Zenon, <1>2, <3>1, PlacesFacts
    <3> QED BY Zenon, <3>1, <3>2 DEF DisksBut
  <2> QED BY Zenon, <2>1, <2>2, <2>3 DEF ThreadOk
<1>3. ASSUME NEW k \in Handles, k # h PROVE HandleOk(k)'
  <2>1. HandleOk(k) /\ holder'[k] = holder[k] /\ (k \in live' => k \in live)
    BY Zenon, <1>3 DEF DiskInv, HoldersBut
  <2>2. ASSUME holder[k].open
        PROVE  owner'[holder[k].file] = k /\ holder[k].file \in exists'
    <3>1. holder[k].file \in Files /\ owner[holder[k].file] = k /\ holder[k].file \in exists
      BY Zenon, <2>1, <2>2 DEF HandleOk
    <3>2. holder[k].file # f
      BY Zenon, <1>3, <3>1, PlacesFacts
    <3> QED BY Zenon, <3>1, <3>2 DEF DisksBut
  <2> QED BY Zenon, <2>1, <2>2 DEF HandleOk
<1>4. ASSUME NEW g \in Files, g # f PROVE FileOk(g)'
  <2>1. FileOk(g) /\ owner'[g] = owner[g] /\ attach'[g] = attach[g]
    BY Zenon, <1>4 DEF DiskInv, DisksBut
  <2>2. ASSUME owner[g] \in Handles PROVE holder'[owner[g]] = holder[owner[g]]
    BY Zenon, <1>4, <2>1, <2>2 DEF FileOk, HoldersBut
  <2>3. ASSUME owner[g] \in Threads
        PROVE  pc'[owner[g]] = pc[owner[g]] /\ loc'[owner[g]] = loc[owner[g]]
    BY Zenon, <1>4, <2>1, <2>3, PlacesFacts DEF FileOk, CallsBut
  <2> QED BY Zenon, <2>1, <2>2, <2>3 DEF FileOk
<1> QED BY Zenon, <1>1, <1>2, <1>3, <1>4 DEF DiskInv

(* A step outside the use of a file that changes no disk and no holder.     *)
LEMMA QuietStep ==
    ASSUME TypeInv, DiskInv, NEW t \in Actors,
           CallsBut(t), DisksBut(None), HoldersBut(None),
           pc[t] \notin UsePlaces, t \in Threads => ThreadOk(t)'
    PROVE  TypeInv' /\ DiskInv'
BY Zenon, FrameStep, PlacesFacts

(* A call opens a free file.                                                *)
LEMMA TakesStep ==
    ASSUME TypeInv, DiskInv, NEW t \in Threads, NEW f \in Files,
           CallsBut(t), DisksBut(f), HoldersBut(None),
           pc[t] \notin UsePlaces, pc'[t] \in UsePlaces, loc'[t].file = f,
           owner[f] = None, owner'[f] = t, ThreadOk(t)'
    PROVE  TypeInv' /\ DiskInv'
<1>1. FileOk(f)'
  BY Zenon, PlacesFacts DEF FileOk
<1> QED BY Zenon, <1>1, FrameStep, PlacesFacts

(* A call closes the file it has open.                                      *)
LEMMA ClosesStep ==
    ASSUME TypeInv, DiskInv, NEW t \in Threads, NEW f \in Files,
           CallsBut(t), DisksBut(f), HoldersBut(None),
           pc[t] \in UsePlaces, loc[t].file = f,
           owner'[f] = None, attach'[f] # "scoped", ThreadOk(t)'
    PROVE  TypeInv' /\ DiskInv'
<1>1. FileOk(f)'
  BY Zenon, PlacesFacts DEF FileOk
<1>2. owner[f] = t
  BY Zenon DEF DiskInv, ThreadOk
<1> QED BY Zenon, <1>1, <1>2, FrameStep, PlacesFacts

(* The holder of a free handle has no disk. *)
LEMMA NoHolderFacts ==
    /\ NoHolder \in Holders
    /\ NoHolder.file = None /\ ~NoHolder.open /\ NoHolder.path = NoHolder.open
BY Zenon DEF NoHolder, Holders, Lifetimes

(* A holder or disk that a step leaves alone.                               *)
LEMMA StillHolders == ASSUME TypeInv, UNCHANGED <<holder, live>> PROVE HoldersBut(None)
BY Zenon DEF TypeInv, HoldersBut

(* A step that changes no disk. *)
LEMMA StillDisks ==
    ASSUME TypeInv, UNCHANGED <<exists, owner, attach, registry>>
    PROVE  DisksBut(None)
BY Zenon DEF TypeInv, DisksBut

(* A handle opens or closes its disk. *)
LEMMA SetHolder ==
    ASSUME TypeInv, NEW h \in Handles, NEW v \in BOOLEAN, live' = live,
           holder' = [holder EXCEPT ![h].open = v, ![h].path = v]
    PROVE  /\ HoldersBut(h) /\ holder'[h].file = holder[h].file
           /\ holder'[h].open = v /\ holder'[h].path = v
<1>1. holder[h] \in Holders
  BY Zenon DEF TypeInv
<1>2. [holder[h] EXCEPT !.open = v, !.path = v] \in Holders
  BY Zenon, <1>1 DEF Holders
<1>3. holder'[h] = [holder[h] EXCEPT !.open = v, !.path = v]
  BY Zenon DEF TypeInv
<1>4. HoldersBut(h)
  BY Zenon, <1>2 DEF TypeInv, HoldersBut
<1>a. "file" \in DOMAIN holder[h]
  BY Zenon, <1>1 DEF Holders
<1>5. holder'[h].file = holder[h].file
  BY Zenon, <1>3, <1>a
<1>6. holder'[h].open = v
  BY Zenon, <1>1, <1>3 DEF Holders
<1>7. holder'[h].path = v
  BY Zenon, <1>1, <1>3 DEF Holders
<1> QED BY Zenon, <1>4, <1>5, <1>6, <1>7

(* A call ends, or a handle is closed, and the holder may go with it.        *)
LEMMA DropStep ==
    ASSUME TypeInv, DiskInv, NEW t \in Threads, NEW h \in Handles,
           CallsBut(t), Drop(t, h), UNCHANGED <<exists, registry>>, live' \subseteq live,
           ThreadOk(t)', pc[t] \notin UsePlaces, pc'[t] \notin HandlePlaces
    PROVE  TypeInv' /\ DiskInv'
<1> USE DEF TypeInv
<1>1. CASE UNCHANGED <<holder, owner, attach>>
  <2>1. DisksBut(None)
    BY Zenon, <1>1 DEF DisksBut
  <2>2. HoldersBut(None)
    BY Zenon, <1>1 DEF HoldersBut
  <2> HIDE DEF TypeInv
  <2> QED BY Zenon, <2>1, <2>2, QuietStep, PlacesFacts
<1>2. CASE ~UNCHANGED <<holder, owner, attach>>
  <2>1. /\ \A u \in Threads \ {t} : loc[u].handle # h
        /\ h \notin live' /\ holder' = [holder EXCEPT ![h] = NoHolder]
        /\ IF holder[h].open THEN Closed(holder[h].file) ELSE UNCHANGED <<owner, attach>>
    BY Zenon, <1>2 DEF Drop, Inside
  <2>2. HoldersBut(h) /\ holder'[h] = NoHolder
    BY Zenon, <2>1, NoHolderFacts DEF HoldersBut
  <2>3. HandleOk(h)'
    BY Zenon, <2>1, <2>2, NoHolderFacts DEF HandleOk
  <2>4. CASE ~holder[h].open
    <3>1. DisksBut(None)
      BY Zenon, <2>1, <2>4 DEF DisksBut
    <3> HIDE DEF TypeInv
    <3> QED BY Zenon, <2>1, <2>2, <2>3, <2>4, <3>1, FrameStep, PlacesFacts
  <2>5. CASE holder[h].open
    <3>1. PICK f \in Files : f = holder[h].file /\ owner[f] = h
      BY Zenon, <2>5 DEF DiskInv, HandleOk
    <3>2. DisksBut(f) /\ owner'[f] = None /\ attach'[f] # "scoped"
      BY Zenon, <2>1, <2>5, <3>1 DEF Closed, DisksBut, Owners, Attaches, Lifetimes
    <3>3. FileOk(f)'
      BY Zenon, <3>2, PlacesFacts DEF FileOk
    <3> HIDE DEF TypeInv
    <3> QED BY Zenon, <2>1, <2>2, <2>3, <3>1, <3>2, <3>3, FrameStep, PlacesFacts
  <2> QED BY Zenon, <2>4, <2>5
<1> QED BY Zenon, <1>1, <1>2

(* Every step keeps the types and the invariant of the disks.               *)
LEMMA DiskStep ==
    ASSUME IInv, Next
    PROVE  TypeInv' /\ DiskInv'
<1> USE VhdLayersAssumption DEF disks, handles, reg
<1>a. TypeInv /\ DiskInv
  BY Zenon DEF IInv
<1>b. pc \in [Actors -> Places] /\ loc \in [Actors -> Locals]
  BY Zenon, <1>a DEF TypeInv
<1>d. /\ exists \subseteq Files /\ registry \subseteq Layers
      /\ owner \in [Files -> Owners] /\ attach \in [Files -> Attaches]
  BY Zenon, <1>a DEF TypeInv
<1>h. holder \in [Handles -> Holders] /\ live \subseteq Handles
  BY Zenon, <1>a DEF TypeInv
<1>c. \A t \in Threads : t \in Actors /\ ThreadOk(t)
  BY Zenon, <1>a, PlacesFacts DEF DiskInv
<1>1. ASSUME NEW t \in Threads, NEW f \in Files, NEW l \in Lifetimes,
               VhdCreate(t, f, l) PROVE TypeInv' /\ DiskInv'
  <2>1. UNCHANGED <<pc, loc, owner, attach, registry>> /\ Allocate(f, l)
    BY Zenon, <1>1 DEF VhdCreate
  <2>2. CallsBut(None)
    BY Zenon, <1>b, <2>1 DEF CallsBut
  <2>3. exists' = exists \cup {f} /\ f \notin exists
    BY Zenon, <1>1 DEF VhdCreate
  <2>4. DisksBut(f) /\ owner'[f] = owner[f] /\ attach'[f] = attach[f]
    BY Zenon, <1>d, <2>1, <2>3 DEF DisksBut
  <2>5. owner[f] = None
    BY <1>a, <1>d, <2>3, PlacesFacts DEF DiskInv, FileOk, HandleOk, ThreadOk, Owners
  <2>6. FileOk(f)'
    BY Zenon, <1>a, <2>4, <2>5, PlacesFacts DEF DiskInv, FileOk
  <2>7. CASE UNCHANGED <<holder, live>>
    BY Zenon, <1>a, <2>2, <2>4, <2>5, <2>6, <2>7, StillHolders, FrameStep, PlacesFacts
  <2>8. CASE ~UNCHANGED <<holder, live>>
    <3>1. PICK h \in Handles :
             /\ holder[h].file = None /\ live' = live \cup {h}
             /\ holder' = [holder EXCEPT ![h] = [NoHolder EXCEPT !.file = f, !.lifetime = l]]
      BY Zenon, <2>1, <2>8 DEF Allocate
    <3>2. /\ holder'[h] = [NoHolder EXCEPT !.file = f, !.lifetime = l]
          /\ HoldersBut(h)
      BY Zenon, <1>h, <3>1 DEF HoldersBut, NoHolder, Holders
    <3>3. holder'[h].file = f /\ ~holder'[h].open /\ holder'[h].path = holder'[h].open
      BY Zenon, <3>2 DEF NoHolder
    <3>4. HandleOk(h)'
      BY Zenon, <3>3 DEF HandleOk
    <3>5. ~holder[h].open /\ \A u \in Threads : loc[u].handle # h
      BY <1>a, <3>1, PlacesFacts DEF DiskInv, HandleOk, ThreadOk
    <3> QED BY Zenon, <1>a, <2>2, <2>4, <2>5, <2>6, <3>2, <3>4, <3>5, FrameStep, PlacesFacts
  <2> QED BY Zenon, <2>7, <2>8
<1>2. ASSUME NEW t \in Threads, NEW f \in Files, NEW l \in Lifetimes,
               VhdOpen(t, f, l) PROVE TypeInv' /\ DiskInv'
  <2>1. UNCHANGED <<pc, loc, owner, attach, registry>> /\ Allocate(f, l)
    BY Zenon, <1>2 DEF VhdOpen
  <2>2. CallsBut(None)
    BY Zenon, <1>b, <2>1 DEF CallsBut
  <2>3. exists' = exists /\ f \in exists
    BY Zenon, <1>2 DEF VhdOpen
  <2>4. DisksBut(None)
    BY Zenon, <1>a, <2>1, <2>3, StillDisks
  <2>7. CASE UNCHANGED <<holder, live>>
    BY Zenon, <1>a, <2>2, <2>4, <2>7, StillHolders, FrameStep, PlacesFacts
  <2>8. CASE ~UNCHANGED <<holder, live>>
    <3>1. PICK h \in Handles :
             /\ holder[h].file = None /\ live' = live \cup {h}
             /\ holder' = [holder EXCEPT ![h] = [NoHolder EXCEPT !.file = f, !.lifetime = l]]
      BY Zenon, <2>1, <2>8 DEF Allocate
    <3>2. /\ holder'[h] = [NoHolder EXCEPT !.file = f, !.lifetime = l]
          /\ HoldersBut(h)
      BY Zenon, <1>h, <3>1 DEF HoldersBut, NoHolder, Holders
    <3>3. holder'[h].file = f /\ ~holder'[h].open /\ holder'[h].path = holder'[h].open
      BY Zenon, <3>2 DEF NoHolder
    <3>4. HandleOk(h)'
      BY Zenon, <3>3 DEF HandleOk
    <3>5. ~holder[h].open /\ \A u \in Threads : loc[u].handle # h
      BY <1>a, <3>1, PlacesFacts DEF DiskInv, HandleOk, ThreadOk
    <3> QED BY Zenon, <1>a, <2>2, <2>4, <3>2, <3>4, <3>5, FrameStep, PlacesFacts
  <2> QED BY Zenon, <2>7, <2>8
<1>3. ASSUME NEW t \in Threads, NEW f \in Files, Import(t, f) PROVE TypeInv' /\ DiskInv'
  <2>1. /\ CallsBut(t) /\ pc[t] = "idle" /\ pc'[t] = "import"
        /\ loc'[t].file = f /\ loc'[t].handle = loc[t].handle
    BY <1>3, <1>b, <1>h, <1>c DEF Import, Goto, CallsBut, Locals, Places, HandlePlaces,
       ImportPlaces, RegistryPlaces
  <2>2. /\ f \notin exists /\ exists' = exists \cup {f}
        /\ UNCHANGED <<owner, attach, registry, holder, live>>
    BY Zenon, <1>3 DEF Import
  <2>3. DisksBut(f) /\ owner'[f] = owner[f] /\ attach'[f] = attach[f]
    BY Zenon, <1>d, <2>2 DEF DisksBut
  <2>4. owner[f] = None
    BY <1>a, <1>d, <2>2, PlacesFacts DEF DiskInv, FileOk, HandleOk, ThreadOk, Owners
  <2>5. FileOk(f)'
    BY Zenon, <1>a, <2>3, <2>4, PlacesFacts DEF DiskInv, FileOk
  <2>6. ThreadOk(t)'
    BY Zenon, <1>c, <2>1 DEF ThreadOk, HandlePlaces, ImportPlaces, UsePlaces
  <2>7. HoldersBut(None)
    BY Zenon, <1>a, <2>2, StillHolders
  <2> QED BY Zenon, <1>a, <2>1, <2>3, <2>4, <2>5, <2>6, <2>7, FrameStep, PlacesFacts
<1>4. ASSUME NEW t \in Threads, NEW f \in Files, Export(t, f) PROVE TypeInv' /\ DiskInv'
  <2>1. /\ CallsBut(t) /\ pc[t] = "idle" /\ pc'[t] = "export"
        /\ loc'[t].file = f /\ loc'[t].handle = loc[t].handle
    BY <1>4, <1>b, <1>c DEF Export, Goto, CallsBut, Locals, Places, HandlePlaces,
       ImportPlaces, RegistryPlaces
  <2>2. DisksBut(f) /\ f \in exists' /\ owner[f] = None /\ owner'[f] = t
    BY Zenon, <1>4, <1>d DEF Export, Opens, DisksBut, Owners, Attaches, Lifetimes
  <2>3. HoldersBut(None)
    BY Zenon, <1>4, <1>a, StillHolders DEF Export
  <2>4. ThreadOk(t)'
    BY Zenon, <1>c, <2>1, <2>2 DEF ThreadOk, HandlePlaces, ImportPlaces, UsePlaces
  <2> QED BY Zenon, <1>a, <2>1, <2>2, <2>3, <2>4, TakesStep DEF UsePlaces
<1>5. ASSUME NEW t \in Threads, NEW h \in Handles, VhdClose(t, h) PROVE TypeInv' /\ DiskInv'
  <2>1. /\ UNCHANGED <<pc, loc, exists, registry>> /\ pc[t] = "idle"
        /\ live' = live \ {h} /\ Drop(t, h)
    BY Zenon, <1>5 DEF VhdClose
  <2>2. CallsBut(None) /\ CallsBut(t)
    BY Zenon, <1>b, <2>1 DEF CallsBut
  <2>3. ThreadOk(t)'
    BY Zenon, <1>c, <2>1 DEF ThreadOk, HandlePlaces, ImportPlaces, UsePlaces
  <2>5. pc[t] \notin UsePlaces /\ pc'[t] \notin HandlePlaces /\ live' \subseteq live
    BY Zenon, <2>1, PlacesFacts
  <2> QED BY Zenon, <1>a, <2>1, <2>2, <2>3, <2>5, DropStep
<1>6. ASSUME NEW t \in Threads, NEW h \in Handles,
               NEW w \in {"attach?", "detach?", "merge"}, Call(t, h, w) PROVE TypeInv' /\ DiskInv'
  <2>1. /\ CallsBut(t) /\ pc[t] = "idle" /\ pc'[t] = w
        /\ loc'[t].handle = h /\ loc'[t].file = holder[h].file
    BY Zenon, <1>6, <1>b, <1>h, <1>c DEF Call, Goto, NoCall, CallsBut, Locals, Holders, Places,
       HandlePlaces, ImportPlaces, RegistryPlaces
  <2>2. h \in live /\ UNCHANGED <<exists, owner, attach, registry, holder, live>>
    BY Zenon, <1>6 DEF Call
  <2>3. ThreadOk(t)'
    BY Zenon, <1>a, <2>1, <2>2 DEF DiskInv, HandleOk, ThreadOk, HandlePlaces, ImportPlaces,
       UsePlaces
  <2> QED BY Zenon, <1>a, <1>c, <2>1, <2>2, <2>3, QuietStep, StillDisks, StillHolders DEF
     UsePlaces
<1>7. ASSUME NEW t \in Threads, NEW u \in {"attach", "detach"},
               NEW w \in {"attach?", "detach?"}, LockState(t, w, u) PROVE TypeInv' /\ DiskInv'
  <2>1. /\ CallsBut(t) /\ pc[t] = w /\ pc'[t] = u
        /\ loc'[t] = loc[t] /\ UNCHANGED <<exists, owner, attach, registry, holder, live>>
    BY Zenon, <1>7, <1>b, <1>c DEF LockState, Goto, CallsBut, Places, HandlePlaces, ImportPlaces,
       RegistryPlaces
  <2>2. ThreadOk(t)'
    BY Zenon, <1>c, <2>1 DEF ThreadOk, HandlePlaces, ImportPlaces, UsePlaces
  <2> QED BY Zenon, <1>a, <1>c, <2>1, <2>2, QuietStep, StillDisks, StillHolders DEF UsePlaces
<1>8. ASSUME NEW t \in Threads, AttachOpen(t) PROVE TypeInv' /\ DiskInv'
  <2>1. /\ CallsBut(t) /\ pc[t] = "attach" /\ loc'[t] = loc[t]
        /\ UNCHANGED <<exists, registry, holder, live>> /\ loc[t].file \in Files
    BY <1>8, <1>b, <1>c DEF AttachOpen, Goto, CallsBut, ThreadOk, Places, HandlePlaces,
       ImportPlaces, RegistryPlaces
  <2>2. CASE Opens(loc[t].file, t) /\ pc'[t] = "attaching"
    <3>1. /\ DisksBut(loc[t].file) /\ loc[t].file \in exists'
          /\ owner[loc[t].file] = None /\ owner'[loc[t].file] = t
      BY Zenon, <1>8, <1>d, <2>1, <2>2 DEF AttachOpen, Opens, DisksBut, Owners, Attaches,
         Lifetimes
    <3>2. ThreadOk(t)'
      BY Zenon, <1>c, <2>1, <2>2, <3>1 DEF ThreadOk, HandlePlaces, ImportPlaces, UsePlaces
    <3> QED BY Zenon, <1>a, <2>1, <2>2, <3>1, <3>2, TakesStep, StillHolders DEF UsePlaces
  <2>3. CASE UNCHANGED <<owner, attach>> /\ pc'[t] = "leave"
    <3>1. ThreadOk(t)'
      BY Zenon, <1>c, <2>1, <2>3 DEF ThreadOk, HandlePlaces, ImportPlaces, UsePlaces
    <3> QED BY Zenon, <1>a, <1>c, <2>1, <2>3, <3>1, QuietStep, StillDisks, StillHolders DEF
       UsePlaces
  <2> QED BY Zenon, <1>8, <1>b, <1>c, <2>2, <2>3 DEF AttachOpen, Goto
<1>9. ASSUME NEW t \in Threads, AttachDisk(t) PROVE TypeInv' /\ DiskInv'
  <2>1. /\ CallsBut(t) /\ pc[t] = "attaching" /\ loc'[t] = loc[t]
        /\ UNCHANGED <<exists, registry, holder, live>>
    BY Zenon, <1>9, <1>b, <1>c DEF AttachDisk, Goto, CallsBut, Places, HandlePlaces, ImportPlaces,
       RegistryPlaces
  <2>2. /\ loc[t].file \in Files /\ loc[t].handle \in Handles
        /\ owner[loc[t].file] = t /\ holder[loc[t].handle].lifetime \in Lifetimes
    BY Zenon, <1>h, <1>c, <2>1 DEF ThreadOk, Holders, HandlePlaces, ImportPlaces, UsePlaces
  <2>3. CASE /\ attach' = [attach EXCEPT ![loc[t].file] = holder[loc[t].handle].lifetime]
             /\ pc'[t] = "pathof" /\ UNCHANGED owner
    <3>1. DisksBut(loc[t].file) /\ owner'[loc[t].file] = t
      BY Zenon, <1>d, <2>1, <2>2, <2>3 DEF DisksBut, Attaches
    <3>2. ThreadOk(t)'
      BY Zenon, <1>c, <2>1, <2>3, <3>1 DEF ThreadOk, HandlePlaces, ImportPlaces, UsePlaces
    <3>3. FileOk(loc[t].file)'
      BY Zenon, <2>1, <2>3, <3>1, PlacesFacts DEF FileOk, UsePlaces
    <3> QED BY Zenon, <1>a, <1>c, <2>1, <2>2, <3>1, <3>2, <3>3, FrameStep, StillHolders,
       PlacesFacts
  <2>4. CASE Closed(loc[t].file) /\ pc'[t] = "leave"
    <3>1. /\ DisksBut(loc[t].file)
          /\ owner'[loc[t].file] = None /\ attach'[loc[t].file] # "scoped"
      BY Zenon, <1>d, <2>1, <2>2, <2>4 DEF Closed, DisksBut, Owners, Attaches, Lifetimes
    <3>2. ThreadOk(t)'
      BY Zenon, <1>c, <2>1, <2>4 DEF ThreadOk, HandlePlaces, ImportPlaces, UsePlaces
    <3> QED BY Zenon, <1>a, <2>1, <2>2, <3>1, <3>2, ClosesStep, StillHolders DEF UsePlaces
  <2> QED BY Zenon, <1>9, <1>b, <1>c, <2>3, <2>4 DEF AttachDisk, Goto
<1>10. ASSUME NEW t \in Threads, AttachKeep(t) PROVE TypeInv' /\ DiskInv'
  <2>1. CallsBut(t) /\ pc[t] = "pathof" /\ pc'[t] = "leave" /\ loc'[t] = loc[t]
    BY Zenon, <1>10, <1>b, <1>c DEF AttachKeep, Goto, CallsBut, Places, HandlePlaces,
       ImportPlaces, RegistryPlaces
  <2>2. PICK f \in Files, h \in Handles :
           f = loc[t].file /\ h = loc[t].handle /\ holder[h].file = f
    BY <1>c, <2>1 DEF ThreadOk, HandlePlaces, ImportPlaces, UsePlaces
  <2>3. DisksBut(f) /\ owner'[f] = h /\ f \in exists' /\ owner[f] = t
    BY <1>10, <1>d, <1>c, <2>1, <2>2 DEF AttachKeep, DisksBut, ThreadOk, Owners, UsePlaces
  <2>4. live' = live /\ holder' = [holder EXCEPT ![h].open = TRUE, ![h].path = TRUE]
    BY Zenon, <1>10, <2>2 DEF AttachKeep
  <2>5. /\ HoldersBut(h) /\ holder'[h].file = f
        /\ holder'[h].open = TRUE /\ holder'[h].path = TRUE
    BY Zenon, <1>a, <2>2, <2>4, SetHolder
  <2>6. ThreadOk(t)'
    BY <1>c, <2>1, <2>2, <2>5 DEF ThreadOk, HandlePlaces, ImportPlaces, UsePlaces
  <2>7. HandleOk(h)'
    BY Zenon, <2>3, <2>5 DEF HandleOk
  <2>8. FileOk(f)'
    BY Zenon, <2>3, <2>5, PlacesFacts DEF FileOk
  <2> QED BY Zenon, <1>a, <1>c, <2>1, <2>2, <2>3, <2>5, <2>6, <2>7, <2>8, FrameStep
<1>11. ASSUME NEW t \in Threads, AttachUndo(t) PROVE TypeInv' /\ DiskInv'
  <2>1. CallsBut(t) /\ pc[t] = "pathof" /\ pc'[t] = "leave" /\ loc'[t] = loc[t]
    BY Zenon, <1>11, <1>b, <1>c DEF AttachUndo, Goto, CallsBut, Places, HandlePlaces,
       ImportPlaces, RegistryPlaces
  <2>2. loc[t].file \in Files
    BY Zenon, <1>c, <2>1 DEF ThreadOk, HandlePlaces, ImportPlaces, UsePlaces
  <2>3. /\ DisksBut(loc[t].file) /\ UNCHANGED <<holder, live>>
        /\ owner'[loc[t].file] = None /\ attach'[loc[t].file] # "scoped"
    BY Zenon, <1>11, <1>d, <2>2 DEF AttachUndo, DetachedClosed, Closed, DisksBut, Owners,
       Attaches, Lifetimes
  <2>4. ThreadOk(t)'
    BY Zenon, <1>c, <2>1, <2>3 DEF ThreadOk, HandlePlaces, ImportPlaces, UsePlaces
  <2> QED BY Zenon, <1>a, <2>1, <2>2, <2>3, <2>4, ClosesStep, StillHolders DEF UsePlaces
<1>12. ASSUME NEW t \in Threads, DetachHeld(t) PROVE TypeInv' /\ DiskInv'
  <2>1. CallsBut(t) /\ pc[t] = "detach" /\ pc'[t] = "leave" /\ loc'[t] = loc[t]
    BY Zenon, <1>12, <1>b, <1>c DEF DetachHeld, Goto, CallsBut, Places, HandlePlaces,
       ImportPlaces, RegistryPlaces
  <2>2. PICK f \in Files, h \in Handles :
           f = loc[t].file /\ h = loc[t].handle /\ holder[h].file = f
    BY <1>c, <2>1 DEF ThreadOk, HandlePlaces, ImportPlaces, UsePlaces
  <2>3. DisksBut(f) /\ owner'[f] = None /\ attach'[f] # "scoped"
    BY Zenon, <1>12, <1>d, <2>2 DEF DetachHeld, DetachedClosed, DisksBut, Owners, Attaches
  <2>4. live' = live /\ holder' = [holder EXCEPT ![h].open = FALSE, ![h].path = FALSE]
    BY Zenon, <1>12, <2>2 DEF DetachHeld
  <2>5. /\ HoldersBut(h) /\ holder'[h].file = f
        /\ holder'[h].open = FALSE /\ holder'[h].path = FALSE
    BY Zenon, <1>a, <2>2, <2>4, SetHolder
  <2>6. ThreadOk(t)'
    BY Zenon, <1>c, <2>1, <2>2, <2>5 DEF ThreadOk, HandlePlaces, ImportPlaces, UsePlaces
  <2>7. HandleOk(h)'
    BY Zenon, <2>3, <2>5 DEF HandleOk
  <2>8. FileOk(f)'
    BY Zenon, <2>3, <2>5, PlacesFacts DEF FileOk
  <2>9. owner[f] = h
    BY Zenon, <1>12, <1>a, <2>2 DEF DetachHeld, DiskInv, HandleOk
  <2> QED BY Zenon, <1>a, <1>c, <2>1, <2>2, <2>3, <2>5, <2>6, <2>7, <2>8, <2>9, FrameStep
<1>13. ASSUME NEW t \in Threads, DetachFails(t) PROVE TypeInv' /\ DiskInv'
  <2>1. /\ CallsBut(t) /\ pc[t] = "detach" /\ pc'[t] = "leave"
        /\ loc'[t] = loc[t] /\ UNCHANGED <<exists, owner, attach, registry, holder, live>>
    BY Zenon, <1>13, <1>b, <1>c DEF DetachFails, Goto, CallsBut, Places, HandlePlaces,
       ImportPlaces, RegistryPlaces
  <2>2. ThreadOk(t)'
    BY Zenon, <1>c, <2>1 DEF ThreadOk, HandlePlaces, ImportPlaces, UsePlaces
  <2> QED BY Zenon, <1>a, <1>c, <2>1, <2>2, QuietStep, StillDisks, StillHolders DEF UsePlaces
<1>14. ASSUME NEW t \in Threads, DetachByPath(t) PROVE TypeInv' /\ DiskInv'
  <2>1. /\ CallsBut(t) /\ pc[t] = "detach" /\ loc'[t] = loc[t]
        /\ UNCHANGED <<exists, registry, holder, live>> /\ loc[t].file \in Files
    BY <1>14, <1>b, <1>c DEF DetachByPath, Goto, CallsBut, ThreadOk, Places, HandlePlaces,
       ImportPlaces, RegistryPlaces
  <2>2. CASE Opens(loc[t].file, t) /\ pc'[t] = "bypath"
    <3>1. /\ DisksBut(loc[t].file) /\ loc[t].file \in exists'
          /\ owner[loc[t].file] = None /\ owner'[loc[t].file] = t
      BY <1>14, <1>d, <2>1, <2>2 DEF DetachByPath, Opens, DisksBut, Owners, Attaches,
         Lifetimes
    <3>2. ThreadOk(t)'
      BY Zenon, <1>c, <2>1, <2>2, <3>1 DEF ThreadOk, HandlePlaces, ImportPlaces, UsePlaces
    <3> QED BY Zenon, <1>a, <2>1, <2>2, <3>1, <3>2, TakesStep, StillHolders DEF UsePlaces
  <2> QED BY Zenon, <1>14, <1>b, <1>c, <2>2 DEF DetachByPath, Goto
<1>15. ASSUME NEW t \in Threads, DetachOpened(t) PROVE TypeInv' /\ DiskInv'
  <2>1. CallsBut(t) /\ pc[t] = "bypath" /\ pc'[t] = "leave" /\ loc'[t] = loc[t]
    BY Zenon, <1>15, <1>b, <1>c DEF DetachOpened, Goto, CallsBut, Places, HandlePlaces,
       ImportPlaces, RegistryPlaces
  <2>2. loc[t].file \in Files
    BY Zenon, <1>c, <2>1 DEF ThreadOk, HandlePlaces, ImportPlaces, UsePlaces
  <2>3. /\ DisksBut(loc[t].file) /\ UNCHANGED <<holder, live>>
        /\ owner'[loc[t].file] = None /\ attach'[loc[t].file] # "scoped"
    BY Zenon, <1>15, <1>d, <2>2 DEF DetachOpened, DetachedClosed, Closed, DisksBut, Owners,
       Attaches, Lifetimes
  <2>4. ThreadOk(t)'
    BY Zenon, <1>c, <2>1, <2>3 DEF ThreadOk, HandlePlaces, ImportPlaces, UsePlaces
  <2> QED BY Zenon, <1>a, <2>1, <2>2, <2>3, <2>4, ClosesStep, StillHolders DEF UsePlaces
<1>16. ASSUME NEW t \in Threads, MergeOpen(t) PROVE TypeInv' /\ DiskInv'
  <2>1. /\ CallsBut(t) /\ pc[t] = "merge" /\ loc'[t] = loc[t]
        /\ UNCHANGED <<exists, registry, holder, live>> /\ loc[t].file \in Files
    BY <1>16, <1>b, <1>c DEF MergeOpen, Goto, CallsBut, ThreadOk, Places, HandlePlaces,
       ImportPlaces, RegistryPlaces
  <2>2. CASE Opens(loc[t].file, t) /\ pc'[t] = "merging"
    <3>1. /\ DisksBut(loc[t].file) /\ loc[t].file \in exists'
          /\ owner[loc[t].file] = None /\ owner'[loc[t].file] = t
      BY Zenon, <1>16, <1>d, <2>1, <2>2 DEF MergeOpen, Opens, DisksBut, Owners, Attaches,
         Lifetimes
    <3>2. ThreadOk(t)'
      BY Zenon, <1>c, <2>1, <2>2, <3>1 DEF ThreadOk, HandlePlaces, ImportPlaces, UsePlaces
    <3> QED BY Zenon, <1>a, <2>1, <2>2, <3>1, <3>2, TakesStep, StillHolders DEF UsePlaces
  <2>3. CASE UNCHANGED <<owner, attach>> /\ pc'[t] = "leave"
    <3>1. ThreadOk(t)'
      BY Zenon, <1>c, <2>1, <2>3 DEF ThreadOk, HandlePlaces, ImportPlaces, UsePlaces
    <3> QED BY Zenon, <1>a, <1>c, <2>1, <2>3, <3>1, QuietStep, StillDisks, StillHolders DEF
       UsePlaces
  <2> QED BY Zenon, <1>16, <1>b, <1>c, <2>2, <2>3 DEF MergeOpen, Goto
<1>17. ASSUME NEW t \in Threads, MergeDone(t) PROVE TypeInv' /\ DiskInv'
  <2>1. CallsBut(t) /\ pc[t] = "merging" /\ pc'[t] = "leave" /\ loc'[t] = loc[t]
    BY Zenon, <1>17, <1>b, <1>c DEF MergeDone, Goto, CallsBut, Places, HandlePlaces, ImportPlaces,
       RegistryPlaces
  <2>2. loc[t].file \in Files
    BY Zenon, <1>c, <2>1 DEF ThreadOk, HandlePlaces, ImportPlaces, UsePlaces
  <2>3. /\ DisksBut(loc[t].file) /\ UNCHANGED <<holder, live>>
        /\ owner'[loc[t].file] = None /\ attach'[loc[t].file] # "scoped"
    BY Zenon, <1>17, <1>d, <2>2 DEF MergeDone, Closed, DisksBut, Owners, Attaches, Lifetimes
  <2>4. ThreadOk(t)'
    BY Zenon, <1>c, <2>1, <2>3 DEF ThreadOk, HandlePlaces, ImportPlaces, UsePlaces
  <2> QED BY Zenon, <1>a, <2>1, <2>2, <2>3, <2>4, ClosesStep, StillHolders DEF UsePlaces
<1>18. ASSUME NEW t \in Threads, Leave(t) PROVE TypeInv' /\ DiskInv'
  <2>1. CallsBut(t) /\ pc[t] = "leave" /\ pc'[t] = "idle" /\ loc'[t].handle = None
    BY Zenon, <1>18, <1>b, <1>c DEF Leave, Return, Goto, NoCall, CallsBut, Locals, Places,
       HandlePlaces, ImportPlaces, RegistryPlaces
  <2>2. /\ loc[t].handle \in Handles /\ UNCHANGED <<exists, registry, live>>
        /\ Drop(t, loc[t].handle)
    BY Zenon, <1>18, <1>c, <2>1 DEF Leave, ThreadOk, HandlePlaces
  <2>3. ThreadOk(t)'
    BY Zenon, <2>1 DEF ThreadOk, HandlePlaces, ImportPlaces, UsePlaces
  <2>4. pc[t] \notin UsePlaces /\ pc'[t] \notin HandlePlaces /\ live' \subseteq live
    BY Zenon, <2>1, <2>2, PlacesFacts DEF UsePlaces
  <2> QED BY Zenon, <1>a, <2>1, <2>2, <2>3, <2>4, DropStep
<1>19. ASSUME NEW t \in Threads, ImportAttach(t) PROVE TypeInv' /\ DiskInv'
  <2>1. /\ CallsBut(t) /\ pc[t] = "import" /\ loc'[t] = loc[t]
        /\ UNCHANGED <<exists, registry, holder, live>> /\ loc[t].file \in Files
    BY <1>19, <1>b, <1>c DEF ImportAttach, Goto, CallsBut, ThreadOk, Places, HandlePlaces,
       ImportPlaces, RegistryPlaces
  <2>2. CASE Opens(loc[t].file, t) /\ pc'[t] = "copy"
    <3>1. /\ DisksBut(loc[t].file) /\ loc[t].file \in exists'
          /\ owner[loc[t].file] = None /\ owner'[loc[t].file] = t
      BY Zenon, <1>19, <1>d, <2>1, <2>2 DEF ImportAttach, Opens, DisksBut, Owners, Attaches,
         Lifetimes
    <3>2. ThreadOk(t)'
      BY Zenon, <1>c, <2>1, <2>2, <3>1 DEF ThreadOk, HandlePlaces, ImportPlaces, UsePlaces
    <3> QED BY Zenon, <1>a, <2>1, <2>2, <3>1, <3>2, TakesStep, StillHolders DEF UsePlaces
  <2>3. CASE UNCHANGED <<owner, attach>> /\ pc'[t] = "remove"
    <3>1. ThreadOk(t)'
      BY Zenon, <1>c, <2>1, <2>3 DEF ThreadOk, HandlePlaces, ImportPlaces, UsePlaces
    <3> QED BY Zenon, <1>a, <1>c, <2>1, <2>3, <3>1, QuietStep, StillDisks, StillHolders DEF
       UsePlaces
  <2> QED BY Zenon, <1>19, <1>b, <1>c, <2>2, <2>3 DEF ImportAttach, Goto
<1>20. ASSUME NEW t \in Threads, ImportDone(t) PROVE TypeInv' /\ DiskInv'
  <2>1. CallsBut(t) /\ pc[t] = "copy" /\ pc'[t] = "idle" /\ loc'[t].handle = None
    BY Zenon, <1>20, <1>b, <1>c DEF ImportDone, Return, Goto, NoCall, CallsBut, Locals, Places,
       HandlePlaces, ImportPlaces, RegistryPlaces
  <2>2. loc[t].file \in Files
    BY Zenon, <1>c, <2>1 DEF ThreadOk, HandlePlaces, ImportPlaces, UsePlaces
  <2>3. /\ DisksBut(loc[t].file) /\ UNCHANGED <<holder, live>>
        /\ owner'[loc[t].file] = None /\ attach'[loc[t].file] # "scoped"
    BY Zenon, <1>20, <1>d, <2>2 DEF ImportDone, DetachedClosed, DisksBut, Owners, Attaches,
       Lifetimes
  <2>4. ThreadOk(t)'
    BY Zenon, <1>c, <2>1, <2>3 DEF ThreadOk, HandlePlaces, ImportPlaces, UsePlaces
  <2> QED BY Zenon, <1>a, <2>1, <2>2, <2>3, <2>4, ClosesStep, StillHolders DEF UsePlaces
<1>21. ASSUME NEW t \in Threads, DiscardVhd(t) PROVE TypeInv' /\ DiskInv'
  <2>1. CallsBut(t) /\ pc[t] = "copy" /\ pc'[t] = "remove" /\ loc'[t] = loc[t]
    BY Zenon, <1>21, <1>b, <1>c DEF DiscardVhd, Goto, CallsBut, Places, HandlePlaces,
       ImportPlaces, RegistryPlaces
  <2>2. loc[t].file \in Files
    BY Zenon, <1>c, <2>1 DEF ThreadOk, HandlePlaces, ImportPlaces, UsePlaces
  <2>3. /\ DisksBut(loc[t].file) /\ UNCHANGED <<holder, live>>
        /\ owner'[loc[t].file] = None /\ attach'[loc[t].file] # "scoped"
    BY Zenon, <1>21, <1>d, <2>2 DEF DiscardVhd, DetachedClosed, DisksBut, Owners, Attaches,
       Lifetimes
  <2>4. ThreadOk(t)'
    BY Zenon, <1>c, <2>1, <2>3 DEF ThreadOk, HandlePlaces, ImportPlaces, UsePlaces
  <2> QED BY Zenon, <1>a, <2>1, <2>2, <2>3, <2>4, ClosesStep, StillHolders DEF UsePlaces
<1>22. ASSUME NEW t \in Threads, ImportRemove(t) PROVE TypeInv' /\ DiskInv'
  <2>1. CallsBut(t) /\ pc[t] = "remove" /\ pc'[t] = "idle" /\ loc'[t].handle = None
    BY Zenon, <1>22, <1>b, <1>c DEF ImportRemove, Return, Goto, NoCall, CallsBut, Locals, Places,
       HandlePlaces, ImportPlaces, RegistryPlaces
  <2>2. UNCHANGED <<owner, attach, registry, holder, live>> /\ Removed(loc[t].file)
    BY Zenon, <1>22 DEF ImportRemove
  <2>3. ThreadOk(t)'
    BY Zenon, <2>1 DEF ThreadOk, HandlePlaces, ImportPlaces, UsePlaces
  <2>4. CASE exists' = exists
    BY Zenon, <1>a, <1>c, <2>1, <2>2, <2>3, <2>4, QuietStep, StillDisks, StillHolders DEF
       UsePlaces
  <2>5. CASE /\ owner[loc[t].file] = None /\ attach[loc[t].file] = "none"
             /\ exists' = exists \ {loc[t].file}
    <3>1. PICK f \in Files : f = loc[t].file
      BY Zenon, <1>c, <2>1 DEF ThreadOk, ImportPlaces
    <3>2. DisksBut(f) /\ owner[f] = None /\ owner'[f] = None /\ attach'[f] = "none"
      BY Zenon, <1>d, <2>2, <2>5, <3>1 DEF DisksBut
    <3>3. FileOk(f)'
      BY Zenon, <3>2, PlacesFacts DEF FileOk
    <3>4. pc[t] \notin UsePlaces
      BY Zenon, <2>1 DEF UsePlaces
    <3>5. HoldersBut(None) /\ t \in Actors
      BY Zenon, <1>a, <1>c, <2>2, StillHolders
    <3> QED BY Zenon, <1>a, <2>1, <2>3, <3>2, <3>3, <3>4, <3>5, FrameStep, PlacesFacts
  <2> QED BY Zenon, <2>2, <2>4, <2>5 DEF Removed
<1>23. ASSUME NEW t \in Threads, ExportDone(t) PROVE TypeInv' /\ DiskInv'
  <2>1. CallsBut(t) /\ pc[t] = "export" /\ pc'[t] = "idle" /\ loc'[t].handle = None
    BY Zenon, <1>23, <1>b, <1>c DEF ExportDone, Return, Goto, NoCall, CallsBut, Locals, Places,
       HandlePlaces, ImportPlaces, RegistryPlaces
  <2>2. loc[t].file \in Files
    BY Zenon, <1>c, <2>1 DEF ThreadOk, HandlePlaces, ImportPlaces, UsePlaces
  <2>3. /\ DisksBut(loc[t].file) /\ UNCHANGED <<holder, live>>
        /\ owner'[loc[t].file] = None /\ attach'[loc[t].file] # "scoped"
    BY Zenon, <1>23, <1>d, <2>2 DEF ExportDone, DetachedClosed, DisksBut, Owners, Attaches,
       Lifetimes
  <2>4. ThreadOk(t)'
    BY Zenon, <1>c, <2>1, <2>3 DEF ThreadOk, HandlePlaces, ImportPlaces, UsePlaces
  <2> QED BY Zenon, <1>a, <2>1, <2>2, <2>3, <2>4, ClosesStep, StillHolders DEF UsePlaces
<1>24. ASSUME NEW t \in Actors, NEW layer \in Layers \cup {None},
               Registry(t, layer) PROVE TypeInv' /\ DiskInv'
  <2>1. /\ CallsBut(t) /\ pc[t] \in RegistryPlaces \cup {"idle"}
        /\ pc'[t] \in RegistryPlaces \cup {"idle"}
        /\ loc'[t].handle \in {loc[t].handle, None}
    BY <1>24, <1>b DEF Registry, Return, Goto, NoCall, CallsBut, Locals, Places,
       HandlePlaces, ImportPlaces, RegistryPlaces
  <2>2. UNCHANGED <<exists, owner, attach, registry, holder, live>>
    BY Zenon, <1>24 DEF Registry
  <2>3. t \in Threads => ThreadOk(t)'
    BY Zenon, <1>c, <2>1, PlacesFacts DEF ThreadOk
  <2> QED BY Zenon, <1>a, <2>1, <2>2, StillDisks, <2>3, QuietStep, StillHolders, PlacesFacts
<1>25. ASSUME NEW t \in Actors, ManifestLock(t) PROVE TypeInv' /\ DiskInv'
  <2>1. /\ CallsBut(t) /\ pc[t] \in RegistryPlaces \cup {"idle"}
        /\ pc'[t] \in RegistryPlaces \cup {"idle"}
        /\ loc'[t].handle \in {loc[t].handle, None}
    BY Zenon, <1>25, <1>b DEF ManifestLock, Return, Goto, NoCall, CallsBut, Locals, Places,
       HandlePlaces, ImportPlaces, RegistryPlaces
  <2>2. UNCHANGED <<exists, owner, attach, registry, holder, live>>
    BY Zenon, <1>25 DEF ManifestLock
  <2>3. t \in Threads => ThreadOk(t)'
    BY Zenon, <1>c, <2>1, PlacesFacts DEF ThreadOk
  <2> QED BY Zenon, <1>a, <2>1, <2>2, StillDisks, <2>3, QuietStep, StillHolders, PlacesFacts
<1>26. ASSUME NEW t \in Actors, ManifestLockTimeout(t) PROVE TypeInv' /\ DiskInv'
  <2>1. /\ CallsBut(t) /\ pc[t] \in RegistryPlaces \cup {"idle"}
        /\ pc'[t] \in RegistryPlaces \cup {"idle"}
        /\ loc'[t].handle \in {loc[t].handle, None}
    BY Zenon, <1>26, <1>b DEF ManifestLockTimeout, Return, Goto, NoCall, CallsBut, Locals, Places,
       HandlePlaces, ImportPlaces, RegistryPlaces
  <2>2. UNCHANGED <<exists, owner, attach, registry, holder, live>>
    BY Zenon, <1>26 DEF ManifestLockTimeout
  <2>3. t \in Threads => ThreadOk(t)'
    BY Zenon, <1>c, <2>1, PlacesFacts DEF ThreadOk
  <2> QED BY Zenon, <1>a, <2>1, <2>2, StillDisks, <2>3, QuietStep, StillHolders, PlacesFacts
<1>27. ASSUME NEW t \in Actors, Load(t) PROVE TypeInv' /\ DiskInv'
  <2>1. /\ CallsBut(t) /\ pc[t] \in RegistryPlaces \cup {"idle"}
        /\ pc'[t] \in RegistryPlaces \cup {"idle"}
        /\ loc'[t].handle \in {loc[t].handle, None}
    BY <1>27, <1>b, <1>d DEF Load, Return, Goto, NoCall, CallsBut, Locals, Places,
       HandlePlaces, ImportPlaces, RegistryPlaces
  <2>2. UNCHANGED <<exists, owner, attach, registry, holder, live>>
    BY Zenon, <1>27 DEF Load
  <2>3. t \in Threads => ThreadOk(t)'
    BY Zenon, <1>c, <2>1, PlacesFacts DEF ThreadOk
  <2> QED BY Zenon, <1>a, <2>1, <2>2, StillDisks, <2>3, QuietStep, StillHolders, PlacesFacts
<1>28. ASSUME NEW t \in Actors, Save(t) PROVE TypeInv' /\ DiskInv'
  <2>1. /\ CallsBut(t) /\ pc[t] \in RegistryPlaces \cup {"idle"}
        /\ pc'[t] \in RegistryPlaces \cup {"idle"}
        /\ loc'[t].handle \in {loc[t].handle, None}
    BY Zenon, <1>28, <1>b DEF Save, Return, Goto, NoCall, CallsBut, Locals, Places, HandlePlaces,
       ImportPlaces, RegistryPlaces
  <2>2. DisksBut(None) /\ UNCHANGED <<holder, live>>
    BY Zenon, <1>28, <1>b, <1>d DEF Save, DisksBut, Locals
  <2>3. t \in Threads => ThreadOk(t)'
    BY Zenon, <1>c, <2>1, PlacesFacts DEF ThreadOk
  <2> QED BY Zenon, <1>a, <2>1, <2>2, <2>3, QuietStep, StillHolders, PlacesFacts
<1>29. ASSUME NEW t \in Actors, SaveFails(t) PROVE TypeInv' /\ DiskInv'
  <2>1. /\ CallsBut(t) /\ pc[t] \in RegistryPlaces \cup {"idle"}
        /\ pc'[t] \in RegistryPlaces \cup {"idle"}
        /\ loc'[t].handle \in {loc[t].handle, None}
    BY Zenon, <1>29, <1>b DEF SaveFails, Return, Goto, NoCall, CallsBut, Locals, Places,
       HandlePlaces, ImportPlaces, RegistryPlaces
  <2>2. UNCHANGED <<exists, owner, attach, registry, holder, live>>
    BY Zenon, <1>29 DEF SaveFails
  <2>3. t \in Threads => ThreadOk(t)'
    BY Zenon, <1>c, <2>1, PlacesFacts DEF ThreadOk
  <2> QED BY Zenon, <1>a, <2>1, <2>2, StillDisks, <2>3, QuietStep, StillHolders, PlacesFacts
<1>30. ASSUME NEW t \in Actors, Unlock(t) PROVE TypeInv' /\ DiskInv'
  <2>1. /\ CallsBut(t) /\ pc[t] \in RegistryPlaces \cup {"idle"}
        /\ pc'[t] \in RegistryPlaces \cup {"idle"}
        /\ loc'[t].handle \in {loc[t].handle, None}
    BY Zenon, <1>30, <1>b DEF Unlock, Return, Goto, NoCall, CallsBut, Locals, Places,
       HandlePlaces, ImportPlaces, RegistryPlaces
  <2>2. UNCHANGED <<exists, owner, attach, registry, holder, live>>
    BY Zenon, <1>30 DEF Unlock
  <2>3. t \in Threads => ThreadOk(t)'
    BY Zenon, <1>c, <2>1, PlacesFacts DEF ThreadOk
  <2> QED BY Zenon, <1>a, <2>1, <2>2, StillDisks, <2>3, QuietStep, StillHolders, PlacesFacts
<1>31. ASSUME NEW f \in Files, DetachedElsewhere(f) PROVE TypeInv' /\ DiskInv'
  <2>1. CallsBut(None) /\ UNCHANGED <<pc, loc, holder, live>>
    BY Zenon, <1>31, <1>b DEF DetachedElsewhere, CallsBut
  <2>2. /\ UNCHANGED <<exists, registry, owner>>
        /\ attach' \in [Files -> Attaches] /\ attach'[f] = "none"
        /\ \A g \in Files \ {f} : attach'[g] = attach[g]
    BY Zenon, <1>31, <1>d DEF DetachedElsewhere, Attaches
  <2>3. (\A t \in Threads : ThreadOk(t)') /\ (\A h \in Handles : HandleOk(h)')
    BY Zenon, <1>a, <2>1, <2>2 DEF DiskInv, ThreadOk, HandleOk
  <2>4. ASSUME NEW g \in Files PROVE FileOk(g)'
    BY Zenon, <1>a, <2>1, <2>2 DEF DiskInv, FileOk
  <2>5. TypeInv'
    BY Zenon, <1>b, <1>d, <1>h, <2>1, <2>2 DEF TypeInv
  <2> QED BY Zenon, <2>3, <2>4, <2>5 DEF DiskInv
<1>32. ASSUME ProcessDies PROVE TypeInv' /\ DiskInv'
  <2>1. /\ pc' \in [Actors -> Places] /\ loc' \in [Actors -> Locals]
        /\ \A t \in Threads : pc'[t] = "idle" /\ loc'[t].handle = None
    BY Zenon, <1>32, <1>b, <1>c DEF ProcessDies, Dies, NoCall, Locals, Places
  <2>2. /\ exists' = exists /\ registry' = registry /\ live' = {}
        /\ owner' = [f \in Files |-> None] /\ holder' = [h \in Handles |-> NoHolder]
    BY Zenon, <1>32 DEF ProcessDies, Dies
  <2>3. attach' \in [Files -> Attaches] /\ \A f \in Files : attach'[f] # "scoped"
    BY Zenon, <1>32, <1>d DEF ProcessDies, Attaches, Lifetimes
  <2>4. TypeInv'
    BY Zenon, <1>b, <1>d, <1>h, <2>1, <2>2, <2>3, NoHolderFacts DEF TypeInv, Owners
  <2>5. ASSUME NEW t \in Threads PROVE ThreadOk(t)'
    BY Zenon, <2>1, <2>5, PlacesFacts DEF ThreadOk
  <2>6. ASSUME NEW h \in Handles PROVE HandleOk(h)'
    BY Zenon, <2>2, <2>6, NoHolderFacts DEF HandleOk
  <2>7. ASSUME NEW f \in Files PROVE FileOk(f)'
    BY Zenon, <2>2, <2>3, <2>7, PlacesFacts DEF FileOk
  <2> QED BY Zenon, <2>4, <2>5, <2>6, <2>7 DEF DiskInv
<1>33. ASSUME NEW o \in Others, OtherDies(o) PROVE TypeInv' /\ DiskInv'
  <2>1. CallsBut(o) /\ UNCHANGED <<exists, owner, attach, registry, holder, live>>
    BY Zenon, <1>33, <1>b DEF OtherDies, Dies, CallsBut, NoCall, Locals, Places
  <2>2. o \in Actors /\ o \notin Threads
    BY Zenon DEF Actors
  <2>3. DisksBut(None) /\ HoldersBut(None)
    BY Zenon, <1>a, <2>1, StillDisks, StillHolders
  <2> QED BY Zenon, <1>a, <2>1, <2>2, <2>3, FrameStep, PlacesFacts
<1> QED BY Zenon, <1>1, <1>2, <1>3, <1>4, <1>5, <1>6, <1>7, <1>8, <1>9, <1>10, <1>11, <1>12,
   <1>13, <1>14, <1>15, <1>16, <1>17, <1>18, <1>19, <1>20, <1>21, <1>22, <1>23, <1>24,
   <1>25, <1>26, <1>27, <1>28, <1>29, <1>30, <1>31, <1>32, <1>33 DEF Next, HandleCalls,
   HandleSteps, WholeVolumeSteps, RegistrySteps

(* The registry and its lock.                                               *)
LEMMA RegistryInvStep ==
    ASSUME IInv, Next
    PROVE  RegistryInv'
<1> USE VhdLayersAssumption DEF IInv, disks, handles, reg, Locals
<1>b. pc \in [Actors -> Places] /\ loc \in [Actors -> Locals]
  BY Zenon DEF IInv, TypeInv
<1>1. ASSUME NEW t \in Threads, NEW f \in Files, NEW l \in Lifetimes, VhdCreate(t, f, l)
   PROVE RegistryInv'
  BY Zenon, <1>1, <1>b DEF VhdCreate, RegistryInv, Actors
<1>2. ASSUME NEW t \in Threads, NEW f \in Files, NEW l \in Lifetimes, VhdOpen(t, f, l)
   PROVE RegistryInv'
  BY Zenon, <1>2, <1>b DEF VhdOpen, RegistryInv, Actors
<1>3. ASSUME NEW t \in Threads, NEW f \in Files, Import(t, f) PROVE RegistryInv'
  BY Zenon, <1>3, <1>b DEF Import, Goto, RegistryInv, Actors
<1>4. ASSUME NEW t \in Threads, NEW f \in Files, Export(t, f) PROVE RegistryInv'
  BY Zenon, <1>4, <1>b DEF Export, Goto, RegistryInv, Actors
<1>5. ASSUME NEW t \in Threads, NEW h \in Handles, VhdClose(t, h) PROVE RegistryInv'
  BY Zenon, <1>5, <1>b DEF VhdClose, RegistryInv, Actors
<1>6. ASSUME NEW t \in Threads, NEW h \in Handles, NEW w \in {"attach?", "detach?",
   "merge"}, Call(t, h, w) PROVE RegistryInv'
  BY Zenon, <1>6, <1>b DEF Call, Goto, NoCall, RegistryInv, Actors
<1>7. ASSUME NEW t \in Threads, NEW u \in {"attach", "detach"}, NEW w \in {"attach?",
   "detach?"}, LockState(t, w, u) PROVE RegistryInv'
  BY Zenon, <1>7, <1>b DEF LockState, Goto, RegistryInv, Actors
<1>8. ASSUME NEW t \in Threads, AttachOpen(t) PROVE RegistryInv'
  BY Zenon, <1>8, <1>b DEF AttachOpen, Goto, RegistryInv, Actors
<1>9. ASSUME NEW t \in Threads, AttachDisk(t) PROVE RegistryInv'
  BY Zenon, <1>9, <1>b DEF AttachDisk, Goto, RegistryInv, Actors
<1>10. ASSUME NEW t \in Threads, AttachKeep(t) PROVE RegistryInv'
  BY Zenon, <1>10, <1>b DEF AttachKeep, Goto, RegistryInv, Actors
<1>11. ASSUME NEW t \in Threads, AttachUndo(t) PROVE RegistryInv'
  BY Zenon, <1>11, <1>b DEF AttachUndo, Goto, RegistryInv, Actors
<1>12. ASSUME NEW t \in Threads, DetachHeld(t) PROVE RegistryInv'
  BY Zenon, <1>12, <1>b DEF DetachHeld, Goto, RegistryInv, Actors
<1>13. ASSUME NEW t \in Threads, DetachFails(t) PROVE RegistryInv'
  BY Zenon, <1>13, <1>b DEF DetachFails, Goto, RegistryInv, Actors
<1>14. ASSUME NEW t \in Threads, DetachByPath(t) PROVE RegistryInv'
  BY Zenon, <1>14, <1>b DEF DetachByPath, Goto, RegistryInv, Actors
<1>15. ASSUME NEW t \in Threads, DetachOpened(t) PROVE RegistryInv'
  BY Zenon, <1>15, <1>b DEF DetachOpened, Goto, RegistryInv, Actors
<1>16. ASSUME NEW t \in Threads, MergeOpen(t) PROVE RegistryInv'
  BY Zenon, <1>16, <1>b DEF MergeOpen, Goto, RegistryInv, Actors
<1>17. ASSUME NEW t \in Threads, MergeDone(t) PROVE RegistryInv'
  BY Zenon, <1>17, <1>b DEF MergeDone, Goto, RegistryInv, Actors
<1>18. ASSUME NEW t \in Threads, Leave(t) PROVE RegistryInv'
  BY Zenon, <1>18, <1>b DEF Leave, Return, Goto, NoCall, RegistryInv, Actors
<1>19. ASSUME NEW t \in Threads, ImportAttach(t) PROVE RegistryInv'
  BY Zenon, <1>19, <1>b DEF ImportAttach, Goto, RegistryInv, Actors
<1>20. ASSUME NEW t \in Threads, ImportDone(t) PROVE RegistryInv'
  BY Zenon, <1>20, <1>b DEF ImportDone, Return, Goto, NoCall, RegistryInv,
     Actors
<1>21. ASSUME NEW t \in Threads, DiscardVhd(t) PROVE RegistryInv'
  BY Zenon, <1>21, <1>b DEF DiscardVhd, Goto, RegistryInv, Actors
<1>22. ASSUME NEW t \in Threads, ImportRemove(t) PROVE RegistryInv'
  BY Zenon, <1>22, <1>b DEF ImportRemove, Return, Goto, NoCall, RegistryInv, Actors
<1>23. ASSUME NEW t \in Threads, ExportDone(t) PROVE RegistryInv'
  BY Zenon, <1>23, <1>b DEF ExportDone, Return, Goto, NoCall, RegistryInv,
     Actors
<1>24. ASSUME NEW t \in Actors, NEW layer \in Layers \cup {None}, Registry(t, layer) PROVE
   RegistryInv'
  BY Zenon, <1>24, <1>b DEF Registry, Goto, RegistryInv, Actors
<1>25. ASSUME NEW t \in Actors, ManifestLock(t) PROVE RegistryInv'
  BY Zenon, <1>25, <1>b DEF ManifestLock, Goto, RegistryInv, Actors
<1>26. ASSUME NEW t \in Actors, ManifestLockTimeout(t) PROVE RegistryInv'
  BY Zenon, <1>26, <1>b DEF ManifestLockTimeout, Return, Goto, NoCall, RegistryInv, Actors
<1>27. ASSUME NEW t \in Actors, Load(t) PROVE RegistryInv'
  BY <1>27, <1>b DEF Load, Goto, RegistryInv, Actors
<1>28. ASSUME NEW t \in Actors, Save(t) PROVE RegistryInv'
  BY Zenon, <1>28, <1>b DEF Save, Goto, RegistryInv, Actors
<1>29. ASSUME NEW t \in Actors, SaveFails(t) PROVE RegistryInv'
  BY Zenon, <1>29, <1>b DEF SaveFails, Goto, RegistryInv, Actors
<1>30. ASSUME NEW t \in Actors, Unlock(t) PROVE RegistryInv'
  BY Zenon, <1>30, <1>b DEF Unlock, Return, Goto, NoCall, RegistryInv, Actors
<1>31. ASSUME NEW f \in Files, DetachedElsewhere(f) PROVE RegistryInv'
  BY Zenon, <1>31, <1>b DEF DetachedElsewhere, RegistryInv, Actors
<1>32. CASE ProcessDies
  BY Zenon, <1>32, <1>b DEF ProcessDies, Dies, NoHolder, NoCall, RegistryInv, Actors
<1>33. ASSUME NEW o \in Others, OtherDies(o) PROVE RegistryInv'
  BY Zenon, <1>33, <1>b DEF OtherDies, Dies, NoCall, RegistryInv, Actors
<1> QED BY Zenon, <1>1, <1>2, <1>3, <1>4, <1>5, <1>6, <1>7, <1>8, <1>9, <1>10, <1>11, <1>12,
   <1>13, <1>14, <1>15, <1>16, <1>17, <1>18, <1>19, <1>20, <1>21, <1>22, <1>23, <1>24,
   <1>25, <1>26, <1>27, <1>28, <1>29, <1>30, <1>31, <1>32, <1>33 DEF Next, HandleCalls,
   HandleSteps, WholeVolumeSteps, RegistrySteps

(* Every step keeps the invariant. *)
LEMMA InductiveStep == IInv /\ [Next]_vars => IInv'
<1>1. ASSUME IInv, UNCHANGED vars PROVE IInv'
  <2> USE <1>1 DEF vars
  <2>1. TypeInv' /\ RegistryInv'
    BY Zenon DEF IInv, TypeInv, RegistryInv
  <2>2. ASSUME NEW t \in Threads PROVE ThreadOk(t)'
    BY Zenon DEF IInv, DiskInv, ThreadOk
  <2>3. ASSUME NEW h \in Handles PROVE HandleOk(h)'
    BY Zenon DEF IInv, DiskInv, HandleOk
  <2>4. ASSUME NEW f \in Files PROVE FileOk(f)'
    BY Zenon DEF IInv, DiskInv, FileOk
  <2> QED BY Zenon, <2>1, <2>2, <2>3, <2>4 DEF IInv, DiskInv
<1>2. ASSUME IInv, Next PROVE IInv'
  BY Zenon, <1>2, RegistryInvStep, DiskStep DEF IInv
<1> QED BY Zenon, <1>1, <1>2

(* The first state has the invariant. *)
LEMMA InductiveInit == Init => IInv
<1> SUFFICES ASSUME Init PROVE IInv
  BY Zenon
<1> USE VhdLayersAssumption DEF Init
<1>1. NoHolder \in Holders
  BY Zenon, NoHolderFacts
<1>2. TypeInv
  BY Zenon, <1>1 DEF TypeInv, NoCall, Places, Locals, Owners, Attaches
<1>3. RegistryInv
  BY Zenon DEF RegistryInv
<1>4. ASSUME NEW t \in Threads PROVE ThreadOk(t)
  BY Zenon, PlacesFacts DEF ThreadOk, NoCall
<1>5. ASSUME NEW h \in Handles PROVE HandleOk(h)
  BY Zenon, NoHolderFacts DEF HandleOk
<1>6. ASSUME NEW f \in Files PROVE FileOk(f)
  BY Zenon, PlacesFacts DEF FileOk
<1> QED BY Zenon, <1>2, <1>3, <1>4, <1>5, <1>6 DEF IInv, DiskInv

-----------------------------------------------------------------------------
(* For any number of threads, handles and disks: who has a disk open is     *)
(* known and is one, a call on its way or the holder whose physical path is *)
(* cached, and a scoped attach has such an owner (AttachVHD, DetachVHD,     *)
(* LayerMountVhdClose, ImportDirectory, ExportToDirectory).                 *)
THEOREM DisksHaveOneOwner == Spec => []HolderOwnsDisk
<1> USE VhdLayersAssumption
<1>1. ASSUME IInv, NEW f \in Files
      PROVE  /\ Using(f) # {} => Using(f) = {owner[f]}
             /\ owner[f] \in Handles => holder[owner[f]].open
             /\ owner[f] \in Actors => owner[f] \in Using(f)
             /\ attach[f] = "scoped" => owner[f] # None
  <2>1. \A t \in Using(f) : t = owner[f]
    BY Zenon, <1>1 DEF IInv, DiskInv, ThreadOk, Using, UsePlaces
  <2>2. FileOk(f) /\ owner[f] \in Owners
    BY Zenon, <1>1 DEF IInv, DiskInv, TypeInv
  <2>3. owner[f] \in Actors => owner[f] \in Using(f)
    BY Zenon, <2>2 DEF FileOk, Owners, Using, UsePlaces, Actors
  <2> QED BY Zenon, <2>1, <2>2, <2>3 DEF FileOk
<1>2. IInv => HolderOwnsDisk
  BY Zenon, <1>1 DEF IInv, DiskInv, HandleOk, HolderOwnsDisk
<1> QED BY <1>2, InductiveInit, InductiveStep, PTL DEF Spec

(* For any number of processes and layers: a layer that was reported        *)
(* removed is not in the registry again (ManifestLock, Manifest::Save,      *)
(* LayerMountVhdUnregisterLayer).                                           *)
THEOREM NoUpdateLost == Spec => []RemovedStaysRemoved
<1>1. IInv => RemovedStaysRemoved
  BY Zenon DEF IInv, RegistryInv, RemovedStaysRemoved
<1> QED BY <1>1, InductiveInit, InductiveStep, PTL DEF Spec

-----------------------------------------------------------------------------
(****************************************************************************)
(* Proofs for VhdTransfer, for any number of threads, processes, handles,   *)
(* disks and entries: an import or an export that reports success is        *)
(* complete, a mount point that is left is reported, and VhdTransfer        *)
(* implements VhdLayers, so that what is proved above holds of it too.      *)
(*                                                                          *)
(* None is inductive alone.  A transfer needs to know, for each of its      *)
(* steps, what its volume holds by then, and that a step of another thread  *)
(* changes no volume of a disk this one has open: the step is shown to      *)
(* disturb only its own thread and its own file (OnlyOf), and then the      *)
(* invariant of the one thread is enough (OwnIsEnough).  What exports share *)
(* is their directory.  An entry that was copied can lose its place in      *)
(* dest, but not in Covered, which no step makes smaller.                   *)
(****************************************************************************)

Importing == {"import", "copy", "remove"}
EarlySteps == {"initialize", "find", "format", "diskpart", "mount"}
CopySteps == EarlySteps \cup {"copying", "unmount", "discard", "detach"}
ExportSteps == {"mount", "list", "copying", "unmount", "detach"}
RootEntries == Source \cup Internals
Walks == [step : CopySteps \cup ExportSteps \cup {"none"}, todo : SUBSET RootEntries,
          entry : RootEntries \cup {None}, error : BOOLEAN]

Whole(f) == volume[f] = Internals \cup ImportedRootEntries
Wanted(f) == {e \in volume[f] : ~SkippedAtVolumeRoot(e)}

(* The entries that are whole in the directory, or are not for a reason.    *)
Covered == dest \cup broken \cup InHand(Threads)

TransferTypeInv ==
    /\ volume \in [Files -> SUBSET RootEntries]
    /\ walk \in [Threads -> Walks]
    /\ mounts \subseteq Threads

(* The place of a call in VhdLayers and its step here go together.          *)
WalkInv(t) ==
    /\ pc[t] \notin ImportPlaces => walk[t] = NoWalk
    /\ pc[t] = "import" => /\ walk[t].step = "none" /\ ~walk[t].error
                           /\ walk[t].todo = ImportedRootEntries
    /\ pc[t] = "copy" => walk[t].step \in CopySteps
    /\ pc[t] = "remove" => walk[t].step = "discard"
    /\ pc[t] = "export" => walk[t].step \in ExportSteps
    /\ walk[t].entry # None => pc[t] = "export" /\ walk[t].step = "copying"
    /\ t \in mounts => walk[t].step \in {"copying", "list", "unmount"} \/ walk[t].error

(* The file of an import is its own and not one that was imported before.   *)
FileInv(t) ==
    pc[t] \in Importing =>
        /\ loc[t].file \in exists /\ loc[t].file \notin imported
        /\ \A u \in Threads : pc[u] \in Importing /\ loc[u].file = loc[t].file => u = t

(* What the volume of an import holds at each step.                         *)
CopyInv(t) ==
    pc[t] = "copy" =>
        /\ walk[t].step \in EarlySteps =>
               ~walk[t].error /\ walk[t].todo = ImportedRootEntries
        /\ walk[t].step = "mount" => volume[loc[t].file] = Internals
        /\ walk[t].step = "copying" =>
               /\ ~walk[t].error /\ walk[t].todo \subseteq ImportedRootEntries
               /\ volume[loc[t].file] = Internals \cup (ImportedRootEntries \ walk[t].todo)
        /\ walk[t].step \in {"unmount", "detach"} =>
               Whole(loc[t].file) \/ walk[t].error

(* What an export has not copied yet is what it still has to do.            *)
ExportInv(t) ==
    pc[t] = "export" /\ ~walk[t].error =>
        /\ walk[t].step = "copying" => Wanted(loc[t].file) \ walk[t].todo \subseteq Covered
        /\ walk[t].step \in {"unmount", "detach"} => Wanted(loc[t].file) \subseteq Covered

ThreadInv(t) == WalkInv(t) /\ FileInv(t) /\ CopyInv(t) /\ ExportInv(t)

TInv ==
    /\ TransferTypeInv /\ \A t \in Threads : ThreadInv(t)
    /\ ImportedWhole /\ exported \subseteq Covered

(* What a step of t's transfer leaves alone: the other threads, every file  *)
(* but the one that t imports, and what is covered.                         *)
OnlyOf(t) ==
    /\ \A u \in Threads \ {t} : pc'[u] = pc[u] /\ loc'[u] = loc[u] /\ walk'[u] = walk[u]
    /\ mounts' \ {t} \subseteq mounts
    /\ \A f \in Files : volume'[f] # volume[f] =>
           pc[t] \in Importing /\ loc[t].file = f /\ owner[f] \in {t, None}
    /\ \A f \in exists : f \notin exists' => pc[t] \in Importing /\ loc[t].file = f
    /\ \A f \in imported' : f \in imported \/ (pc[t] \in Importing /\ loc[t].file = f)
    /\ Covered \subseteq Covered'
    /\ pc'[t] \in Importing =>
           \/ pc[t] \in Importing /\ loc'[t].file = loc[t].file
           \/ loc'[t].file \notin exists

(* The other steps do not change an import or export under way.             *)
LEMMA LayerStepsAlone ==
    ASSUME IInv, LayerSteps
    PROVE  /\ exists \subseteq exists'
           /\ \A t \in Threads : pc[t] \in ImportPlaces \/ pc'[t] \in ImportPlaces =>
                  pc'[t] = pc[t] /\ loc'[t].file = loc[t].file
<1> DEFINE Alone == /\ exists \subseteq exists'
                   /\ \A t \in Threads : pc[t] \in ImportPlaces \/ pc'[t] \in ImportPlaces =>
                          pc'[t] = pc[t] /\ loc'[t].file = loc[t].file
<1>a. exists \subseteq Files /\ pc \in [Actors -> Places] /\ loc \in [Actors -> Locals]
  BY Zenon DEF IInv, TypeInv
<1> USE VhdLayersAssumption, <1>a DEF disks, handles, reg, ImportPlaces, Actors, Goto
<1>1. ASSUME NEW t \in Threads, HandleCalls(t) PROVE Alone
  <2>1. CASE \E h \in Handles, where \in {"attach?", "detach?", "merge"} : Call(t, h, where)
    BY Zenon, <2>1 DEF Call
  <2>2. CASE exists \subseteq exists' /\ UNCHANGED <<pc, loc>>
    BY Zenon, <2>2
  <2> QED BY Zenon, <1>1, <2>1, <2>2 DEF HandleCalls, VhdCreate, VhdOpen, VhdClose
<1>2. ASSUME NEW t \in Threads, HandleSteps(t) PROVE Alone
  <2>1. CASE \E from, to \in {"attach?", "detach?", "attach", "detach"} : LockState(t, from, to)
    BY Zenon, <2>1 DEF LockState
  <2>2. CASE AttachOpen(t) \/ AttachDisk(t) \/ AttachKeep(t) \/ AttachUndo(t)
    BY Zenon, <2>2 DEF AttachOpen, AttachDisk, AttachKeep, AttachUndo
  <2>3. CASE DetachHeld(t) \/ DetachFails(t) \/ DetachByPath(t) \/ DetachOpened(t)
    BY Zenon, <2>3 DEF DetachHeld, DetachFails, DetachByPath, DetachOpened
  <2>4. CASE MergeOpen(t) \/ MergeDone(t) \/ Leave(t)
    BY Zenon, <2>4 DEF MergeOpen, MergeDone, Leave, Return
  <2> QED BY Zenon, <1>2, <2>1, <2>2, <2>3, <2>4 DEF HandleSteps
<1>3. ASSUME NEW t \in Actors, RegistrySteps(t) PROVE Alone
  <2>1. CASE (\E layer \in Layers \cup {None} : Registry(t, layer)) \/ Load(t)
    BY Zenon, <2>1 DEF Registry, Load
  <2>2. CASE ManifestLock(t) \/ ManifestLockTimeout(t) \/ Unlock(t)
    BY Zenon, <2>2 DEF ManifestLock, ManifestLockTimeout, Unlock, Return
  <2>3. CASE Save(t) \/ SaveFails(t)
    BY Zenon, <2>3 DEF Save, SaveFails
  <2> QED BY Zenon, <1>3, <2>1, <2>2, <2>3 DEF RegistrySteps
<1>4. ASSUME NEW f \in Files, DetachedElsewhere(f) PROVE Alone
  BY Zenon, <1>4 DEF DetachedElsewhere
<1>5. ASSUME NEW o \in Others, OtherDies(o) PROVE Alone
  BY Zenon, <1>5 DEF OtherDies, Dies
<1> QED BY Zenon, <1>1, <1>2, <1>3, <1>4, <1>5 DEF LayerSteps

(* What the transfers need to know of the calls they are part of.           *)
LayerFacts ==
    /\ exists \subseteq Files /\ Threads \subseteq Actors
    /\ pc \in [Actors -> Places] /\ loc \in [Actors -> Locals]
    /\ \A t \in Threads : pc[t] \in ImportPlaces => loc[t].file \in Files
    /\ \A t \in Threads : pc[t] \in {"copy", "export"} => owner[loc[t].file] = t
    /\ \A f \in Files : owner[f] \in Threads => pc[owner[f]] \in UsePlaces

(* What the transfers use of the invariant of the layers. *)
LEMMA LayerFactsHold == IInv => LayerFacts
<1> SUFFICES ASSUME IInv PROVE LayerFacts
  BY Zenon
<1>1. TypeInv /\ DiskInv
  BY Zenon DEF IInv
<1>2. \A t \in Threads : pc[t] \in ImportPlaces => loc[t].file \in Files
  BY Zenon, <1>1 DEF DiskInv, ThreadOk
<1>3. /\ \A t \in Threads : pc[t] \in {"copy", "export"} => owner[loc[t].file] = t
      /\ \A f \in Files : owner[f] \in Threads => pc[owner[f]] \in UsePlaces
  BY Zenon, <1>1 DEF DiskInv, ThreadOk, FileOk, UsePlaces
<1> QED BY Zenon, <1>1, <1>2, <1>3 DEF LayerFacts, TypeInv, Actors

(* A step that leaves the directory alone and lets no entry go covers what  *)
(* was covered.                                                             *)
LEMMA StillCovered ==
    ASSUME NEW t \in Threads, dest' = dest, broken' = broken,
           \A u \in Threads \ {t} : walk'[u] = walk[u],
           walk[t].entry = None \/ walk'[t].entry = walk[t].entry
    PROVE  Covered \subseteq Covered'
<1>1. \A e \in InHand(Threads) : e \in InHand(Threads)'
  BY Zenon DEF InHand
<1> QED BY Zenon, <1>1 DEF Covered

(* What a step of t leaves alone is enough for the other threads, and for   *)
(* the files that no thread imports.                                        *)
LEMMA OthersKeep ==
    ASSUME IInv, TInv, NEW t \in Threads, OnlyOf(t)
    PROVE  /\ \A u \in Threads \ {t} : ThreadInv(u)'
           /\ \A f \in imported : f \in exists' /\ Whole(f)'
<1>a. /\ LayerFacts /\ TransferTypeInv /\ ImportedWhole
      /\ \A u \in Threads : ThreadInv(u)
  BY Zenon, LayerFactsHold DEF TInv
<1> USE DEF OnlyOf
<1>1. ASSUME NEW u \in Threads \ {t} PROVE ThreadInv(u)'
  <2>a. /\ pc'[u] = pc[u] /\ loc'[u] = loc[u] /\ walk'[u] = walk[u]
        /\ u \in mounts' => u \in mounts
        /\ u \in Threads /\ u # t /\ ThreadInv(u) /\ ThreadInv(t)
    BY Zenon, <1>1, <1>a
  <2>b. pc[u] \in {"copy", "export"} => loc[u].file \in Files /\ owner[loc[u].file] = u
    BY Zenon, <1>1, <1>a DEF LayerFacts, ImportPlaces
  <2>c. None \notin Threads
    BY Zenon, VhdLayersAssumption
  <2>d. WalkInv(u) /\ CopyInv(u) /\ ExportInv(u)
    BY Zenon, <2>a DEF ThreadInv
  <2>e. pc[u] \in {"copy", "export"} => volume'[loc[u].file] = volume[loc[u].file]
    BY Zenon, <2>a, <2>b, <2>c
  <2>1. WalkInv(u)'
    BY Zenon, <2>a, <2>d DEF WalkInv
  <2>2. FileInv(u)'
    <3>1. pc[u] \in Importing => /\ loc[u].file \in exists /\ loc[u].file \notin imported
                                 /\ ~(pc[t] \in Importing /\ loc[t].file = loc[u].file)
      BY Zenon, <2>a DEF ThreadInv, FileInv
    <3>2. ASSUME pc[u] \in Importing, NEW v \in Threads, pc'[v] \in Importing,
                 loc'[v].file = loc[u].file
          PROVE  v = u
      BY Zenon, <2>a, <3>1, <3>2 DEF ThreadInv, FileInv
    <3> QED BY Zenon, <2>a, <3>1, <3>2 DEF FileInv
  <2>3. CopyInv(u)'
    BY Zenon, <2>a, <2>d, <2>e DEF CopyInv, Whole
  <2>4. ExportInv(u)'
    BY Zenon, <2>a, <2>d, <2>e DEF ExportInv, Wanted
  <2> QED BY Zenon, <2>1, <2>2, <2>3, <2>4 DEF ThreadInv
<1>2. ASSUME NEW f \in imported PROVE f \in exists' /\ Whole(f)'
  <2>1. f \in exists /\ f \in Files /\ Whole(f)
    BY Zenon, <1>2, <1>a DEF ImportedWhole, Whole, LayerFacts
  <2>2. ~(pc[t] \in Importing /\ loc[t].file = f)
    BY Zenon, <1>2, <1>a DEF ThreadInv, FileInv
  <2> QED BY Zenon, <2>1, <2>2 DEF Whole
<1> QED BY Zenon, <1>1, <1>2

(* So a step keeps the invariant when it keeps that of its own thread.      *)
LEMMA OwnIsEnough ==
    ASSUME IInv, TInv, NEW t \in Threads, OnlyOf(t),
           TransferTypeInv', ThreadInv(t)',
           \A f \in imported' : f \in imported \/ (f \in exists' /\ Whole(f)'),
           exported' \subseteq exported \cup Covered
    PROVE  TInv'
<1>1. ImportedWhole'
  BY Zenon, OthersKeep DEF ImportedWhole, Whole
<1>2. exported' \subseteq Covered'
  BY Zenon DEF TInv, OnlyOf
<1> QED BY Zenon, <1>1, <1>2, OthersKeep DEF TInv

(* A step between the attach and the detach changes nothing of VhdLayers    *)
(* and reports nothing.                                                     *)
LEMMA InnerStep ==
    ASSUME IInv, TInv, NEW t \in Threads, UNCHANGED <<vars, imported, exported>>,
           pc[t] \in {"copy", "export"},
           walk' \in [Threads -> Walks], \A u \in Threads \ {t} : walk'[u] = walk[u],
           mounts' \subseteq mounts \cup {t},
           volume' \in [Files -> SUBSET RootEntries],
           \A f \in Files : volume'[f] # volume[f] => pc[t] = "copy" /\ loc[t].file = f,
           Covered \subseteq Covered', WalkInv(t)', CopyInv(t)', ExportInv(t)'
    PROVE  TInv'
<1>a. LayerFacts /\ TransferTypeInv /\ ThreadInv(t)
  BY Zenon, LayerFactsHold DEF TInv
<1>b. exists' = exists /\ pc' = pc /\ loc' = loc
  BY Zenon DEF vars
<1>1. \A f \in Files : volume'[f] # volume[f] => owner[f] = t
  BY Zenon, <1>a DEF LayerFacts
<1>2. OnlyOf(t)
  BY Zenon, <1>b, <1>1 DEF OnlyOf, Importing
<1>3. TransferTypeInv'
  BY Zenon, <1>a DEF TransferTypeInv
<1>4. FileInv(t)'
  BY Zenon, <1>a, <1>b DEF ThreadInv, FileInv
<1> QED BY Zenon, <1>2, <1>3, <1>4, OwnIsEnough DEF ThreadInv

(* What Step and Failed do to the walk of t.                                *)
LEMMA StepFacts ==
    ASSUME walk \in [Threads -> Walks], NEW t \in Threads,
           NEW where \in CopySteps \cup ExportSteps, Step(t, where)
    PROVE  /\ walk' \in [Threads -> Walks] /\ \A u \in Threads \ {t} : walk'[u] = walk[u]
           /\ walk'[t].step = where /\ walk'[t].todo = walk[t].todo
           /\ walk'[t].entry = walk[t].entry /\ walk'[t].error = walk[t].error
<1>1. walk[t] \in Walks /\ walk' = [walk EXCEPT ![t].step = where]
  BY Zenon DEF Step
<1>2. walk' = [walk EXCEPT ![t] = [walk[t] EXCEPT !.step = where]]
  BY Zenon, <1>1
<1>3. [walk[t] EXCEPT !.step = where] \in Walks
  BY Zenon, <1>1 DEF Walks
<1>4. walk' \in [Threads -> Walks] /\ \A u \in Threads \ {t} : walk'[u] = walk[u]
  BY Zenon, <1>2, <1>3
<1> QED BY <1>1, <1>2, <1>4 DEF Walks

(* The same for a step that failed.                                         *)
LEMMA FailedFacts ==
    ASSUME walk \in [Threads -> Walks], NEW t \in Threads,
           NEW where \in CopySteps \cup ExportSteps, Failed(t, where)
    PROVE  /\ walk' \in [Threads -> Walks] /\ \A u \in Threads \ {t} : walk'[u] = walk[u]
           /\ walk'[t].step = where /\ walk'[t].todo = walk[t].todo
           /\ walk'[t].entry = None /\ walk'[t].error
<1>1. /\ walk[t] \in Walks
      /\ walk' = [walk EXCEPT ![t].step = where, ![t].entry = None, ![t].error = TRUE]
  BY Zenon DEF Failed
<1>2. walk' = [walk EXCEPT ![t] =
                 [walk[t] EXCEPT !.step = where, !.entry = None, !.error = TRUE]]
  BY Zenon, <1>1
<1>3. [walk[t] EXCEPT !.step = where, !.entry = None, !.error = TRUE] \in Walks
  BY Zenon, <1>1 DEF Walks
<1>4. walk' \in [Threads -> Walks] /\ \A u \in Threads \ {t} : walk'[u] = walk[u]
  BY Zenon, <1>2, <1>3
<1> QED BY <1>1, <1>2, <1>4 DEF Walks

(* Every step keeps the invariant of the transfers.                         *)
LEMMA TInvStep ==
    ASSUME IInv, IInv', TInv, TransferNext
    PROVE  TInv'
<1>a. LayerFacts
  BY Zenon, LayerFactsHold
<1>b. TransferTypeInv /\ ImportedWhole /\ \A t \in Threads : ThreadInv(t)
  BY Zenon DEF TInv
<1> USE DEF vars, disks, handles, reg, directory
<1>1. ASSUME NEW t \in Threads, InitializeVHD(t) PROVE TInv'
  <2>a. TransferTypeInv /\ WalkInv(t) /\ CopyInv(t)
    BY Zenon, <1>b DEF ThreadInv
  <2>b. /\ pc[t] = "copy" /\ walk[t].step = "initialize"
        /\ UNCHANGED <<vars, volume, mounts, imported, directory>>
    BY Zenon, <1>1 DEF InitializeVHD, At
  <2>c. walk[t].entry = None /\ ~walk[t].error /\ t \notin mounts
    BY Zenon, <2>a, <2>b DEF WalkInv, CopyInv, EarlySteps
  <2>d. /\ walk' \in [Threads -> Walks] /\ \A u \in Threads \ {t} : walk'[u] = walk[u]
        /\ walk'[t].todo = walk[t].todo /\ walk'[t].entry = None
        /\ \/ walk'[t].step \in {"find", "diskpart"} /\ walk'[t].error = walk[t].error
           \/ walk'[t].step = "discard" /\ walk'[t].error
    BY Zenon, <1>1, <2>a, <2>c, StepFacts, FailedFacts
       DEF InitializeVHD, TransferTypeInv, CopySteps, EarlySteps
  <2>1. Covered \subseteq Covered'
    BY Zenon, <2>b, <2>c, <2>d, StillCovered
  <2>2. WalkInv(t)'
    BY Zenon, <2>b, <2>c, <2>d DEF WalkInv, ImportPlaces, CopySteps, EarlySteps
  <2>3. CopyInv(t)'
    BY Zenon, <2>a, <2>b, <2>d DEF CopyInv, EarlySteps
  <2>4. ExportInv(t)'
    BY Zenon, <2>b DEF ExportInv
  <2> QED BY Zenon, <2>a, <2>b, <2>d, <2>1, <2>2, <2>3, <2>4, InnerStep DEF TransferTypeInv
<1>2. ASSUME NEW t \in Threads, FindNewVolume(t) PROVE TInv'
  <2>a. TransferTypeInv /\ WalkInv(t) /\ CopyInv(t)
    BY Zenon, <1>b DEF ThreadInv
  <2>b. /\ pc[t] = "copy" /\ walk[t].step = "find"
        /\ UNCHANGED <<vars, volume, mounts, imported, directory>>
    BY Zenon, <1>2 DEF FindNewVolume, At
  <2>c. walk[t].entry = None /\ ~walk[t].error /\ t \notin mounts
    BY Zenon, <2>a, <2>b DEF WalkInv, CopyInv, EarlySteps
  <2>d. /\ walk' \in [Threads -> Walks] /\ \A u \in Threads \ {t} : walk'[u] = walk[u]
        /\ walk'[t].todo = walk[t].todo /\ walk'[t].entry = None
        /\ \/ walk'[t].step \in {"format", "diskpart"} /\ walk'[t].error = walk[t].error
           \/ walk'[t].step = "discard" /\ walk'[t].error
    BY Zenon, <1>2, <2>a, <2>c, StepFacts, FailedFacts
       DEF FindNewVolume, TransferTypeInv, CopySteps, EarlySteps
  <2>1. Covered \subseteq Covered'
    BY Zenon, <2>b, <2>c, <2>d, StillCovered
  <2>2. WalkInv(t)'
    BY Zenon, <2>b, <2>c, <2>d DEF WalkInv, ImportPlaces, CopySteps, EarlySteps
  <2>3. CopyInv(t)'
    BY Zenon, <2>a, <2>b, <2>d DEF CopyInv, EarlySteps
  <2>4. ExportInv(t)'
    BY Zenon, <2>b DEF ExportInv
  <2> QED BY Zenon, <2>a, <2>b, <2>d, <2>1, <2>2, <2>3, <2>4, InnerStep DEF TransferTypeInv
<1>3. ASSUME NEW t \in Threads, FormatVolume(t) PROVE TInv'
  <2>a. TransferTypeInv /\ WalkInv(t) /\ CopyInv(t)
    BY Zenon, <1>b DEF ThreadInv
  <2>b. /\ pc[t] = "copy" /\ walk[t].step = "format"
        /\ UNCHANGED <<vars, mounts, imported, directory>>
    BY Zenon, <1>3 DEF FormatVolume, Formats, At
  <2>c. /\ walk[t].entry = None /\ ~walk[t].error /\ t \notin mounts
        /\ walk[t].todo = ImportedRootEntries /\ loc[t].file \in Files
    BY Zenon, <1>a, <2>a, <2>b DEF WalkInv, CopyInv, EarlySteps, LayerFacts, ImportPlaces
  <2>d. /\ walk' \in [Threads -> Walks] /\ \A u \in Threads \ {t} : walk'[u] = walk[u]
        /\ walk'[t].todo = walk[t].todo /\ walk'[t].entry = None
        /\ \/ /\ walk'[t].step = "mount" /\ walk'[t].error = walk[t].error
              /\ volume' = [volume EXCEPT ![loc[t].file] = Internals]
           \/ walk'[t].step = "discard" /\ walk'[t].error /\ volume' = volume
    BY Zenon, <1>3, <2>a, <2>c, StepFacts, FailedFacts
       DEF FormatVolume, Formats, TransferTypeInv, CopySteps, EarlySteps
  <2>e. /\ volume' \in [Files -> SUBSET RootEntries]
        /\ \A f \in Files : volume'[f] # volume[f] => loc[t].file = f
        /\ walk'[t].step = "mount" => volume'[loc[t].file] = Internals
    BY <2>a, <2>c, <2>d DEF TransferTypeInv, RootEntries
  <2>1. Covered \subseteq Covered'
    BY Zenon, <2>b, <2>c, <2>d, StillCovered
  <2>2. WalkInv(t)'
    BY Zenon, <2>b, <2>c, <2>d DEF WalkInv, ImportPlaces, CopySteps, EarlySteps
  <2>3. CopyInv(t)'
    BY Zenon, <2>b, <2>c, <2>d, <2>e DEF CopyInv, EarlySteps
  <2>4. ExportInv(t)'
    BY Zenon, <2>b DEF ExportInv
  <2> QED BY Zenon, <2>b, <2>d, <2>e, <2>1, <2>2, <2>3, <2>4, InnerStep
<1>4. ASSUME NEW t \in Threads, InitializeVHDDiskpart(t) PROVE TInv'
  <2>a. TransferTypeInv /\ WalkInv(t) /\ CopyInv(t)
    BY Zenon, <1>b DEF ThreadInv
  <2>b. /\ pc[t] = "copy" /\ walk[t].step = "diskpart"
        /\ UNCHANGED <<vars, mounts, imported, directory>>
    BY Zenon, <1>4 DEF InitializeVHDDiskpart, Formats, At
  <2>c. /\ walk[t].entry = None /\ ~walk[t].error /\ t \notin mounts
        /\ walk[t].todo = ImportedRootEntries /\ loc[t].file \in Files
    BY Zenon, <1>a, <2>a, <2>b DEF WalkInv, CopyInv, EarlySteps, LayerFacts, ImportPlaces
  <2>d. /\ walk' \in [Threads -> Walks] /\ \A u \in Threads \ {t} : walk'[u] = walk[u]
        /\ walk'[t].todo = walk[t].todo /\ walk'[t].entry = None
        /\ \/ /\ walk'[t].step = "mount" /\ walk'[t].error = walk[t].error
              /\ volume' = [volume EXCEPT ![loc[t].file] = Internals]
           \/ walk'[t].step = "discard" /\ walk'[t].error /\ volume' = volume
    BY Zenon, <1>4, <2>a, <2>c, StepFacts, FailedFacts
       DEF InitializeVHDDiskpart, Formats, TransferTypeInv, CopySteps, EarlySteps
  <2>e. /\ volume' \in [Files -> SUBSET RootEntries]
        /\ \A f \in Files : volume'[f] # volume[f] => loc[t].file = f
        /\ walk'[t].step = "mount" => volume'[loc[t].file] = Internals
    BY <2>a, <2>c, <2>d DEF TransferTypeInv, RootEntries
  <2>1. Covered \subseteq Covered'
    BY Zenon, <2>b, <2>c, <2>d, StillCovered
  <2>2. WalkInv(t)'
    BY Zenon, <2>b, <2>c, <2>d DEF WalkInv, ImportPlaces, CopySteps, EarlySteps
  <2>3. CopyInv(t)'
    BY Zenon, <2>b, <2>c, <2>d, <2>e DEF CopyInv, EarlySteps
  <2>4. ExportInv(t)'
    BY Zenon, <2>b DEF ExportInv
  <2> QED BY Zenon, <2>b, <2>d, <2>e, <2>1, <2>2, <2>3, <2>4, InnerStep
<1>5. ASSUME NEW t \in Threads, Mount(t) PROVE TInv'
  <2>a. TransferTypeInv /\ WalkInv(t) /\ CopyInv(t)
    BY Zenon, <1>b DEF ThreadInv
  <2>b. /\ pc[t] \in {"copy", "export"} /\ walk[t].step = "mount"
        /\ UNCHANGED <<vars, volume, imported, directory>>
    BY Zenon, <1>5 DEF Mount
  <2>c. /\ walk[t].entry = None
        /\ pc[t] = "copy" => /\ ~walk[t].error /\ walk[t].todo = ImportedRootEntries
                            /\ volume[loc[t].file] = Internals
    BY Zenon, <2>a, <2>b DEF WalkInv, CopyInv, EarlySteps
  <2>d. /\ walk' \in [Threads -> Walks] /\ \A u \in Threads \ {t} : walk'[u] = walk[u]
        /\ walk'[t].todo = walk[t].todo /\ walk'[t].entry = None
        /\ \/ /\ walk'[t].step = (IF pc[t] = "copy" THEN "copying" ELSE "list")
              /\ walk'[t].error = walk[t].error /\ mounts' = mounts \cup {t}
           \/ /\ walk'[t].step = (IF pc[t] = "copy" THEN "discard" ELSE "detach")
              /\ walk'[t].error /\ mounts' = mounts
    <3>1. CASE /\ Step(t, IF pc[t] = "copy" THEN "copying" ELSE "list")
               /\ mounts' = mounts \cup {t}
      BY Zenon, <2>a, <2>c, <3>1, StepFacts DEF TransferTypeInv, CopySteps, ExportSteps
    <3>2. CASE Failed(t, IF pc[t] = "copy" THEN "discard" ELSE "detach") /\ mounts' = mounts
      <4>1. PICK where \in CopySteps :
              Failed(t, where) /\ where = (IF pc[t] = "copy" THEN "discard" ELSE "detach")
        BY <3>2 DEF CopySteps
      <4>2. /\ walk' \in [Threads -> Walks] /\ \A u \in Threads \ {t} : walk'[u] = walk[u]
            /\ walk'[t].step = where /\ walk'[t].todo = walk[t].todo
            /\ walk'[t].entry = None /\ walk'[t].error
        BY Zenon, <2>a, <4>1, FailedFacts DEF TransferTypeInv
      <4> QED BY Zenon, <3>2, <4>1, <4>2
    <3> QED BY Zenon, <1>5, <3>1, <3>2 DEF Mount
  <2>1. Covered \subseteq Covered'
    BY Zenon, <2>b, <2>c, <2>d, StillCovered
  <2>2. WalkInv(t)'
    BY Zenon, <2>b, <2>c, <2>d DEF WalkInv, ImportPlaces, CopySteps, ExportSteps
  <2>3. CopyInv(t)'
    BY Zenon, <2>b, <2>c, <2>d DEF CopyInv, EarlySteps
  <2>4. ExportInv(t)'
    BY Zenon, <2>b, <2>d DEF ExportInv
  <2> QED BY Zenon, <2>a, <2>b, <2>d, <2>1, <2>2, <2>3, <2>4, InnerStep DEF TransferTypeInv
<1>6. ASSUME NEW t \in Threads, MountThrows(t) PROVE TInv'
  <2>a. TransferTypeInv /\ WalkInv(t)
    BY Zenon, <1>b DEF ThreadInv
  <2>b. /\ pc[t] = "copy" /\ walk[t].step = "mount"
        /\ UNCHANGED <<vars, volume, mounts, imported, directory>>
    BY Zenon, <1>6 DEF MountThrows, At
  <2>c. walk[t].entry = None
    BY Zenon, <2>a, <2>b DEF WalkInv
  <2>d. /\ walk' \in [Threads -> Walks] /\ \A u \in Threads \ {t} : walk'[u] = walk[u]
        /\ walk'[t].entry = None /\ walk'[t].step = "detach" /\ walk'[t].error
    BY Zenon, <1>6, <2>a, FailedFacts DEF MountThrows, TransferTypeInv, CopySteps
  <2>1. Covered \subseteq Covered'
    BY Zenon, <2>b, <2>c, <2>d, StillCovered
  <2>2. WalkInv(t)'
    BY Zenon, <2>b, <2>d DEF WalkInv, ImportPlaces, CopySteps
  <2>3. CopyInv(t)'
    BY Zenon, <2>d DEF CopyInv, EarlySteps
  <2>4. ExportInv(t)'
    BY Zenon, <2>b DEF ExportInv
  <2> QED BY Zenon, <2>a, <2>b, <2>d, <2>1, <2>2, <2>3, <2>4, InnerStep DEF TransferTypeInv
<1>7. ASSUME NEW t \in Threads, ListVolume(t) PROVE TInv'
  <2>a. TransferTypeInv /\ WalkInv(t)
    BY Zenon, <1>b DEF ThreadInv
  <2>b. /\ pc[t] = "export" /\ walk[t].step = "list"
        /\ UNCHANGED <<vars, volume, imported, directory>>
    BY Zenon, <1>7 DEF ListVolume, At
  <2>c. walk[t].entry = None /\ loc[t].file \in Files
    BY Zenon, <1>a, <2>a, <2>b DEF WalkInv, LayerFacts, ImportPlaces
  <2>d. /\ walk' \in [Threads -> Walks] /\ \A u \in Threads \ {t} : walk'[u] = walk[u]
        /\ walk'[t].entry = None /\ mounts' \subseteq mounts
        /\ \/ walk'[t].step = "copying" /\ walk'[t].todo = volume[loc[t].file]
           \/ walk'[t].step \in {"unmount", "detach"} /\ walk'[t].error
    <3>1. CASE /\ walk' = [walk EXCEPT ![t].step = "copying",
                                      ![t].todo = volume[loc[t].file]]
               /\ mounts' = mounts
      <4>1. walk[t] \in Walks /\ volume[loc[t].file] \in SUBSET RootEntries
        BY Zenon, <2>a, <2>c DEF TransferTypeInv
      <4>2. [walk[t] EXCEPT !.step = "copying", !.todo = volume[loc[t].file]] \in Walks
        BY Zenon, <4>1 DEF Walks, ExportSteps
      <4>3. walk' = [walk EXCEPT ![t] =
                       [walk[t] EXCEPT !.step = "copying", !.todo = volume[loc[t].file]]]
        BY Zenon, <3>1, <4>1
      <4>4. walk' \in [Threads -> Walks] /\ \A u \in Threads \ {t} : walk'[u] = walk[u]
        BY Zenon, <2>a, <4>2, <4>3 DEF TransferTypeInv
      <4>5. /\ walk'[t].entry = walk[t].entry /\ walk'[t].step = "copying"
            /\ walk'[t].todo = volume[loc[t].file]
        BY <2>a, <4>1, <4>3 DEF TransferTypeInv, Walks
      <4> QED BY Zenon, <2>c, <3>1, <4>4, <4>5
    <3>2. CASE /\ Failed(t, "unmount") \/ Failed(t, "detach")
               /\ mounts' \in {mounts, mounts \ {t}}
      BY Zenon, <2>a, <3>2, FailedFacts DEF TransferTypeInv, ExportSteps
    <3> QED BY Zenon, <1>7, <3>1, <3>2 DEF ListVolume
  <2>1. Covered \subseteq Covered'
    BY Zenon, <2>b, <2>c, <2>d, StillCovered
  <2>2. WalkInv(t)'
    BY Zenon, <2>b, <2>d DEF WalkInv, ImportPlaces, ExportSteps
  <2>3. CopyInv(t)'
    BY Zenon, <2>b DEF CopyInv
  <2>4. ExportInv(t)'
    BY Zenon, <2>b, <2>d DEF ExportInv, Wanted
  <2> QED BY Zenon, <2>a, <2>b, <2>d, <2>1, <2>2, <2>3, <2>4, InnerStep DEF TransferTypeInv
<1>8. ASSUME NEW t \in Threads, Copied(t) PROVE TInv'
  <2>a. TransferTypeInv /\ WalkInv(t) /\ CopyInv(t) /\ ExportInv(t)
    BY Zenon, <1>b DEF ThreadInv
  <2>b. /\ walk[t].step = "copying" /\ walk[t].entry = None
        /\ UNCHANGED <<vars, volume, mounts, imported, directory>>
    BY Zenon, <1>8 DEF Copied
  <2>c. pc[t] \in {"copy", "export"}
    BY <2>a, <2>b DEF WalkInv, ImportPlaces, NoWalk
  <2>d. /\ walk' \in [Threads -> Walks] /\ \A u \in Threads \ {t} : walk'[u] = walk[u]
        /\ walk'[t].entry = None /\ walk'[t].step = "unmount"
        /\ \/ walk[t].todo = {} /\ walk'[t].error = walk[t].error
           \/ walk'[t].error
    BY Zenon, <1>8, <2>a, <2>b, StepFacts, FailedFacts DEF Copied, TransferTypeInv, CopySteps
  <2>1. Covered \subseteq Covered'
    BY Zenon, <2>b, <2>d, StillCovered
  <2>2. WalkInv(t)'
    BY Zenon, <2>b, <2>c, <2>d DEF WalkInv, ImportPlaces, CopySteps, ExportSteps
  <2>3. CopyInv(t)'
    <3>1. pc[t] = "copy" /\ walk[t].todo = {} => Whole(loc[t].file)
      BY Zenon, <2>a, <2>b DEF CopyInv, Whole
    <3> QED BY Zenon, <2>b, <2>d, <3>1 DEF CopyInv, Whole, EarlySteps
  <2>4. ExportInv(t)'
    BY Zenon, <2>a, <2>b, <2>d, <2>1 DEF ExportInv, Wanted
  <2> QED BY Zenon, <2>a, <2>b, <2>c, <2>d, <2>1, <2>2, <2>3, <2>4, InnerStep DEF TransferTypeInv
<1>9. ASSUME NEW t \in Threads, Unmount(t) PROVE TInv'
  <2>a. TransferTypeInv /\ WalkInv(t) /\ CopyInv(t) /\ ExportInv(t)
    BY Zenon, <1>b DEF ThreadInv
  <2>b. walk[t].step = "unmount" /\ UNCHANGED <<vars, volume, imported, directory>>
    BY Zenon, <1>9 DEF Unmount
  <2>c. pc[t] \in {"copy", "export"} /\ walk[t].entry = None
    BY <2>a, <2>b DEF WalkInv, ImportPlaces, NoWalk
  <2>d. /\ walk' \in [Threads -> Walks] /\ \A u \in Threads \ {t} : walk'[u] = walk[u]
        /\ walk'[t].entry = None /\ walk'[t].step = AfterUnmount(t)
        /\ \/ mounts' = mounts \ {t} /\ walk'[t].error = walk[t].error
           \/ mounts' \subseteq mounts /\ walk'[t].error
    <3>1. AfterUnmount(t) \in CopySteps
      BY Zenon DEF AfterUnmount, CopySteps
    <3> QED BY Zenon, <1>9, <2>a, <2>c, <3>1, StepFacts, FailedFacts DEF Unmount, TransferTypeInv
  <2>e. /\ AfterUnmount(t) = "discard" \/ AfterUnmount(t) = "detach"
        /\ AfterUnmount(t) = "discard" => pc[t] = "copy"
        /\ AfterUnmount(t) = "detach" /\ pc[t] = "copy" => ~walk[t].error
    BY Zenon DEF AfterUnmount
  <2>1. Covered \subseteq Covered'
    BY Zenon, <2>b, <2>c, <2>d, StillCovered
  <2>2. WalkInv(t)'
    BY Zenon, <2>b, <2>c, <2>d, <2>e DEF WalkInv, ImportPlaces, CopySteps, ExportSteps
  <2>3. CopyInv(t)'
    BY Zenon, <2>a, <2>b, <2>d, <2>e DEF CopyInv, Whole, EarlySteps
  <2>4. ExportInv(t)'
    BY Zenon, <2>a, <2>b, <2>d, <2>e, <2>1 DEF ExportInv, Wanted
  <2>5. mounts' \subseteq mounts \cup {t}
    BY Zenon, <2>d
  <2> QED BY Zenon, <2>a, <2>b, <2>c, <2>d, <2>1, <2>2, <2>3, <2>4, <2>5, InnerStep
     DEF TransferTypeInv
<1>10. ASSUME NEW t \in Threads, NEW e \in RootEntries, CopyRootEntry(t, e) PROVE TInv'
  <2>a. TransferTypeInv /\ WalkInv(t) /\ CopyInv(t)
    BY Zenon, <1>b DEF ThreadInv
  <2>b. /\ pc[t] = "copy" /\ walk[t].step = "copying" /\ e \in walk[t].todo
        /\ UNCHANGED <<vars, mounts, imported, directory>>
    BY Zenon, <1>10 DEF CopyRootEntry, At
  <2>c. /\ walk[t].entry = None /\ loc[t].file \in Files /\ ~walk[t].error
        /\ walk[t].todo \subseteq ImportedRootEntries
        /\ volume[loc[t].file] = Internals \cup (ImportedRootEntries \ walk[t].todo)
    BY Zenon, <1>a, <2>a, <2>b DEF WalkInv, CopyInv, LayerFacts, ImportPlaces
  <2>d. /\ walk' \in [Threads -> Walks] /\ \A u \in Threads \ {t} : walk'[u] = walk[u]
        /\ walk'[t].entry = None
        /\ \/ /\ walk'[t].step = "copying" /\ ~walk'[t].error
              /\ walk'[t].todo = walk[t].todo \ {e}
              /\ volume' = [volume EXCEPT ![loc[t].file] = @ \cup {e}]
           \/ /\ walk'[t].step = "unmount" /\ walk'[t].error
              /\ \/ volume' = volume
                 \/ volume' = [volume EXCEPT ![loc[t].file] = @ \cup {e}]
    <3>1. CASE /\ volume' = [volume EXCEPT ![loc[t].file] = @ \cup {e}]
               /\ walk' = [walk EXCEPT ![t].todo = @ \ {e}]
      <4>1. walk[t] \in Walks
        BY Zenon, <2>a DEF TransferTypeInv
      <4>2. walk' = [walk EXCEPT ![t] = [walk[t] EXCEPT !.todo = walk[t].todo \ {e}]]
        BY Zenon, <3>1, <4>1
      <4>3. [walk[t] EXCEPT !.todo = walk[t].todo \ {e}] \in Walks
        BY Zenon, <4>1 DEF Walks
      <4>4. walk' \in [Threads -> Walks] /\ \A u \in Threads \ {t} : walk'[u] = walk[u]
        BY Zenon, <2>a, <4>2, <4>3 DEF TransferTypeInv
      <4>5. /\ walk'[t].entry = walk[t].entry /\ walk'[t].step = walk[t].step
            /\ walk'[t].error = walk[t].error /\ walk'[t].todo = walk[t].todo \ {e}
        BY <2>a, <4>1, <4>2 DEF TransferTypeInv, Walks
      <4> QED BY Zenon, <2>b, <2>c, <3>1, <4>4, <4>5
    <3>2. CASE /\ volume' \in {volume, [volume EXCEPT ![loc[t].file] = @ \cup {e}]}
               /\ Failed(t, "unmount")
      BY Zenon, <2>a, <3>2, FailedFacts DEF TransferTypeInv, CopySteps
    <3> QED BY Zenon, <1>10, <3>1, <3>2 DEF CopyRootEntry
  <2>e. /\ volume' \in [Files -> SUBSET RootEntries]
        /\ \A f \in Files : volume'[f] # volume[f] => loc[t].file = f
        /\ walk'[t].step = "copying" => volume'[loc[t].file] = volume[loc[t].file] \cup {e}
    BY <1>10, <2>a, <2>c, <2>d DEF TransferTypeInv
  <2>1. Covered \subseteq Covered'
    BY Zenon, <2>b, <2>c, <2>d, StillCovered
  <2>2. WalkInv(t)'
    BY Zenon, <2>b, <2>d DEF WalkInv, ImportPlaces, CopySteps
  <2>3. CopyInv(t)'
    <3>1. walk'[t].step = "copying" =>
            /\ walk'[t].todo \subseteq ImportedRootEntries
            /\ volume'[loc[t].file] = Internals \cup (ImportedRootEntries \ walk'[t].todo)
      BY <2>b, <2>c, <2>d, <2>e
    <3> QED BY Zenon, <2>b, <2>d, <3>1 DEF CopyInv, EarlySteps
  <2>4. ExportInv(t)'
    BY Zenon, <2>b DEF ExportInv
  <2> QED BY Zenon, <2>a, <2>b, <2>d, <2>e, <2>1, <2>2, <2>3, <2>4, InnerStep DEF TransferTypeInv
<1>11. ASSUME NEW t \in Threads, NEW e \in RootEntries, NextRootEntry(t, e) PROVE TInv'
  <2>a. TransferTypeInv /\ WalkInv(t) /\ ExportInv(t)
    BY Zenon, <1>b DEF ThreadInv
  <2>b. /\ pc[t] = "export" /\ walk[t].step = "copying" /\ walk[t].entry = None
        /\ UNCHANGED <<vars, volume, mounts, imported, dest, exported>>
    BY Zenon, <1>11 DEF NextRootEntry, At
  <2>c. walk[t] \in Walks /\ e # None
    BY Zenon, <1>11, <2>a, VhdTransferAssumption DEF TransferTypeInv, RootEntries
  <2>d. /\ walk' \in [Threads -> Walks] /\ \A u \in Threads \ {t} : walk'[u] = walk[u]
        /\ walk'[t].step = "copying" /\ walk'[t].error = walk[t].error
        /\ \/ /\ SkippedAtVolumeRoot(e) /\ walk'[t].todo = walk[t].todo \ {e}
              /\ walk'[t].entry = None /\ broken' = broken
           \/ /\ walk'[t].entry = e /\ walk'[t].todo = walk[t].todo
              /\ broken' = broken \ {e}
    <3>1. CASE /\ SkippedAtVolumeRoot(e) /\ broken' = broken
               /\ walk' = [walk EXCEPT ![t].todo = @ \ {e}]
      <4>1. walk' = [walk EXCEPT ![t] = [walk[t] EXCEPT !.todo = walk[t].todo \ {e}]]
        BY Zenon, <2>c, <3>1
      <4>2. [walk[t] EXCEPT !.todo = walk[t].todo \ {e}] \in Walks
        BY Zenon, <2>c DEF Walks
      <4>3. walk' \in [Threads -> Walks] /\ \A u \in Threads \ {t} : walk'[u] = walk[u]
        BY Zenon, <2>a, <4>1, <4>2 DEF TransferTypeInv
      <4>4. /\ walk'[t].entry = walk[t].entry /\ walk'[t].step = walk[t].step
            /\ walk'[t].error = walk[t].error /\ walk'[t].todo = walk[t].todo \ {e}
        BY <2>a, <2>c, <4>1 DEF TransferTypeInv, Walks
      <4> QED BY Zenon, <2>b, <3>1, <4>3, <4>4
    <3>2. CASE walk' = [walk EXCEPT ![t].entry = e] /\ broken' = broken \ {e}
      <4>1. walk' = [walk EXCEPT ![t] = [walk[t] EXCEPT !.entry = e]]
        BY Zenon, <2>c, <3>2
      <4>2. [walk[t] EXCEPT !.entry = e] \in Walks
        BY Zenon, <1>11, <2>c DEF Walks
      <4>3. walk' \in [Threads -> Walks] /\ \A u \in Threads \ {t} : walk'[u] = walk[u]
        BY Zenon, <2>a, <4>1, <4>2 DEF TransferTypeInv
      <4>4. /\ walk'[t].entry = e /\ walk'[t].step = walk[t].step
            /\ walk'[t].error = walk[t].error /\ walk'[t].todo = walk[t].todo
        BY <2>a, <2>c, <4>1 DEF TransferTypeInv, Walks
      <4> QED BY Zenon, <2>b, <3>2, <4>3, <4>4
    <3> QED BY Zenon, <1>11, <3>1, <3>2 DEF NextRootEntry
  <2>1. Covered \subseteq Covered'
    <3>1. \A x \in InHand(Threads) : x \in InHand(Threads)'
      BY Zenon, <2>b, <2>d DEF InHand
    <3>2. broken' # broken => e \in InHand(Threads)' /\ broken' = broken \ {e}
      BY Zenon, <2>c, <2>d DEF InHand
    <3> QED BY Zenon, <2>b, <3>1, <3>2 DEF Covered
  <2>2. WalkInv(t)'
    BY Zenon, <2>b, <2>d DEF WalkInv, ImportPlaces, ExportSteps
  <2>3. CopyInv(t)'
    BY Zenon, <2>b DEF CopyInv
  <2>4. ExportInv(t)'
    BY Zenon, <2>a, <2>b, <2>d, <2>1 DEF ExportInv, Wanted
  <2> QED BY Zenon, <2>a, <2>b, <2>d, <2>1, <2>2, <2>3, <2>4, InnerStep DEF TransferTypeInv
<1>12. ASSUME NEW t \in Threads, CopyReplaces(t) PROVE TInv'
  <2>a. TransferTypeInv /\ WalkInv(t) /\ ExportInv(t)
    BY Zenon, <1>b DEF ThreadInv
  <2>b. /\ pc[t] = "export" /\ walk[t].entry # None /\ dest' = dest \ {walk[t].entry}
        /\ UNCHANGED <<vars, volume, walk, mounts, imported, broken, exported>>
    BY Zenon, <1>12 DEF CopyReplaces, Copying, At
  <2>1. Covered \subseteq Covered'
    <3>1. InHand(Threads)' = InHand(Threads) /\ walk[t].entry \in InHand(Threads)
      BY Zenon, <2>b DEF InHand
    <3> QED BY Zenon, <2>b, <3>1 DEF Covered
  <2>2. WalkInv(t)'
    BY Zenon, <2>a, <2>b DEF WalkInv
  <2>3. CopyInv(t)'
    BY Zenon, <2>b DEF CopyInv
  <2>4. ExportInv(t)'
    BY Zenon, <2>a, <2>b, <2>1 DEF ExportInv, Wanted
  <2> QED BY Zenon, <2>a, <2>b, <2>1, <2>2, <2>3, <2>4, InnerStep DEF TransferTypeInv
<1>13. ASSUME NEW t \in Threads, CopyTree(t) PROVE TInv'
  <2>a. TransferTypeInv /\ WalkInv(t) /\ ExportInv(t)
    BY Zenon, <1>b DEF ThreadInv
  <2> DEFINE e == walk[t].entry
  <2>b. /\ pc[t] = "export" /\ walk[t].step = "copying" /\ e # None
        /\ walk' = [walk EXCEPT ![t].entry = None, ![t].todo = @ \ {e}]
        /\ \/ dest' = dest \cup {e}
           \/ e \in broken \cup InHand(Threads \ {t}) /\ dest' = dest
        /\ UNCHANGED <<vars, volume, mounts, imported, broken, exported>>
    BY Zenon, <1>13 DEF CopyTree, Copying, At
  <2>d. /\ walk' \in [Threads -> Walks] /\ \A u \in Threads \ {t} : walk'[u] = walk[u]
        /\ walk'[t].step = "copying" /\ walk'[t].error = walk[t].error
        /\ walk'[t].entry = None /\ walk'[t].todo = walk[t].todo \ {e}
    <3>1. walk[t] \in Walks
      BY Zenon, <2>a DEF TransferTypeInv
    <3>2. walk' = [walk EXCEPT ![t] =
                     [walk[t] EXCEPT !.entry = None, !.todo = walk[t].todo \ {e}]]
      BY Zenon, <2>b, <3>1
    <3>3. [walk[t] EXCEPT !.entry = None, !.todo = walk[t].todo \ {e}] \in Walks
      BY Zenon, <3>1 DEF Walks
    <3>4. walk' \in [Threads -> Walks] /\ \A u \in Threads \ {t} : walk'[u] = walk[u]
      BY Zenon, <2>a, <3>2, <3>3 DEF TransferTypeInv
    <3>5. /\ walk'[t].entry = None /\ walk'[t].step = walk[t].step
          /\ walk'[t].error = walk[t].error /\ walk'[t].todo = walk[t].todo \ {e}
      BY <2>a, <3>1, <3>2 DEF TransferTypeInv, Walks
    <3> QED BY Zenon, <2>b, <3>4, <3>5
  <2>1. Covered \subseteq Covered' /\ e \in Covered'
    <3>1. \A x \in InHand(Threads) : x = e \/ x \in InHand(Threads)'
      BY Zenon, <2>d DEF InHand
    <3>2. \A x \in InHand(Threads \ {t}) : x \in InHand(Threads)'
      BY Zenon, <2>d DEF InHand
    <3>3. e \in dest' \/ e \in broken' \/ e \in InHand(Threads)'
      BY Zenon, <2>b, <3>2
    <3> QED BY Zenon, <2>b, <3>1, <3>3 DEF Covered
  <2>2. WalkInv(t)'
    BY Zenon, <2>b, <2>d DEF WalkInv, ImportPlaces, ExportSteps
  <2>3. CopyInv(t)'
    BY Zenon, <2>b DEF CopyInv
  <2>4. ExportInv(t)'
    BY Zenon, <2>a, <2>b, <2>d, <2>1 DEF ExportInv, Wanted
  <2> QED BY Zenon, <2>a, <2>b, <2>d, <2>1, <2>2, <2>3, <2>4, InnerStep DEF TransferTypeInv
<1>14. ASSUME NEW t \in Threads, CopyTreeFails(t) PROVE TInv'
  <2>a. TransferTypeInv
    BY Zenon, <1>b DEF ThreadInv
  <2>b. /\ pc[t] = "export" /\ broken' = broken \cup {walk[t].entry}
        /\ UNCHANGED <<vars, volume, mounts, imported, dest, exported>>
    BY Zenon, <1>14 DEF CopyTreeFails, Copying, At
  <2>d. /\ walk' \in [Threads -> Walks] /\ \A u \in Threads \ {t} : walk'[u] = walk[u]
        /\ walk'[t].entry = None /\ walk'[t].step = "unmount" /\ walk'[t].error
    BY Zenon, <1>14, <2>a, FailedFacts DEF CopyTreeFails, TransferTypeInv, CopySteps
  <2>1. Covered \subseteq Covered'
    <3>1. \A x \in InHand(Threads) : x \in broken' \/ x \in InHand(Threads)'
      BY Zenon, <2>b, <2>d DEF InHand
    <3> QED BY Zenon, <2>b, <3>1 DEF Covered
  <2>2. WalkInv(t)'
    BY Zenon, <2>b, <2>d DEF WalkInv, ImportPlaces, ExportSteps
  <2>3. CopyInv(t)'
    BY Zenon, <2>b DEF CopyInv
  <2>4. ExportInv(t)'
    BY Zenon, <2>d DEF ExportInv
  <2> QED BY Zenon, <2>a, <2>b, <2>d, <2>1, <2>2, <2>3, <2>4, InnerStep DEF TransferTypeInv
<1>15. ASSUME NEW t \in Threads, NEW f \in Files, ImportStart(t, f) PROVE TInv'
  <2>a. /\ ThreadInv(t) /\ TransferTypeInv /\ t \in Actors
        /\ pc \in [Actors -> Places] /\ loc \in [Actors -> Locals]
        /\ pc[t] \in ImportPlaces => loc[t].file \in Files
    BY Zenon, <1>a, <1>b DEF LayerFacts
  <2>b. \A u \in Threads \ {t} : pc'[u] = pc[u] /\ loc'[u] = loc[u] /\ walk'[u] = walk[u]
    BY Zenon, <1>15, <1>a, <2>a DEF ImportStart, Import, Goto, LayerFacts, TransferTypeInv
  <2>c. pc[t] = "idle" /\ pc'[t] = "import" /\ loc'[t].file = f
    BY <1>15, <2>a DEF ImportStart, Import, Goto
  <2>d. /\ walk' \in [Threads -> Walks] /\ walk'[t].todo = ImportedRootEntries
        /\ walk'[t].step = walk[t].step /\ walk'[t].error = walk[t].error
        /\ walk'[t].entry = walk[t].entry
    <3>1. ImportedRootEntries \in SUBSET RootEntries
      BY Zenon DEF ImportedRootEntries, RootEntries
    <3>2. walk' = [walk EXCEPT ![t].todo = ImportedRootEntries]
      BY Zenon, <1>15 DEF ImportStart
    <3> QED BY Zenon, <2>a, <3>1, <3>2 DEF TransferTypeInv, Walks
  <2>e. f \notin exists /\ exists' = exists \cup {f}
    BY Zenon, <1>15 DEF ImportStart, Import, Goto
  <2>f. UNCHANGED <<volume, mounts, imported, directory>>
    BY Zenon, <1>15 DEF ImportStart
  <2>g. walk[t].entry = None
    BY <2>a, <2>c DEF ThreadInv, WalkInv
  <2>7. Covered \subseteq Covered'
    BY Zenon, <2>b, <2>d, <2>f, <2>g, StillCovered
  <2>1. OnlyOf(t)
    BY Zenon, <2>b, <2>c, <2>e, <2>f, <2>7 DEF OnlyOf, Importing
  <2>2. TransferTypeInv'
    BY Zenon, <2>a, <2>d, <2>f DEF TransferTypeInv
  <2>3. WalkInv(t)'
    BY <2>a, <2>c, <2>d, <2>f DEF ThreadInv, WalkInv, ImportPlaces, NoWalk
  <2>4. FileInv(t)'
    BY Zenon, <1>b, <2>b, <2>c, <2>e, <2>f DEF ThreadInv, FileInv, ImportedWhole
  <2>5. CopyInv(t)'
    BY Zenon, <2>c DEF CopyInv
  <2>6. ExportInv(t)'
    BY Zenon, <2>c DEF ExportInv
  <2>8. \A g \in imported' : g \in imported \/ (g \in exists' /\ Whole(g)')
    BY Zenon, <2>f
  <2>9. exported' \subseteq exported \cup Covered
    BY Zenon, <2>f
  <2> QED BY Zenon, <2>1, <2>2, <2>3, <2>4, <2>5, <2>6, <2>8, <2>9, OwnIsEnough DEF ThreadInv
<1>16. ASSUME NEW t \in Threads, NEW f \in Files, ExportStart(t, f) PROVE TInv'
  <2>a. /\ ThreadInv(t) /\ TransferTypeInv /\ t \in Actors
        /\ pc \in [Actors -> Places] /\ loc \in [Actors -> Locals]
        /\ pc[t] \in ImportPlaces => loc[t].file \in Files
    BY Zenon, <1>a, <1>b DEF LayerFacts
  <2>b. \A u \in Threads \ {t} : pc'[u] = pc[u] /\ loc'[u] = loc[u] /\ walk'[u] = walk[u]
    BY Zenon, <1>16, <1>a, <2>a DEF ExportStart, Export, Opens, Goto, Step, LayerFacts, TransferTypeInv
  <2>c. pc[t] = "idle" /\ pc'[t] = "export"
    BY Zenon, <1>16, <2>a DEF ExportStart, Export, Opens, Goto
  <2>d. /\ walk' \in [Threads -> Walks] /\ walk'[t].step = "mount"
        /\ walk'[t].entry = walk[t].entry
    BY Zenon, <1>16, <2>a, StepFacts DEF ExportStart, TransferTypeInv, ExportSteps
  <2>e. exists' = exists
    BY Zenon, <1>16 DEF ExportStart, Export, Opens, Goto
  <2>f. UNCHANGED <<volume, mounts, imported, directory>>
    BY Zenon, <1>16 DEF ExportStart
  <2>g. walk[t].entry = None
    BY <2>a, <2>c DEF ThreadInv, WalkInv
  <2>h. t \notin mounts
    BY <2>a, <2>c DEF ThreadInv, WalkInv, ImportPlaces, NoWalk
  <2>7. Covered \subseteq Covered'
    BY Zenon, <2>b, <2>d, <2>f, <2>g, StillCovered
  <2>1. OnlyOf(t)
    BY Zenon, <2>b, <2>c, <2>e, <2>f, <2>7 DEF OnlyOf, Importing
  <2>2. TransferTypeInv'
    BY Zenon, <2>a, <2>d, <2>f DEF TransferTypeInv
  <2>3. WalkInv(t)'
    BY Zenon, <2>c, <2>d, <2>f, <2>g, <2>h DEF WalkInv, ImportPlaces, ExportSteps
  <2>4. FileInv(t)'
    BY Zenon, <2>c DEF FileInv, Importing
  <2>5. CopyInv(t)'
    BY Zenon, <2>c DEF CopyInv
  <2>6. ExportInv(t)'
    BY Zenon, <2>c, <2>d DEF ExportInv
  <2>8. \A g \in imported' : g \in imported \/ (g \in exists' /\ Whole(g)')
    BY Zenon, <2>f
  <2>9. exported' \subseteq exported \cup Covered
    BY Zenon, <2>f
  <2> QED BY Zenon, <2>1, <2>2, <2>3, <2>4, <2>5, <2>6, <2>8, <2>9, OwnIsEnough DEF ThreadInv
<1>17. ASSUME NEW t \in Threads, ImportAttached(t) PROVE TInv'
  <2>a. /\ ThreadInv(t) /\ TransferTypeInv /\ t \in Actors
        /\ pc \in [Actors -> Places] /\ loc \in [Actors -> Locals]
        /\ pc[t] \in ImportPlaces => loc[t].file \in Files
    BY Zenon, <1>a, <1>b DEF LayerFacts
  <2>b. \A u \in Threads \ {t} : pc'[u] = pc[u] /\ loc'[u] = loc[u] /\ walk'[u] = walk[u]
    BY Zenon, <1>17, <1>a, <2>a DEF ImportAttached, ImportAttach, Opens, Goto, Step, LayerFacts,
       TransferTypeInv
  <2>c. pc[t] = "import" /\ pc'[t] \in {"copy", "remove"} /\ loc' = loc
    BY Zenon, <1>17, <2>a DEF ImportAttached, ImportAttach, Opens, Goto
  <2>d. /\ walk' \in [Threads -> Walks]
        /\ walk'[t].todo = walk[t].todo /\ walk'[t].error = walk[t].error
        /\ walk'[t].step = IF pc'[t] = "copy" THEN "initialize" ELSE "discard"
        /\ walk'[t].entry = walk[t].entry
    BY Zenon, <1>17, <2>a, StepFacts
       DEF ImportAttached, TransferTypeInv, CopySteps, EarlySteps
  <2>e. exists' = exists
    BY Zenon, <1>17 DEF ImportAttached, ImportAttach, Opens, Goto
  <2>f. UNCHANGED <<volume, mounts, imported, directory>>
    BY Zenon, <1>17 DEF ImportAttached
  <2>g. walk[t].entry = None
    BY <2>a, <2>c DEF ThreadInv, WalkInv
  <2>7. Covered \subseteq Covered'
    BY Zenon, <2>b, <2>d, <2>f, <2>g, StillCovered
  <2>1. OnlyOf(t)
    BY Zenon, <2>b, <2>c, <2>e, <2>f, <2>7 DEF OnlyOf, Importing
  <2>2. TransferTypeInv'
    BY Zenon, <2>a, <2>d, <2>f DEF TransferTypeInv
  <2>3. WalkInv(t)'
    BY Zenon, <2>a, <2>c, <2>d, <2>f, <2>g DEF ThreadInv, WalkInv, ImportPlaces, CopySteps, EarlySteps
  <2>4. FileInv(t)'
    BY Zenon, <2>a, <2>b, <2>c, <2>e, <2>f DEF ThreadInv, FileInv, Importing
  <2>5. CopyInv(t)'
    BY Zenon, <2>a, <2>c, <2>d DEF ThreadInv, WalkInv, CopyInv
  <2>6. ExportInv(t)'
    BY Zenon, <2>c DEF ExportInv
  <2>8. \A g \in imported' : g \in imported \/ (g \in exists' /\ Whole(g)')
    BY Zenon, <2>f
  <2>9. exported' \subseteq exported \cup Covered
    BY Zenon, <2>f
  <2> QED BY Zenon, <2>1, <2>2, <2>3, <2>4, <2>5, <2>6, <2>8, <2>9, OwnIsEnough DEF ThreadInv
<1>18. ASSUME NEW t \in Threads, Discards(t) PROVE TInv'
  <2>a. /\ ThreadInv(t) /\ TransferTypeInv /\ t \in Actors
        /\ pc \in [Actors -> Places] /\ loc \in [Actors -> Locals]
        /\ pc[t] \in ImportPlaces => loc[t].file \in Files
    BY Zenon, <1>a, <1>b DEF LayerFacts
  <2>b. \A u \in Threads \ {t} : pc'[u] = pc[u] /\ loc'[u] = loc[u] /\ walk'[u] = walk[u]
    BY Zenon, <1>18, <1>a, <2>a DEF Discards, DiscardVhd, DetachedClosed, Goto, transfer, LayerFacts
  <2>c. pc[t] = "copy" /\ pc'[t] = "remove" /\ walk[t].step = "discard" /\ loc' = loc
    BY Zenon, <1>18, <2>a DEF Discards, DiscardVhd, DetachedClosed, Goto
  <2>d. walk' = walk
    BY Zenon, <1>18 DEF Discards, transfer
  <2>e. exists' = exists
    BY Zenon, <1>18 DEF Discards, DiscardVhd, DetachedClosed, Goto
  <2>f. UNCHANGED <<volume, mounts, imported, directory>>
    BY Zenon, <1>18 DEF Discards, transfer
  <2>7. Covered \subseteq Covered'
    BY Zenon, <2>d, <2>f DEF Covered, InHand
  <2>1. OnlyOf(t)
    BY Zenon, <2>b, <2>c, <2>e, <2>f, <2>7 DEF OnlyOf, Importing
  <2>2. TransferTypeInv'
    BY Zenon, <2>a, <2>d, <2>f DEF TransferTypeInv
  <2>3. WalkInv(t)'
    BY Zenon, <2>a, <2>c, <2>d, <2>f DEF ThreadInv, WalkInv, ImportPlaces
  <2>4. FileInv(t)'
    BY Zenon, <2>a, <2>b, <2>c, <2>e, <2>f DEF ThreadInv, FileInv, Importing
  <2>5. CopyInv(t)'
    BY Zenon, <2>c DEF CopyInv
  <2>6. ExportInv(t)'
    BY Zenon, <2>c DEF ExportInv
  <2>8. \A g \in imported' : g \in imported \/ (g \in exists' /\ Whole(g)')
    BY Zenon, <2>f
  <2>9. exported' \subseteq exported \cup Covered
    BY Zenon, <2>f
  <2> QED BY Zenon, <2>1, <2>2, <2>3, <2>4, <2>5, <2>6, <2>8, <2>9, OwnIsEnough DEF ThreadInv
<1>19. ASSUME NEW t \in Threads, ImportReturns(t) PROVE TInv'
  <2>a. /\ ThreadInv(t) /\ TransferTypeInv /\ t \in Actors
        /\ pc \in [Actors -> Places] /\ loc \in [Actors -> Locals]
        /\ pc[t] \in ImportPlaces => loc[t].file \in Files
    BY Zenon, <1>a, <1>b DEF LayerFacts
  <2>b. \A u \in Threads \ {t} : pc'[u] = pc[u] /\ loc'[u] = loc[u] /\ walk'[u] = walk[u]
    BY Zenon, <1>19, <1>a, <2>a DEF ImportReturns, Ends, ImportDone, DetachedClosed, Return, Goto,
       LayerFacts, TransferTypeInv
  <2>c. pc[t] = "copy" /\ pc'[t] = "idle" /\ walk[t].step = "detach"
    BY Zenon, <1>19, <2>a DEF ImportReturns, ImportDone, DetachedClosed, Return, Goto
  <2>d. walk' \in [Threads -> Walks] /\ walk'[t] = NoWalk /\ mounts' = mounts \ {t}
    BY Zenon, <1>19, <2>a DEF ImportReturns, Ends, TransferTypeInv, Walks, NoWalk
  <2>e. exists' = exists
    BY Zenon, <1>19 DEF ImportReturns, ImportDone, DetachedClosed, Return, Goto
  <2>f. /\ volume' = volume /\ UNCHANGED directory
        /\ imported' = IF walk[t].error THEN imported ELSE imported \cup {loc[t].file}
    BY Zenon, <1>19 DEF ImportReturns
  <2>g. walk[t].entry = None
    BY <2>a, <2>c DEF ThreadInv, WalkInv
  <2>h. loc[t].file \in exists /\ (Whole(loc[t].file) \/ walk[t].error)
    BY Zenon, <2>a, <2>c DEF ThreadInv, FileInv, CopyInv, Importing
  <2>7. Covered \subseteq Covered'
    BY Zenon, <2>b, <2>f, <2>g, StillCovered
  <2>1. OnlyOf(t)
    BY Zenon, <2>b, <2>c, <2>d, <2>e, <2>f, <2>7 DEF OnlyOf, Importing
  <2>2. TransferTypeInv'
    BY Zenon, <2>a, <2>d, <2>f DEF TransferTypeInv
  <2>3. WalkInv(t)'
    BY <2>c, <2>d DEF WalkInv, ImportPlaces, NoWalk
  <2>4. FileInv(t)'
    BY Zenon, <2>c DEF FileInv, Importing
  <2>5. CopyInv(t)'
    BY Zenon, <2>c DEF CopyInv
  <2>6. ExportInv(t)'
    BY Zenon, <2>c DEF ExportInv
  <2>8. \A g \in imported' : g \in imported \/ (g \in exists' /\ Whole(g)')
    BY Zenon, <2>e, <2>f, <2>h DEF Whole
  <2>9. exported' \subseteq exported \cup Covered
    BY Zenon, <2>f
  <2> QED BY Zenon, <2>1, <2>2, <2>3, <2>4, <2>5, <2>6, <2>8, <2>9, OwnIsEnough DEF ThreadInv
<1>20. ASSUME NEW t \in Threads, DiscardReturns(t) PROVE TInv'
  <2>a. /\ ThreadInv(t) /\ TransferTypeInv /\ t \in Actors
        /\ pc \in [Actors -> Places] /\ loc \in [Actors -> Locals]
        /\ pc[t] \in ImportPlaces => loc[t].file \in Files
    BY Zenon, <1>a, <1>b DEF LayerFacts
  <2>b. \A u \in Threads \ {t} : pc'[u] = pc[u] /\ loc'[u] = loc[u] /\ walk'[u] = walk[u]
    BY Zenon, <1>20, <1>a, <2>a DEF DiscardReturns, Ends, ImportRemove, Removed, Return, Goto,
       LayerFacts, TransferTypeInv
  <2>c. pc[t] = "remove" /\ pc'[t] = "idle"
    BY Zenon, <1>20, <2>a DEF DiscardReturns, ImportRemove, Removed, Return, Goto
  <2>d. walk' \in [Threads -> Walks] /\ walk'[t] = NoWalk /\ mounts' = mounts \ {t}
    BY Zenon, <1>20, <2>a DEF DiscardReturns, Ends, TransferTypeInv, Walks, NoWalk
  <2>e. exists' = exists \/ (exists' = exists \ {loc[t].file} /\ owner[loc[t].file] = None)
    BY Zenon, <1>20 DEF DiscardReturns, ImportRemove, Removed, Return, Goto
  <2>f. /\ volume' = [volume EXCEPT ![loc[t].file] = IF loc[t].file \in exists' THEN @ ELSE {}]
        /\ UNCHANGED <<imported, directory>>
    BY Zenon, <1>20 DEF DiscardReturns
  <2>g. walk[t].entry = None
    BY <2>a, <2>c DEF ThreadInv, WalkInv
  <2>h. loc[t].file \in exists /\ loc[t].file \in Files
    BY Zenon, <2>a, <2>c DEF ThreadInv, FileInv, Importing, ImportPlaces
  <2>i. \A f \in Files : volume'[f] # volume[f] => loc[t].file = f /\ owner[f] = None
    BY Zenon, <2>a, <2>e, <2>f, <2>h DEF TransferTypeInv
  <2>7. Covered \subseteq Covered'
    BY Zenon, <2>b, <2>f, <2>g, StillCovered
  <2>1. OnlyOf(t)
    BY Zenon, <2>b, <2>c, <2>d, <2>e, <2>f, <2>h, <2>i, <2>7 DEF OnlyOf, Importing
  <2>2. TransferTypeInv'
    BY Zenon, <2>a, <2>d, <2>f, <2>h DEF TransferTypeInv
  <2>3. WalkInv(t)'
    BY <2>c, <2>d DEF WalkInv, ImportPlaces, NoWalk
  <2>4. FileInv(t)'
    BY Zenon, <2>c DEF FileInv, Importing
  <2>5. CopyInv(t)'
    BY Zenon, <2>c DEF CopyInv
  <2>6. ExportInv(t)'
    BY Zenon, <2>c DEF ExportInv
  <2>8. \A g \in imported' : g \in imported \/ (g \in exists' /\ Whole(g)')
    BY Zenon, <2>f
  <2>9. exported' \subseteq exported \cup Covered
    BY Zenon, <2>f
  <2> QED BY Zenon, <2>1, <2>2, <2>3, <2>4, <2>5, <2>6, <2>8, <2>9, OwnIsEnough DEF ThreadInv
<1>21. ASSUME NEW t \in Threads, ExportReturns(t) PROVE TInv'
  <2>a. /\ ThreadInv(t) /\ TransferTypeInv /\ t \in Actors
        /\ pc \in [Actors -> Places] /\ loc \in [Actors -> Locals]
        /\ pc[t] \in ImportPlaces => loc[t].file \in Files
    BY Zenon, <1>a, <1>b DEF LayerFacts
  <2>b. \A u \in Threads \ {t} : pc'[u] = pc[u] /\ loc'[u] = loc[u] /\ walk'[u] = walk[u]
    BY Zenon, <1>21, <1>a, <2>a DEF ExportReturns, Ends, ExportDone, DetachedClosed, Return, Goto,
       LayerFacts, TransferTypeInv
  <2>c. pc[t] = "export" /\ pc'[t] = "idle" /\ walk[t].step = "detach"
    BY Zenon, <1>21, <2>a DEF ExportReturns, ExportDone, DetachedClosed, Return, Goto
  <2>d. walk' \in [Threads -> Walks] /\ walk'[t] = NoWalk /\ mounts' = mounts \ {t}
    BY Zenon, <1>21, <2>a DEF ExportReturns, Ends, TransferTypeInv, Walks, NoWalk
  <2>e. exists' = exists
    BY Zenon, <1>21 DEF ExportReturns, ExportDone, DetachedClosed, Return, Goto
  <2>f. /\ exported' = IF walk[t].error THEN exported ELSE exported \cup Wanted(loc[t].file)
        /\ UNCHANGED <<volume, imported, dest, broken>>
    BY Zenon, <1>21 DEF ExportReturns, Wanted
  <2>g. walk[t].entry = None
    BY <2>a, <2>c DEF ThreadInv, WalkInv
  <2>7. Covered \subseteq Covered'
    BY Zenon, <2>b, <2>f, <2>g, StillCovered
  <2>1. OnlyOf(t)
    BY Zenon, <2>b, <2>c, <2>d, <2>e, <2>f, <2>7 DEF OnlyOf, Importing
  <2>2. TransferTypeInv'
    BY Zenon, <2>a, <2>d, <2>f DEF TransferTypeInv
  <2>3. WalkInv(t)'
    BY <2>c, <2>d DEF WalkInv, ImportPlaces, NoWalk
  <2>4. FileInv(t)'
    BY Zenon, <2>c DEF FileInv, Importing
  <2>5. CopyInv(t)'
    BY Zenon, <2>c DEF CopyInv
  <2>6. ExportInv(t)'
    BY Zenon, <2>c DEF ExportInv
  <2>8. \A g \in imported' : g \in imported \/ (g \in exists' /\ Whole(g)')
    BY Zenon, <2>f
  <2>9. exported' \subseteq exported \cup Covered
    BY Zenon, <2>a, <2>c, <2>f DEF ThreadInv, ExportInv
  <2> QED BY Zenon, <2>1, <2>2, <2>3, <2>4, <2>5, <2>6, <2>8, <2>9, OwnIsEnough DEF ThreadInv
<1>22. ASSUME LayerSteps, UNCHANGED transfer PROVE TInv'
  <2>1. /\ exists \subseteq exists'
        /\ \A t \in Threads : pc[t] \in ImportPlaces \/ pc'[t] \in ImportPlaces =>
              pc'[t] = pc[t] /\ loc'[t].file = loc[t].file
    BY Zenon, <1>22, LayerStepsAlone
  <2>2. /\ volume' = volume /\ walk' = walk /\ mounts' = mounts /\ dest' = dest
        /\ broken' = broken /\ imported' = imported /\ exported' = exported
    BY Zenon, <1>22 DEF transfer
  <2>3. Covered' = Covered
    BY Zenon, <2>2 DEF Covered, InHand
  <2>4. ASSUME NEW t \in Threads PROVE ThreadInv(t)'
    <3>1. ThreadInv(t) /\ (pc[t] \in ImportPlaces \/ pc'[t] \in ImportPlaces =>
                              pc'[t] = pc[t] /\ loc'[t].file = loc[t].file)
      BY Zenon, <1>b, <2>1, <2>4
    <3>2. WalkInv(t)'
      <4>1. walk[t].entry # None => pc'[t] = pc[t]
        BY Zenon, <3>1 DEF ThreadInv, WalkInv, ImportPlaces
      <4> QED BY Zenon, <2>2, <3>1, <4>1 DEF ThreadInv, WalkInv, ImportPlaces
    <3>3. FileInv(t)'
      BY Zenon, <2>1, <2>2, <3>1 DEF ThreadInv, FileInv, Importing, ImportPlaces
    <3>4. CopyInv(t)'
      BY Zenon, <2>2, <3>1 DEF ThreadInv, CopyInv, Whole, ImportPlaces
    <3>5. ExportInv(t)'
      BY Zenon, <2>2, <2>3, <3>1 DEF ThreadInv, ExportInv, Wanted, ImportPlaces
    <3> QED BY Zenon, <3>2, <3>3, <3>4, <3>5 DEF ThreadInv
  <2>5. ImportedWhole' /\ TransferTypeInv'
    BY Zenon, <1>b, <2>1, <2>2 DEF ImportedWhole, TransferTypeInv
  <2> QED BY Zenon, <2>2, <2>3, <2>4, <2>5 DEF TInv
<1>23. ASSUME TransfersDie PROVE TInv'
  <2>1. /\ exists' = exists /\ walk' = [t \in Threads |-> NoWalk] /\ volume' = volume
        /\ mounts' = {} /\ dest' = dest /\ broken' = broken \cup InHand(Threads)
        /\ imported' = imported /\ exported' = exported
        /\ \A t \in Threads : pc'[t] = "idle"
    BY Zenon, <1>23, <1>a DEF TransfersDie, ProcessDies, Dies, LayerFacts
  <2>2. TransferTypeInv'
    BY Zenon, <1>b, <2>1 DEF TransferTypeInv, NoWalk, Walks
  <2>3. ASSUME NEW t \in Threads PROVE ThreadInv(t)'
    <3>1. walk'[t] = NoWalk /\ pc'[t] = "idle" /\ t \notin mounts'
      BY Zenon, <2>1, <2>3
    <3> QED BY <3>1 DEF ThreadInv, WalkInv, FileInv, CopyInv, ExportInv, Importing,
          ImportPlaces, NoWalk
  <2>4. ImportedWhole' /\ exported' \subseteq Covered'
    BY Zenon, <1>b, <2>1 DEF ImportedWhole, TInv, Covered
  <2> QED BY Zenon, <2>2, <2>3, <2>4 DEF TInv
<1> QED
  BY Zenon, <1>1, <1>2, <1>3, <1>4, <1>5, <1>6, <1>7, <1>8, <1>9, <1>10, <1>11, <1>12, <1>13, <1>14,
     <1>15, <1>16, <1>17, <1>18, <1>19, <1>20, <1>21, <1>22, <1>23
     DEF TransferNext, TransferSteps, RootEntries

(* The invariant holds at the start.                                        *)
LEMMA TInvInit == TransferInit => TInv
<1> SUFFICES ASSUME TransferInit PROVE TInv
  BY Zenon
<1>1. /\ pc = [t \in Actors |-> "idle"] /\ walk = [t \in Threads |-> NoWalk]
      /\ volume \in [Files -> {{}, Internals \cup Source}]
      /\ mounts = {} /\ dest = {} /\ broken = {} /\ exported = {} /\ imported = {}
  BY Zenon DEF TransferInit, Init
<1>2. TransferTypeInv
  BY Zenon, <1>1 DEF TransferTypeInv, Walks, NoWalk, RootEntries
<1>3. ASSUME NEW t \in Threads PROVE ThreadInv(t)
  <2>1. walk[t] = NoWalk /\ pc[t] = "idle" /\ t \notin mounts
    BY Zenon, <1>1, <1>3 DEF Actors
  <2> QED BY <2>1 DEF ThreadInv, WalkInv, FileInv, CopyInv, ExportInv, Importing,
        ImportPlaces, NoWalk
<1> QED BY Zenon, <1>1, <1>2, <1>3 DEF TInv, ImportedWhole

(* A step that changes nothing keeps the invariant.                         *)
LEMMA TInvStutter ==
    ASSUME TInv, UNCHANGED <<vars, transfer>>
    PROVE  TInv'
<1>1. /\ exists' = exists /\ pc' = pc /\ loc' = loc /\ volume' = volume /\ walk' = walk
      /\ mounts' = mounts /\ dest' = dest /\ broken' = broken /\ exported' = exported
      /\ imported' = imported
  BY Zenon DEF vars, transfer
<1>2. Covered' = Covered
  BY Zenon, <1>1 DEF Covered, InHand
<1>3. ASSUME NEW t \in Threads, ThreadInv(t) PROVE ThreadInv(t)'
  <2>1. WalkInv(t)'
    BY Zenon, <1>1, <1>3 DEF ThreadInv, WalkInv
  <2>2. FileInv(t)'
    BY Zenon, <1>1, <1>3 DEF ThreadInv, FileInv
  <2>3. CopyInv(t)' /\ ExportInv(t)'
    BY Zenon, <1>1, <1>2, <1>3 DEF ThreadInv, CopyInv, ExportInv, Whole, Wanted
  <2> QED BY Zenon, <2>1, <2>2, <2>3 DEF ThreadInv
<1> QED BY Zenon, <1>1, <1>2, <1>3 DEF TInv, TransferTypeInv, ImportedWhole

(* A step of an import or export is a step of VhdLayers or leaves its       *)
(* variables alone.                                                         *)
LEMMA TransferStepIsLayerStep == [TransferNext]_<<vars, transfer>> => [Next]_vars
<1> SUFFICES ASSUME [TransferNext]_<<vars, transfer>> PROVE [Next]_vars
  BY Zenon
<1>1. ASSUME NEW t \in Threads, TransferSteps(t) PROVE WholeVolumeSteps(t) \/ UNCHANGED vars
  <2>1. CASE \/ \E f \in Files : ImportStart(t, f) \/ ExportStart(t, f)
             \/ ImportAttached(t) \/ ImportReturns(t) \/ Discards(t) \/ DiscardReturns(t)
             \/ ExportReturns(t)
    BY Zenon, <2>1 DEF WholeVolumeSteps, ImportStart, ExportStart, ImportAttached, ImportReturns,
       Discards, DiscardReturns, ExportReturns
  <2>2. CASE \/ InitializeVHD(t) \/ FindNewVolume(t) \/ FormatVolume(t)
             \/ InitializeVHDDiskpart(t)
    BY Zenon, <2>2 DEF InitializeVHD, FindNewVolume, FormatVolume, InitializeVHDDiskpart, Formats
  <2>3. CASE Mount(t) \/ MountThrows(t) \/ ListVolume(t) \/ Copied(t) \/ Unmount(t)
    BY Zenon, <2>3 DEF Mount, MountThrows, ListVolume, Copied, Unmount
  <2>4. CASE CopyReplaces(t) \/ CopyTree(t) \/ CopyTreeFails(t)
    BY Zenon, <2>4 DEF CopyReplaces, CopyTree, CopyTreeFails
  <2>5. CASE \E e \in Source \cup Internals : CopyRootEntry(t, e) \/ NextRootEntry(t, e)
    BY Zenon, <2>5 DEF CopyRootEntry, NextRootEntry
  <2> QED BY Zenon, <1>1, <2>1, <2>2, <2>3, <2>4, <2>5 DEF TransferSteps
<1> QED BY Zenon, <1>1 DEF TransferNext, LayerSteps, TransfersDie, Next

(* Imports and exports, step by step, implement the calls of VhdLayers,     *)
(* which takes the copying between the attach and the detach as one place.  *)
THEOREM TransfersImplementLayers == TransferSpec => Spec
<1>1. TransferInit => Init
  BY Zenon DEF TransferInit
<1> QED BY <1>1, TransferStepIsLayerStep, PTL DEF TransferSpec, Spec

(* So both invariants hold of every behaviour with transfers.               *)
LEMMA TransfersInvariant == TransferSpec => [](IInv /\ TInv)
<1>1. TransferInit => IInv /\ TInv
  BY Zenon, InductiveInit, TInvInit DEF TransferInit
<1>2. IInv /\ TInv /\ [TransferNext]_<<vars, transfer>> => (IInv /\ TInv)'
  <2> SUFFICES ASSUME IInv, TInv, [TransferNext]_<<vars, transfer>> PROVE IInv' /\ TInv'
    BY Zenon
  <2>1. IInv'
    BY Zenon, TransferStepIsLayerStep, InductiveStep
  <2> QED BY Zenon, <2>1, TInvStep, TInvStutter
<1> QED BY <1>1, <1>2, PTL DEF TransferSpec

(* A file whose import reported success holds every entry of the directory  *)
(* but its sidecar, for any number of threads, files and entries            *)
(* (ImportDirectory).                                                       *)
THEOREM ImportsAreWhole == TransferSpec => []ImportedWhole
<1>1. TInv => ImportedWhole
  BY Zenon DEF TInv
<1> QED BY <1>1, TransfersInvariant, PTL

(* An entry that an export reported copied stays whole in the destination   *)
(* for good, through any overlap of exports and any death of the process,   *)
(* but for an export that is at that entry or broke off in it               *)
(* (ExportToDirectory, CopyTree).                                           *)
THEOREM ExportsAreExact == TransferSpec => []ExportedExactly
<1>1. TInv => ExportedExactly
  BY Zenon DEF TInv, ExportedExactly, Covered
<1> QED BY <1>1, TransfersInvariant, PTL

(* A transfer past its unmount whose volume is mounted still reports an     *)
(* error, however it got there (TempMount, ImportDirectory,                 *)
(* ExportToDirectory).                                                      *)
THEOREM TransfersLeaveNothing == TransferSpec => []NothingLeftBehind
<1>1. TInv => NothingLeftBehind
  BY Zenon DEF TInv, TransferTypeInv, ThreadInv, WalkInv, NothingLeftBehind
<1> QED BY <1>1, TransfersInvariant, PTL
=============================================================================
