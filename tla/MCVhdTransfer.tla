--------------------------- MODULE MCVhdTransfer ---------------------------
(* Instance of VhdLayers with VhdTransfer: two threads, two disks, another  *)
(* process, a table of two handles with room for one more holder that a     *)
(* call still keeps; the imported directory has two entries and a sidecar.  *)
EXTENDS VhdTransfer, TLC

CONSTANTS t1, t2, h1, h2, h3, f1, f2

MCSymmetry ==
    Permutations({t1, t2}) \cup Permutations({h1, h2, h3}) \cup Permutations({f1, f2})

RegistryRests ==
    registry = Layers /\ \A t \in Actors : pc[t] \notin {"lock", "load", "save", "unlock"}

HandlesRest == live = {} /\ \A t \in Threads : loc[t].handle = None

TransfersRest == \A t \in Threads : walk[t] = NoWalk

DirectoryRests == dest = {} /\ broken = {} /\ exported = {} /\ InHand(Threads) = {}

NoImport == \A t \in Threads : pc[t] \notin {"import", "copy", "remove"}

(* Bound: the registry shares no state with the disks, nor the directory of *)
(* the exports with handles and imports.  So the registry is followed while *)
(* there is no disk, handles and imports while there is at most one disk    *)
(* and no export has begun to copy, and two exports while nothing else runs. *)
MCOneAtATime ==
    \/ exists = {} /\ HandlesRest /\ TransfersRest /\ DirectoryRests
    \/ /\ RegistryRests /\ Cardinality(exists) <= 1 /\ DirectoryRests
       /\ TransfersRest \/ Cardinality(live) <= 1
    \/ RegistryRests /\ HandlesRest /\ NoImport
=============================================================================
