--------------------------- MODULE MCVssSnapshots ---------------------------
(* Instance of VssSnapshots: two threads, three snapshots, one handle slot. *)
EXTENDS VssSnapshots, TLC

CONSTANTS t1, t2, i1, i2, i3

MCSymmetry == Permutations({t1, t2}) \cup Permutations({i1, i2, i3})
=============================================================================
