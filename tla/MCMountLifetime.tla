------------------------- MODULE MCMountLifetime -------------------------
(***************************************************************************)
(* MountLifetime with two threads, three instances, of which two pairs     *)
(* compete for a directory, and two file handles.                          *)
(***************************************************************************)
EXTENDS MountLifetime, TLC

CONSTANTS t1, t2, i1, i2, i3, d1, d2, d3, f1, f2

(* i1 and i2 have one upper, i2 and i3 one work directory. *)
MCWorkDir == i1 :> d1 @@ i2 :> d2 @@ i3 :> d2
MCUpperDir == i1 :> d3 @@ i2 :> d3 @@ i3 :> d1
=============================================================================
