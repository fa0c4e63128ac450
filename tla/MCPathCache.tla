---------------------------- MODULE MCPathCache ----------------------------
(* Instance of PathCache: a directory and a file in it, both in a lower,    *)
(* and a name that no lower has; two threads.                               *)
EXTENDS PathCache, TLC

CONSTANTS t1, t2

MCInside == {<<"d/f", "d">>}
MCSymmetry == Permutations({t1, t2})
=============================================================================
