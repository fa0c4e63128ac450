--------------------------- MODULE MCHandleTable ---------------------------
(***************************************************************************)
(* HandleTable with two-bit magic, generation and slot: slots 1 to 3 and   *)
(* generations 1 to 3, so that every slot fills, recycles and retires.     *)
(***************************************************************************)
EXTENDS HandleTable, TLC

CONSTANTS p1, p2

MCPayload == {p1, p2}

(* The null handle, a value of another table, the slot that no table has,  *)
(* and a slot that the table may not have yet.                             *)
MCForeign == {0, Encode(2, 1, 1), Encode(1, 1, 0), Encode(1, 1, 3)}

Symmetry == Permutations(MCPayload)
=============================================================================
