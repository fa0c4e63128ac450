----------------------------- MODULE MCOverlay -----------------------------
(***************************************************************************)
(* A small instance of Overlay: two directories a and b with one place in  *)
(* each, two lowers, and lower stacks in which the lowers share a          *)
(* directory, whiteout each other and differ in kind.                      *)
(***************************************************************************)
EXTENDS Overlay, TLC

CONSTANTS a, b, x

MCName == {a, b, x}
MCPath == {<< >>, <<a>>, <<b>>, <<a, x>>, <<b, x>>}

(* A tag says which lower an entry comes from, and from which path. *)
MCFresh == <<0, << >>>>
MCTag == {MCFresh} \cup {<<i, p>> : i \in 1 .. NumLowers, p \in MCPath}

(* A lower whose entries are those of f, plus its root. *)
LowerOf(i, f, whited, opaque) ==
    [tree |-> [p \in MCPath |->
                 IF p = << >> THEN [kind |-> "dir", tag |-> <<i, p>>]
                 ELSE IF p \in DOMAIN f THEN [kind |-> f[p], tag |-> <<i, p>>]
                 ELSE NoEntry],
     wh   |-> whited,
     opq  |-> opaque]

Dir(p) == p :> "dir"
File(p) == p :> "file"

MCLowerStacks ==
    {(* directories that both lowers hold, and an opaque one *)
     <<LowerOf(1, Dir(<<a>>) @@ Dir(<<b>>), {}, {<<b>>}),
       LowerOf(2, Dir(<<a>>) @@ Dir(<<a, x>>) @@ Dir(<<b>>) @@ File(<<b, x>>), {}, {})>>,
     (* a file over a directory *)
     <<LowerOf(1, File(<<a>>) @@ Dir(<<b>>), {}, {}),
       LowerOf(2, Dir(<<a>>) @@ File(<<a, x>>) @@ Dir(<<b>>) @@ File(<<b, x>>), {}, {})>>,
     (* whiteouts of the nearer lower hide the farther one *)
     <<LowerOf(1, Dir(<<b>>), {<<a>>, <<b, x>>}, {}),
       LowerOf(2, Dir(<<a>>) @@ File(<<a, x>>) @@ Dir(<<b>>) @@ Dir(<<b, x>>), {}, {})>>}

(***************************************************************************)
(* Bound: at most MaxCalls calls start, so the overlay stops when idle.    *)
(***************************************************************************)
CONSTANT MaxCalls
VARIABLE calls

MCVars == <<vars, calls>>
MCInit == Init /\ calls = 0

MCBegin == calls < MaxCalls /\ Begin /\ calls' = calls + 1
MCAdvance == Advance /\ UNCHANGED calls
MCCrash == Crash /\ UNCHANGED calls

MCNext == MCBegin \/ MCAdvance \/ MCCrash

MCSpec == MCInit /\ [][MCNext]_MCVars /\ WF_MCVars(MCAdvance)
=============================================================================
