---------------------------- MODULE MCLayerImage ----------------------------
(***************************************************************************)
(* A small instance of LayerImage: a directory d with one place in it, and *)
(* a sidecar with one record.  An older writer packed a sidecar under its  *)
(* long and its short name, and told of a deleted path in the metadata     *)
(* only; the base that its image meets has a sidecar.                      *)
(***************************************************************************)
EXTENDS LayerImage, TLC

CONSTANTS d, f, overlay, empty, x, y

MCName == {d, f, overlay}
MCPath == {<< >>, <<d>>, <<d, f>>, <<overlay>>, <<overlay, f>>}
MCData == {empty, x, y}
MCNewData == {empty, y}
MCFresh == [data |-> empty, time |-> 0]
MCTag == [data : MCData, time : 0 .. (MaxTime + 1)]
MCSidecar == <<overlay>>

At(what, path) == [what |-> what, path |-> path]

MCWalk == <<At("wh", <<d>>), At("entry", <<d>>), At("opq", <<d>>), At("wh", <<d, f>>),
            At("entry", <<d, f>>), At("wh", <<overlay>>), At("entry", <<overlay>>),
            At("entry", <<overlay, f>>)>>

Dir == [kind |-> "dir", tag |-> MCFresh]
File(data) == [kind |-> "file", tag |-> [data |-> data, time |-> 0]]

Tree(t, wh, opq) ==
    [tree |-> [p \in MCPath |-> IF p = << >> THEN Dir
                                ELSE IF p \in DOMAIN t THEN t[p] ELSE NoEntry],
     wh |-> wh, opq |-> opq]

WithSidecar == (<<overlay>> :> Dir) @@ (<<overlay, f>> :> File(x))

Plain == Tree((<<d>> :> Dir) @@ (<<d, f>> :> File(x)) @@ WithSidecar, {}, {})

Marked == Tree((<<d>> :> Dir) @@ WithSidecar, {<<d, f>>}, {<<d>>})

OldImage ==
    [exists |-> TRUE, header |-> "full", whiteouts |-> <<<<overlay>>, <<d, f>>>>, data |-> "whole",
     items |-> <<Archived(At("entry", <<overlay>>), TRUE, MCFresh),
                 Archived(At("entry", <<overlay, f>>), FALSE, [data |-> y, time |-> 0]),
                 Archived(At("short", <<overlay, f>>), FALSE, [data |-> y, time |-> 0])>>]

(* Bound: two changes in the first start, one in the second. *)
MCStarts ==
    {[src |-> Plain, base |-> EmptyDirectory, img |-> NoImage, now |-> 0],
     [src |-> Marked, base |-> Tree(WithSidecar, {}, {}), img |-> OldImage, now |-> 1]}
=============================================================================
