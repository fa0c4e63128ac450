---------------------------- MODULE MCStagedCopy ----------------------------
(* A directory with a sparse file that has extended attributes and, in a   *)
(* directory of its own, a placeholder whose data is elsewhere; a file     *)
(* with streams; a link.                                                   *)
EXTENDS StagedCopy

dir  == <<"d">>
fileX == <<"d", "x">>
subDir == <<"d", "s">>
fileY == <<"d", "s", "y">>
fileZ == <<"z">>
link == <<"l">>
newDir == <<"e">>

Base == [kind |-> "file", data |-> {}, alloc |-> {}, remote |-> FALSE, sparse |-> FALSE,
         streams |-> <<>>, eas |-> <<>>, crypt |-> FALSE, compressed |-> FALSE,
         readonly |-> FALSE]

MCLower ==
    (dir   :> [Base EXCEPT !.kind = "directory", !.compressed = TRUE, !.readonly = TRUE])
    @@ (fileX :> [Base EXCEPT !.data = {0, 2}, !.alloc = {0, 2}, !.sparse = TRUE,
                              !.eas = <<"kernel", "user">>, !.readonly = TRUE])
    @@ (subDir :> [Base EXCEPT !.kind = "directory", !.crypt = TRUE])
    @@ (fileY :> [Base EXCEPT !.data = {1}, !.sparse = TRUE, !.remote = TRUE,
                              !.crypt = TRUE])
    @@ (fileZ :> [Base EXCEPT !.data = {0}, !.alloc = {0}, !.streams = <<"s", "t">>])
    @@ (link  :> [Base EXCEPT !.kind = "link", !.eas = <<"user">>])

MCRenames == {<<dir, newDir>>, <<newDir, dir>>, <<fileY, fileX>>, <<link, <<"d", "l">>>>}

(* NTFS, a file system without streams, and one with none of the three. *)
Host(ads, sparse, eas) == [ads |-> ads, sparse |-> sparse, eas |-> eas]
NtfsHost == Host(TRUE, TRUE, TRUE)
NoStreamHost == Host(FALSE, TRUE, TRUE)
PlainHost == Host(FALSE, FALSE, FALSE)

Start(h, copied, gone) == [host |-> h, copied |-> copied, hidden |-> gone]

(* Bound: nothing is in the upper, or a part of the directory is, or the    *)
(* view has lost it; without streams the file that needs them is hidden     *)
(* when it is not the subject.                                              *)
MCStarts ==
    {Start(NtfsHost, {}, {}), Start(PlainHost, {}, {fileZ})}
    \cup {Start(h, {dir, subDir, fileY}, {link, fileZ}) : h \in {NtfsHost, NoStreamHost}}
    \cup {Start(h, {}, {dir, fileX, subDir, fileY}) : h \in {NtfsHost, NoStreamHost, PlainHost}}

MCFresh == {fileX, newDir}
=============================================================================
