----------------------------- MODULE MCFileData -----------------------------
(* Instances of FileData: two threads, two blocks. *)
EXTENDS FileData

CONSTANTS t1, t2

(* A file above and a file below the size at which an open makes a shell,  *)
(* on an upper with sparse files and with streams.                         *)
MCLarge == {[large |-> TRUE, sparse |-> TRUE, ads |-> TRUE]}
MCSmall == {[large |-> FALSE, sparse |-> TRUE, ads |-> TRUE]}
=============================================================================
