--------------------------- MODULE MCEventEmitter ---------------------------
(***************************************************************************)
(* EventEmitter with three threads and three registrations: two clears may *)
(* overlap with a call, and a callback may be replaced and set again.      *)
(***************************************************************************)
EXTENDS EventEmitter

CONSTANTS t1, t2, t3, r1, r2, r3

MCThreads == {t1, t2, t3}
MCRegistrations == {r1, r2, r3}
=============================================================================
