---------------------------- MODULE MCGuardedMap ----------------------------
(* GuardedMap with a few threads and keys. *)
EXTENDS GuardedMap

CONSTANTS t1, t2, t3
=============================================================================
