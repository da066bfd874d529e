------------------------------ MODULE MCLocks ------------------------------
(* Locks with three users. *)
EXTENDS Locks

CONSTANTS u1, u2, u3
=============================================================================
