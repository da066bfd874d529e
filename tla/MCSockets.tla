----------------------------- MODULE MCSockets -----------------------------
(* Sockets with one or two connections. *)
EXTENDS Sockets
=============================================================================
