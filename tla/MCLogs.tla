------------------------------- MODULE MCLogs -------------------------------
(* Logs with two threads and two processes. *)
EXTENDS Logs
=============================================================================
