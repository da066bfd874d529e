---------------------------- MODULE MCNotifySet ----------------------------
(* NotifySet with a few threads. *)
EXTENDS NotifySet

CONSTANTS p1, p2, i1, s1

\* Memory that was never written, or that held a positive or a negative number.
AnyMemory == {-1, 0, 1}
=============================================================================
