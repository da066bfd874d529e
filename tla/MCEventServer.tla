---------------------------- MODULE MCEventServer ----------------------------
(* EventServer with few connections, bytes and calls. *)
EXTENDS EventServer

CONSTANT l1

OneOnly == [l \in {l1} |-> 1]
TwoSockets == {1, 2}
OneOrTwo == {1, 2}
Two == {2}
==============================================================================
