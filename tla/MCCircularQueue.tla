--------------------------- MODULE MCCircularQueue ---------------------------
(* CircularQueue on small rings, with headers of 2 or 3 bytes. *)
EXTENDS CircularQueue, TLC

CONSTANTS p1, p2, g1, g2, s1

\* An empty body, one of each length that fits a ring of 5 bytes, and one that never does.
MixedMessages == {<< >>, <<11>>, <<21, 22>>, <<91, 92, 93, 94, 95>>}

\* Bodies that fit once each in a ring of 5 bytes.
TwoMessages == {<<11>>, <<21, 22>>}

\* On a segment of 9 bytes with 3-byte headers: bodies of 1, 2, 3 and 6 bytes
\* (the last one fills the ring alone) reach every write case and every cut of
\* header and body.
EveryCut == {<<11>>, <<21, 22>>, <<31, 32, 33>>, <<61, 62, 63, 64, 65, 66>>}

Symmetry == Permutations({p1, p2}) \cup Permutations({g1, g2})
==============================================================================
