------------------------------ MODULE MCRawQueue ------------------------------
(* RawQueue with few threads and elements. *)
EXTENDS RawQueue

CONSTANTS g1, g2, p1, s1, a, b
==============================================================================
