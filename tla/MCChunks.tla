------------------------------- MODULE MCChunks -------------------------------
(* Two upstreams and a file of three pieces of 2, 2 and 1 units.      *)
EXTENDS Chunks

CONSTANTS u1, u2

MCListed == <<u1, u2>>
=============================================================================
