---------------------------- MODULE MCStateFiles ----------------------------
(***************************************************************************)
(* StateFiles on a volume without POSIX unlink, where a reader can delay   *)
(* what a writer deletes; three payloads are an old object, the one that   *)
(* replaces it and one more after a crash.                                 *)
(***************************************************************************)
EXTENDS StateFiles

CONSTANTS p1, p2
=============================================================================
