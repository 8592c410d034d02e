------------------------------ MODULE MCHealth ------------------------------
(* One pipe and one line: the interleavings of a second pipe, without the  *)
(* check, are in MCManaged.cfg of module Managed.  Two successes as in the *)
(* code, and two errors of the probe instead of three: one that is         *)
(* forgotten, one that is not.                                             *)
EXTENDS Health
=============================================================================
