----------------------------- MODULE MCWorkspace -----------------------------
(***************************************************************************)
(* Workspace with two commits of one version, whose branch moves, and one  *)
(* commit of another version; two operations, which is as many as have     *)
(* directories at the same time plus the one that starts.                  *)
(***************************************************************************)
EXTENDS Workspace, TLC

CONSTANTS a1, a2, b1, va, vb, o1, o2

MCVersionOf == a1 :> va @@ a2 :> va @@ b1 :> vb
=============================================================================
