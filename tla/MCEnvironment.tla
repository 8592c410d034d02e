---------------------------- MODULE MCEnvironment ----------------------------
(***************************************************************************)
(* Environment with one commit of each of two versions: a switch between   *)
(* them is what makes a record foreign to the environment.                 *)
(***************************************************************************)
EXTENDS Environment, TLC

CONSTANTS r1, r2, v1, v2

MCVersionOf == r1 :> v1 @@ r2 :> v2
=============================================================================
