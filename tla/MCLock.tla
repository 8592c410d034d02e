------------------------------- MODULE MCLock -------------------------------
(* Two workers are a holder and a contender, a process that probes, or two *)
(* that took one mutex each; the theorems have any number of them.         *)
EXTENDS Lock
=============================================================================
