----------------------------- MODULE Activation -----------------------------
(***************************************************************************)
(* What the workspace promises to the backend and to the caller, without   *)
(* directories, transactions or crashes: there is one active revision, it  *)
(* is replaced in one step and never under a running backend, it is lost   *)
(* only with its tree, and a backend starts only on the revision the       *)
(* environment was prepared for.                                           *)
(***************************************************************************)
CONSTANTS Commit, None

VARIABLES
  active,     \* the revision a recovery would leave in repo, or None
  intact,     \* its tree can be read
  readyFor,   \* the revision the environment is declared ready for, or None
  running     \* the revision of the running backend, or None

vars == <<active, intact, readyFor, running>>

Init == active = None /\ intact = TRUE /\ readyFor = None /\ running = None

Switch(c) ==
  /\ running = None
  /\ active' = c /\ intact' = TRUE
  /\ UNCHANGED <<readyFor, running>>

MakeReady ==
  /\ active # None /\ running = None
  /\ readyFor' = active
  /\ UNCHANGED <<active, intact, running>>

Invalidate ==
  /\ running = None
  /\ readyFor' = None
  /\ UNCHANGED <<active, intact, running>>

Start ==
  /\ running = None
  /\ active # None /\ readyFor = active
  /\ running' = active
  /\ UNCHANGED <<active, intact, readyFor>>

Stop == running' = None /\ UNCHANGED <<active, intact, readyFor>>

(* Something outside the runtime makes the active tree unreadable.         *)
Lose == active' = None /\ intact' = FALSE /\ UNCHANGED <<readyFor, running>>

Next ==
  \/ \E c \in Commit : Switch(c)
  \/ MakeReady \/ Invalidate \/ Start \/ Stop \/ Lose

Spec == Init /\ [][Next]_vars
=============================================================================
