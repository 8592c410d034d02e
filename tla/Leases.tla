------------------------------- MODULE Leases -------------------------------
(***************************************************************************)
(* What package internal/lock promises to its callers, without mutexes,    *)
(* workers or errors: a backend lease excludes every lease taken after it  *)
(* except a staging lease, a mutation lease excludes everything, and a     *)
(* staging lease tolerates only the backend that was already running.      *)
(***************************************************************************)
CONSTANT Worker

VARIABLE holding    \* the lease each caller has open, or "none"

LeaseKind == {"backend", "mutation", "staging"}

Init == holding = [w \in Worker |-> "none"]

(* The leases a new lease of kind l may find open elsewhere.               *)
Tolerates(l) == IF l = "staging" THEN {"none", "backend"} ELSE {"none"}

Acquire(w, l) ==
  /\ holding[w] = "none"
  /\ \A v \in Worker : holding[v] \in Tolerates(l)
  /\ holding' = [holding EXCEPT ![w] = l]

(* A lease ends when its caller closes it, closes the Set, or dies.        *)
Release(w) ==
  /\ holding[w] # "none"
  /\ holding' = [holding EXCEPT ![w] = "none"]

Next == \E w \in Worker : Release(w) \/ \E l \in LeaseKind : Acquire(w, l)

Spec == Init /\ [][Next]_holding
=============================================================================
