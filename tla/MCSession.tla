----------------------------- MODULE MCSession ------------------------------
(* The session with up to two control lines, and the log files of three    *)
(* processes.  The product of both is out of reach, so a run starts in two *)
(* kinds of states Spec reaches: either the others could not open a log    *)
(* and the session is at its beginning, or the session could not say hello *)
(* and the others are at their beginning.  Ids and the other processes are *)
(* interchangeable, and only safety is checked: the symmetry is sound.     *)
EXTENDS Session, TLC

Alone ==
  /\ SInit
  /\ today = Days
  /\ dir \in {[s \in {} |-> 0], [s \in {<<0, 0>>} |-> Room]}
  /\ open = [p \in Process |-> None]
  /\ log = [p \in Process |-> [Fresh EXCEPT !.at = IF p = Me THEN "off" ELSE "closed"]]

Silent ==
  /\ LInit
  /\ stdin = <<>>
  /\ main = [Unstarted EXCEPT !.at = "done", !.exit = "PRECONDITION"]
  /\ reader = [at |-> "off", line |-> None]
  /\ control = Uncontrolled
  /\ ctx = {}
  /\ output = [terminal |-> FALSE, broken |-> TRUE, next |-> 1, warnings |-> 0]
  /\ wire = <<>>
  /\ pipe = FALSE
  /\ written = [p \in Process |-> 0]

Symmetric == Permutations(Id) \cup Permutations(Process \ {Me})

MCSpec == (Alone \/ Silent) /\ [][Next]_<<svars, lvars>>
=============================================================================
