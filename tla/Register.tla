------------------------------ MODULE Register ------------------------------
(***************************************************************************)
(* What a runtime-state file promises to the commands that share it        *)
(* (filesystem.StateFiles behind state.Store): one object that is replaced *)
(* or erased at a single moment within the call, whatever fails or dies,   *)
(* and a report that is true of what the call has done.                    *)
(***************************************************************************)
CONSTANTS Client, Object, Nothing

VARIABLES
  content,   \* the object the file is, or Nothing
  call,      \* the call of each client: op, its object and its effect
  report     \* what the last call of each client told its caller

vars == <<content, call, report>>

Idle == [op |-> "idle", object |-> Nothing, effect |-> FALSE]

Init ==
  /\ content = Nothing
  /\ call = [c \in Client |-> Idle]
  /\ report = [c \in Client |-> "none"]

Call(c, op, o) ==
  /\ call[c] = Idle
  /\ call' = [call EXCEPT ![c] = [op |-> op, object |-> o, effect |-> FALSE]]
  /\ UNCHANGED <<content, report>>

Effect(c, op) == call[c].op = op /\ ~call[c].effect

Observe(c) ==
  /\ Effect(c, "read")
  /\ call' = [call EXCEPT ![c].object = content, ![c].effect = TRUE]
  /\ UNCHANGED <<content, report>>

Replace(c) ==
  /\ Effect(c, "write")
  /\ content' = call[c].object
  /\ call' = [call EXCEPT ![c].effect = TRUE]
  /\ UNCHANGED report

(* Only the object of the caller's snapshot is ever erased.                *)
Erase(c) ==
  /\ Effect(c, "remove")
  /\ content = call[c].object
  /\ content' = Nothing
  /\ call' = [call EXCEPT ![c].effect = TRUE]
  /\ UNCHANGED report

(* A write knows what it did; a remove may not, and says so.               *)
True(c, r) ==
  CASE r = "applied" -> call[c].op \in {"write", "remove"} /\ call[c].effect
    [] r = "unapplied" -> call[c].op = "read" \/ ~call[c].effect
    [] r = "unsure" -> call[c].op = "write" => ~call[c].effect
    [] r = "value" -> call[c].op = "read" /\ call[c].effect

Return(c, r) ==
  /\ call[c].op # "idle" /\ True(c, r)
  /\ call' = [call EXCEPT ![c] = Idle]
  /\ report' = [report EXCEPT ![c] = r]
  /\ UNCHANGED content

(* The process of a client dies; another one takes its place.              *)
Die(c) ==
  /\ call' = [call EXCEPT ![c] = Idle]
  /\ report' = [report EXCEPT ![c] = "none"]
  /\ UNCHANGED content

Next ==
  \E c \in Client :
    \/ \E op \in {"read", "write", "remove"}, o \in Object \cup {Nothing} : Call(c, op, o)
    \/ Observe(c) \/ Replace(c) \/ Erase(c) \/ Die(c)
    \/ \E r \in {"applied", "unapplied", "unsure", "value"} : Return(c, r)

Spec == Init /\ [][Next]_vars
=============================================================================
