------------------------------- MODULE Health -------------------------------
(***************************************************************************)
(* Checker.Check (internal/health) over a managed process.  Between the    *)
(* start and the cleanup of Managed the supervisor asks the health address *)
(* until ConsecutiveSuccesses answers in a row are ready and the Job holds *)
(* the tree.  A request and a probe run in goroutines of their own, which  *)
(* Check joins on every path.                                              *)
(*                                                                         *)
(* Whoever listens on the address answers: an answer says nothing about    *)
(* the processes of the Job.                                               *)
(***************************************************************************)
EXTENDS Managed, Sequences

CONSTANTS ConsecutiveSuccesses, MaxProbeErrors

ASSUME HealthAssumption ==
  ConsecutiveSuccesses \in Nat \ {0} /\ MaxProbeErrors \in Nat \ {0}

VARIABLES
  check,      \* where Check is
  helper,     \* its goroutine: off, asking, probing, or what it has to say
  expired,    \* the timer of the whole check has fired
  successes, probeErrors,
  rounds      \* what the last requests came to, kept by the goroutines

hvars == <<check, helper, expired, successes, probeErrors, rounds>>
counts == <<successes, probeErrors, rounds>>

Answer == {"none", "invalid", "starting", "ready"}
Finding == {"error", "healthy", "unhealthy"}

HInit ==
  /\ check = "off" /\ helper = "off"
  /\ expired = FALSE
  /\ successes = 0 /\ probeErrors = 0
  /\ rounds = <<>>

Stops == Is("cancelled") \/ Is("exited") \/ expired
Checks(from, to) == check = from /\ check' = to

----------------------------------------------------------------------------
Begin ==
  /\ at = "run" /\ Checks("off", "loop")
  /\ UNCHANGED <<helper, expired, counts>>

Expire ==
  /\ ~expired /\ check \notin {"off", "ready", "failed", "over"}
  /\ expired' = TRUE
  /\ UNCHANGED <<check, helper, counts>>

GiveUp(from) == Stops /\ Checks(from, "failed") /\ UNCHANGED <<helper, expired, counts>>

Request ==
  /\ ~Stops /\ Checks("loop", "request")
  /\ helper' = "asking"
  /\ rounds' = IF Len(rounds) < ConsecutiveSuccesses
               THEN Append(rounds, "open") ELSE Append(Tail(rounds), "open")
  /\ UNCHANGED <<expired, successes, probeErrors>>

(* The transport: an answer, or an error when there is none or when the    *)
(* request was cancelled.                                                  *)
Reply(a) ==
  /\ helper = "asking"
  /\ check = "request" \/ a = "none"
  /\ helper' = a
  /\ UNCHANGED <<check, expired, counts>>

(* The check is to stop or the timer of the request fires: request gives   *)
(* the answer up, but waits for the goroutine.                             *)
Abandon ==
  /\ Checks("request", "drain")
  /\ UNCHANGED <<helper, expired, counts>>

(* The count starts again after a round that showed nothing.               *)
Mutant_Again == check' = "wait" /\ UNCHANGED successes
Again == check' = "wait" /\ successes' = 0

Drained ==
  /\ check = "drain" /\ helper \in Answer
  /\ helper' = "off"
  /\ IF Stops THEN check' = "failed" /\ UNCHANGED successes ELSE Again
  /\ UNCHANGED <<expired, probeErrors, rounds>>

(* completedRequestResult: an answer does not count when anything that     *)
(* ends the request, the timer of the request included, has happened too.  *)
Completed ==
  /\ check = "request" /\ helper \in Answer
  /\ \/ Stops /\ check' = "failed" /\ helper' = "off" /\ UNCHANGED successes
     \/ ~Stops /\ helper' = "off" /\ Again
     \/ /\ ~Stops /\ helper # "none"
        /\ check' = "inspect"
        /\ UNCHANGED <<helper, successes>>
  /\ UNCHANGED <<expired, probeErrors, rounds>>

(* inspectResponse: a wrong status, body or identity ends the check.       *)
Inspect ==
  /\ check = "inspect"
  /\ \/ /\ Stops \/ helper = "invalid"
        /\ check' = "failed" /\ helper' = "off" /\ UNCHANGED successes
     \/ ~Stops /\ helper = "starting" /\ helper' = "off" /\ Again
     \/ /\ ~Stops /\ helper = "ready"
        /\ check' = "probe" /\ helper' = "probing"
        /\ UNCHANGED successes
  /\ UNCHANGED <<expired, probeErrors, rounds>>

(* processProbe.Healthy: a snapshot of the Job with the root and a python  *)
(* of ours below it; the queries behind it may fail on a short-lived child.*)
Found == IF Member \subseteq InJob THEN "healthy" ELSE "unhealthy"

Probe(f) ==
  /\ helper = "probing"
  /\ f \in {"error", Found}
  /\ helper' = f
  /\ rounds' = IF f = "healthy" THEN [rounds EXCEPT ![Len(rounds)] = "good"] ELSE rounds
  /\ UNCHANGED <<check, expired, successes, probeErrors>>

AbandonProbe ==
  /\ Stops /\ Checks("probe", "join")
  /\ UNCHANGED <<helper, expired, counts>>

ProbeJoined ==
  /\ helper \in Finding /\ Checks("join", "failed")
  /\ helper' = "off"
  /\ UNCHANGED <<expired, counts>>

ProbeStops ==
  /\ helper \in Finding /\ Stops
  /\ Checks("probe", "failed")
  /\ helper' = "off"
  /\ UNCHANGED <<expired, counts>>

Decide ==
  /\ check = "probe" /\ helper \in Finding /\ ~Stops
  /\ helper' = "off"
  /\ \/ helper = "unhealthy" /\ check' = "failed" /\ UNCHANGED <<successes, probeErrors>>
     \/ /\ helper = "error"
        /\ probeErrors' = probeErrors + 1
        /\ IF probeErrors' >= MaxProbeErrors
           THEN check' = "failed" /\ UNCHANGED successes
           ELSE Again
     \/ /\ helper = "healthy"
        /\ probeErrors' = 0
        /\ successes' = successes + 1
        /\ check' = IF successes' >= ConsecutiveSuccesses THEN "ready" ELSE "wait"
  /\ UNCHANGED <<expired, rounds>>

Poll == Checks("wait", "loop") /\ UNCHANGED <<helper, expired, counts>>

Helper == (\E a \in Answer : Reply(a)) \/ (\E f \in Finding : Probe(f))

Checking ==
  \/ Begin \/ GiveUp("loop") \/ GiveUp("wait") \/ Request \/ Abandon \/ Drained
  \/ Completed \/ Inspect \/ AbandonProbe \/ ProbeJoined \/ ProbeStops \/ Decide \/ Poll

----------------------------------------------------------------------------
(* What Check has counted is gone when it has returned.                    *)
Return ==
  /\ check \in {"ready", "failed"} /\ check' = "over"
  /\ helper' = helper /\ expired' = FALSE
  /\ successes' = 0 /\ probeErrors' = 0 /\ rounds' = <<>>

Next ==
  \/ (Starter \/ Running \/ Cleanup) /\ UNCHANGED hvars
  \/ BeginCleanup /\ Return
  \/ (Checking \/ Helper \/ Expire) /\ UNCHANGED mvars

Init == MInit /\ HInit

vars == <<mvars, hvars>>

(* The goroutines that the liveness of an attempt rests on run: the start  *)
(* and the watcher.                                                        *)
Spec ==
  /\ Init /\ [][Next]_vars
  /\ WF_vars(Starter /\ UNCHANGED hvars)
  /\ WF_vars(Watcher /\ UNCHANGED hvars)

TypeOK ==
  /\ MTypeOK
  /\ check \in {"off", "loop", "request", "drain", "inspect", "probe", "join", "wait",
                "ready", "failed", "over"}
  /\ helper \in {"off", "asking", "probing"} \cup Answer \cup Finding
  /\ expired \in BOOLEAN
  /\ successes \in 0..ConsecutiveSuccesses
  /\ probeErrors \in 0..MaxProbeErrors
  /\ rounds \in Seq({"open", "good"}) /\ Len(rounds) <= ConsecutiveSuccesses

(* Check: a backend is ready after ConsecutiveSuccesses requests in a row  *)
(* each of which was answered ready while the whole tree was in the Job,   *)
(* and no request and no probe of a check outlives it.                     *)
ReadyIsEarned ==
  /\ check = "ready" =>
       Len(rounds) = ConsecutiveSuccesses /\ \A i \in DOMAIN rounds : rounds[i] = "good"
  /\ check \in {"ready", "failed"} => helper = "off"
=============================================================================
