------------------------------- MODULE Rotation -------------------------------
(***************************************************************************)
(* The network sources of one download (mirror/ranker.go, probe.go,        *)
(* rank.go, rotation.go): every source is probed at the same time within   *)
(* one budget, the measurements put the sources in an order, and the       *)
(* sources are tried in this order until one of them succeeds.             *)
(*                                                                         *)
(* What an attempt does is given by its kind: the archive of uv is the     *)
(* subject of module Download; Python is installed by uv itself, which is  *)
(* given the source and succeeds or fails (uv/network.go).                 *)
(***************************************************************************)
EXTENDS Naturals, Sequences, SequencesExt

CONSTANTS
  Source,              \* the sources of the plan
  Catalog,             \* their order in the catalog
  MaxSourceAttempts,   \* attempts at one source before the next one
  None                 \* no source, no outcome

ASSUME CatalogAssumption ==
  Catalog \in Seq(Source) /\ IsInjective(Catalog) /\ ToSet(Catalog) = Source
ASSUME AttemptsAssumption == MaxSourceAttempts \in Nat \ {0}

VARIABLES
  rot,         \* where Rotator.Run, or Ranker.Plan before it, is
  kind,        \* kind of the plan
  pinned,      \* preferred source of the policy, or None
  probe,       \* the probe of each source
  received,    \* sources whose measurement was received
  silent,      \* the report of a probe failed
  budget,      \* the time of the probes has not run out
  plan,        \* the sources in the order of the attempts
  at,          \* index of the source being tried
  sourceTry,   \* number of this attempt at it
  outcome,     \* outcome of the attempt
  integrity,   \* an attempt failed the checksum
  cancelled,   \* the context of the command
  result,      \* how the run ended
  asked        \* history: attempts made at each source

ranking == <<pinned, probe, received, silent, budget>>
trying == <<plan, at, sourceTry, outcome, integrity, asked>>
rotVars == <<rot, kind, ranking, trying, cancelled, result>>

Kind == {"uv", "python"}
Outcome == {"succeeded", "retry", "switch", "integrity", "target"}

End(r) ==
  /\ rot' = "idle" /\ result' = r
  /\ UNCHANGED <<kind, trying, cancelled>>

Goto(pc) == rot' = pc /\ UNCHANGED <<kind, trying, cancelled, result>>

-----------------------------------------------------------------------------
(* Ranker.Plan: a plan measured less than half an hour ago is used again.  *)

Start(k) ==
  /\ rot = "idle"
  /\ kind' = k /\ result' = "none" /\ cancelled' = FALSE
  /\ pinned' \in Source \cup {None}
  /\ received' = {} /\ silent' = FALSE /\ budget' = TRUE
  /\ at' = 1 /\ sourceTry' = 1 /\ outcome' = None /\ integrity' = FALSE
  /\ asked' = [s \in Source |-> 0]
  /\ \/ rot' = "probe" /\ plan' = <<>> /\ probe' = [s \in Source |-> "running"]
     \/ /\ rot' = "next" /\ plan' \in SetToSeqs(Source)
        /\ probe' = [s \in Source |-> "none"]

(* probeSource, one goroutine for each source; its result is buffered.  A  *)
(* source that is being read when the time runs out has been measured.     *)
ProbeEnds(s) ==
  /\ probe[s] = "running"
  /\ \E p \in {"ok", "failed"} : probe' = [probe EXCEPT ![s] = p]
  /\ UNCHANGED <<rot, kind, pinned, received, silent, budget, trying, cancelled, result>>

BudgetEnds ==
  /\ rot = "probe" /\ budget
  /\ budget' = FALSE
  /\ UNCHANGED <<rot, kind, pinned, probe, received, silent, trying, cancelled, result>>

(* The output of the event network.probe may fail; the others are awaited. *)
ReceiveProbe(s) ==
  /\ rot = "probe" /\ ~cancelled
  /\ probe[s] \in {"ok", "failed"} /\ s \notin received
  /\ received' = received \cup {s}
  /\ silent' \in {silent, TRUE}
  /\ UNCHANGED <<rot, kind, pinned, probe, budget, trying, cancelled, result>>

ProbesCancelled ==
  /\ rot = "probe" /\ cancelled
  /\ \A s \in Source : probe[s] # "running"
  /\ End("cancelled") /\ UNCHANGED ranking

(* RankPlan: the pinned source, those that answered in the order of their  *)
(* measurements, those that failed in the order of the catalog.            *)
Group(s) == IF s = pinned THEN 0 ELSE IF probe[s] = "ok" THEN 1 ELSE 2
Position(s) == CHOOSE i \in DOMAIN Catalog : Catalog[i] = s

Mutant_Ranked(p) ==
  /\ p \in SetToSeqs({s \in Source : probe[s] = "ok"})

Ranked(p) ==
  /\ p \in SetToSeqs(Source)
  /\ \A i, j \in DOMAIN p :
       i < j => \/ Group(p[i]) < Group(p[j])
                \/ Group(p[i]) = 1 /\ Group(p[j]) = 1
                \/ Group(p[i]) = 2 /\ Group(p[j]) = 2 /\ Position(p[i]) < Position(p[j])

Orders == UNION {SetToSeqs(S) : S \in SUBSET Source}

Rank ==
  /\ rot = "probe" /\ ~cancelled /\ received = Source
  /\ \/ silent /\ End("output")
     \/ ~silent /\ plan' \in {p \in Orders : Ranked(p)} /\ rot' = "next"
        /\ UNCHANGED <<kind, at, sourceTry, outcome, integrity, asked, cancelled, result>>
  /\ UNCHANGED ranking

-----------------------------------------------------------------------------
(* Rotator.Run                                                             *)

NextAttempt ==
  /\ rot = "next" /\ ~cancelled /\ at <= Len(plan)
  /\ rot' = "attempt"
  /\ asked' = [asked EXCEPT ![plan[at]] = @ + 1]
  /\ outcome' = None
  /\ UNCHANGED <<kind, ranking, plan, at, sourceTry, integrity, cancelled, result>>

StopCancelled ==
  /\ rot \in {"next", "wait"} /\ cancelled
  /\ at <= Len(plan)
  /\ End("cancelled") /\ UNCHANGED ranking

Exhausted ==
  /\ rot = "next" /\ at > Len(plan)
  /\ End(IF integrity THEN "integrity" ELSE "exhausted") /\ UNCHANGED ranking

(* The attempt returns o.                                                  *)
Attempted(o) ==
  /\ outcome' = o /\ rot' = "report"
  /\ UNCHANGED <<kind, ranking, plan, at, sourceTry, integrity, asked, cancelled, result>>

(* networkExecutor.run: uv with the mirror of Python in its environment.   *)
RunUV ==
  /\ rot = "attempt" /\ kind = "python"
  /\ \E o \in {"succeeded", "retry"} : Attempted(o)

Advance ==
  /\ rot' = "next" /\ at' = at + 1 /\ sourceTry' = 1
  /\ UNCHANGED <<kind, plan, outcome, asked, cancelled, result>>

(* The attempt is reported in a context of its own.  A success is returned *)
(* although the context has ended meanwhile; it comes with the error of    *)
(* the reporter, which its caller takes for a failure.                     *)
Mutant_ReportSuccess ==
  /\ rot = "report" /\ outcome = "succeeded"
  /\ \E r \in {"succeeded", "reporter"} : End(IF cancelled THEN "cancelled" ELSE r)
  /\ UNCHANGED ranking

ReportSuccess ==
  /\ rot = "report" /\ outcome = "succeeded"
  /\ \E r \in {"succeeded", "reporter"} : End(r)
  /\ UNCHANGED ranking

ReportFailure ==
  /\ rot = "report" /\ outcome # "succeeded"
  /\ IF cancelled THEN End("cancelled")
     ELSE \/ End("reporter")
          \/ outcome = "target" /\ End("target")
          \/ outcome = "integrity" /\ integrity' = TRUE /\ Advance
          \/ /\ outcome = "switch" \/ (outcome = "retry" /\ sourceTry = MaxSourceAttempts)
             /\ Advance /\ UNCHANGED integrity
          \/ /\ outcome = "retry" /\ sourceTry < MaxSourceAttempts
             /\ Goto("wait")
  /\ UNCHANGED ranking

WaitEnds ==
  /\ rot = "wait" /\ ~cancelled
  /\ rot' = "next" /\ sourceTry' = sourceTry + 1
  /\ UNCHANGED <<kind, ranking, plan, at, outcome, integrity, asked, cancelled, result>>

Cancel ==
  /\ rot # "idle" /\ ~cancelled
  /\ cancelled' = TRUE
  /\ UNCHANGED <<rot, kind, ranking, trying, result>>

RotInit ==
  /\ rot = "idle" /\ kind = "uv" /\ pinned = None /\ probe = [s \in Source |-> "none"]
  /\ received = {} /\ silent = FALSE /\ budget = TRUE
  /\ plan = <<>> /\ at = 1 /\ sourceTry = 1 /\ outcome = None /\ integrity = FALSE
  /\ cancelled = FALSE /\ result = "none" /\ asked = [s \in Source |-> 0]

(* The steps of the caller itself.                                         *)
Rotate ==
  \/ \E s \in Source : ReceiveProbe(s)
  \/ BudgetEnds \/ ProbesCancelled \/ Rank
  \/ NextAttempt \/ StopCancelled \/ Exhausted \/ RunUV
  \/ ReportSuccess \/ ReportFailure \/ WaitEnds

RotTypeOK ==
  /\ rot \in {"idle", "probe", "next", "attempt", "report", "wait"}
  /\ kind \in Kind /\ outcome \in Outcome \cup {None}
  /\ probe \in [Source -> {"none", "running", "ok", "failed"}] /\ received \subseteq Source
  /\ asked \in [Source -> 0..MaxSourceAttempts]
  /\ sourceTry \in 1..MaxSourceAttempts /\ at \in 1..(Len(plan) + 1)
  /\ rot \in {"attempt", "report", "wait"} => at <= Len(plan) /\ asked[plan[at]] = sourceTry

(* Nobody is given up for lost early: when the sources are exhausted every *)
(* one of them was asked, also those that failed the probe, and those that *)
(* could have recovered MaxSourceAttempts times.                           *)
NobodyIsSkipped ==
  result \in {"exhausted", "integrity"} =>
    \A s \in Source : asked[s] = (IF kind = "python" THEN MaxSourceAttempts ELSE 1)
=============================================================================
