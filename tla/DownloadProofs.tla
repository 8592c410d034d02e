--------------------------- MODULE DownloadProofs ---------------------------
(***************************************************************************)
(* Theorems about modules Rotation and Download, for every set of sources, *)
(* every number of attempts and every size of the archive.                 *)
(***************************************************************************)
EXTENDS Download, FunctionTheorems, FiniteSetTheorems, TLAPS

(* How often the failing source of a finished turn was asked: uv lets uv   *)
(* ask again, the archive is asked for once and then somewhere else.       *)
Turns == IF kind = "python" THEN MaxSourceAttempts ELSE 1

OutcomesOf(k) ==
  IF k = "python" THEN {"succeeded", "retry"} ELSE {"succeeded", "switch", "integrity", "target"}

RotType ==
  /\ rot \in {"idle", "probe", "next", "attempt", "report", "wait"}
  /\ kind \in Kind
  /\ asked \in [Source -> Nat]
  /\ at \in Nat \ {0} /\ sourceTry \in 1..MaxSourceAttempts

(* A plan holds every source once, and the index is inside of it while a   *)
(* source is being asked.                                                  *)
PlanInv ==
  /\ rot = "probe" => at = 1 /\ sourceTry = 1 /\ asked = [s \in Source |-> 0]
  /\ rot \in {"next", "attempt", "report", "wait"} => plan \in SetToSeqs(Source)
  /\ rot = "next" => at <= Cardinality(Source) + 1
  /\ rot \in {"attempt", "report", "wait"} => at <= Cardinality(Source)

(* The kind of the plan decides how an attempt can end and whether it is   *)
(* repeated.                                                               *)
KindInv ==
  /\ rot # "idle" => result = "none"
  /\ rot = "report" => outcome \in OutcomesOf(kind)
  /\ rot = "wait" => kind = "python" /\ sourceTry < MaxSourceAttempts
  /\ rot # "idle" /\ kind = "uv" => sourceTry = 1

(* The account of the attempts: sources that had their turn, the one at    *)
(* the index, those to come.                                               *)
Due(i) ==
  IF i < at THEN Turns
  ELSE IF i > at THEN 0
  ELSE IF rot = "next" THEN sourceTry - 1 ELSE sourceTry

AskedInv ==
  rot \in {"next", "attempt", "report", "wait"} =>
    \A i \in 1..Cardinality(Source) : asked[plan[i]] = Due(i)

(* The transfer belongs to an attempt, and only what was received whole    *)
(* can reach the publication.                                              *)
Files == [n : Nat, good : BOOLEAN]

TransferInv ==
  /\ hash \in Files
  /\ down # "off" => rot = "attempt" /\ kind = "uv" /\ final = None
  /\ down = "request" => part = Empty
  /\ down \in {"greet", "read", "join", "publish"} => part = hash
  /\ down = "join" /\ failure = "none" => hash = Whole
  /\ down = "publish" => failure = "none" /\ hash = Whole
  /\ down = "abort" => failure # "none"

(* While a download of the archive runs there is an archive exactly when   *)
(* the attempt that made it is being reported.                             *)
FinalInv ==
  /\ final \in {None, Whole}
  /\ rot # "idle" /\ kind = "uv" =>
       final = (IF rot = "report" /\ outcome = "succeeded" THEN Whole ELSE None)

IndInv ==
  /\ RotType /\ PlanInv /\ KindInv /\ AskedInv
  /\ TransferInv /\ FinalInv /\ NobodyIsSkipped

-----------------------------------------------------------------------------
(* Plans.                                                                  *)

(* The catalog numbers the sources, so there are finitely many.            *)
LEMMA SourcesAreFinite == IsFiniteSet(Source) /\ Cardinality(Source) \in Nat
<1>1. Len(Catalog) \in Nat /\ Catalog \in [1..Len(Catalog) -> Source]
  BY CatalogAssumption
<1>2. \A s \in Source : \E i \in 1..Len(Catalog) : Catalog[i] = s
  BY <1>1, CatalogAssumption DEF ToSet
<1>3. Catalog \in Surjection(1..Len(Catalog), Source)
  BY <1>1, <1>2, Fun_IsSurj
<1>4. IsFiniteSet(1..Len(Catalog))
  BY <1>1, FS_Interval
<1> QED
  BY <1>3, <1>4, FS_Surjection, FS_CardinalityType

(* A plan (the result of Ranker.Plan) asks every source exactly once.      *)
LEMMA PlanHoldsEverySource ==
  ASSUME NEW p \in SetToSeqs(Source)
  PROVE  /\ p \in [1..Cardinality(Source) -> Source]
         /\ Len(p) = Cardinality(Source)
         /\ \A i, j \in 1..Cardinality(Source) : p[i] = p[j] => i = j
         /\ \A s \in Source : \E i \in 1..Cardinality(Source) : p[i] = s
<1> DEFINE n == Cardinality(Source)
<1>1. n \in Nat
  BY SourcesAreFinite
<1>2. p \in [1..n -> Source] /\ \A i, j \in 1..n : i # j => p[i] # p[j]
  BY DEF SetToSeqs
<1>3. p \in Injection(1..n, Source)
  BY <1>2, Fun_IsInj
<1>4. Cardinality(1..n) = n
  BY <1>1, FS_Interval
<1>5. p \in Surjection(1..n, Source)
  BY <1>3, <1>4, SourcesAreFinite, FS_Injection
<1>6. \A s \in Source : \E i \in 1..n : p[i] = s
  BY <1>5 DEF Surjection
<1>7. Len(p) = n
  BY <1>1, <1>2
<1> QED
  BY <1>2, <1>6, <1>7

-----------------------------------------------------------------------------
(* The rotation.                                                           *)

RotPart == RotType /\ PlanInv /\ KindInv /\ AskedInv /\ NobodyIsSkipped

RotSame == UNCHANGED <<rot, kind, plan, at, sourceTry, outcome, asked, result>>

(* The invariant is a state predicate over the variables of the rotation.  *)
LEMMA RotStays ==
  ASSUME RotPart, RotSame
  PROVE  RotPart'
BY DEF RotPart, RotSame, RotType, PlanInv, KindInv, AskedInv, Due, Turns, NobodyIsSkipped

(* Rotator.Run returns: only the exhaustion of the sources says anything   *)
(* about who was asked.                                                    *)
LEMMA RunEnds ==
  ASSUME RotPart, NEW r \in {"output", "cancelled", "succeeded", "reporter", "target"}, End(r)
  PROVE  RotPart'
BY DEF RotPart, End, trying, RotType, PlanInv, KindInv, AskedInv, NobodyIsSkipped

(* All indexes lie behind: every source had its turn.                      *)
LEMMA ExhaustedKept ==
  ASSUME RotPart, Exhausted
  PROVE  RotPart'
<1>1. rot = "next" /\ at > Len(plan) /\ rot' = "idle"
  BY DEF Exhausted, End
<1>2. UNCHANGED <<kind, plan, at, sourceTry, outcome, integrity, asked>>
  BY DEF Exhausted, End, trying
<1>3. plan \in SetToSeqs(Source) /\ at = Cardinality(Source) + 1
  BY <1>1, PlanHoldsEverySource, SourcesAreFinite DEF RotPart, PlanInv, RotType
<1>4. \A i \in 1..Cardinality(Source) : asked[plan[i]] = Turns
  BY <1>1, <1>3, SourcesAreFinite DEF RotPart, AskedInv, Due
<1>5. \A s \in Source : asked[s] = Turns
  BY <1>3, <1>4, PlanHoldsEverySource
<1>6. NobodyIsSkipped'
  BY <1>2, <1>5 DEF NobodyIsSkipped, Turns
<1> QED
  BY <1>1, <1>2, <1>6 DEF RotPart, RotType, PlanInv, KindInv, AskedInv

(* A ranking is a plan, and nobody has been asked yet.                     *)
LEMMA RankKept ==
  ASSUME RotPart, Rank
  PROVE  RotPart'
<1>1. CASE silent /\ End("output")
  BY <1>1, RunEnds
<1>2. CASE ~silent /\ plan' \in {p \in Orders : Ranked(p)} /\ rot' = "next"
           /\ UNCHANGED <<kind, at, sourceTry, outcome, integrity, asked, cancelled, result>>
  <2>1. rot = "probe" /\ plan' \in SetToSeqs(Source)
    BY <1>2 DEF Rank, Ranked
  <2>2. \A i \in 1..Cardinality(Source) : plan'[i] \in Source
    BY <2>1, PlanHoldsEverySource
  <2>3. at = 1 /\ sourceTry = 1 /\ asked = [s \in Source |-> 0]
    BY <2>1 DEF RotPart, PlanInv
  <2>4. AskedInv'
    BY <1>2, <2>2, <2>3, SourcesAreFinite DEF AskedInv, Due
  <2>5. PlanInv'
    BY <1>2, <2>1, <2>3, SourcesAreFinite DEF PlanInv
  <2> QED
    BY <1>2, <2>1, <2>4, <2>5 DEF RotPart, RotType, KindInv, NobodyIsSkipped
<1> QED
  BY <1>1, <1>2 DEF Rank

(* One more attempt at the source of the index.                            *)
LEMMA NextAttemptKept ==
  ASSUME RotPart, NextAttempt
  PROVE  RotPart'
<1>1. /\ rot = "next" /\ rot' = "attempt" /\ at <= Len(plan)
      /\ asked' = [asked EXCEPT ![plan[at]] = @ + 1]
      /\ UNCHANGED <<kind, plan, at, sourceTry, result>>
  BY DEF NextAttempt
<1>2. plan \in SetToSeqs(Source) /\ at \in 1..Cardinality(Source)
  BY <1>1, PlanHoldsEverySource, SourcesAreFinite DEF RotPart, PlanInv, RotType
<1>3. plan[at] \in Source /\ asked[plan[at]] = sourceTry - 1
  BY <1>1, <1>2, PlanHoldsEverySource, SourcesAreFinite DEF RotPart, AskedInv, Due
<1>4. asked' \in [Source -> Nat] /\ asked'[plan[at]] = sourceTry
  BY <1>1, <1>3 DEF RotPart, RotType
<1>5. \A i \in 1..Cardinality(Source) : i # at => asked'[plan[i]] = asked[plan[i]]
  BY <1>1, <1>2, <1>3, PlanHoldsEverySource DEF RotPart, RotType
<1>6. AskedInv'
  BY <1>1, <1>2, <1>4, <1>5, SourcesAreFinite DEF RotPart, AskedInv, Due, Turns
<1> QED
  BY <1>1, <1>2, <1>4, <1>6, SourcesAreFinite
     DEF RotPart, RotType, PlanInv, KindInv, NobodyIsSkipped

(* An attempt ends in one of the ways its kind has.                        *)
LEMMA AttemptedKept ==
  ASSUME RotPart, rot = "attempt", NEW o \in OutcomesOf(kind), Attempted(o)
  PROVE  RotPart'
BY DEF RotPart, Attempted, RotType, PlanInv, KindInv, AskedInv, Due, Turns, NobodyIsSkipped

(* The next source: this one was asked as often as its kind asks.          *)
LEMMA AdvanceKept ==
  ASSUME RotPart, rot = "report", sourceTry = Turns, Advance
  PROVE  RotPart'
<1>1. /\ rot' = "next" /\ at' = at + 1 /\ sourceTry' = 1
      /\ UNCHANGED <<kind, plan, asked, result>>
  BY DEF Advance
<1>2. AskedInv'
  BY <1>1, SourcesAreFinite DEF RotPart, RotType, AskedInv, Due, Turns
<1> QED
  BY <1>1, <1>2, SourcesAreFinite, AttemptsAssumption
     DEF RotPart, RotType, PlanInv, KindInv, NobodyIsSkipped

(* A failed attempt is repeated, or the next source has its turn, or the   *)
(* run ends.                                                               *)
LEMMA ReportFailureKept ==
  ASSUME RotPart, ReportFailure
  PROVE  RotPart'
<1>1. rot = "report" /\ outcome # "succeeded" /\ outcome \in OutcomesOf(kind)
  BY DEF ReportFailure, RotPart, KindInv
<1>2. CASE End("cancelled") \/ End("reporter") \/ End("target")
  BY <1>2, RunEnds
<1>3. CASE Advance /\ (outcome \in {"integrity", "switch"}
                       \/ (outcome = "retry" /\ sourceTry = MaxSourceAttempts))
  <2>1. sourceTry = Turns
    BY <1>1, <1>3 DEF OutcomesOf, Turns, RotPart, KindInv, RotType, Kind
  <2> QED
    BY <1>1, <1>3, <2>1, AdvanceKept
<1>4. CASE outcome = "retry" /\ sourceTry < MaxSourceAttempts /\ Goto("wait")
  <2>1. kind = "python"
    BY <1>1, <1>4 DEF OutcomesOf
  <2> QED
    BY <1>1, <1>4, <2>1
       DEF RotPart, Goto, trying, RotType, PlanInv, KindInv, AskedInv, Due, Turns, NobodyIsSkipped
<1> QED
  BY <1>1, <1>2, <1>3, <1>4 DEF ReportFailure

(* The source is asked again.                                              *)
LEMMA WaitEndsKept ==
  ASSUME RotPart, WaitEnds
  PROVE  RotPart'
<1>1. /\ rot = "wait" /\ rot' = "next" /\ sourceTry' = sourceTry + 1
      /\ UNCHANGED <<kind, plan, at, asked, result>>
  BY DEF WaitEnds
<1>2. kind = "python" /\ sourceTry' \in 1..MaxSourceAttempts
  BY <1>1, AttemptsAssumption DEF RotPart, RotType, KindInv
<1>3. AskedInv'
  BY <1>1, SourcesAreFinite DEF RotPart, RotType, AskedInv, Due, Turns
<1> QED
  BY <1>1, <1>2, <1>3, SourcesAreFinite DEF RotPart, RotType, PlanInv, KindInv, NobodyIsSkipped

(* A run starts with a plan or with the probes, and nobody has been asked. *)
LEMMA StartKept ==
  ASSUME NEW k \in Kind, Start(k)
  PROVE  RotPart'
<1>1. /\ kind' = k /\ result' = "none" /\ at' = 1 /\ sourceTry' = 1
      /\ asked' = [s \in Source |-> 0]
      /\ rot' = "probe" \/ (rot' = "next" /\ plan' \in SetToSeqs(Source))
  BY DEF Start
<1>2. CASE rot' = "probe"
  BY <1>1, <1>2, AttemptsAssumption
     DEF RotPart, RotType, PlanInv, KindInv, AskedInv, NobodyIsSkipped
<1>3. CASE rot' = "next" /\ plan' \in SetToSeqs(Source)
  <2>1. \A i \in 1..Cardinality(Source) : plan'[i] \in Source
    BY <1>3, PlanHoldsEverySource
  <2>2. AskedInv'
    BY <1>1, <1>3, <2>1, SourcesAreFinite DEF AskedInv, Due
  <2> QED
    BY <1>1, <1>3, <2>2, AttemptsAssumption, SourcesAreFinite
       DEF RotPart, RotType, PlanInv, KindInv, NobodyIsSkipped
<1> QED
  BY <1>1, <1>2, <1>3

(* Every step of Rotator.Run and of Ranker.Plan.                           *)
LEMMA RotateKept ==
  ASSUME RotPart, Rotate
  PROVE  RotPart'
<1>1. CASE BudgetEnds \/ \E s \in Source : ReceiveProbe(s)
  BY <1>1, RotStays DEF BudgetEnds, ReceiveProbe, RotSame, trying
<1>2. CASE ProbesCancelled \/ StopCancelled
  BY <1>2, RunEnds DEF ProbesCancelled, StopCancelled
<1>3. CASE ReportSuccess
  <2>1. PICK r \in {"succeeded", "reporter"} : End(r)
    BY <1>3 DEF ReportSuccess
  <2> QED
    BY <2>1, RunEnds
<1>4. CASE RunUV
  <2>1. PICK o \in {"succeeded", "retry"} : Attempted(o)
    BY <1>4 DEF RunUV
  <2> QED
    BY <1>4, <2>1, AttemptedKept DEF RunUV, OutcomesOf
<1> QED
  BY <1>1, <1>2, <1>3, <1>4, RankKept, NextAttemptKept, ExhaustedKept, ReportFailureKept,
     WaitEndsKept DEF Rotate

-----------------------------------------------------------------------------
(* The transfer.                                                           *)

(* A step of the rotation that is no attempt of the archive finds the      *)
(* transfer at rest, and leaves it there.                                  *)
LEMMA TransferRests ==
  ASSUME TransferInv, Rotating, rot # "attempt" \/ kind # "uv" \/ UNCHANGED <<rot, kind>>
  PROVE  TransferInv'
BY DEF TransferInv, Rotating, body, disk

(* A step inside of an attempt leaves the rotation where it is.            *)
LEMMA RotVarsStay ==
  ASSUME UNCHANGED rotVars
  PROVE  RotSame
BY DEF rotVars, trying, RotSame

(* Both kinds of a file, and that none of them is taken for the other.     *)
LEMMA FileTypes ==
  /\ Empty \in Files /\ Whole \in Files
  /\ \A f \in Files, c \in {"good", "bad"} : Append1(f, c) \in Files
BY SizeAssumption DEF Empty, Whole, Files, Append1

(* Mismatch accepts the whole archive only.                                *)
LEMMA OnlyTheWholeMatches == Mismatch = "none" => hash = Whole
BY DEF Mismatch

(* An attempt with a failure is not reported as a success.                 *)
LEMMA FailedOutcome ==
  ASSUME NEW f, f # "none"
  PROVE  OutcomeOf(f) \in {"integrity", "target", "switch"}
BY DEF OutcomeOf

Inner ==
  \/ Begin \/ Answered \/ NotAnswered \/ Greet
  \/ TakeData \/ TakeEnd \/ ReadEnds \/ Joined \/ PublishFails \/ PumpReads \/ PumpStops

(* The steps of an attempt that leave it under way.                        *)
LEMMA InnerKept ==
  ASSUME IndInv, Inner
  PROVE  IndInv'
<1> USE DEF TransferInv
<1>1. UNCHANGED rotVars /\ UNCHANGED final
  BY DEF Inner, Begin, Answered, NotAnswered, Greet, TakeData, TakeEnd, ReadEnds, Joined,
         PublishFails, PumpReads, PumpStops, disk
<1>2. RotSame
  BY <1>1, RotVarsStay
<1>3. RotPart' /\ FinalInv'
  BY <1>1, <1>2, RotStays DEF IndInv, RotPart, FinalInv, RotSame
<1> HIDE DEF Mismatch
<1>4. TransferInv'
  <2>1. CASE Begin
    BY <2>1, <1>1, <1>2 DEF IndInv, Begin, NewPart, Fails, RotSame, body
  <2>2. CASE Answered
    BY <2>2, <1>1, <1>2, FileTypes DEF IndInv, Answered, Step, RotSame, disk
  <2>3. CASE NotAnswered
    BY <2>3, <1>1, <1>2 DEF IndInv, NotAnswered, Fails, RotSame, body
  <2>4. CASE Greet
    BY <2>4, <1>1, <1>2 DEF IndInv, Greet, Step, Fails, RotSame, disk
  <2>5. CASE TakeData
    BY <2>5, <1>1, <1>2, FileTypes DEF IndInv, TakeData, Step, Fails, RotSame
  <2>6. CASE TakeEnd
    BY <2>6, <1>1, <1>2, OnlyTheWholeMatches DEF IndInv, TakeEnd, Fails, RotSame, disk
  <2>7. CASE ReadEnds
    BY <2>7, <1>1, <1>2 DEF IndInv, ReadEnds, Fails, RotSame, body, disk
  <2>8. CASE Joined
    BY <2>8, <1>1, <1>2 DEF IndInv, Joined, Fails, Step, RotSame, body, disk
  <2>9. CASE PublishFails
    BY <2>9, <1>1, <1>2 DEF IndInv, PublishFails, Fails, RotSame, body
  <2>10. CASE PumpReads \/ PumpStops
    BY <2>10, <1>1, <1>2 DEF IndInv, PumpReads, PumpStops, RotSame, disk
  <2> QED
    BY <2>1, <2>2, <2>3, <2>4, <2>5, <2>6, <2>7, <2>8, <2>9, <2>10 DEF Inner
<1> QED
  BY <1>3, <1>4 DEF IndInv, RotPart

(* The attempt fails in Begin or after Abort, or it has published.         *)
LEMMA BeginFailsKept ==
  ASSUME IndInv, BeginFails
  PROVE  IndInv'
<1>1. /\ rot = "attempt" /\ kind = "uv" /\ down = "off"
      /\ Attempted(OutcomeOf("filesystem"))
      /\ UNCHANGED <<down, body, failure, final>>
  BY DEF BeginFails
<1> DEFINE o == OutcomeOf("filesystem")
<1>2. o \in {"integrity", "target", "switch"}
  BY FailedOutcome
<1> HIDE DEF o
<1>3. RotPart'
  BY <1>1, <1>2, AttemptedKept DEF IndInv, RotPart, OutcomesOf, o
<1>4. rot' = "report" /\ kind' = kind /\ outcome' = o
  BY <1>1 DEF Attempted, o
<1>5. TransferInv' /\ FinalInv'
  BY <1>1, <1>2, <1>4 DEF IndInv, TransferInv, FinalInv, body
<1> QED
  BY <1>3, <1>5 DEF IndInv, RotPart

(* The attempt has failed after Begin.                                     *)
LEMMA AbortKept ==
  ASSUME IndInv, Abort
  PROVE  IndInv'
<1>1. /\ down = "abort" /\ down' = "off"
      /\ Attempted(OutcomeOf(failure))
      /\ UNCHANGED <<body, failure, final>>
  BY DEF Abort, Step
<1>2. rot = "attempt" /\ kind = "uv" /\ failure # "none" /\ final = None
  BY <1>1 DEF IndInv, TransferInv
<1> DEFINE o == OutcomeOf(failure)
<1>3. o \in {"integrity", "target", "switch"}
  BY <1>2, FailedOutcome
<1> HIDE DEF o
<1>4. RotPart'
  BY <1>1, <1>2, <1>3, AttemptedKept DEF IndInv, RotPart, OutcomesOf, o
<1>5. rot' = "report" /\ kind' = kind /\ outcome' = o
  BY <1>1 DEF Attempted, o
<1>6. TransferInv' /\ FinalInv'
  BY <1>1, <1>2, <1>3, <1>5 DEF IndInv, TransferInv, FinalInv, body
<1> QED
  BY <1>4, <1>6 DEF IndInv, RotPart

(* The attempt has published the whole archive.                            *)
LEMMA PublishKept ==
  ASSUME IndInv, Publish
  PROVE  IndInv'
<1>1. /\ down = "publish" /\ down' = "off" /\ final' = part
      /\ Attempted("succeeded")
      /\ UNCHANGED <<body, failure>>
  BY DEF Publish, Step
<1>2. rot = "attempt" /\ kind = "uv" /\ part = Whole
  BY <1>1 DEF IndInv, TransferInv
<1>3. RotPart'
  BY <1>1, <1>2, AttemptedKept DEF IndInv, RotPart, OutcomesOf
<1>4. rot' = "report" /\ kind' = kind /\ outcome' = "succeeded"
  BY <1>1 DEF Attempted
<1>5. TransferInv' /\ FinalInv'
  BY <1>1, <1>2, <1>4 DEF IndInv, TransferInv, FinalInv, body
<1> QED
  BY <1>3, <1>5 DEF IndInv, RotPart

(* The rotation goes on without the transfer.                              *)
LEMMA RotatingKept ==
  ASSUME IndInv, Rotate, Rotating
  PROVE  IndInv'
<1>1. RotPart'
  BY RotateKept DEF IndInv, RotPart
<1>2. kind' = kind
  BY DEF Rotate, BudgetEnds, ReceiveProbe, ProbesCancelled, Rank, NextAttempt, StopCancelled,
         Exhausted, RunUV, ReportSuccess, ReportFailure, WaitEnds, End, Attempted, Advance, Goto
<1>3. rot # "attempt" \/ kind # "uv" \/ UNCHANGED <<rot, kind>>
  BY DEF Rotate, BudgetEnds, ReceiveProbe, ProbesCancelled, Rank, NextAttempt, StopCancelled,
         Exhausted, RunUV, ReportSuccess, ReportFailure, WaitEnds
<1>4. TransferInv'
  BY <1>3, TransferRests DEF IndInv
<1>5. rot' = "idle" \/ kind # "uv" \/ (rot' # "report" /\ ~(rot = "report" /\ outcome = "succeeded"))
      \/ UNCHANGED <<rot, outcome>>
  BY DEF Rotate, BudgetEnds, ReceiveProbe, ProbesCancelled, Rank, NextAttempt, StopCancelled,
         Exhausted, RunUV, ReportSuccess, ReportFailure, WaitEnds, End, Advance, Goto, trying
<1>6. rot # "idle" /\ final' = final
  BY DEF Rotate, BudgetEnds, ReceiveProbe, ProbesCancelled, Rank, NextAttempt, StopCancelled,
         Exhausted, RunUV, ReportSuccess, ReportFailure, WaitEnds, Rotating, disk
<1>7. FinalInv'
  BY <1>2, <1>5, <1>6 DEF IndInv, FinalInv
<1> QED
  BY <1>1, <1>4, <1>7 DEF IndInv, RotPart

(* A probe ends or the command is cancelled, at any time.                  *)
LEMMA OthersKept ==
  ASSUME IndInv, Cancel \/ (\E s \in Source : ProbeEnds(s)), Rotating
  PROVE  IndInv'
<1>1. RotSame
  BY DEF Cancel, ProbeEnds, RotSame, trying
<1>2. RotPart'
  BY <1>1, RotStays DEF IndInv, RotPart
<1>3. TransferInv'
  BY <1>1, TransferRests DEF IndInv, RotSame
<1>4. FinalInv'
  BY <1>1 DEF IndInv, FinalInv, RotSame, Rotating, disk
<1> QED
  BY <1>2, <1>3, <1>4 DEF IndInv, RotPart

(* Another process, the death of this one, the use of the archive.         *)
LEMMA ProcessKept ==
  ASSUME IndInv, Run \/ Die \/ Discard
  PROVE  IndInv'
<1>1. CASE Run
  <2>1. PICK k \in Kind : Start(k) /\ (k = "uv" => final = None)
    BY <1>1 DEF Run
  <2>2. RotPart'
    BY <2>1, StartKept
  <2>3. kind' = k /\ rot' \in {"probe", "next"}
    BY <2>1 DEF Start
  <2>4. TransferInv'
    BY <1>1, FileTypes DEF Run, TransferInv
  <2>5. FinalInv'
    BY <1>1, <2>1, <2>3 DEF Run, IndInv, FinalInv
  <2> QED
    BY <2>2, <2>4, <2>5 DEF IndInv, RotPart
<1>2. CASE Die
  <2>1. /\ rot' = "idle" /\ result' = "none" /\ down' = "off"
        /\ UNCHANGED <<kind, trying, hash, final>>
    BY <1>2 DEF Die
  <2>2. RotPart'
    BY <2>1 DEF IndInv, RotPart, RotType, PlanInv, KindInv, AskedInv, NobodyIsSkipped, trying
  <2>3. TransferInv' /\ FinalInv'
    BY <2>1 DEF IndInv, TransferInv, FinalInv
  <2> QED
    BY <2>2, <2>3 DEF IndInv, RotPart
<1>3. CASE Discard
  <2>1. UNCHANGED rotVars /\ rot = "idle" /\ final' = None /\ UNCHANGED <<down, body, failure, part>>
    BY <1>3 DEF Discard
  <2>2. RotPart'
    BY <2>1, RotVarsStay, RotStays DEF IndInv, RotPart
  <2>3. TransferInv' /\ FinalInv'
    BY <2>1, RotVarsStay DEF IndInv, TransferInv, FinalInv, RotSame, body
  <2> QED
    BY <2>2, <2>3 DEF IndInv, RotPart
<1> QED
  BY <1>1, <1>2, <1>3

-----------------------------------------------------------------------------
(* Theorems.                                                               *)

(* IndInv is inductive.                                                    *)
LEMMA NextKept ==
  ASSUME IndInv, [Next]_vars
  PROVE  IndInv'
<1>1. CASE UNCHANGED vars
  <2>1. RotPart'
    BY <1>1, RotVarsStay, RotStays DEF IndInv, RotPart, vars
  <2>2. TransferInv' /\ FinalInv'
    BY <1>1, RotVarsStay DEF IndInv, TransferInv, FinalInv, RotSame, vars, body, disk
  <2> QED
    BY <2>1, <2>2 DEF IndInv, RotPart
<1>2. CASE Next
  BY <1>2, InnerKept, BeginFailsKept, AbortKept, PublishKept, RotatingKept, OthersKept, ProcessKept
     DEF Next, Transfer, Inner
<1> QED
  BY <1>1, <1>2

(* There is neither a run nor an archive at first.                         *)
LEMMA InitHolds == Init => IndInv
BY AttemptsAssumption, FileTypes
   DEF Init, RotInit, IndInv, RotType, PlanInv, KindInv, AskedInv, TransferInv, FinalInv,
       NobodyIsSkipped, Kind

(* The invariant the results below rest on: the account of the attempts,   *)
(* and what the file of a transfer holds at every place of the attempt.    *)
THEOREM DownloadInvariant == Spec => []IndInv
<1>1. Init => IndInv
  BY InitHolds
<1>2. IndInv /\ [Next]_vars => IndInv'
  BY NextKept
<1> QED
  BY <1>1, <1>2, PTL DEF Spec

(* Downloader.Download never gives an archive its final name that is not   *)
(* the one the manifest pins, whatever any of the sources sent.            *)
THEOREM ArchiveIsWhole == Spec => []PublishedIsWhole
<1>1. IndInv => PublishedIsWhole
  BY DEF IndInv, FinalInv, PublishedIsWhole
<1> QED
  BY <1>1, DownloadInvariant, PTL

(* Rotator.Run gives up only when every source had all of its attempts.    *)
THEOREM EverySourceIsAsked == Spec => []NobodyIsSkipped
<1>1. IndInv => NobodyIsSkipped
  BY DEF IndInv
<1> QED
  BY <1>1, DownloadInvariant, PTL

(* A run that ends tells what it leaves in the cache, also when it is      *)
(* cancelled between the publication and the report.                       *)
THEOREM RunTellsTheTruth == Spec => ResultIsTrue
<1> DEFINE Truth ==
      rot # "idle" /\ rot' = "idle" /\ kind = "uv" =>
        /\ result' = "succeeded" => final' = Whole
        /\ result' \in {"cancelled", "integrity", "exhausted", "target"} => final' = None
<1>1. IndInv /\ [Next]_vars => [Truth]_vars
  <2> SUFFICES ASSUME IndInv, Next, rot # "idle", rot' = "idle", kind = "uv"
               PROVE  /\ result' = "succeeded" => final' = Whole
                      /\ result' \in {"cancelled", "integrity", "exhausted", "target"} => final' = None
    BY DEF vars
  <2>1. CASE Rotate /\ Rotating
    <3>1. final' = final
      BY <2>1 DEF Rotating, disk
    <3>2. CASE ReportSuccess
      <4>1. rot = "report" /\ outcome = "succeeded" /\ result' \in {"succeeded", "reporter"}
        BY <3>2 DEF ReportSuccess, End
      <4> QED
        BY <3>1, <4>1 DEF IndInv, FinalInv
    <3>3. CASE ReportFailure
      <4>1. rot = "report" /\ outcome # "succeeded" /\ result' # "succeeded"
        BY <3>3 DEF ReportFailure, End, Advance, Goto
      <4> QED
        BY <3>1, <4>1 DEF IndInv, FinalInv
    <3>4. CASE ProbesCancelled \/ Rank \/ StopCancelled \/ Exhausted
      <4>1. rot # "report" /\ result' # "succeeded"
        BY <3>4 DEF ProbesCancelled, Rank, StopCancelled, Exhausted, End
      <4> QED
        BY <3>1, <4>1 DEF IndInv, FinalInv
    <3> QED
      BY <2>1, <3>2, <3>3, <3>4 DEF Rotate, ReceiveProbe, BudgetEnds, NextAttempt, RunUV, Attempted,
         WaitEnds
  <2>2. CASE Die
    BY <2>2 DEF Die
  <2>3. rot' = rot \/ rot' = "report" \/ rot' \in {"probe", "next"} \/ Die \/ (Rotate /\ Rotating)
    <3>1. Inner => UNCHANGED rotVars
      BY DEF Inner, Begin, Answered, NotAnswered, Greet, TakeData, TakeEnd, ReadEnds, Joined,
             PublishFails, PumpReads, PumpStops
    <3>2. BeginFails \/ Abort \/ Publish => rot' = "report"
      BY DEF BeginFails, Abort, Publish, Attempted
    <3>3. Discard => UNCHANGED rotVars
      BY DEF Discard
    <3>4. Run => rot' \in {"probe", "next"}
      BY DEF Run, Start
    <3>5. Cancel \/ (\E s \in Source : ProbeEnds(s)) => rot' = rot
      BY DEF Cancel, ProbeEnds
    <3> QED
      BY <3>1, <3>2, <3>3, <3>4, <3>5, RotVarsStay DEF Next, Transfer, Inner, RotSame
  <2> QED
    BY <2>1, <2>2, <2>3
<1>2. Spec => [][Truth]_vars
  BY <1>1, DownloadInvariant, PTL DEF Spec
<1> QED
  BY <1>2 DEF ResultIsTrue
=============================================================================
