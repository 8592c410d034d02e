---------------------------- MODULE HealthProofs ----------------------------
(***************************************************************************)
(* Theorems about modules Managed and Health, for every nonempty set of    *)
(* pipes and any number of lines, of successes and of probe errors.        *)
(***************************************************************************)
EXTENDS Health, SequenceTheorems, TLAPS

Failures == {"terminate", "wait", "deadline", "wait_empty"}
Places   == {"none", "held", "alive", "dead"}

MTypeInv ==
  /\ MTypeOK
  /\ clean \in [round : {1, 2}, out : BOOLEAN, empty : BOOLEAN, fails : SUBSET Failures]

Unstarted == {"job", "create"}
Starting  == {"assign", "resume", "undo"}

(* The processes and the Job.  A root is held or alive without its Job only *)
(* while it is started, or where a failed cleanup has reported it.         *)
JobInv ==
  /\ \A p \in Member : proc[p] = "alive" => job = "holds"
  /\ at = "job" => job = "none"
  /\ at \in {"create", "assign"} => job = "open"
  /\ at = "resume" => job = "holds"
  /\ at \in Unstarted => \A p \in Proc : proc[p] = "none"
  /\ at \notin Unstarted \cup Starting \cup {"failed"} => proc["root"] # "held"
  /\ proc["worker"] # "held"
  /\ at = "failed" /\ ~Is("unkilled") => \A p \in Member : ~Live(p)

(* A cleanup that goes on to wait has found the Job empty, or says so.     *)
CleanInv ==
  /\ at = "stop" => Empty
  /\ at \notin {"wait", "close", "end"} => clean.empty
  /\ at = "wait" /\ clean.empty => Empty
  /\ at = "close" /\ clean.fails = {} => Empty

(* The pipes are closed when every member of the tree has ended.           *)
CutInv ==
  Is("cut") => /\ at \in {"empty", "stop", "wait", "close", "end"}
               /\ \A p \in Member : ~Live(p)

(* Whoever kills the root or throws a line away leaves an error for Wait.  *)
ErrorInv ==
  /\ Is("killed") => Is("sinkErr") \/ Is("cancelErr")
  /\ Is("dropped") \/ Is("sinkStopped") => Is("sinkErr")

(* A reader that is done has emptied a pipe nobody can write to any more.  *)
PipeInv ==
  /\ \A s \in Stream : pipe[s] <= written
  /\ at \in Unstarted => holds = {}
  /\ at \in Unstarted \cup Starting => \A s \in Stream : reader[s] = "off"
  /\ \A s \in Stream :
       reader[s] = "done" =>
         Is("cut") \/ Is("sinkErr") \/ (pipe[s] = 0 /\ holds = {})

(* The result waits for the root and for every reader.                     *)
ResultInv ==
  /\ waiter # "off" \/ Is("settled") => at \notin Unstarted \cup Starting
  /\ Is("settled") => AllDone
  /\ Is("waitDone") \/ waiter = "result" => Is("settled")

MInd == MTypeInv /\ JobInv /\ CleanInv /\ CutInv /\ ErrorInv /\ PipeInv /\ ResultInv

-----------------------------------------------------------------------------
(* The check.                                                              *)
Rounds == Seq({"open", "good"})

HTypeInv ==
  /\ check \in {"off", "loop", "request", "drain", "inspect", "probe", "join", "wait",
                "ready", "failed", "over"}
  /\ helper \in {"off", "asking", "probing"} \cup Answer \cup Finding
  /\ expired \in BOOLEAN
  /\ successes \in 0..ConsecutiveSuccesses
  /\ probeErrors \in 0..MaxProbeErrors
  /\ rounds \in Rounds /\ Len(rounds) <= ConsecutiveSuccesses

HelperInv ==
  /\ check \in {"off", "loop", "wait", "ready", "failed", "over"} => helper = "off"
  /\ check \in {"request", "drain"} => helper \in {"asking"} \cup Answer
  /\ check = "inspect" => helper \in Answer \ {"none"}
  /\ check \in {"probe", "join"} => helper \in {"probing"} \cup Finding

(* The requests before the one that is under way were answered ready.      *)
Underway == check \in {"request", "drain", "inspect", "probe", "join"}
Earlier == IF Underway THEN Len(rounds) - 1 ELSE Len(rounds)

CountInv ==
  /\ Underway => Len(rounds) > 0
  /\ successes <= Earlier
  /\ check # "failed" =>
       \A i \in 1 .. Earlier : i > Earlier - successes => rounds[i] = "good"
  /\ check = "probe" /\ helper = "healthy" => rounds[Len(rounds)] = "good"
  /\ check = "ready" => successes = ConsecutiveSuccesses
  /\ check \notin {"ready", "failed"} => successes < ConsecutiveSuccesses
  /\ check # "failed" => probeErrors < MaxProbeErrors

HInd == HTypeInv /\ HelperInv /\ CountInv

-----------------------------------------------------------------------------
(* What the steps have in common.                                          *)

(* Processes may die and let go of the pipes.                              *)
Dying ==
  /\ proc' \in [Proc -> Places]
  /\ \A p \in Proc : proc'[p] = proc[p] \/ (Live(p) /\ proc'[p] = "dead")
  /\ holds' \subseteq holds

(* A step of the readers, the waiter, the watcher or the processes moves   *)
(* neither the supervisor nor the Job and does not start a process.        *)
Quiet ==
  /\ UNCHANGED <<at, job, clean.empty, clean.fails>>
  /\ flag \subseteq flag'
  /\ Dying

(* A Job that is terminated or closed only ends processes.                 *)
LEMMA KilledIsDying ==
  ASSUME MTypeOK, proc' = Killed, holds' = Without(InJob)
  PROVE  Dying
BY DEF MTypeOK, Killed, Without, InJob, Live, Dying, Proc, Member, Places

(* windowsJob.Terminate: what it does to the processes and to the flags.   *)
LEMMA OwnTerminate ==
  ASSUME MTypeOK, NEW also, \E ok \in BOOLEAN : Terminate(TRUE, also, ok)
  PROVE  /\ Dying
         /\ flag \cup also \subseteq flag'
         /\ flag' \subseteq flag \cup also \cup {"killed", "unkilled", "waitErr"}
<1>1. PICK ok \in BOOLEAN : Terminate(TRUE, also, ok)
  OBVIOUS
<1>2. CASE (ok \/ ~JobOpen) /\ JobOpen
  BY <1>1, <1>2, KilledIsDying DEF Terminate, Set
<1>3. CASE (ok \/ ~JobOpen) /\ ~JobOpen
  BY <1>1, <1>3 DEF Terminate, Set, Dying, MTypeOK, Places
<1>4. CASE ~(ok \/ ~JobOpen)
  BY <1>1, <1>4 DEF Terminate, Set, Dying, MTypeOK, Places
<1> QED BY <1>2, <1>3, <1>4

(* TerminateJobObject without a report, as Kill and the watcher call it.   *)
LEMMA PlainTerminate ==
  ASSUME MTypeOK, \E ok \in BOOLEAN : Terminate(FALSE, {}, ok)
  PROVE  /\ Dying
         /\ flag \subseteq flag' /\ flag' \subseteq flag \cup {"unkilled"}
<1>1. PICK ok \in BOOLEAN : Terminate(FALSE, {}, ok)
  OBVIOUS
<1>2. CASE (ok \/ ~JobOpen) /\ JobOpen
  BY <1>1, <1>2, KilledIsDying DEF Terminate, Set
<1>3. CASE (ok \/ ~JobOpen) /\ ~JobOpen
  BY <1>1, <1>3 DEF Terminate, Set, Dying, MTypeOK, Places
<1>4. CASE ~(ok \/ ~JobOpen)
  BY <1>1, <1>4 DEF Terminate, Set, Dying, MTypeOK, Places
<1> QED BY <1>2, <1>3, <1>4

(* recordSinkError leaves the error of the sink behind.                    *)
LEMMA SinkErrorEffect ==
  ASSUME MTypeOK, NEW also, RecordSinkError(also)
  PROVE  /\ Dying
         /\ flag \cup also \subseteq flag'
         /\ flag' \subseteq flag \cup also \cup {"sinkErr", "killed", "unkilled", "waitErr"}
         /\ "sinkErr" \in flag'
<1>1. CASE Is("sinkErr")
  BY <1>1 DEF RecordSinkError, Is, Set, Dying, MTypeOK, Places
<1>2. CASE ~Is("sinkErr")
  <2> DEFINE all == also \cup {"sinkErr"}
  <2>1. \E ok \in BOOLEAN : Terminate(TRUE, all, ok)
    BY <1>2 DEF RecordSinkError
  <2>2. flag \cup all \subseteq flag' /\ Dying
        /\ flag' \subseteq flag \cup all \cup {"killed", "unkilled", "waitErr"}
    <3> HIDE DEF all
    <3> QED BY <2>1, OwnTerminate
  <2> QED BY <2>2
<1> QED BY <1>1, <1>2

(* SinkRefuses and ReadFails.                                              *)
LEMMA RefuseStep ==
  ASSUME MTypeOK, NEW s \in Stream, SinkRefuses(s) \/ ReadFails(s)
  PROVE  /\ Dying /\ UNCHANGED <<at, job, written, pipe, waiter, watcher, clean>>
         /\ flag \subseteq flag'
         /\ flag' \subseteq flag \cup
              {"sinkStopped", "dropped", "sinkCancelErr", "sinkErr", "killed", "unkilled", "waitErr"}
         /\ "sinkErr" \in flag'
         /\ \/ reader[s] = "sink" /\ Moves(s, "read")
            \/ reader[s] = "read" /\ Moves(s, "done")
BY SinkErrorEffect DEF SinkRefuses, ReadFails

(* WatchCancel leaves the error of the cancellation behind.                *)
LEMMA WatchCancelStep ==
  ASSUME MTypeOK, WatchCancel
  PROVE  /\ Dying /\ UNCHANGED <<at, job, written, ioVars, waiter, clean>>
         /\ flag \subseteq flag'
         /\ flag' \subseteq flag \cup
              {"cancelErr", "sinkCancelled", "killed", "unkilled", "waitErr"}
         /\ "cancelErr" \in flag'
         /\ watcher' \in {"grace", "off"}
<1>1. ASSUME NEW also, TerminateCancelled(also)
      PROVE  /\ Dying /\ flag \cup also \subseteq flag' /\ "cancelErr" \in flag'
             /\ flag' \subseteq flag \cup also \cup {"cancelErr", "killed", "unkilled", "waitErr"}
  <2> DEFINE all == also \cup {"cancelErr"}
  <2>1. \E ok \in BOOLEAN : Terminate(TRUE, all, ok)
    BY <1>1 DEF TerminateCancelled
  <2>2. flag \cup all \subseteq flag' /\ Dying
        /\ flag' \subseteq flag \cup all \cup {"killed", "unkilled", "waitErr"}
    <3> HIDE DEF all
    <3> QED BY <2>1, OwnTerminate
  <2> QED BY <2>2
<1>2. CASE Watches("select", "grace") /\ TerminateCancelled({})
  BY <1>1, <1>2 DEF WatchCancel, Watches
<1>3. CASE (Watches("empty", "off") \/ Watches("blind", "off"))
           /\ TerminateCancelled({"sinkCancelled"})
  BY <1>1, <1>3 DEF WatchCancel, Watches
<1> QED BY <1>2, <1>3 DEF WatchCancel

(* BeginCleanup and ForceAgain terminate the Job on their own account.     *)
LEMMA BeginCleanupStep ==
  ASSUME MTypeInv, BeginCleanup
  PROVE  /\ at = "run" /\ at' = "empty"
         /\ Dying /\ UNCHANGED <<job, written, ioVars, waiter, watcher>>
         /\ flag \subseteq flag' /\ flag' \subseteq flag \cup {"unkilled"}
         /\ clean' \in [round : {1, 2}, out : BOOLEAN, empty : BOOLEAN, fails : SUBSET Failures]
         /\ clean'.empty = clean.empty
<1>1. CASE \E ok \in BOOLEAN :
             Terminate(FALSE, {}, ok) /\ Fails(IF ok THEN {} ELSE {"terminate"})
  <2>1. PICK ok \in BOOLEAN :
          Terminate(FALSE, {}, ok) /\ Fails(IF ok THEN {} ELSE {"terminate"})
    BY <1>1
  <2>2. Dying /\ flag \subseteq flag' /\ flag' \subseteq flag \cup {"unkilled"}
    BY <2>1, PlainTerminate DEF MTypeInv
  <2> QED BY <2>1, <2>2 DEF BeginCleanup, Fails, MTypeInv, Failures
<1>2. CASE UNCHANGED <<proc, holds, flag, clean>>
  BY <1>2 DEF BeginCleanup, Dying, MTypeInv, MTypeOK, Places
<1> QED BY <1>1, <1>2 DEF BeginCleanup

(* Wait forces the end of the job a second time before it asks whether the *)
(* job is empty.                                                           *)
LEMMA ForceAgainStep ==
  ASSUME MTypeInv, ForceAgain
  PROVE  /\ at = "wait" /\ at' = "empty"
         /\ Dying /\ UNCHANGED <<job, written, ioVars, waiter, watcher>>
         /\ flag \subseteq flag' /\ flag' \subseteq flag \cup {"unkilled"}
         /\ clean' \in [round : {1, 2}, out : BOOLEAN, empty : BOOLEAN, fails : SUBSET Failures]
         /\ clean'.empty
<1>1. PICK ok \in BOOLEAN :
        /\ Terminate(FALSE, {}, ok)
        /\ clean' = [round |-> 2, out |-> FALSE, empty |-> TRUE,
                     fails |-> clean.fails \cup (WaitResult \ {"deadline"})
                                 \cup IF ok THEN {} ELSE {"terminate"}]
  BY DEF ForceAgain
<1>2. Dying /\ flag \subseteq flag' /\ flag' \subseteq flag \cup {"unkilled"}
  BY <1>1, PlainTerminate DEF MTypeInv
<1>3. WaitResult \subseteq Failures
  BY DEF WaitResult, Failures
<1> QED BY <1>1, <1>2, <1>3 DEF ForceAgain, MTypeInv, Failures

(* cleanupStarted ends every member of the tree or says that it could not. *)
LEMMA CleanupStartedStep ==
  ASSUME MTypeOK, CleanupStarted
  PROVE  /\ at = "undo" /\ at' = "failed"
         /\ Dying /\ UNCHANGED <<written, ioVars, waiter, watcher, clean>>
         /\ flag \subseteq flag' /\ flag' \subseteq flag \cup {"unkilled"}
         /\ \/ "unkilled" \in flag' /\ job' = IF job = "holds" THEN job ELSE "closed"
            \/ job' = "closed" /\ \A p \in Member : proc'[p] \notin {"held", "alive"}
BY DEF CleanupStarted, MTypeOK, Dying, Places, Proc, Member, Live, Without, Set

-----------------------------------------------------------------------------
(* The type invariant, one action at a time.                               *)

(* Every step of a managed process keeps the types.                        *)
LEMMA MTypesKept ==
  ASSUME MInd, MNext
  PROVE  MTypeInv'
<1>1. CASE \E p \in Member, q \in {"worker", "game"} : Spawn(p, q)
  BY <1>1, ManagedAssumption DEF Spawn, ioVars, MInd, MTypeInv, MTypeOK, Dying, Flags, Failures,
       Places, Proc, Member
<1>2. CASE \E p \in Proc, s \in Stream : Write(p, s)
  <2>1. PICK p \in Proc, s \in Stream : Write(p, s)
    BY <1>2
  <2>2. written' \in 0 .. MaxLines
    BY <2>1, ManagedAssumption DEF Write, MInd, MTypeInv, MTypeOK
  <2>3. pipe[s] \in 0 .. written /\ written < MaxLines
    BY <2>1 DEF Write, MInd, PipeInv, MTypeInv, MTypeOK
  <2>4. pipe[s] + 1 \in 0 .. MaxLines
    BY <2>2, <2>3, ManagedAssumption DEF MInd, MTypeInv, MTypeOK
  <2> QED BY <2>1, <2>2, <2>4 DEF Write, MInd, MTypeInv, MTypeOK
<1>3. CASE LetGo
  BY <1>3, ManagedAssumption DEF LetGo, ioVars, MInd, MTypeInv, MTypeOK, Dying, Flags, Failures,
       Places, Proc, Member
<1>4. CASE \E p \in Proc : Die(p)
  BY <1>4, ManagedAssumption DEF Die, ioVars, MInd, MTypeInv, MTypeOK, Dying, Flags, Failures,
       Places, Proc, Member
<1>5. CASE Cancel
  BY <1>5, ManagedAssumption DEF Cancel, Is, Set, osVars, ioVars, MInd, MTypeInv, MTypeOK,
       Dying, Flags, Failures, Places, Proc, Member
<1>6. CASE CreateJob
  BY <1>6, ManagedAssumption DEF CreateJob, Is, ioVars, MInd, MTypeInv, MTypeOK, Dying, Flags,
       Failures, Places, Proc, Member
<1>7. CASE RefuseStart
  BY <1>7, ManagedAssumption DEF RefuseStart, Is, osVars, ioVars, MInd, MTypeInv, MTypeOK,
       Dying, Flags, Failures, Places, Proc, Member
<1>8. CASE StartProcess
  BY <1>8, ManagedAssumption DEF StartProcess, ioVars, MInd, MTypeInv, MTypeOK, Dying, Flags,
       Failures, Places, Proc, Member
<1>9. CASE StartFails
  BY <1>9, ManagedAssumption DEF StartFails, ioVars, MInd, MTypeInv, MTypeOK, Dying, Flags,
       Failures, Places, Proc, Member
<1>10. CASE Assign
  BY <1>10, ManagedAssumption DEF Assign, ioVars, MInd, MTypeInv, MTypeOK, Dying, Flags,
       Failures, Places, Proc, Member
<1>11. CASE Resume
  BY <1>11, ManagedAssumption DEF Resume, Is, MInd, MTypeInv, MTypeOK, Dying, Flags, Failures,
       Places, Proc, Member
<1>12. CASE ResumeFails
  BY <1>12, ManagedAssumption DEF ResumeFails, osVars, ioVars, MInd, MTypeInv, MTypeOK, Dying,
       Flags, Failures, Places, Proc, Member
<1>13. CASE CleanupStarted
  BY <1>13, CleanupStartedStep, ManagedAssumption DEF ioVars, MInd, MTypeInv, MTypeOK, Dying,
       Flags, Failures, Places, Proc, Member
<1>14. CASE \E s \in Stream : Take(s)
  <2>1. PICK s \in Stream : Take(s)
    BY <1>14
  <2>2. pipe[s] - 1 \in 0 .. MaxLines
    BY <2>1, ManagedAssumption DEF Take, MInd, MTypeInv, MTypeOK
  <2>3. pipe' \in [Stream -> 0 .. MaxLines]
    BY <2>1, <2>2 DEF Take, MInd, MTypeInv, MTypeOK
  <2>4. reader' \in [Stream -> {"off", "read", "sink", "done"}] /\ flag' \subseteq Flags
    BY <2>1 DEF Take, Set, Moves, MInd, MTypeInv, MTypeOK, Flags
  <2> QED BY <2>1, <2>3, <2>4 DEF Take, osVars, MInd, MTypeInv, MTypeOK
<1>15. CASE \E s \in Stream : SinkTakes(s)
  BY <1>15, ManagedAssumption DEF SinkTakes, Moves, osVars, MInd, MTypeInv, MTypeOK, Dying,
       Flags, Failures, Places, Proc, Member
<1>16. CASE \E s \in Stream : SinkRefuses(s)
  <2>1. PICK s \in Stream : SinkRefuses(s)
    BY <1>16
  <2>2. reader' \in [Stream -> {"off", "read", "sink", "done"}]
    BY <2>1, RefuseStep DEF Moves, MInd, MTypeInv, MTypeOK
  <2>3. flag' \subseteq Flags
    BY <2>1, RefuseStep DEF Flags, MInd, MTypeInv, MTypeOK
  <2>4. Dying /\ UNCHANGED <<at, job, written, pipe, waiter, watcher, clean>>
    BY <2>1, RefuseStep DEF MInd, MTypeInv
  <2> QED BY <2>2, <2>3, <2>4 DEF MInd, MTypeInv, MTypeOK, Dying, Places
<1>17. CASE \E s \in Stream : ReadFails(s)
  <2>1. PICK s \in Stream : ReadFails(s)
    BY <1>17
  <2>2. reader' \in [Stream -> {"off", "read", "sink", "done"}]
    BY <2>1, RefuseStep DEF Moves, MInd, MTypeInv, MTypeOK
  <2>3. flag' \subseteq Flags
    BY <2>1, RefuseStep DEF Flags, MInd, MTypeInv, MTypeOK
  <2>4. Dying /\ UNCHANGED <<at, job, written, pipe, waiter, watcher, clean>>
    BY <2>1, RefuseStep DEF MInd, MTypeInv
  <2> QED BY <2>2, <2>3, <2>4 DEF MInd, MTypeInv, MTypeOK, Dying, Places
<1>18. CASE \E s \in Stream : ReadEnds(s)
  BY <1>18, ManagedAssumption DEF ReadEnds, Is, Moves, osVars, MInd, MTypeInv, MTypeOK, Dying,
       Flags, Failures, Places, Proc, Member
<1>19. CASE RootExits
  BY <1>19, ManagedAssumption DEF RootExits, Set, osVars, ioVars, MInd, MTypeInv, MTypeOK,
       Dying, Flags, Failures, Places, Proc, Member
<1>20. CASE Settle
  BY <1>20, ManagedAssumption DEF Settle, AllDone, Set, osVars, ioVars, MInd, MTypeInv, MTypeOK,
       Dying, Flags, Failures, Places, Proc, Member
<1>21. CASE PublishResult
  BY <1>21, ManagedAssumption DEF PublishResult, Set, Is, osVars, ioVars, MInd, MTypeInv,
       MTypeOK, Dying, Flags, Failures, Places, Proc, Member
<1>22. CASE WatchCancel
  BY ZenonT(40), <1>22, WatchCancelStep, ManagedAssumption DEF ioVars, MInd, MTypeInv, MTypeOK, Dying,
       Flags, Failures, Places, Proc, Member
<1>23. CASE WatchGrace
  BY <1>23, ManagedAssumption DEF WatchGrace, Watches, Set, osVars, ioVars, MInd, MTypeInv,
       MTypeOK, Dying, Flags, Failures, Places, Proc, Member
<1>24. CASE WatchClosed
  BY <1>24, ManagedAssumption DEF WatchClosed, Is, Watches, Set, osVars, ioVars, MInd, MTypeInv,
       MTypeOK, Dying, Flags, Failures, Places, Proc, Member
<1>25. CASE WatchSettled
  BY <1>25, ManagedAssumption DEF WatchSettled, Is, Watches, osVars, ioVars, MInd, MTypeInv,
       MTypeOK, Dying, Flags, Failures, Places, Proc, Member
<1>26. CASE WatchEmpty
  BY ZenonT(40), <1>26, ManagedAssumption DEF WatchEmpty, Empty, JobOpen, Watches, Set, osVars, ioVars,
       InJob, Member, Live, MInd, MTypeInv, MTypeOK, Dying, Flags, Failures, Places, Proc
<1>27. CASE RunOut
  BY <1>27, ManagedAssumption DEF RunOut, osVars, ioVars, MInd, MTypeInv, MTypeOK, Dying, Flags,
       Failures, Places, Proc, Member
<1>28. CASE BeginCleanup
  BY <1>28, BeginCleanupStep, ManagedAssumption DEF ioVars, MInd, MTypeInv, MTypeOK, Dying,
       Flags, Failures, Places, Proc, Member
<1>29. CASE WaitEmpty
  BY <1>29, ManagedAssumption DEF WaitEmpty, Empty, Is, osVars, ioVars, InJob, Member, Live,
       MInd, MTypeInv, MTypeOK, Dying, Flags, Failures, Places, Proc
<1>30. CASE WaitEmptyFails
  BY <1>30, ManagedAssumption DEF WaitEmptyFails, Empty, osVars, ioVars, InJob, Member, Live,
       MInd, MTypeInv, MTypeOK, Dying, Flags, Failures, Places, Proc
<1>31. CASE StopReaders
  <2>1. at' = "wait" /\ flag' \subseteq Flags
    BY <1>31 DEF StopReaders, Set, MInd, MTypeInv, MTypeOK, Flags
  <2>2. UNCHANGED <<proc, job, holds, written, pipe, reader, waiter, watcher, clean>>
    BY <1>31 DEF StopReaders, osVars, ioVars
  <2> QED BY <2>1, <2>2 DEF MInd, MTypeInv, MTypeOK
<1>32. CASE Wait
  BY <1>32, ManagedAssumption DEF Wait, Is, Fails, WaitResult, osVars, ioVars, MInd, MTypeInv,
       MTypeOK, Dying, Flags, Failures, Places, Proc, Member
<1>33. CASE ForceAgain
  BY <1>33, ForceAgainStep, ManagedAssumption DEF ioVars, MInd, MTypeInv, MTypeOK, Dying, Flags,
       Failures, Places, Proc, Member
<1>34. CASE Close
  BY <1>34, ManagedAssumption DEF Close, CloseJob, Set, ioVars, Killed, Without, InJob, Proc,
       Member, Live, MInd, MTypeInv, MTypeOK, Dying, Flags, Failures, Places
<1> QED BY <1>1, <1>2, <1>3, <1>4, <1>5, <1>6, <1>7, <1>8, <1>9, <1>10, <1>11, <1>12, <1>13,
     <1>14, <1>15, <1>16, <1>17, <1>18, <1>19, <1>20, <1>21, <1>22, <1>23, <1>24, <1>25, <1>26,
     <1>27, <1>28, <1>29, <1>30, <1>31, <1>32, <1>33, <1>34 DEF MNext, Starter, Running,
     Processes, Readers, Reads, Sinks, Waiter, Watcher, Cleanup

(* The steps that are quiet.                                               *)
LEMMA QuietSteps ==
  ASSUME MInd, Running, ~(\E p \in Member, q \in {"worker", "game"} : Spawn(p, q))
  PROVE  Quiet
<1>1. CASE \E p \in Proc, s \in Stream : Write(p, s)
  BY <1>1 DEF Write, Is, Quiet, MInd, MTypeInv, MTypeOK, Places, Live, Proc, Dying
<1>2. CASE LetGo
  BY <1>2 DEF LetGo, ioVars, Quiet, MInd, MTypeInv, MTypeOK, Places, Live, Proc, Dying
<1>3. CASE \E p \in Proc : Die(p)
  BY <1>3 DEF Die, ioVars, Quiet, MInd, MTypeInv, MTypeOK, Places, Live, Proc, Dying
<1>4. CASE Cancel
  BY <1>4 DEF Cancel, Is, Set, osVars, ioVars, Quiet, MInd, MTypeInv, MTypeOK, Places, Live,
       Proc, Dying
<1>5. CASE \E s \in Stream : Take(s)
  BY <1>5 DEF Take, Is, Set, Moves, osVars, Quiet, MInd, MTypeInv, MTypeOK, Places, Live, Proc,
       Dying
<1>6. CASE \E s \in Stream : SinkTakes(s)
  BY <1>6 DEF SinkTakes, Moves, osVars, Quiet, MInd, MTypeInv, MTypeOK, Places, Live, Proc, Dying
<1>7. CASE \E s \in Stream : SinkRefuses(s)
  <2>1. PICK s \in Stream : SinkRefuses(s)
    BY <1>7
  <2> QED BY <2>1, RefuseStep DEF Moves, Quiet, MInd, MTypeInv, MTypeOK, Places, Live, Proc
<1>8. CASE \E s \in Stream : ReadFails(s)
  <2>1. PICK s \in Stream : ReadFails(s)
    BY <1>8
  <2> QED BY <2>1, RefuseStep DEF Moves, Quiet, MInd, MTypeInv, MTypeOK, Places, Live, Proc
<1>9. CASE \E s \in Stream : ReadEnds(s)
  BY <1>9 DEF ReadEnds, Is, Moves, osVars, Quiet, MInd, MTypeInv, MTypeOK, Places, Live, Proc,
       Dying
<1>10. CASE RootExits
  BY <1>10 DEF RootExits, Set, osVars, ioVars, Quiet, MInd, MTypeInv, MTypeOK, Places, Live,
       Proc, Dying
<1>11. CASE Settle
  BY <1>11 DEF Settle, AllDone, Set, osVars, ioVars, Quiet, MInd, MTypeInv, MTypeOK, Places,
       Live, Proc, Dying
<1>12. CASE PublishResult
  BY <1>12 DEF PublishResult, Set, Is, osVars, ioVars, Quiet, MInd, MTypeInv, MTypeOK, Places,
       Live, Proc, Dying
<1>13. CASE WatchCancel
  BY <1>13, WatchCancelStep DEF ioVars, Quiet, MInd, MTypeInv, MTypeOK, Places, Live, Proc, Dying
<1>14. CASE WatchGrace
  BY <1>14 DEF WatchGrace, Watches, Set, osVars, ioVars, Quiet, MInd, MTypeInv, MTypeOK, Places,
       Live, Proc, Dying
<1>15. CASE WatchClosed
  BY <1>15 DEF WatchClosed, Is, Watches, Set, osVars, ioVars, Quiet, MInd, MTypeInv, MTypeOK,
       Places, Live, Proc, Dying
<1>16. CASE WatchSettled
  BY <1>16 DEF WatchSettled, Is, Watches, osVars, ioVars, Quiet, MInd, MTypeInv, MTypeOK,
       Places, Live, Proc, Dying
<1>17. CASE WatchEmpty
  BY <1>17 DEF WatchEmpty, Empty, JobOpen, Watches, Set, osVars, ioVars, InJob, Member, Live,
       Quiet, MInd, MTypeInv, MTypeOK, Places, Proc, Dying
<1>18. CASE RunOut
  BY <1>18 DEF RunOut, osVars, ioVars, Quiet, MInd, MTypeInv, MTypeOK, Places, Live, Proc, Dying
<1> QED BY <1>1, <1>2, <1>3, <1>4, <1>5, <1>6, <1>7, <1>8, <1>9, <1>10, <1>11, <1>12, <1>13,
     <1>14, <1>15, <1>16, <1>17, <1>18 DEF Running, Processes, Readers, Reads, Sinks, Waiter,
     Watcher

(* A process lives only inside of the job that Start has made for it.      *)
LEMMA JobsKept ==
  ASSUME MInd, MNext
  PROVE  JobInv'
<1>1. CASE Running /\ ~(\E p \in Member, q \in {"worker", "game"} : Spawn(p, q))
  BY <1>1, QuietSteps DEF Quiet, Dying, MInd, MTypeInv, MTypeOK, JobInv, Is, Live, Proc, Member,
       Unstarted, Starting
<1>2. CASE \E p \in Member, q \in {"worker", "game"} : Spawn(p, q)
  BY <1>2 DEF Spawn, ioVars, MInd, MTypeInv, MTypeOK, JobInv, Dying, Is, Live, Proc, Member,
       Unstarted, Starting
<1>3. CASE CreateJob
  BY <1>3 DEF CreateJob, Is, ioVars, MInd, MTypeInv, MTypeOK, JobInv, Dying, Live, Proc, Member,
       Unstarted, Starting
<1>4. CASE RefuseStart
  BY <1>4 DEF RefuseStart, Is, osVars, ioVars, MInd, MTypeInv, MTypeOK, JobInv, Dying, Live,
       Proc, Member, Unstarted, Starting
<1>5. CASE StartProcess
  BY <1>5 DEF StartProcess, ioVars, MInd, MTypeInv, MTypeOK, JobInv, Dying, Is, Live, Proc,
       Member, Unstarted, Starting
<1>6. CASE StartFails
  BY <1>6 DEF StartFails, ioVars, MInd, MTypeInv, MTypeOK, JobInv, Dying, Is, Live, Proc,
       Member, Unstarted, Starting
<1>7. CASE Assign
  BY <1>7 DEF Assign, ioVars, MInd, MTypeInv, MTypeOK, JobInv, Dying, Is, Live, Proc, Member,
       Unstarted, Starting
<1>8. CASE Resume
  BY <1>8 DEF Resume, Is, MInd, MTypeInv, MTypeOK, JobInv, Dying, Live, Proc, Member, Unstarted,
       Starting
<1>9. CASE ResumeFails
  BY <1>9 DEF ResumeFails, osVars, ioVars, MInd, MTypeInv, MTypeOK, JobInv, Dying, Is, Live,
       Proc, Member, Unstarted, Starting
<1>10. CASE CleanupStarted
  BY <1>10, CleanupStartedStep DEF ioVars, MInd, MTypeInv, MTypeOK, JobInv, Dying, Is, Live,
       Proc, Member, Unstarted, Starting
<1>11. CASE BeginCleanup
  BY <1>11, BeginCleanupStep DEF ioVars, MInd, MTypeInv, MTypeOK, JobInv, Dying, Is, Live, Proc,
       Member, Unstarted, Starting
<1>12. CASE WaitEmpty
  BY <1>12 DEF WaitEmpty, Empty, Is, osVars, ioVars, InJob, Member, Live, MInd, MTypeInv,
       MTypeOK, JobInv, Dying, Proc, Unstarted, Starting
<1>13. CASE WaitEmptyFails
  BY <1>13 DEF WaitEmptyFails, Empty, osVars, ioVars, InJob, Member, Live, MInd, MTypeInv,
       MTypeOK, JobInv, Dying, Is, Proc, Unstarted, Starting
<1>14. CASE StopReaders
  BY <1>14 DEF StopReaders, AllDone, Set, osVars, ioVars, MInd, MTypeInv, MTypeOK, JobInv,
       Dying, Is, Live, Proc, Member, Unstarted, Starting
<1>15. CASE Wait
  BY <1>15 DEF Wait, Is, Fails, WaitResult, osVars, ioVars, MInd, MTypeInv, MTypeOK, JobInv,
       Dying, Live, Proc, Member, Unstarted, Starting
<1>16. CASE ForceAgain
  BY <1>16, ForceAgainStep DEF ioVars, MInd, MTypeInv, MTypeOK, JobInv, Dying, Is, Live, Proc,
       Member, Unstarted, Starting
<1>17. CASE Close
  BY <1>17 DEF Close, CloseJob, Set, ioVars, Killed, Without, InJob, Proc, Member, Live, MInd,
       MTypeInv, MTypeOK, JobInv, Dying, Is, Unstarted, Starting
<1> QED BY <1>1, <1>2, <1>3, <1>4, <1>5, <1>6, <1>7, <1>8, <1>9, <1>10, <1>11, <1>12, <1>13,
     <1>14, <1>15, <1>16, <1>17 DEF MNext, Starter, Running, Processes, Cleanup

(* A cleanup that goes on has found the Job empty, or says why it could    *)
(* not.                                                                    *)
LEMMA CleansKept ==
  ASSUME MInd, MNext
  PROVE  CleanInv'
<1>1. CASE Running /\ ~(\E p \in Member, q \in {"worker", "game"} : Spawn(p, q))
  BY <1>1, QuietSteps DEF Quiet, Dying, MInd, MTypeInv, MTypeOK, CleanInv, JobInv, Is, Live,
       Proc, Member, Empty, InJob, Failures, Unstarted, Starting
<1>2. CASE \E p \in Member, q \in {"worker", "game"} : Spawn(p, q)
  BY <1>2 DEF Spawn, ioVars, MInd, MTypeInv, MTypeOK, CleanInv, JobInv, Dying, Is, Live, Proc,
       Member, Empty, InJob, Failures, Unstarted, Starting
<1>3. CASE CreateJob
  BY <1>3 DEF CreateJob, Is, ioVars, MInd, MTypeInv, MTypeOK, CleanInv, JobInv, Dying, Live,
       Proc, Member, Empty, InJob, Failures, Unstarted, Starting
<1>4. CASE RefuseStart
  BY <1>4 DEF RefuseStart, Is, osVars, ioVars, MInd, MTypeInv, MTypeOK, CleanInv, JobInv, Dying,
       Live, Proc, Member, Empty, InJob, Failures, Unstarted, Starting
<1>5. CASE StartProcess
  BY <1>5 DEF StartProcess, ioVars, MInd, MTypeInv, MTypeOK, CleanInv, JobInv, Dying, Is, Live,
       Proc, Member, Empty, InJob, Failures, Unstarted, Starting
<1>6. CASE StartFails
  BY <1>6 DEF StartFails, ioVars, MInd, MTypeInv, MTypeOK, CleanInv, JobInv, Dying, Is, Live,
       Proc, Member, Empty, InJob, Failures, Unstarted, Starting
<1>7. CASE Assign
  BY <1>7 DEF Assign, ioVars, MInd, MTypeInv, MTypeOK, CleanInv, JobInv, Dying, Is, Live, Proc,
       Member, Empty, InJob, Failures, Unstarted, Starting
<1>8. CASE Resume
  BY <1>8 DEF Resume, Is, MInd, MTypeInv, MTypeOK, CleanInv, JobInv, Dying, Live, Proc, Member,
       Empty, InJob, Failures, Unstarted, Starting
<1>9. CASE ResumeFails
  BY <1>9 DEF ResumeFails, osVars, ioVars, MInd, MTypeInv, MTypeOK, CleanInv, JobInv, Dying, Is,
       Live, Proc, Member, Empty, InJob, Failures, Unstarted, Starting
<1>10. CASE CleanupStarted
  BY <1>10, CleanupStartedStep DEF ioVars, MInd, MTypeInv, MTypeOK, CleanInv, JobInv, Dying, Is,
       Live, Proc, Member, Empty, InJob, Failures, Unstarted, Starting
<1>11. CASE BeginCleanup
  BY <1>11, BeginCleanupStep DEF ioVars, MInd, MTypeInv, MTypeOK, CleanInv, JobInv, Dying, Is,
       Live, Proc, Member, Empty, InJob, Failures, Unstarted, Starting
<1>12. CASE WaitEmpty
  BY <1>12 DEF WaitEmpty, Empty, Is, osVars, ioVars, InJob, Member, Live, MInd, MTypeInv,
       MTypeOK, CleanInv, JobInv, Dying, Proc, Failures, Unstarted, Starting
<1>13. CASE WaitEmptyFails
  BY <1>13 DEF WaitEmptyFails, Empty, osVars, ioVars, InJob, Member, Live, MInd, MTypeInv,
       MTypeOK, CleanInv, JobInv, Dying, Is, Proc, Failures, Unstarted, Starting
<1>14. CASE StopReaders
  BY <1>14 DEF StopReaders, AllDone, Set, osVars, ioVars, MInd, MTypeInv, MTypeOK, CleanInv,
       JobInv, Dying, Is, Live, Proc, Member, Empty, InJob, Failures, Unstarted, Starting
<1>15. CASE Wait
  BY <1>15 DEF Wait, Is, Fails, WaitResult, osVars, ioVars, MInd, MTypeInv, MTypeOK, CleanInv,
       JobInv, Dying, Live, Proc, Member, Empty, InJob, Failures, Unstarted, Starting
<1>16. CASE ForceAgain
  BY <1>16, ForceAgainStep DEF ioVars, MInd, MTypeInv, MTypeOK, CleanInv, JobInv, Dying, Is,
       Live, Proc, Member, Empty, InJob, Failures, Unstarted, Starting
<1>17. CASE Close
  BY <1>17 DEF Close, CloseJob, Set, ioVars, Killed, Without, InJob, Proc, Member, Live, MInd,
       MTypeInv, MTypeOK, CleanInv, JobInv, Dying, Is, Empty, Failures, Unstarted, Starting
<1> QED BY <1>1, <1>2, <1>3, <1>4, <1>5, <1>6, <1>7, <1>8, <1>9, <1>10, <1>11, <1>12, <1>13,
     <1>14, <1>15, <1>16, <1>17 DEF MNext, Starter, Running, Processes, Cleanup

(* The pipes are closed under a tree that has ended, and no member of it   *)
(* is started afterwards.                                                  *)
LEMMA CutsKept ==
  ASSUME MInd, MNext
  PROVE  CutInv'
<1>1. CASE Is("cut")
  <2>1. /\ at \notin Unstarted \cup Starting \cup {"failed", "run"}
        /\ \A p \in Member : proc[p] \notin {"held", "alive"}
    BY <1>1 DEF MInd, CutInv, Unstarted, Starting, Live
  <2>2. CASE Running /\ ~(\E p \in Member, q \in {"worker", "game"} : Spawn(p, q))
    BY <2>1, <2>2, <1>1, QuietSteps DEF Quiet, Dying, MInd, CutInv, Is, Live, Proc, Member
  <2>3. CASE \E p \in Member, q \in {"worker", "game"} : Spawn(p, q)
    BY <2>1, <2>3 DEF Spawn
  <2>4. CASE Starter \/ BeginCleanup
    BY <2>1, <2>4 DEF Starter, CreateJob, RefuseStart, StartProcess, StartFails, Assign, Resume,
         ResumeFails, CleanupStarted, BeginCleanup, Unstarted, Starting
  <2>5. CASE WaitEmpty \/ WaitEmptyFails \/ StopReaders \/ Wait
    BY <2>1, <2>5 DEF WaitEmpty, WaitEmptyFails, StopReaders, Wait, osVars, CutInv, Live
  <2>6. CASE ForceAgain
    BY <2>1, <2>6, ForceAgainStep DEF MInd, Dying, CutInv, Live, Proc, Member
  <2>7. CASE Close
    BY <2>1, <2>7 DEF Close, CloseJob, Killed, MInd, MTypeInv, MTypeOK, CutInv, Live, Proc,
         Member
  <2> QED BY <2>2, <2>3, <2>4, <2>5, <2>6, <2>7 DEF MNext, Running, Processes, Cleanup
<1>2. CASE ~Is("cut") /\ StopReaders
  BY <1>2 DEF StopReaders, osVars, MInd, MTypeInv, MTypeOK, JobInv, CleanInv, CutInv, Empty,
     InJob, Live, Proc, Member, Unstarted, Starting
<1>3. CASE ~Is("cut") /\ ~StopReaders
  <2>1. CASE (\E s \in Stream : SinkRefuses(s) \/ ReadFails(s)) \/ WatchCancel
    BY <1>3, <2>1, RefuseStep, WatchCancelStep DEF MInd, MTypeInv, CutInv, Is
  <2>2. CASE BeginCleanup \/ ForceAgain
    BY <1>3, <2>2, BeginCleanupStep, ForceAgainStep DEF MInd, CutInv, Is
  <2>3. CASE Processes \/ Starter
    BY <1>3, <2>3 DEF Processes, Spawn, Write, LetGo, Die, Cancel, Starter, CreateJob,
         RefuseStart, StartProcess, StartFails, Assign, Resume, ResumeFails, CleanupStarted,
         Set, CutInv, Is
  <2>4. CASE (\E s \in Stream : Reads(s) \/ SinkTakes(s)) \/ Waiter
    BY <1>3, <2>4 DEF Reads, Take, ReadEnds, SinkTakes, Waiter, RootExits, Settle,
         PublishResult, Set, CutInv, Is
  <2>5. CASE WatchGrace \/ WatchClosed \/ WatchSettled \/ WatchEmpty \/ RunOut
    BY <1>3, <2>5 DEF WatchGrace, WatchClosed, WatchSettled, WatchEmpty, RunOut, Set, CutInv, Is
  <2>6. CASE WaitEmpty \/ WaitEmptyFails \/ Wait \/ Close
    BY <1>3, <2>6 DEF WaitEmpty, WaitEmptyFails, Wait, Close, Set, CutInv, Is
  <2> QED BY <1>3, <2>1, <2>2, <2>3, <2>4, <2>5, <2>6 DEF MNext, Running, Readers, Sinks,
         Watcher, Cleanup
<1> QED BY <1>1, <1>2, <1>3

(* A failure is recorded where it happens and is not lost on the way to    *)
(* the result.                                                             *)
LEMMA ErrorsKept ==
  ASSUME MInd, MNext
  PROVE  ErrorInv'
<1>1. CASE \E p \in Member, q \in {"worker", "game"} : Spawn(p, q)
  BY <1>1 DEF Spawn, ioVars, MInd, MTypeInv, ErrorInv, Is
<1>2. CASE \E p \in Proc, s \in Stream : Write(p, s)
  BY <1>2 DEF Write, Is, MInd, MTypeInv, ErrorInv
<1>3. CASE LetGo
  BY <1>3 DEF LetGo, ioVars, MInd, MTypeInv, ErrorInv, Is
<1>4. CASE \E p \in Proc : Die(p)
  BY <1>4 DEF Die, ioVars, MInd, MTypeInv, ErrorInv, Is
<1>5. CASE Cancel
  BY <1>5 DEF Cancel, Is, Set, osVars, ioVars, MInd, MTypeInv, ErrorInv
<1>6. CASE CreateJob
  BY <1>6 DEF CreateJob, Is, ioVars, MInd, MTypeInv, ErrorInv
<1>7. CASE RefuseStart
  BY <1>7 DEF RefuseStart, Is, osVars, ioVars, MInd, MTypeInv, ErrorInv
<1>8. CASE StartProcess
  BY <1>8 DEF StartProcess, ioVars, MInd, MTypeInv, ErrorInv, Is
<1>9. CASE StartFails
  BY <1>9 DEF StartFails, ioVars, MInd, MTypeInv, ErrorInv, Is
<1>10. CASE Assign
  BY <1>10 DEF Assign, ioVars, MInd, MTypeInv, ErrorInv, Is
<1>11. CASE Resume
  BY <1>11 DEF Resume, Is, MInd, MTypeInv, ErrorInv
<1>12. CASE ResumeFails
  BY <1>12 DEF ResumeFails, osVars, ioVars, MInd, MTypeInv, ErrorInv, Is
<1>13. CASE CleanupStarted
  BY <1>13, CleanupStartedStep DEF ioVars, MInd, MTypeInv, ErrorInv, Is
<1>14. CASE \E s \in Stream : Take(s)
  BY <1>14 DEF Take, Is, Set, Moves, osVars, MInd, MTypeInv, ErrorInv
<1>15. CASE \E s \in Stream : SinkTakes(s)
  BY <1>15 DEF SinkTakes, Moves, osVars, MInd, MTypeInv, ErrorInv, Is
<1>16. CASE \E s \in Stream : SinkRefuses(s)
  <2>1. PICK s \in Stream : SinkRefuses(s)
    BY <1>16
  <2> QED BY <2>1, RefuseStep DEF Moves, MInd, MTypeInv, ErrorInv, Is
<1>17. CASE \E s \in Stream : ReadFails(s)
  <2>1. PICK s \in Stream : ReadFails(s)
    BY <1>17
  <2> QED BY <2>1, RefuseStep DEF Moves, MInd, MTypeInv, ErrorInv, Is
<1>18. CASE \E s \in Stream : ReadEnds(s)
  BY <1>18 DEF ReadEnds, Is, Moves, osVars, MInd, MTypeInv, ErrorInv
<1>19. CASE RootExits
  BY <1>19 DEF RootExits, Set, osVars, ioVars, MInd, MTypeInv, ErrorInv, Is
<1>20. CASE Settle
  BY <1>20 DEF Settle, AllDone, Set, osVars, ioVars, MInd, MTypeInv, ErrorInv, Is
<1>21. CASE PublishResult
  BY <1>21 DEF PublishResult, Set, Is, osVars, ioVars, MInd, MTypeInv, ErrorInv
<1>22. CASE WatchCancel
  BY <1>22, WatchCancelStep DEF ioVars, MInd, MTypeInv, ErrorInv, Is
<1>23. CASE WatchGrace
  BY <1>23 DEF WatchGrace, Watches, Set, osVars, ioVars, MInd, MTypeInv, ErrorInv, Is
<1>24. CASE WatchClosed
  BY <1>24 DEF WatchClosed, Is, Watches, Set, osVars, ioVars, MInd, MTypeInv, ErrorInv
<1>25. CASE WatchSettled
  BY <1>25 DEF WatchSettled, Is, Watches, osVars, ioVars, MInd, MTypeInv, ErrorInv
<1>26. CASE WatchEmpty
  BY <1>26 DEF WatchEmpty, Empty, JobOpen, Watches, Set, osVars, ioVars, InJob, Member, Live,
       MInd, MTypeInv, ErrorInv, Is
<1>27. CASE RunOut
  BY <1>27 DEF RunOut, osVars, ioVars, MInd, MTypeInv, ErrorInv, Is
<1>28. CASE BeginCleanup
  BY <1>28, BeginCleanupStep DEF ioVars, MInd, MTypeInv, ErrorInv, Is
<1>29. CASE WaitEmpty
  BY <1>29 DEF WaitEmpty, Empty, Is, osVars, ioVars, InJob, Member, Live, MInd, MTypeInv, ErrorInv
<1>30. CASE WaitEmptyFails
  BY <1>30 DEF WaitEmptyFails, Empty, osVars, ioVars, InJob, Member, Live, MInd, MTypeInv,
       ErrorInv, Is
<1>31. CASE StopReaders
  BY <1>31 DEF StopReaders, AllDone, Set, osVars, ioVars, MInd, MTypeInv, ErrorInv, Is
<1>32. CASE Wait
  BY <1>32 DEF Wait, Is, Fails, WaitResult, osVars, ioVars, MInd, MTypeInv, ErrorInv
<1>33. CASE ForceAgain
  BY <1>33, ForceAgainStep DEF ioVars, MInd, MTypeInv, ErrorInv, Is
<1>34. CASE Close
  BY <1>34 DEF Close, CloseJob, Set, ioVars, Killed, Without, InJob, Proc, Member, Live, MInd,
       MTypeInv, ErrorInv, Is
<1> QED BY <1>1, <1>2, <1>3, <1>4, <1>5, <1>6, <1>7, <1>8, <1>9, <1>10, <1>11, <1>12, <1>13,
     <1>14, <1>15, <1>16, <1>17, <1>18, <1>19, <1>20, <1>21, <1>22, <1>23, <1>24, <1>25, <1>26,
     <1>27, <1>28, <1>29, <1>30, <1>31, <1>32, <1>33, <1>34 DEF MNext, Starter, Running,
     Processes, Readers, Reads, Sinks, Waiter, Watcher, Cleanup

(* A reader that is done has emptied its pipe, or an error says why not.   *)
LEMMA PipesKept ==
  ASSUME MInd, MNext
  PROVE  PipeInv'
<1>1. CASE \E p \in Member, q \in {"worker", "game"} : Spawn(p, q)
  <2>1. PICK p \in Member, q \in {"worker", "game"} : Spawn(p, q)
    BY <1>1
  <2>2. holds = {} => holds' = {}
    BY <2>1 DEF Spawn
  <2>3. at \notin Unstarted
    BY <2>1 DEF Spawn, MInd, JobInv, Member, Proc
  <2> QED BY <2>1, <2>2, <2>3 DEF Spawn, ioVars, MInd, PipeInv, Is
<1>2. CASE \E p \in Proc, s \in Stream : Write(p, s)
  BY <1>2 DEF Write, Is, MInd, MTypeInv, MTypeOK, PipeInv, Dying, Unstarted, Starting, Places,
       Proc, JobInv
<1>3. CASE LetGo
  BY <1>3 DEF LetGo, ioVars, MInd, MTypeInv, MTypeOK, PipeInv, Is, Dying, Unstarted, Starting,
       Places, Proc, JobInv
<1>4. CASE \E p \in Proc : Die(p)
  BY <1>4 DEF Die, ioVars, MInd, MTypeInv, MTypeOK, PipeInv, Is, Dying, Unstarted, Starting,
       Places, Proc, JobInv
<1>5. CASE Cancel
  BY <1>5 DEF Cancel, Is, Set, osVars, ioVars, MInd, MTypeInv, MTypeOK, PipeInv, Dying,
       Unstarted, Starting, Places, Proc, JobInv
<1>6. CASE CreateJob
  BY <1>6 DEF CreateJob, Is, ioVars, MInd, MTypeInv, MTypeOK, PipeInv, Dying, Unstarted,
       Starting, Places, Proc, JobInv
<1>7. CASE RefuseStart
  BY <1>7 DEF RefuseStart, Is, osVars, ioVars, MInd, MTypeInv, MTypeOK, PipeInv, Dying,
       Unstarted, Starting, Places, Proc, JobInv
<1>8. CASE StartProcess
  BY <1>8 DEF StartProcess, ioVars, MInd, MTypeInv, MTypeOK, PipeInv, Is, Dying, Unstarted,
       Starting, Places, Proc, JobInv
<1>9. CASE StartFails
  BY <1>9 DEF StartFails, ioVars, MInd, MTypeInv, MTypeOK, PipeInv, Is, Dying, Unstarted,
       Starting, Places, Proc, JobInv
<1>10. CASE Assign
  BY <1>10 DEF Assign, ioVars, MInd, MTypeInv, MTypeOK, PipeInv, Is, Dying, Unstarted, Starting,
       Places, Proc, JobInv
<1>11. CASE Resume
  BY <1>11 DEF Resume, Is, MInd, MTypeInv, MTypeOK, PipeInv, Dying, Unstarted, Starting, Places,
       Proc, JobInv
<1>12. CASE ResumeFails
  BY <1>12 DEF ResumeFails, osVars, ioVars, MInd, MTypeInv, MTypeOK, PipeInv, Is, Dying,
       Unstarted, Starting, Places, Proc, JobInv
<1>13. CASE CleanupStarted
  BY <1>13, CleanupStartedStep DEF ioVars, MInd, MTypeInv, MTypeOK, PipeInv, Is, Dying,
       Unstarted, Starting, Places, Proc, JobInv
<1>14. CASE \E s \in Stream : Take(s)
  BY <1>14 DEF Take, Is, Set, Moves, osVars, MInd, MTypeInv, MTypeOK, PipeInv, Dying, Unstarted,
       Starting, Places, Proc, JobInv
<1>15. CASE \E s \in Stream : SinkTakes(s)
  BY <1>15 DEF SinkTakes, Moves, osVars, MInd, MTypeInv, MTypeOK, PipeInv, Is, Dying, Unstarted,
       Starting, Places, Proc, JobInv
<1>16. CASE \E s \in Stream : SinkRefuses(s)
  <2>1. PICK s \in Stream : SinkRefuses(s)
    BY <1>16
  <2> QED BY <2>1, RefuseStep DEF Moves, MInd, MTypeInv, MTypeOK, PipeInv, Is, Dying, Unstarted,
       Starting, Places, Proc
<1>17. CASE \E s \in Stream : ReadFails(s)
  <2>1. PICK s \in Stream : ReadFails(s)
    BY <1>17
  <2> QED BY <2>1, RefuseStep DEF Moves, MInd, MTypeInv, MTypeOK, PipeInv, Is, Dying, Unstarted,
       Starting, Places, Proc
<1>18. CASE \E s \in Stream : ReadEnds(s)
  BY <1>18 DEF ReadEnds, Is, Moves, osVars, MInd, MTypeInv, MTypeOK, PipeInv, Dying, Unstarted,
       Starting, Places, Proc, JobInv
<1>19. CASE RootExits
  BY <1>19 DEF RootExits, Set, osVars, ioVars, MInd, MTypeInv, MTypeOK, PipeInv, Is, Dying,
       Unstarted, Starting, Places, Proc, JobInv
<1>20. CASE Settle
  BY <1>20 DEF Settle, AllDone, Set, osVars, ioVars, MInd, MTypeInv, MTypeOK, PipeInv, Is,
       Dying, Unstarted, Starting, Places, Proc, JobInv
<1>21. CASE PublishResult
  BY <1>21 DEF PublishResult, Set, Is, osVars, ioVars, MInd, MTypeInv, MTypeOK, PipeInv, Dying,
       Unstarted, Starting, Places, Proc, JobInv
<1>22. CASE WatchCancel
  <2>1. flag \subseteq flag' /\ holds' \subseteq holds /\ UNCHANGED <<written, pipe, reader>>
    BY <1>22, WatchCancelStep DEF ioVars, MInd, MTypeInv, Dying
  <2>2. at' = at \/ (at \in {"run", "wait"} /\ at' = "empty")
    BY <1>22, WatchCancelStep DEF MInd, MTypeInv
  <2> QED BY <2>1, <2>2 DEF MInd, PipeInv, Is, Unstarted, Starting
<1>23. CASE WatchGrace
  BY <1>23 DEF WatchGrace, Watches, Set, osVars, ioVars, MInd, MTypeInv, MTypeOK, PipeInv, Is,
       Dying, Unstarted, Starting, Places, Proc, JobInv
<1>24. CASE WatchClosed
  BY <1>24 DEF WatchClosed, Is, Watches, Set, osVars, ioVars, MInd, MTypeInv, MTypeOK, PipeInv,
       Dying, Unstarted, Starting, Places, Proc, JobInv
<1>25. CASE WatchSettled
  BY <1>25 DEF WatchSettled, Is, Watches, osVars, ioVars, MInd, MTypeInv, MTypeOK, PipeInv,
       Dying, Unstarted, Starting, Places, Proc, JobInv
<1>26. CASE WatchEmpty
  BY <1>26 DEF WatchEmpty, Empty, JobOpen, Watches, Set, osVars, ioVars, InJob, Member, Live,
       MInd, MTypeInv, MTypeOK, PipeInv, Is, Dying, Unstarted, Starting, Places, Proc, JobInv
<1>27. CASE RunOut
  BY <1>27 DEF RunOut, osVars, ioVars, MInd, MTypeInv, MTypeOK, PipeInv, Is, Dying, Unstarted,
       Starting, Places, Proc, JobInv
<1>28. CASE BeginCleanup
  <2>1. flag \subseteq flag' /\ holds' \subseteq holds /\ UNCHANGED <<written, pipe, reader>>
    BY <1>28, BeginCleanupStep DEF ioVars, MInd, MTypeInv, Dying
  <2>2. at' = at \/ (at \in {"run", "wait"} /\ at' = "empty")
    BY <1>28, BeginCleanupStep DEF MInd, MTypeInv
  <2> QED BY <2>1, <2>2 DEF MInd, PipeInv, Is, Unstarted, Starting
<1>29. CASE WaitEmpty
  BY <1>29 DEF WaitEmpty, Empty, Is, osVars, ioVars, InJob, Member, Live, MInd, MTypeInv,
       MTypeOK, PipeInv, Dying, Unstarted, Starting, Places, Proc, JobInv
<1>30. CASE WaitEmptyFails
  BY <1>30 DEF WaitEmptyFails, Empty, osVars, ioVars, InJob, Member, Live, MInd, MTypeInv,
       MTypeOK, PipeInv, Is, Dying, Unstarted, Starting, Places, Proc, JobInv
<1>31. CASE StopReaders
  BY <1>31 DEF StopReaders, AllDone, Set, osVars, ioVars, MInd, MTypeInv, MTypeOK, PipeInv, Is,
       Dying, Unstarted, Starting, Places, Proc, JobInv
<1>32. CASE Wait
  BY <1>32 DEF Wait, Is, Fails, WaitResult, osVars, ioVars, MInd, MTypeInv, MTypeOK, PipeInv,
       Dying, Unstarted, Starting, Places, Proc, JobInv
<1>33. CASE ForceAgain
  <2>1. flag \subseteq flag' /\ holds' \subseteq holds /\ UNCHANGED <<written, pipe, reader>>
    BY <1>33, ForceAgainStep DEF ioVars, MInd, MTypeInv, Dying
  <2>2. at' = at \/ (at \in {"run", "wait"} /\ at' = "empty")
    BY <1>33, ForceAgainStep DEF MInd, MTypeInv
  <2> QED BY <2>1, <2>2 DEF MInd, PipeInv, Is, Unstarted, Starting
<1>34. CASE Close
  BY <1>34 DEF Close, CloseJob, Set, ioVars, Killed, Without, InJob, Proc, Member, Live, MInd,
       MTypeInv, MTypeOK, PipeInv, Is, Dying, Unstarted, Starting, Places, JobInv
<1> QED BY <1>1, <1>2, <1>3, <1>4, <1>5, <1>6, <1>7, <1>8, <1>9, <1>10, <1>11, <1>12, <1>13,
     <1>14, <1>15, <1>16, <1>17, <1>18, <1>19, <1>20, <1>21, <1>22, <1>23, <1>24, <1>25, <1>26,
     <1>27, <1>28, <1>29, <1>30, <1>31, <1>32, <1>33, <1>34 DEF MNext, Starter, Running,
     Processes, Readers, Reads, Sinks, Waiter, Watcher, Cleanup

(* The result waits for the root and for every reader.                     *)
LEMMA ResultsKept ==
  ASSUME MInd, MNext
  PROVE  ResultInv'
<1>1. CASE \E p \in Member, q \in {"worker", "game"} : Spawn(p, q)
  BY <1>1 DEF Spawn, ioVars, MInd, MTypeInv, MTypeOK, ResultInv, AllDone, Is, Unstarted,
       Starting, PipeInv
<1>2. CASE \E p \in Proc, s \in Stream : Write(p, s)
  BY <1>2 DEF Write, Is, MInd, MTypeInv, MTypeOK, ResultInv, AllDone, Unstarted, Starting, PipeInv
<1>3. CASE LetGo
  BY <1>3 DEF LetGo, ioVars, MInd, MTypeInv, MTypeOK, ResultInv, AllDone, Is, Unstarted,
       Starting, PipeInv
<1>4. CASE \E p \in Proc : Die(p)
  BY <1>4 DEF Die, ioVars, MInd, MTypeInv, MTypeOK, ResultInv, AllDone, Is, Unstarted, Starting,
       PipeInv
<1>5. CASE Cancel
  BY <1>5 DEF Cancel, Is, Set, osVars, ioVars, MInd, MTypeInv, MTypeOK, ResultInv, AllDone,
       Unstarted, Starting, PipeInv
<1>6. CASE CreateJob
  BY <1>6 DEF CreateJob, Is, ioVars, MInd, MTypeInv, MTypeOK, ResultInv, AllDone, Unstarted,
       Starting, PipeInv
<1>7. CASE RefuseStart
  BY <1>7 DEF RefuseStart, Is, osVars, ioVars, MInd, MTypeInv, MTypeOK, ResultInv, AllDone,
       Unstarted, Starting, PipeInv
<1>8. CASE StartProcess
  BY <1>8 DEF StartProcess, ioVars, MInd, MTypeInv, MTypeOK, ResultInv, AllDone, Is, Unstarted,
       Starting, PipeInv
<1>9. CASE StartFails
  BY <1>9 DEF StartFails, ioVars, MInd, MTypeInv, MTypeOK, ResultInv, AllDone, Is, Unstarted,
       Starting, PipeInv
<1>10. CASE Assign
  BY <1>10 DEF Assign, ioVars, MInd, MTypeInv, MTypeOK, ResultInv, AllDone, Is, Unstarted,
       Starting, PipeInv
<1>11. CASE Resume
  BY <1>11 DEF Resume, Is, MInd, MTypeInv, MTypeOK, ResultInv, AllDone, Unstarted, Starting,
       PipeInv
<1>12. CASE ResumeFails
  BY <1>12 DEF ResumeFails, osVars, ioVars, MInd, MTypeInv, MTypeOK, ResultInv, AllDone, Is,
       Unstarted, Starting, PipeInv
<1>13. CASE CleanupStarted
  BY <1>13, CleanupStartedStep DEF ioVars, MInd, MTypeInv, MTypeOK, ResultInv, AllDone, Is,
       Unstarted, Starting, PipeInv
<1>14. CASE \E s \in Stream : Take(s)
  BY <1>14 DEF Take, Is, Set, Moves, osVars, MInd, MTypeInv, MTypeOK, ResultInv, AllDone,
       Unstarted, Starting, PipeInv
<1>15. CASE \E s \in Stream : SinkTakes(s)
  BY <1>15 DEF SinkTakes, Moves, osVars, MInd, MTypeInv, MTypeOK, ResultInv, AllDone, Is,
       Unstarted, Starting, PipeInv
<1>16. CASE \E s \in Stream : SinkRefuses(s)
  <2>1. PICK s \in Stream : SinkRefuses(s)
    BY <1>16
  <2> QED BY <2>1, RefuseStep DEF Moves, MInd, MTypeInv, MTypeOK, ResultInv, AllDone, Is,
       Unstarted, Starting
<1>17. CASE \E s \in Stream : ReadFails(s)
  <2>1. PICK s \in Stream : ReadFails(s)
    BY <1>17
  <2> QED BY <2>1, RefuseStep DEF Moves, MInd, MTypeInv, MTypeOK, ResultInv, AllDone, Is,
       Unstarted, Starting
<1>18. CASE \E s \in Stream : ReadEnds(s)
  BY <1>18 DEF ReadEnds, Is, Moves, osVars, MInd, MTypeInv, MTypeOK, ResultInv, AllDone,
       Unstarted, Starting, PipeInv
<1>19. CASE RootExits
  BY <1>19 DEF RootExits, Set, osVars, ioVars, MInd, MTypeInv, MTypeOK, ResultInv, AllDone, Is,
       Unstarted, Starting, PipeInv
<1>20. CASE Settle
  BY <1>20 DEF Settle, AllDone, Set, osVars, ioVars, MInd, MTypeInv, MTypeOK, ResultInv, Is,
       Unstarted, Starting, PipeInv
<1>21. CASE PublishResult
  BY <1>21 DEF PublishResult, Set, Is, osVars, ioVars, MInd, MTypeInv, MTypeOK, ResultInv,
       AllDone, Unstarted, Starting, PipeInv
<1>22. CASE WatchCancel
  BY <1>22, WatchCancelStep DEF ioVars, MInd, MTypeInv, MTypeOK, ResultInv, AllDone, Is,
       Unstarted, Starting, PipeInv
<1>23. CASE WatchGrace
  BY <1>23 DEF WatchGrace, Watches, Set, osVars, ioVars, MInd, MTypeInv, MTypeOK, ResultInv,
       AllDone, Is, Unstarted, Starting, PipeInv
<1>24. CASE WatchClosed
  BY <1>24 DEF WatchClosed, Is, Watches, Set, osVars, ioVars, MInd, MTypeInv, MTypeOK,
       ResultInv, AllDone, Unstarted, Starting, PipeInv
<1>25. CASE WatchSettled
  BY <1>25 DEF WatchSettled, Is, Watches, osVars, ioVars, MInd, MTypeInv, MTypeOK, ResultInv,
       AllDone, Unstarted, Starting, PipeInv
<1>26. CASE WatchEmpty
  BY <1>26 DEF WatchEmpty, Empty, JobOpen, Watches, Set, osVars, ioVars, InJob, Member, Live,
       MInd, MTypeInv, MTypeOK, ResultInv, AllDone, Is, Unstarted, Starting, PipeInv
<1>27. CASE RunOut
  BY <1>27 DEF RunOut, osVars, ioVars, MInd, MTypeInv, MTypeOK, ResultInv, AllDone, Is,
       Unstarted, Starting, PipeInv
<1>28. CASE BeginCleanup
  BY <1>28, BeginCleanupStep DEF ioVars, MInd, MTypeInv, MTypeOK, ResultInv, AllDone, Is,
       Unstarted, Starting, PipeInv
<1>29. CASE WaitEmpty
  BY <1>29 DEF WaitEmpty, Empty, Is, osVars, ioVars, InJob, Member, Live, MInd, MTypeInv,
       MTypeOK, ResultInv, AllDone, Unstarted, Starting, PipeInv
<1>30. CASE WaitEmptyFails
  BY <1>30 DEF WaitEmptyFails, Empty, osVars, ioVars, InJob, Member, Live, MInd, MTypeInv,
       MTypeOK, ResultInv, AllDone, Is, Unstarted, Starting, PipeInv
<1>31. CASE StopReaders
  BY <1>31 DEF StopReaders, AllDone, Set, osVars, ioVars, MInd, MTypeInv, MTypeOK, ResultInv,
       Is, Unstarted, Starting, PipeInv
<1>32. CASE Wait
  BY <1>32 DEF Wait, Is, Fails, WaitResult, osVars, ioVars, MInd, MTypeInv, MTypeOK, ResultInv,
       AllDone, Unstarted, Starting, PipeInv
<1>33. CASE ForceAgain
  BY <1>33, ForceAgainStep DEF ioVars, MInd, MTypeInv, MTypeOK, ResultInv, AllDone, Is,
       Unstarted, Starting, PipeInv
<1>34. CASE Close
  BY <1>34 DEF Close, CloseJob, Set, ioVars, Killed, Without, InJob, Proc, Member, Live, MInd,
       MTypeInv, MTypeOK, ResultInv, AllDone, Is, Unstarted, Starting, PipeInv
<1> QED BY <1>1, <1>2, <1>3, <1>4, <1>5, <1>6, <1>7, <1>8, <1>9, <1>10, <1>11, <1>12, <1>13,
     <1>14, <1>15, <1>16, <1>17, <1>18, <1>19, <1>20, <1>21, <1>22, <1>23, <1>24, <1>25, <1>26,
     <1>27, <1>28, <1>29, <1>30, <1>31, <1>32, <1>33, <1>34 DEF MNext, Starter, Running,
     Processes, Readers, Reads, Sinks, Waiter, Watcher, Cleanup

-----------------------------------------------------------------------------
(* The invariant of an attempt, and what it is for.                        *)

(* Before the start there is no process, no pipe is read and nothing flags.*)
LEMMA MInitial == MInit => MInd
BY ManagedAssumption DEF MInit, MInd, MTypeInv, MTypeOK, JobInv, CleanInv, CutInv,
   ErrorInv, PipeInv, ResultInv, AllDone, Is, Live, Proc, Member, Unstarted, Starting, Places, Flags, Failures

(* A step of the check does not touch the attempt.                         *)
LEMMA MStuttering == MInd /\ UNCHANGED mvars => MInd'
<1> SUFFICES ASSUME MInd, UNCHANGED mvars PROVE MInd'
  OBVIOUS
<1>1. MTypeInv' /\ JobInv'
  BY DEF mvars, MInd, MTypeInv, MTypeOK, JobInv, Is, Live
<1>2. CleanInv' /\ CutInv' /\ ErrorInv'
  BY DEF mvars, MInd, CleanInv, CutInv, ErrorInv, Is, Empty, InJob, Live
<1>3. PipeInv' /\ ResultInv'
  BY DEF mvars, MInd, PipeInv, ResultInv, AllDone, Is
<1> QED BY <1>1, <1>2, <1>3 DEF MInd

(* MInd is inductive for a managed process and everything around it.       *)
LEMMA MInductive == MInd /\ [MNext]_mvars => MInd'
BY MStuttering, MTypesKept, JobsKept, CleansKept, CutsKept, ErrorsKept, PipesKept, ResultsKept DEF MInd

(* The invariant says what the runs check of an attempt.                   *)
LEMMA AttemptIsOwned == MInd => OwnedByItsJob
BY DEF MInd, JobInv, CleanInv, OwnedByItsJob

(* The invariant contains what the result of Wait claims.                  *)
LEMMA AttemptTellsTheTruth == MInd => WaitTellsTheTruth
<1>1. ASSUME MInd, Is("waitDone"), flag \cap {"sinkErr", "cancelErr", "waitErr"} = {}, ~Is("cut")
      PROVE  holds = {} /\ \A s \in Stream : pipe[s] = 0
  BY <1>1, ManagedAssumption DEF MInd, PipeInv, ResultInv, AllDone, Is
<1> QED BY <1>1 DEF MInd, ErrorInv, CutInv, Is, WaitTellsTheTruth

(* StartManaged and cleanupProcess: at every moment of an attempt a running *)
(* member of the tree is in the Job, a start that failed left none behind, *)
(* and a cleanup that reports no failure has found the Job empty.          *)
THEOREM ProcessIsOwned == MSpec => []OwnedByItsJob
<1>1. MInd => OwnedByItsJob
  BY AttemptIsOwned
<1> QED BY MInitial, MInductive, <1>1, PTL DEF MSpec

(* process.Wait: a result without an error means that no failing sink and  *)
(* no cancellation has killed the root, that no line taken from a pipe was *)
(* thrown away, and that the pipes were read to their end, or closed by    *)
(* stopReaders; these are closed only when no member of the tree lives.    *)
THEOREM ResultTellsTheTruth == MSpec => []WaitTellsTheTruth
<1>1. MInd => WaitTellsTheTruth
  BY AttemptTellsTheTruth
<1> QED BY MInitial, MInductive, <1>1, PTL DEF MSpec

-----------------------------------------------------------------------------
(* The check leaves the attempt alone, so that the invariant of the attempt *)
(* holds in Health too.                                                    *)

(* A step of the health check is a step of the process it watches or       *)
(* leaves the process alone.                                               *)
LEMMA StepOfTheAttempt == [Next]_vars => [MNext]_mvars
BY DEF Next, MNext, vars, mvars

(* The process of a backend that is being watched for its health keeps the *)
(* invariant of a managed process.                                         *)
THEOREM AttemptInvariant == Spec => []MInd
<1>1. Init => MInd
  BY MInitial DEF Init
<1>2. MInd /\ [Next]_vars => MInd'
  BY MInductive, StepOfTheAttempt
<1> QED BY <1>1, <1>2, PTL DEF Spec

-----------------------------------------------------------------------------
(* The check: its types.                                                   *)

(* A request forgets the oldest of ConsecutiveSuccesses rounds.            *)
LEMMA RequestRounds ==
  ASSUME rounds \in Rounds, Len(rounds) <= ConsecutiveSuccesses, Request
  PROVE  /\ rounds' \in Rounds /\ Len(rounds') <= ConsecutiveSuccesses /\ Len(rounds') > 0
         /\ rounds'[Len(rounds')] = "open"
         /\ \/ Len(rounds') = Len(rounds) + 1 /\ \A i \in 1 .. Len(rounds) : rounds'[i] = rounds[i]
            \/ /\ Len(rounds) = ConsecutiveSuccesses /\ Len(rounds') = Len(rounds)
               /\ \A i \in 1 .. Len(rounds) - 1 : rounds'[i] = rounds[i + 1]
<1>1. CASE Len(rounds) < ConsecutiveSuccesses
  <2>1. rounds' = Append(rounds, "open")
    BY <1>1 DEF Request
  <2> QED BY <1>1, <2>1, HealthAssumption DEF Rounds
<1>2. CASE ~(Len(rounds) < ConsecutiveSuccesses)
  <2>1. rounds' = Append(Tail(rounds), "open")
    BY <1>2 DEF Request
  <2>2. rounds # << >> /\ Len(rounds) = ConsecutiveSuccesses
    BY <1>2, HealthAssumption DEF Rounds
  <2>3. /\ Tail(rounds) \in Rounds /\ Len(Tail(rounds)) = Len(rounds) - 1
        /\ \A i \in 1 .. Len(rounds) - 1 : Tail(rounds)[i] = rounds[i + 1]
    BY <2>2 DEF Rounds
  <2> QED BY <2>1, <2>2, <2>3, HealthAssumption DEF Rounds
<1> QED BY <1>1, <1>2

(* A probe marks the last round.                                           *)
LEMMA ProbeRounds ==
  ASSUME rounds \in Rounds, Len(rounds) > 0, NEW f, Probe(f)
  PROVE  /\ rounds' \in Rounds /\ Len(rounds') = Len(rounds)
         /\ \A i \in 1 .. Len(rounds) - 1 : rounds'[i] = rounds[i]
         /\ f = "healthy" => rounds'[Len(rounds)] = "good"
<1>1. CASE f = "healthy"
  <2>1. rounds' = [rounds EXCEPT ![Len(rounds)] = "good"]
    BY <1>1 DEF Probe
  <2> QED BY <2>1, ExceptSeq DEF Rounds
<1>2. CASE f # "healthy"
  BY <1>2 DEF Probe
<1> QED BY <1>1, <1>2

(* A check begins with no rounds.                                          *)
LEMMA EmptyRounds == << >> \in Rounds /\ Len(<< >>) = 0
BY DEF Rounds

(* Every step of the check keeps the types.                                *)
LEMMA TypesKept ==
  ASSUME HInd, Checking \/ Helper \/ Expire \/ Return
  PROVE  HTypeInv'
<1>1. CASE Begin
  BY <1>1, HealthAssumption DEF Begin, Checks, counts, HInd, HTypeInv, Answer, Finding
<1>2. CASE GiveUp("loop")
  BY <1>2, HealthAssumption DEF GiveUp, Checks, counts, HInd, HTypeInv, Answer, Finding
<1>3. CASE GiveUp("wait")
  BY <1>3, HealthAssumption DEF GiveUp, Checks, counts, HInd, HTypeInv, Answer, Finding
<1>4. CASE Request
  <2>1. rounds \in Rounds /\ Len(rounds) <= ConsecutiveSuccesses
    BY DEF HInd, HTypeInv
  <2> QED BY <1>4, <2>1, RequestRounds DEF Request, Checks, HInd, HTypeInv
<1>5. CASE Abandon
  BY <1>5, HealthAssumption DEF Abandon, Checks, counts, HInd, HTypeInv, Answer, Finding
<1>6. CASE Drained
  BY <1>6, HealthAssumption DEF Drained, Answer, Again, HInd, HTypeInv, Finding
<1>7. CASE Completed
  BY <1>7, HealthAssumption DEF Completed, Answer, Again, HInd, HTypeInv, Finding
<1>8. CASE Inspect
  BY <1>8, HealthAssumption DEF Inspect, Again, HInd, HTypeInv, Answer, Finding
<1>9. CASE AbandonProbe
  BY <1>9, HealthAssumption DEF AbandonProbe, Checks, counts, HInd, HTypeInv, Answer, Finding
<1>10. CASE ProbeJoined
  BY <1>10, HealthAssumption DEF ProbeJoined, Finding, Checks, counts, HInd, HTypeInv, Answer
<1>11. CASE ProbeStops
  BY <1>11, HealthAssumption DEF ProbeStops, Finding, Checks, counts, HInd, HTypeInv, Answer
<1>12. CASE Decide
  BY <1>12, HealthAssumption DEF Decide, Finding, Again, HInd, HTypeInv, Answer, CountInv, Rounds
<1>13. CASE Poll
  BY <1>13, HealthAssumption DEF Poll, Checks, counts, HInd, HTypeInv, Answer, Finding
<1>14. CASE \E a \in Answer : Reply(a)
  BY <1>14, HealthAssumption DEF Reply, counts, HInd, HTypeInv, Answer, Finding
<1>15. CASE \E f \in Finding : Probe(f)
  <2>1. PICK f \in Finding : Probe(f)
    BY <1>15
  <2>2. rounds \in Rounds /\ helper = "probing" /\ Len(rounds) > 0
    BY <2>1 DEF Probe, HInd, HTypeInv, HelperInv, CountInv, Underway, Answer, Finding
  <2> QED BY <2>1, <2>2, ProbeRounds DEF Probe, HInd, HTypeInv, Finding
<1>16. CASE Expire
  BY <1>16, HealthAssumption DEF Expire, counts, HInd, HTypeInv, Answer, Finding
<1>17. CASE Return
  <2>1. rounds' = << >> /\ successes' = 0 /\ probeErrors' = 0 /\ check' = "over"
        /\ helper' = helper /\ expired' = FALSE
    BY <1>17 DEF Return
  <2>2. rounds' \in Rounds /\ Len(rounds') <= ConsecutiveSuccesses
    BY <2>1, EmptyRounds, HealthAssumption
  <2>3. successes' \in 0..ConsecutiveSuccesses /\ probeErrors' \in 0..MaxProbeErrors
    BY <2>1, HealthAssumption
  <2> QED BY <2>1, <2>2, <2>3 DEF HInd, HTypeInv
<1> QED BY <1>1, <1>2, <1>3, <1>4, <1>5, <1>6, <1>7, <1>8, <1>9, <1>10, <1>11, <1>12, <1>13,
     <1>14, <1>15, <1>16, <1>17 DEF Checking, Helper

(* A goroutine asks or probes exactly where the check waits for it.        *)
LEMMA HelpersKept ==
  ASSUME HInd, Checking \/ Helper \/ Expire \/ Return
  PROVE  HelperInv'
<1>1. CASE Begin
  BY <1>1 DEF Begin, Checks, counts, HInd, HelperInv, Answer, Finding
<1>2. CASE GiveUp("loop")
  BY <1>2 DEF GiveUp, Checks, counts, HInd, HelperInv, Answer, Finding
<1>3. CASE GiveUp("wait")
  BY <1>3 DEF GiveUp, Checks, counts, HInd, HelperInv, Answer, Finding
<1>4. CASE Request
  BY <1>4 DEF Request, Checks, HInd, HelperInv, Answer, Finding
<1>5. CASE Abandon
  BY <1>5 DEF Abandon, Checks, counts, HInd, HelperInv, Answer, Finding
<1>6. CASE Drained
  BY <1>6 DEF Drained, Answer, Again, HInd, HelperInv, Finding
<1>7. CASE Completed
  BY <1>7 DEF Completed, Answer, Again, HInd, HelperInv, Finding
<1>8. CASE Inspect
  BY <1>8 DEF Inspect, Again, HInd, HelperInv, Answer, Finding
<1>9. CASE AbandonProbe
  BY <1>9 DEF AbandonProbe, Checks, counts, HInd, HelperInv, Answer, Finding
<1>10. CASE ProbeJoined
  BY <1>10 DEF ProbeJoined, Finding, Checks, counts, HInd, HelperInv, Answer
<1>11. CASE ProbeStops
  BY <1>11 DEF ProbeStops, Finding, Checks, counts, HInd, HelperInv, Answer
<1>12. CASE Decide
  BY <1>12 DEF Decide, Finding, Again, HInd, HelperInv, Answer
<1>13. CASE Poll
  BY <1>13 DEF Poll, Checks, counts, HInd, HelperInv, Answer, Finding
<1>14. CASE \E a \in Answer : Reply(a)
  BY <1>14 DEF Reply, counts, HInd, HelperInv, Answer, Finding
<1>15. CASE \E f \in Finding : Probe(f)
  BY <1>15 DEF Probe, HInd, HelperInv, Answer, Finding
<1>16. CASE Expire
  BY <1>16 DEF Expire, counts, HInd, HelperInv, Answer, Finding
<1>17. CASE Return
  BY <1>17 DEF Return, HInd, HelperInv, Answer, Finding
<1> QED BY <1>1, <1>2, <1>3, <1>4, <1>5, <1>6, <1>7, <1>8, <1>9, <1>10, <1>11, <1>12, <1>13,
     <1>14, <1>15, <1>16, <1>17 DEF Checking, Helper

(* The count of consecutive successes is the number of good rounds at the  *)
(* end.                                                                    *)
LEMMA CountsKept ==
  ASSUME HInd, Checking \/ Helper \/ Expire \/ Return
  PROVE  CountInv'
<1>1. CASE Begin
  BY <1>1, HealthAssumption DEF Begin, Checks, counts, HInd, HTypeInv, HelperInv, CountInv,
       Underway, Earlier, Answer, Finding, Rounds
<1>2. CASE GiveUp("loop")
  BY <1>2, HealthAssumption DEF GiveUp, Checks, counts, HInd, HTypeInv, HelperInv, CountInv,
       Underway, Earlier, Answer, Finding, Rounds
<1>3. CASE GiveUp("wait")
  BY <1>3, HealthAssumption DEF GiveUp, Checks, counts, HInd, HTypeInv, HelperInv, CountInv,
       Underway, Earlier, Answer, Finding, Rounds
<1>4. CASE Request
  <2>1. rounds \in Rounds /\ Len(rounds) <= ConsecutiveSuccesses
    BY DEF HInd, HTypeInv
  <2> QED
    BY <1>4, <2>1, RequestRounds
       DEF Request, Checks, HInd, HTypeInv, HelperInv, CountInv, Underway, Earlier, Answer,
           Finding, Rounds
<1>5. CASE Abandon
  BY <1>5, HealthAssumption DEF Abandon, Checks, counts, HInd, HTypeInv, HelperInv, CountInv,
       Underway, Earlier, Answer, Finding, Rounds
<1>6. CASE Drained
  BY <1>6, HealthAssumption DEF Drained, Answer, Again, HInd, HTypeInv, HelperInv, CountInv,
       Underway, Earlier, Finding, Rounds
<1>7. CASE Completed
  BY <1>7, HealthAssumption DEF Completed, Answer, Again, HInd, HTypeInv, HelperInv, CountInv,
       Underway, Earlier, Finding, Rounds
<1>8. CASE Inspect
  BY <1>8, HealthAssumption DEF Inspect, Again, HInd, HTypeInv, HelperInv, CountInv, Underway,
       Earlier, Answer, Finding, Rounds
<1>9. CASE AbandonProbe
  BY <1>9, HealthAssumption DEF AbandonProbe, Checks, counts, HInd, HTypeInv, HelperInv,
       CountInv, Underway, Earlier, Answer, Finding, Rounds
<1>10. CASE ProbeJoined
  BY <1>10, HealthAssumption DEF ProbeJoined, Finding, Checks, counts, HInd, HTypeInv,
       HelperInv, CountInv, Underway, Earlier, Answer, Rounds
<1>11. CASE ProbeStops
  BY <1>11, HealthAssumption DEF ProbeStops, Finding, Checks, counts, HInd, HTypeInv, HelperInv,
       CountInv, Underway, Earlier, Answer, Rounds
<1>12. CASE Decide
  BY <1>12, HealthAssumption DEF Decide, Finding, Again, HInd, HTypeInv, HelperInv, CountInv,
       Underway, Earlier, Answer, Rounds
<1>13. CASE Poll
  BY <1>13, HealthAssumption DEF Poll, Checks, counts, HInd, HTypeInv, HelperInv, CountInv,
       Underway, Earlier, Answer, Finding, Rounds
<1>14. CASE \E a \in Answer : Reply(a)
  BY <1>14, HealthAssumption DEF Reply, counts, HInd, HTypeInv, HelperInv, CountInv, Underway,
       Earlier, Answer, Finding, Rounds
<1>15. CASE \E f \in Finding : Probe(f)
  <2>1. PICK f \in Finding : Probe(f)
    BY <1>15
  <2>2. rounds \in Rounds /\ helper = "probing" /\ Len(rounds) > 0
    BY <2>1 DEF Probe, HInd, HTypeInv, HelperInv, CountInv, Underway, Answer, Finding
  <2> QED
    BY <2>1, <2>2, ProbeRounds
       DEF Probe, HInd, HTypeInv, HelperInv, CountInv, Underway, Earlier, Answer, Finding, Rounds
<1>16. CASE Expire
  BY <1>16, HealthAssumption DEF Expire, counts, HInd, HTypeInv, HelperInv, CountInv, Underway,
       Earlier, Answer, Finding, Rounds
<1>17. CASE Return
  BY <1>17, HealthAssumption DEF Return, HInd, HTypeInv, HelperInv, CountInv, Underway, Earlier,
       Answer, Finding, Rounds
<1> QED BY <1>1, <1>2, <1>3, <1>4, <1>5, <1>6, <1>7, <1>8, <1>9, <1>10, <1>11, <1>12, <1>13,
     <1>14, <1>15, <1>16, <1>17 DEF Checking, Helper

-----------------------------------------------------------------------------
(* The invariant of the check, and what it is for.                         *)

(* Check has not begun.                                                    *)
LEMMA HInitial == HInit => HInd
<1> SUFFICES ASSUME HInit PROVE HInd
  OBVIOUS
<1>1. rounds \in Rounds /\ Len(rounds) = 0
  BY EmptyRounds DEF HInit
<1>2. successes \in 0..ConsecutiveSuccesses /\ probeErrors \in 0..MaxProbeErrors
      /\ Len(rounds) <= ConsecutiveSuccesses
  BY <1>1, HealthAssumption DEF HInit
<1>3. HTypeInv /\ HelperInv
  BY <1>1, <1>2 DEF HInit, HTypeInv, HelperInv
<1>4. CountInv
  BY <1>1, HealthAssumption DEF HInit, CountInv, Underway, Earlier
<1> QED BY <1>3, <1>4 DEF HInd

(* A step of the attempt does not touch the check.                         *)
LEMMA HStuttering == HInd /\ UNCHANGED hvars => HInd'
<1> SUFFICES ASSUME HInd, UNCHANGED hvars PROVE HInd'
  OBVIOUS
<1>1. HTypeInv' /\ HelperInv'
  BY DEF hvars, counts, HInd, HTypeInv, HelperInv
<1>2. Earlier' = Earlier /\ (Underway' <=> Underway)
  BY DEF hvars, counts, Earlier, Underway
<1>3. CountInv'
  BY <1>2 DEF hvars, counts, HInd, CountInv
<1> QED BY <1>1, <1>3 DEF HInd

(* HInd is inductive for the check of the health.                          *)
LEMMA HInductive == HInd /\ [Next]_vars => HInd'
<1> SUFFICES ASSUME HInd, [Next]_vars PROVE HInd'
  OBVIOUS
<1>1. CASE Checking \/ Helper \/ Expire \/ Return
  BY <1>1, TypesKept, HelpersKept, CountsKept DEF HInd
<1>2. CASE UNCHANGED hvars
  BY <1>2, HStuttering
<1> QED BY <1>1, <1>2 DEF Next, vars

(* The inductive invariant of an attempt together with its check, with the *)
(* types of both.                                                          *)
THEOREM HealthInvariant == Spec => [](MInd /\ HInd)
<1>1. Init => HInd
  BY HInitial DEF Init
<1> QED BY AttemptInvariant, <1>1, HInductive, PTL DEF Spec

(* Checker.Check: a backend is ready after ConsecutiveSuccesses requests in *)
(* a row each of which was answered ready while the whole tree was in the  *)
(* Job, and no request and no probe of a check outlives it.                *)
THEOREM ReadinessIsEarned == Spec => []ReadyIsEarned
<1>1. HInd => ReadyIsEarned
  <2> SUFFICES ASSUME HInd PROVE ReadyIsEarned
    OBVIOUS
  <2>1. ASSUME check = "ready"
        PROVE  Len(rounds) = ConsecutiveSuccesses /\ \A i \in 1 .. Len(rounds) : rounds[i] = "good"
    BY <2>1, HealthAssumption
    DEF HInd, HTypeInv, CountInv, Underway, Earlier, Rounds
  <2>2. check \in {"ready", "failed"} => helper = "off"
    BY DEF HInd, HelperInv
  <2> QED BY <2>1, <2>2 DEF ReadyIsEarned, HInd, HTypeInv, Rounds
<1> QED BY HealthInvariant, <1>1, PTL
=============================================================================
