-------------------------- MODULE SupervisorProofs --------------------------
(***************************************************************************)
(* Theorems about module Supervisor, for every set of commands, every      *)
(* capacity of the mailbox and every set of faults.                        *)
(***************************************************************************)
EXTENDS Supervisor, SequenceTheorems, TLAPS

(* Before a process, and with one.                                         *)
Early   == {"acquire", "preflight", "prelude", "begin", "txOpen", "spawn", "delay"}
Started == {"spawned", "updateHealth", "health", "healthy", "updated", "run"}
Closing == {"closeMailbox", "closeReader", "closeDrain"}
Over    == {"return", "join", "session", "leave", "end", "exit"}

(* Where a closed control channel leads.                                   *)
Target == IF sup.pc \in Closing THEN sup.after ELSE sup.pc

(* No terminal command was taken from the channel yet, and a later select  *)
(* may still wait for one.                                                 *)
Hot ==
  \/ sup.pc \in Early \cup Started \cup {"exited", "drain"}
  \/ /\ sup.pc = "cleaning"
     /\ \/ sup.after \in {"exited", "updateFailed", "healthFailed"}
        \/ sup.after = "raise" /\ sup.err \in {"ctx", "timeout"}
  \/ sup.pc = "resolve" /\ ~sup.committed /\ sup.err # "output" /\ ~Infra

(* The channel, the forwarder and the queue in this order hold the first   *)
(* terminal command in front of every other one.                           *)
Ahead == Latched /\ (results = terminal \/ parcel = terminal)

InOrder ==
  /\ ~forwarderCtx
  /\ stopped => terminal \in Terminal \ Cancel
  /\ results \in Terminal => results = terminal
  /\ parcel \in Terminal => Ahead
  /\ \A i \in DOMAIN queue :
       queue[i] \in Terminal => Ahead \/ \E j \in 1 .. i : queue[j] = terminal
  /\ Latched => Ahead \/ \E i \in DOMAIN queue : queue[i] = terminal
  /\ results # "stopped"
  /\ Latched /\ parcel \in {"error", "stopped"} => results = terminal
  /\ parcel = "stopped" => Latched
  /\ results = "error" => ~Latched
  /\ forwarder = "done" => ~Latched \/ results = terminal

ChannelInv == Hot => InOrder

(* After a reader error there is no submission.                            *)
ReaderInv ==
  /\ Infra => reader = "done"
  /\ parcel = "error" \/ results = "error" => Infra
  /\ parcel = "stopped" => stopped
  /\ forwarder = "done" => forwarderCtx \/ Infra \/ stopped

DrainSites ==
  {"start", "txOpen", "cleaned", "health", "healthy", "exit", "restart", "delay", "resolve"}

(* The command that ends the supervision.                                  *)
DecisionInv ==
  /\ sup.cmd \in {None, terminal}
  /\ Target = "cancelledQuietly" => sup.cmd \in Cancel
  /\ Target = "stoppedQuietly" => sup.cmd \in Terminal \ Cancel
  /\ Target \in {"stopNil", "cancel", "cancelling", "cancelDrain", "stopped"} =>
       sup.cmd # None \/ ctx
  /\ Target \in {"shutdown", "http", "awaitExit", "shut"} => sup.cmd \in Terminal \ Cancel
  /\ sup.pc = "cleaning" /\ sup.after = "shut" => sup.cmd \in Terminal \ Cancel
  /\ sup.outcome = "stopped" => terminal \in Terminal \ Cancel
  /\ sup.outcome = "cancelled" => terminal \in Cancel \/ ctx
  /\ sup.pc = "awaitExit" => sup.asked
  /\ Target \in {"cancel", "cancelling"} => sup.cmd \in Cancel \cup {None}

(* Where a process may be running that no cleanup has reported on.         *)
MayRun ==
  \/ sup.pc \in Started \cup {"cancel", "shutdown", "http", "awaitExit"}
  \/ sup.pc \in {"cleaning", "cancelling"} /\ cleaner = "tree"
  \/ sup.pc = "drain" /\ sup.after \in {"health", "healthy", "exit"}
  \/ sup.pc \in Closing /\ sup.after = "shutdown"

(* Where none can be, not even one that a cleanup has failed to terminate. *)
NoneRuns ==
  \/ sup.pc \in Early
  \/ sup.pc = "resolve" /\ ~sup.committed
  \/ sup.pc = "drain" /\ sup.after \in {"start", "txOpen", "restart", "delay", "resolve"}
  \/ Target \in {"stopNil", "cancelledQuietly", "stoppedQuietly"}
  \/ sup.pc = "stopped" /\ sup.after = "stopNil"

ProcInv ==
  /\ NoneRuns => proc = "none"
  /\ ~MayRun => proc = "none" \/ dirty
  /\ sup.pc \in {"txOpen", "spawn"} \/ (sup.pc = "drain" /\ sup.after = "txOpen") => tx
  /\ proc # "none" => tx \/ dirty
  /\ sup.pc = "drain" => sup.after \in DrainSites
  /\ sup.pc \in {"cleaning", "cancelling"} => cleaner # "idle"
  /\ sup.pc = "cleaning" =>
       sup.after \in {"updateFailed", "healthFailed", "fail", "exited", "shut", "raise"}
  /\ sup.pc \in Closing =>
       sup.after \in {"cancelledQuietly", "stoppedQuietly", "failedQuietly", "failed", "stopNil",
                      "shutdown", "cancelDrain"}
  /\ sup.pc = "closeDrain" => sup.after \notin {"shutdown", "cancelDrain"}
  /\ sup.pc = "cancelDrain" => sup.after = "cancelDrain"

LeaseInv ==
  /\ lease \in {"closed", "broken"} =>
       Target \in {"failed", "failedQuietly"} \cup Over
  /\ life = "stopped" => sup.pc \in Over /\ lease = "closed" /\ proc = "none"
  /\ lease = "closed" => Target # "failed"

IndInv == TypeOK /\ ReaderInv /\ ChannelInv /\ DecisionInv /\ ProcInv /\ LeaseInv

-----------------------------------------------------------------------------
(* Facts about the sets the model is typed with.                           *)

(* The labels the actions of the supervisor write are values of their sets. *)
LEMMA Labels ==
  /\ "acquire" \in Control /\ "preflight" \in Control /\ "prelude" \in Control
  /\ "begin" \in Control /\ "txOpen" \in Control /\ "spawn" \in Control /\ "spawned" \in Control
  /\ "updateHealth" \in Control /\ "health" \in Control /\ "healthy" \in Control
  /\ "updated" \in Control /\ "run" \in Control /\ "exited" \in Control /\ "delay" \in Control
  /\ "drain" \in Control /\ "cleaning" \in Control /\ "resolve" \in Control
  /\ "closeMailbox" \in Control /\ "closeReader" \in Control /\ "closeDrain" \in Control
  /\ "cancelledQuietly" \in Control /\ "stoppedQuietly" \in Control /\ "failedQuietly" \in Control
  /\ "failed" \in Control /\ "stopNil" \in Control /\ "shutdown" \in Control /\ "http" \in Control
  /\ "awaitExit" \in Control /\ "shut" \in Control /\ "cancel" \in Control
  /\ "cancelling" \in Control /\ "cancelDrain" \in Control /\ "stopped" \in Control
  /\ "return" \in Control /\ "join" \in Control /\ "session" \in Control /\ "leave" \in Control
  /\ "end" \in Control /\ "exit" \in Control
  /\ "none" \in After /\ "start" \in After /\ "txOpen" \in After /\ "cleaned" \in After
  /\ "health" \in After /\ "healthy" \in After /\ "exit" \in After /\ "restart" \in After
  /\ "delay" \in After /\ "resolve" \in After /\ "updateFailed" \in After
  /\ "healthFailed" \in After /\ "raise" \in After /\ "fail" \in After /\ "failed" \in After
  /\ "exited" \in After /\ "shut" \in After /\ "cancelledQuietly" \in After
  /\ "stoppedQuietly" \in After /\ "failedQuietly" \in After /\ "stopNil" \in After
  /\ "shutdown" \in After /\ "cancelDrain" \in After
  /\ "none" \in Error /\ "output" \in Error /\ "infra" \in Error /\ "ctx" \in Error
  /\ "timeout" \in Error /\ "business" \in Error
  /\ "ready" \in Status_ /\ "starting" \in Status_ /\ "running" \in Status_
  /\ "restarting" \in Status_ /\ "stopping" \in Status_ /\ "stopped" \in Status_
  /\ "failed" \in Status_
BY DEF Control, After, Error, Status_

(* The types of the locals of superviseControlled.                          *)
LEMMA SupFields ==
  ASSUME sup \in SupType
  PROVE  /\ sup.pc \in Control /\ sup.after \in After /\ sup.err \in Error
         /\ sup.committed \in BOOLEAN /\ sup.cmd \in Terminal \cup {None}
         /\ sup.restartUsed \in BOOLEAN /\ sup.snap \in Status_
         /\ sup.out \in BOOLEAN /\ sup.asked \in BOOLEAN
         /\ sup.ended \in BOOLEAN /\ sup.closed \in BOOLEAN
         /\ sup.outcome \in {"none", "stopped", "cancelled", "failed"}
BY DEF SupType

(* A command is neither the end of the channel nor an error, and a cancel is*)
(* terminal.                                                                *)
LEMMA Commands ==
  /\ None \notin Terminal /\ Cancel \subseteq Terminal
  /\ "stopped" \notin Terminal /\ "error" \notin Terminal
BY MailboxAssumption DEF Item, Command, Terminal

-----------------------------------------------------------------------------
(* What the helpers of the supervisor do to its locals.                    *)

(* The locals the invariants are about.                                    *)
Moved(p, a, e, c, k) ==
  /\ sup' \in SupType
  /\ sup'.pc = p /\ sup'.after = a /\ sup'.err = e /\ sup'.committed = c /\ sup'.cmd = k

Kept == sup'.asked = sup.asked /\ sup'.outcome = sup.outcome

(* Where CloseThen(a, e, c) goes.                                          *)
Way(a) == IF sup.closed THEN a ELSE "closeMailbox"

(* The next statement: only pc changes.                                     *)
LEMMA GotoStep ==
  ASSUME sup \in SupType, NEW p \in Control, Goto(p)
  PROVE  Moved(p, sup.after, sup.err, sup.committed, sup.cmd) /\ Kept
BY DEF SupType, Goto, Kept, Moved

(* An error of a start attempt (startControlAttempt, awaitControlPreflight) *)
(* goes to resolveStartAttemptError.                                        *)
LEMMA RaiseStep ==
  ASSUME sup \in SupType, NEW e \in Error, NEW c \in BOOLEAN, Raise(e, c)
  PROVE  Moved("resolve", sup.after, e, c, sup.cmd) /\ Kept
BY Labels DEF SupType, Raise, Kept, Moved

(* A call of drainUntilTerminal.                                            *)
LEMMA DrainForStep ==
  ASSUME sup \in SupType, NEW s \in After, DrainFor(s)
  PROVE  Moved("drain", s, sup.err, sup.committed, sup.cmd) /\ Kept
BY Labels DEF SupType, DrainFor, Kept, Moved

(* A return with an outcome.                                                *)
LEMMA ReturnStep ==
  ASSUME sup \in SupType, NEW o \in {"stopped", "cancelled", "failed"}, Return(o)
  PROVE  /\ Moved("return", sup.after, sup.err, sup.committed, sup.cmd)
         /\ sup'.asked = sup.asked /\ sup'.outcome = o
BY Labels DEF SupType, Return, Moved

(* cleanupProcess begins with the tree and has done nothing yet.            *)
LEMMA CleanStep ==
  ASSUME sup \in SupType, NEW a \in After, NEW e \in Error, Clean(a, e)
  PROVE  /\ Moved("cleaning", a, e, sup.committed, sup.cmd) /\ Kept
         /\ cleaner' = "tree" /\ proc' = proc /\ tx' = tx /\ dirty' = dirty
BY Labels DEF SupType, Clean, Kept, Moved

(* closeControlAndDrain and closeControlBeforeFailure go through the channel*)
(* once, and straight on afterwards.                                        *)
LEMMA CloseThenStep ==
  ASSUME sup \in SupType, NEW a \in After \cap Control, NEW e \in Error,
         NEW k \in Terminal \cup {None}, CloseThen(a, e, k)
  PROVE  Moved(Way(a), a, e, sup.committed, k) /\ Kept
BY Labels DEF SupType, CloseThen, Kept, Moved, Way

(* emitControlFailure closes the channel first.                             *)
LEMMA FailStep ==
  ASSUME sup \in SupType, NEW e \in Error, Fail(e)
  PROVE  Moved(Way("failed"), "failed", e, sup.committed, sup.cmd) /\ Kept
BY CloseThenStep, SupFields, Labels DEF Fail

(* finishControlCancel and finishControlShutdown without a process close the*)
(* channel first.                                                           *)
LEMMA FinishNilStep ==
  ASSUME sup \in SupType, NEW k \in Terminal \cup {None}, FinishNil(k)
  PROVE  Moved(Way("stopNil"), "stopNil", "none", sup.committed, k) /\ Kept
BY CloseThenStep, Labels DEF FinishNil

(* A terminal command before there is a process leads to one of the three   *)
(* quiet or reported ends, and a quiet cancellation only for a cancel.      *)
LEMMA InterruptStep ==
  ASSUME sup \in SupType, NEW k \in Terminal, Interrupt(k)
  PROVE  /\ Kept
         /\ \E a \in {"cancelledQuietly", "stoppedQuietly", "stopNil"} :
              /\ Moved(Way(a), a, "none", sup.committed, k)
              /\ a = "cancelledQuietly" => k \in Cancel
              /\ a = "stoppedQuietly" => k \notin Cancel
              /\ a = "stopNil" => sup.snap # "ready"
<1>1. CASE k \in Cancel
  BY <1>1, CloseThenStep, Labels DEF Interrupt
<1>2. CASE k \notin Cancel /\ sup.snap = "ready"
  BY <1>2, CloseThenStep, Labels DEF Interrupt
<1>3. CASE k \notin Cancel /\ sup.snap # "ready"
  BY <1>3, FinishNilStep DEF Interrupt
<1> QED BY <1>1, <1>2, <1>3

(* A terminal command with a process: a cancel, or no command at all, to    *)
(* finishControlCancel, a shutdown to finishControlShutdown.                *)
LEMMA FinishStep ==
  ASSUME sup \in SupType, NEW k \in Terminal \cup {None}, Finish(k)
  PROVE  /\ k \in Cancel \cup {None} =>
              Moved("cancel", sup.after, sup.err, sup.committed, k)
         /\ k \notin Cancel \cup {None} =>
              Moved("closeMailbox", "shutdown", sup.err, sup.committed, k)
         /\ Kept
BY Labels DEF SupType, Finish, Kept, Moved

(* A start that fails behind the transaction: the record is removed or the  *)
(* error is committed, and the process is not touched.                      *)
LEMMA DropTxStep ==
  ASSUME sup \in SupType, NEW e \in Error, DropTx(e)
  PROVE  /\ \E c \in BOOLEAN : Moved("resolve", sup.after, e, c, sup.cmd)
         /\ Kept
         /\ tx' = FALSE \/ tx' \in BOOLEAN
         /\ dirty' = dirty \/ dirty' = TRUE
<1>1. CASE tx' = FALSE /\ dirty' = dirty /\ Raise(e, FALSE)
  BY <1>1, RaiseStep
<1>2. CASE tx' \in BOOLEAN /\ dirty' = TRUE /\ Raise(e, e \in {"ctx", "timeout"})
  <2> DEFINE c == e \in {"ctx", "timeout"}
  <2>1. c \in BOOLEAN
    OBVIOUS
  <2>2. Raise(e, c)
    BY <1>2
  <2> HIDE DEF c
  <2> QED BY <1>2, <2>1, <2>2, RaiseStep
<1> QED BY <1>1, <1>2 DEF DropTx

(* A failed drain of the channel ends in a failure, reported if one was     *)
(* being reported.                                                          *)
LEMMA CloseFailsStep ==
  ASSUME sup \in SupType, CloseFails
  PROVE  /\ Moved(IF sup.after = "failed" THEN "failed" ELSE "failedQuietly",
                  sup.after, sup.err, sup.committed, sup.cmd)
         /\ Kept
BY Labels DEF SupType, CloseFails, Kept, Moved

(* The way an error of drainUntilTerminal takes at each of its call sites.  *)
LEMMA DrainFailsStep ==
  ASSUME sup \in SupType, dirty \in BOOLEAN, NEW e \in Error, DrainFails(e)
  PROVE  \/ /\ sup.after \in {"start", "delay", "cleaned"}
            /\ Moved("resolve", sup.after, e, IF sup.after = "cleaned" THEN Marked(e) ELSE FALSE,
                     sup.cmd)
            /\ Kept /\ UNCHANGED backend
         \/ /\ sup.after = "txOpen"
            /\ \E c \in BOOLEAN : Moved("resolve", sup.after, e, c, sup.cmd)
            /\ Kept /\ UNCHANGED <<proc, cleaner>>
            /\ tx' \in BOOLEAN /\ (dirty' = dirty \/ dirty' = TRUE)
         \/ /\ sup.after \in {"health", "healthy", "exit"}
            /\ \E a \in {"healthFailed", "raise", "fail"} :
                 /\ Moved("cleaning", a, e, sup.committed, sup.cmd)
            /\ Kept /\ cleaner' = "tree" /\ UNCHANGED <<proc, tx, dirty>>
         \/ /\ sup.after = "restart"
            /\ Moved(Way("failed"), "failed", e, sup.committed, sup.cmd)
            /\ Kept /\ UNCHANGED backend
         \/ /\ sup.after = "resolve"
            /\ Moved("return", sup.after, sup.err, sup.committed, sup.cmd)
            /\ sup'.asked = sup.asked /\ sup'.outcome = "failed"
            /\ UNCHANGED backend
<1>1. CASE sup.after \in {"start", "delay"} /\ Raise(e, FALSE) /\ UNCHANGED backend
  BY <1>1, RaiseStep
<1>2. CASE sup.after = "txOpen" /\ DropTx(e) /\ UNCHANGED <<proc, cleaner>>
  BY <1>2, DropTxStep
<1>3. CASE sup.after = "cleaned" /\ Raise(e, Marked(e)) /\ UNCHANGED backend
  <2>1. Marked(e) \in BOOLEAN
    BY DEF Marked
  <2> QED BY <1>3, <2>1, RaiseStep
<1>4. CASE sup.after = "health" /\ Clean("healthFailed", e)
  BY <1>4, CleanStep, Labels
<1>5. CASE sup.after = "healthy" /\ Clean("raise", e)
  BY <1>5, CleanStep, Labels
<1>6. CASE sup.after = "exit" /\ Clean("fail", e)
  BY <1>6, CleanStep, Labels
<1>7. CASE sup.after = "restart" /\ Fail(e) /\ UNCHANGED backend
  BY <1>7, FailStep
<1>8. CASE /\ sup.after = "resolve"
           /\ sup' = [sup EXCEPT !.pc = "return", !.outcome = "failed"]
           /\ UNCHANGED backend
  BY <1>8, Labels DEF SupType, Moved
<1> QED BY <1>1, <1>2, <1>3, <1>4, <1>5, <1>6, <1>7, <1>8 DEF DrainFails

-----------------------------------------------------------------------------
(* What the actions do that write the locals themselves.                   *)

(* StartManaged: a process, a process to clean up, or none.                 *)
LEMMA SpawnStep ==
  ASSUME sup \in SupType, Spawn
  PROVE  /\ Kept
         /\ \/ /\ Moved("spawned", sup.after, sup.err, sup.committed, sup.cmd)
               /\ proc' = "alive" /\ UNCHANGED <<tx, dirty, cleaner>>
            \/ /\ Moved("cleaning", "raise", "business", sup.committed, sup.cmd)
               /\ proc' = "alive" /\ cleaner' = "tree" /\ UNCHANGED <<tx, dirty>>
            \/ /\ \E c \in BOOLEAN, e \in Error : Moved("resolve", sup.after, e, c, sup.cmd)
               /\ tx' \in BOOLEAN /\ (dirty' = dirty \/ dirty' = TRUE)
               /\ UNCHANGED <<proc, cleaner>>
<1>1. CASE proc' = "alive" /\ Goto("spawned") /\ UNCHANGED <<tx, dirty, cleaner>>
  BY <1>1, GotoStep, Labels
<1>2. CASE /\ proc' = "alive"
           /\ sup' = [sup EXCEPT !.pc = "cleaning", !.after = "raise", !.err = "business"]
           /\ cleaner' = "tree" /\ UNCHANGED <<tx, dirty>>
  BY <1>2, Labels DEF SupType, Moved, Kept
<1>3. CASE (DropTx("business") \/ DropTx("output")) /\ UNCHANGED <<proc, cleaner>>
  BY <1>3, DropTxStep, Labels
<1> QED BY <1>1, <1>2, <1>3 DEF Spawn

(* The first update of the transaction fails, or the wait for readiness     *)
(* begins.                                                                  *)
LEMMA UpdateHealthStep ==
  ASSUME sup \in SupType, UpdateHealth
  PROVE  /\ Kept
         /\ \/ /\ Moved("cleaning", "updateFailed", "business", sup.committed, sup.cmd)
               /\ cleaner' = "tree" /\ UNCHANGED <<proc, tx, dirty>>
            \/ /\ Moved("health", sup.after, sup.err, sup.committed, sup.cmd)
               /\ UNCHANGED backend
<1>1. CASE Clean("updateFailed", "business")
  BY <1>1, CleanStep, Labels
<1>2. CASE /\ sup' = [sup EXCEPT !.pc = "health",
                        !.snap = IF sup.restartUsed THEN "restarting" ELSE "starting"]
           /\ UNCHANGED backend
  BY <1>2, Labels DEF SupType, Moved, Kept
<1> QED BY <1>1, <1>2 DEF UpdateHealth

(* After the second update: a cleanup, a drain, or running.                 *)
LEMMA UpdatedStep ==
  ASSUME sup \in SupType, Updated
  PROVE  /\ Kept
         /\ \/ /\ \E e \in {"output", "business", "infra", "ctx"} :
                    Moved("cleaning", "raise", e, sup.committed, sup.cmd)
               /\ cleaner' = "tree" /\ UNCHANGED <<proc, tx, dirty>>
            \/ /\ Moved("drain", "healthy", sup.err, sup.committed, sup.cmd)
               /\ UNCHANGED backend
            \/ /\ Moved("run", sup.after, sup.err, sup.committed, sup.cmd)
               /\ UNCHANGED backend
<1>1. CASE \/ Clean("raise", GateError) \/ Clean("raise", "infra")
           \/ Clean("raise", "ctx") \/ Clean("raise", "output")
  <2>1. GateError \in {"output", "business"}
    BY DEF GateError
  <2> QED BY <1>1, <2>1, CleanStep, Labels
<1>2. CASE DrainFor("healthy") /\ UNCHANGED backend
  BY <1>2, DrainForStep, Labels
<1>3. CASE /\ sup' = [sup EXCEPT !.pc = "run", !.snap = "running"]
           /\ UNCHANGED backend
  BY <1>3, Labels DEF SupType, Moved, Kept
<1> QED BY <1>1, <1>2, <1>3 DEF Updated

(* A fault of the log stream at the top of the loop: a shutdown that is on  *)
(* its way goes on, anything else fails.                                    *)
LEMMA RunFaultStep ==
  ASSUME sup \in SupType, RunFault
  PROVE  /\ Kept
         /\ \/ /\ Moved("closeMailbox", "shutdown", sup.err, sup.committed, terminal)
               /\ terminal \in Terminal \ Cancel /\ UNCHANGED backend
            \/ /\ \E e \in {"output", "business"} :
                    Moved("cleaning", "fail", e, sup.committed, sup.cmd)
               /\ cleaner' = "tree" /\ UNCHANGED <<proc, tx, dirty>>
<1>1. CASE gate = "output" /\ terminal \in Terminal \ Cancel
  <2>1. /\ sup' = [sup EXCEPT !.pc = "closeMailbox", !.after = "shutdown",
                              !.cmd = terminal, !.out = TRUE]
        /\ UNCHANGED backend
    BY <1>1 DEF RunFault
  <2> QED BY <1>1, <2>1, Labels DEF SupType, Moved, Kept
<1>2. CASE Clean("fail", GateError)
  <2>1. GateError \in {"output", "business"}
    BY DEF GateError
  <2> QED BY <1>2, <2>1, CleanStep, Labels
<1> QED BY <1>1, <1>2 DEF RunFault

(* After the cleanup of a backend that exited by itself: a failure, a drain,*)
(* an end without a process, the delay of the restart, or a broken stdout.  *)
LEMMA ExitedStep ==
  ASSUME sup \in SupType, Exited
  PROVE  /\ sup'.asked = sup.asked
         /\ \/ /\ \E e \in Error :
                    Moved(Way("failed"), "failed", e, sup.committed, sup.cmd)
               /\ sup'.outcome = sup.outcome
            \/ /\ Moved("drain", "restart", sup.err, sup.committed, sup.cmd)
               /\ sup'.outcome = sup.outcome /\ ~dirty
            \/ /\ Moved(Way("stopNil"), "stopNil", "none", sup.committed, None)
               /\ sup'.outcome = sup.outcome /\ ~dirty /\ ctx
            \/ /\ Moved("delay", sup.after, sup.err, sup.committed, sup.cmd)
               /\ sup'.outcome = sup.outcome /\ ~dirty
            \/ /\ Moved("return", sup.after, sup.err, sup.committed, sup.cmd)
               /\ sup'.outcome = "failed" /\ ~dirty
<1>1. CASE Fail(GateError) \/ Fail("business") \/ Fail("infra")
  <2>1. GateError \in {"output", "business"}
    BY DEF GateError
  <2> QED BY <1>1, <2>1, FailStep, Labels DEF Kept
<1>2. CASE ~dirty /\ DrainFor("restart")
  BY <1>2, DrainForStep, Labels DEF Kept
<1>3. CASE ~dirty /\ ctx /\ FinishNil(None)
  BY <1>3, FinishNilStep DEF Kept
<1>4. CASE /\ ~dirty
           /\ sup' = [sup EXCEPT !.pc = IF broken THEN "return" ELSE "delay",
                                 !.restartUsed = TRUE, !.snap = "restarting",
                                 !.outcome = IF broken THEN "failed" ELSE @]
  BY <1>4, Labels DEF SupType, Moved
<1> QED BY <1>1, <1>2, <1>3, <1>4 DEF Exited

(* Once the reader is stopped the channel is drained, or the supervisor goes*)
(* where it was going.                                                      *)
LEMMA CloseReaderStep ==
  ASSUME sup \in SupType, sup.after \in Control, CloseReader
  PROVE  /\ Kept
         /\ \/ Moved("closeDrain", sup.after, sup.err, sup.committed, sup.cmd)
            \/ Moved(sup.after, sup.after, sup.err, sup.committed, sup.cmd)
<1> DEFINE once == sup.after # "shutdown"
           drains == once /\ sup.after # "cancelDrain" /\ sup.err # "output"
<1>1. sup' = [sup EXCEPT !.closed = @ \/ once, !.pc = IF drains THEN "closeDrain" ELSE sup.after]
  BY DEF CloseReader
<1>2. once \in BOOLEAN /\ drains \in BOOLEAN
  OBVIOUS
<1> HIDE DEF once, drains
<1> QED BY <1>1, <1>2, Labels DEF SupType, Moved, Kept

(* stopping_backend without a process: silent for a cancellation before     *)
(* anything started, reported otherwise.                                    *)
LEMMA StopNilStep ==
  ASSUME sup \in SupType, broken \in BOOLEAN, StopNil
  PROVE  /\ sup'.asked = sup.asked
         /\ \/ /\ Moved("return", sup.after, sup.err, sup.committed, sup.cmd)
               /\ sup.cmd \in Cancel \cup {None} /\ sup'.outcome = "cancelled"
            \/ /\ \E p \in {"failed", "stopped"} :
                    Moved(p, sup.after, sup.err, sup.committed, sup.cmd)
               /\ sup'.outcome = sup.outcome
<1>1. CASE sup.cmd \in Cancel \cup {None} /\ sup.snap = "ready"
  BY <1>1, ReturnStep DEF StopNil
<1>2. CASE ~(sup.cmd \in Cancel \cup {None} /\ sup.snap = "ready")
  <2> DEFINE bad == broken /\ sup.cmd \in Cancel \cup {None}
  <2>1. sup' = [sup EXCEPT !.snap = "stopping", !.out = broken,
                           !.pc = IF bad THEN "failed" ELSE "stopped"]
    BY <1>2 DEF StopNil
  <2>2. bad \in BOOLEAN
    OBVIOUS
  <2> HIDE DEF bad
  <2> QED BY <2>1, <2>2, Labels DEF SupType, Moved
<1> QED BY <1>1, <1>2

(* finishControlShutdown and finishControlCancel begin with                 *)
(* stopping_backend.                                                        *)
LEMMA BeginStep ==
  ASSUME sup \in SupType, broken \in BOOLEAN
  PROVE  /\ BeginShutdown =>
              Moved("http", sup.after, sup.err, sup.committed, sup.cmd) /\ Kept
         /\ BeginCancel =>
              Moved("cancelling", sup.after, sup.err, sup.committed, sup.cmd) /\ Kept
<1>1. ASSUME BeginShutdown
      PROVE  Moved("http", sup.after, sup.err, sup.committed, sup.cmd) /\ Kept
  <2>1. sup' = [sup EXCEPT !.snap = "stopping", !.out = @ \/ broken, !.pc = "http"]
    BY <1>1 DEF BeginShutdown
  <2> QED BY <2>1, Labels DEF SupType, Moved, Kept
<1>2. ASSUME BeginCancel
      PROVE  Moved("cancelling", sup.after, sup.err, sup.committed, sup.cmd) /\ Kept
  <2>1. sup' = [sup EXCEPT !.snap = "stopping", !.out = broken, !.pc = "cancelling"]
    BY <1>2 DEF BeginCancel
  <2> QED BY <2>1, Labels DEF SupType, Moved, Kept
<1> QED BY <1>1, <1>2

(* The POST is sent to a root that runs; a root that has exited is cleaned  *)
(* up at once.                                                              *)
LEMMA HttpCloseStep ==
  ASSUME sup \in SupType, HttpClose
  PROVE  /\ sup'.outcome = sup.outcome
         /\ \/ /\ Moved("awaitExit", sup.after, sup.err, sup.committed, sup.cmd)
               /\ sup'.asked /\ UNCHANGED backend
            \/ /\ Moved("cleaning", "shut", "none", sup.committed, sup.cmd)
               /\ proc # "alive"
               /\ cleaner' = "tree" /\ UNCHANGED <<proc, tx, dirty>>
<1>1. CASE proc = "alive"
  <2>1. sup' = [sup EXCEPT !.asked = TRUE, !.pc = "awaitExit"] /\ UNCHANGED backend
    BY <1>1 DEF HttpClose
  <2> QED BY <2>1, Labels DEF SupType, Moved
<1>2. CASE proc # "alive"
  BY <1>2, CleanStep, Labels DEF HttpClose, Kept
<1> QED BY <1>1, <1>2

(* After the cleanup of a shutdown.                                         *)
LEMMA ShutStep ==
  ASSUME sup \in SupType, Shut
  PROVE  /\ Kept
         /\ \/ /\ \E e \in Error :
                    Moved(Way("failed"), "failed", e, sup.committed, sup.cmd)
            \/ /\ Moved("stopped", sup.after, sup.err, sup.committed, sup.cmd)
               /\ ~dirty
<1>1. CASE dirty
  BY <1>1, FailStep, Labels DEF Shut
<1>2. CASE ~dirty
  BY <1>2, Labels DEF Shut, SupType, Moved, Kept
<1> QED BY <1>1, <1>2

(* finishControlCancel beside its cleanup: items are consumed, then the     *)
(* channel is closed.                                                       *)
LEMMA CancelStep ==
  ASSUME sup \in SupType, broken \in BOOLEAN
  PROVE  /\ CancelItem =>
              /\ Kept
              /\ \/ Moved(sup.pc, sup.after, sup.err, sup.committed, sup.cmd)
                 \/ /\ Moved("stopped", sup.after, sup.err, sup.committed, sup.cmd)
                    /\ sup.pc = "cancelDrain"
         /\ CancelCleaned =>
              Moved("closeMailbox", "cancelDrain", "none", sup.committed, sup.cmd) /\ Kept
<1>1. ASSUME CancelItem
      PROVE  /\ Kept
             /\ \/ Moved(sup.pc, sup.after, sup.err, sup.committed, sup.cmd)
                \/ /\ Moved("stopped", sup.after, sup.err, sup.committed, sup.cmd)
                   /\ sup.pc = "cancelDrain"
  <2>1. CASE sup' = [sup EXCEPT !.out = @ \/ broken]
    BY <2>1, SupFields DEF SupType, Moved, Kept
  <2>2. CASE sup' = sup
    BY <2>2, SupFields DEF Moved, Kept
  <2>3. CASE sup' = [sup EXCEPT !.ended = TRUE, !.out = @ \/ results = "error",
                                !.pc = IF At("cancelDrain") THEN "stopped" ELSE @]
    BY <2>3, SupFields, Labels DEF SupType, Moved, Kept, At
  <2> QED BY <1>1, <2>1, <2>2, <2>3 DEF CancelItem
<1>2. ASSUME CancelCleaned
      PROVE  Moved("closeMailbox", "cancelDrain", "none", sup.committed, sup.cmd) /\ Kept
  BY <1>2, Labels DEF CancelCleaned, SupType, Moved, Kept
<1> QED BY <1>1, <1>2

(* The failed event and the return.                                         *)
LEMMA EmitFailedStep ==
  ASSUME sup \in SupType, EmitFailed
  PROVE  /\ Moved("return", sup.after, sup.err, sup.committed, sup.cmd)
         /\ sup'.asked = sup.asked /\ sup'.outcome = "failed"
         /\ life' \in {life, "failed"}
BY Labels DEF EmitFailed, Emit, SupType, Moved

(* finalizeResources and the stopped event: nothing is reported before the  *)
(* mutex is closed and unless the cleanup succeeded.                        *)
LEMMA EmitStoppedStep ==
  ASSUME sup \in SupType, EmitStopped
  PROVE  /\ sup'.asked = sup.asked
         /\ \/ /\ \E e \in Error :
                    Moved(Way("failed"), "failed", e, sup.committed, sup.cmd)
               /\ lease' \in {lease, "broken"} /\ life' = life
               /\ sup'.outcome = sup.outcome
            \/ /\ Moved("return", sup.after, sup.err, sup.committed, sup.cmd)
               /\ lease' = "closed" /\ life' \in {life, "stopped"}
               /\ sup.after = "stopNil" \/ ~dirty
               /\ sup'.outcome = "cancelled" => sup.cmd \in Cancel \cup {None}
               /\ sup'.outcome = "stopped" => sup.cmd \notin Cancel \cup {None}
<1> DEFINE cancelled == sup.cmd \in Cancel \cup {None}
           bad == (sup.after # "stopNil" /\ dirty) \/ (cancelled /\ sup.out)
<1>1. CASE bad /\ Fail("business") /\ UNCHANGED <<lease, life>>
  BY <1>1, FailStep, Labels DEF Kept
<1>2. CASE /\ lease' = "broken" /\ UNCHANGED life
           /\ Fail(IF sup.out THEN "output" ELSE "business")
  BY <1>2, FailStep, Labels DEF Kept
<1>3. CASE /\ ~bad /\ lease' = "closed"
           /\ Emit("stopped")
           /\ sup' = [sup EXCEPT !.snap = "stopped", !.pc = "return",
                 !.outcome = IF cancelled THEN "cancelled"
                             ELSE IF sup.out \/ broken THEN "failed" ELSE "stopped"]
  <2>1. life' \in {life, "stopped"}
    BY <1>3 DEF Emit
  <2>2. sup.after = "stopNil" \/ ~dirty
    BY <1>3
  <2> DEFINE o == IF cancelled THEN "cancelled"
                  ELSE IF sup.out \/ broken THEN "failed" ELSE "stopped"
  <2>3. /\ o \in {"none", "stopped", "cancelled", "failed"}
        /\ o = "cancelled" => cancelled
        /\ o = "stopped" => ~cancelled
    OBVIOUS
  <2>4. sup' = [sup EXCEPT !.snap = "stopped", !.pc = "return", !.outcome = o]
    BY <1>3
  <2> HIDE DEF o
  <2>5. /\ Moved("return", sup.after, sup.err, sup.committed, sup.cmd)
        /\ sup'.asked = sup.asked /\ sup'.outcome = o
    BY <2>3, <2>4, Labels DEF SupType, Moved
  <2> QED BY <1>3, <2>1, <2>2, <2>3, <2>5
<1> QED BY <1>1, <1>2, <1>3 DEF EmitStopped

-----------------------------------------------------------------------------
(* The reader and the forwarder.                                           *)

(* The reader and the forwarder keep the types of the channel.              *)
LEMMA MailboxTypes ==
  ASSUME MailboxTypeOK, ReaderNext \/ ReaderPanics \/ ForwarderNext
  PROVE  MailboxTypeOK'
<1> USE MailboxAssumption DEF MailboxTypeOK
<1>1. CASE ReadLine
  BY <1>1 DEF ReadLine, StopAfterShutdown, Command, mailbox, sender, channel, Item
<1>2. CASE InputEnds
  BY <1>2 DEF InputEnds, Command, mailbox, sender, channel, Item
<1>3. CASE ReaderStops
  BY <1>3 DEF ReaderStops, mailbox, sender, channel
<1>4. CASE Submit
  <2>1. line \in Command /\ UNCHANGED <<forwarder, parcel, results, forwarderCtx>>
    BY <1>4 DEF Submit, sender
  <2>2. queue' \in Seq(Command) /\ Len(queue') <= Capacity
    BY <1>4, <2>1 DEF Submit
  <2>3. terminal' \in Terminal \cup {None} /\ owed' \subseteq Status
    BY <1>4, <2>1 DEF Submit, Latch
  <2>4. stopped' \in BOOLEAN
    BY <1>4 DEF Submit
  <2>5. /\ UNCHANGED <<unread, readerStopped, readerCtx, readerErr>>
        /\ line' = None /\ reader' \in {"reading", "done"}
    BY <1>4 DEF Submit
  <2> HIDE MailboxAssumption
  <2> QED BY <2>1, <2>2, <2>3, <2>4, <2>5
<1>5. CASE SubmitFails
  BY <1>5 DEF SubmitFails, mailbox, sender, channel
<1>6. CASE ReaderPanics
  BY <1>6 DEF ReaderPanics, sender, channel
<1>7. CASE ReceiveCommand
  <2>1. queue # <<>> /\ parcel' = Head(queue) /\ queue' = Tail(queue)
    BY <1>7 DEF ReceiveCommand
  <2>2. Head(queue) \in Command /\ Tail(queue) \in Seq(Command) /\ Len(Tail(queue)) <= Capacity
    BY <2>1
  <2>3. Command \subseteq Item /\ None \notin Item
    BY DEF Item
  <2>4. /\ UNCHANGED <<input, stopped, terminal, readerErr, channel, forwarderCtx>>
        /\ forwarder' = "deliver"
    BY <1>7 DEF ReceiveCommand
  <2> HIDE MailboxAssumption
  <2> QED BY <2>1, <2>2, <2>3, <2>4 DEF input, channel
<1>8. CASE ReceiveReaderError
  BY <1>8 DEF ReceiveReaderError, input, channel, Item
<1>9. CASE ReceiveStopped
  BY <1>9 DEF ReceiveStopped, input, mailbox, channel, Item
<1>10. CASE Deliver
  BY <1>10 DEF Deliver, input, mailbox
<1>11. CASE ForwarderStops
  BY <1>11 DEF ForwarderStops, input, mailbox, channel
<1> QED BY <1>1, <1>2, <1>3, <1>4, <1>5, <1>6, <1>7, <1>8, <1>9, <1>10, <1>11
        DEF ReaderNext, ForwarderNext

(* ControlReader, ControlMailbox.SetReaderError: after an error of the      *)
(* reader nothing is submitted, and the latch of the mailbox is written     *)
(* once.                                                                    *)
LEMMA MailboxReader ==
  ASSUME MailboxTypeOK, ReaderInv, ReaderNext \/ ReaderPanics \/ ForwarderNext
  PROVE  ReaderInv' /\ (Infra => Infra') /\ terminal' \in {terminal} \cup Terminal
         /\ (Latched => terminal' = terminal)
<1> USE DEF ReaderInv, Infra, Latched
<1>1. CASE ReadLine
  BY <1>1 DEF ReadLine, mailbox, sender, channel
<1>2. CASE InputEnds
  BY <1>2 DEF InputEnds, mailbox, sender, channel
<1>3. CASE ReaderStops
  BY <1>3 DEF ReaderStops, mailbox, sender, channel
<1>4. CASE Submit
  BY <1>4 DEF Submit, Latch, sender, MailboxTypeOK
<1>5. CASE SubmitFails
  BY <1>5 DEF SubmitFails, mailbox, sender, channel
<1>6. CASE ReaderPanics
  BY <1>6 DEF ReaderPanics, sender, channel
<1>7. CASE ReceiveCommand
  <2>1. parcel' \in Command
    BY <1>7 DEF ReceiveCommand, MailboxTypeOK
  <2>2. parcel' \notin {"error", "stopped"}
    BY <2>1, MailboxAssumption
  <2> QED BY <1>7, <2>2 DEF ReceiveCommand, input, channel
<1>8. CASE ReceiveReaderError
  BY <1>8 DEF ReceiveReaderError, input, channel
<1>9. CASE ReceiveStopped
  BY <1>9 DEF ReceiveStopped, input, mailbox, channel
<1>10. CASE Deliver
  <2>1. parcel \notin Command => parcel \in {"error", "stopped"}
    BY <1>10, MailboxAssumption DEF Deliver, MailboxTypeOK, Item
  <2>2. None \notin {"error", "stopped"}
    BY MailboxAssumption DEF Item
  <2> QED BY <1>10, <2>1, <2>2 DEF Deliver, input, mailbox
<1>11. CASE ForwarderStops
  <2>1. None \notin {"error", "stopped"}
    BY MailboxAssumption DEF Item
  <2> QED BY <1>11, <2>1 DEF ForwarderStops, input, mailbox, channel
<1> QED BY <1>1, <1>2, <1>3, <1>4, <1>5, <1>6, <1>7, <1>8, <1>9, <1>10, <1>11
        DEF ReaderNext, ForwarderNext

(* Submit appends behind what was accepted before and latches the first     *)
(* terminal command as it does.                                             *)
LEMMA SubmitInOrder ==
  ASSUME MailboxTypeOK, ReaderInv, InOrder, Submit
  PROVE  InOrder'
<1>1. /\ line \in Command /\ queue \in Seq(Command)
      /\ ~stopped /\ ~Infra /\ None \notin Terminal
      /\ forwarder # "done" /\ parcel \notin {"error", "stopped"} /\ results # "error"
  BY Commands DEF Submit, MailboxTypeOK, ReaderInv, Infra, InOrder
<1>2. /\ queue' = Append(queue, line)
      /\ terminal' = IF line \in Terminal /\ terminal = None THEN line ELSE terminal
      /\ stopped' = (line \in Terminal \ Cancel /\ terminal = None)
      /\ UNCHANGED <<results, forwarder, parcel, forwarderCtx>>
  BY DEF Submit, Latch, sender
<1>3. /\ DOMAIN queue = 1 .. Len(queue) /\ DOMAIN queue' = 1 .. (Len(queue) + 1)
      /\ Len(queue) \in Nat
      /\ \A i \in 1 .. Len(queue) : queue'[i] = queue[i]
      /\ queue'[Len(queue) + 1] = line
  BY <1>1, <1>2
<1>4. Latched => terminal' = terminal
  BY <1>2 DEF Latched
<1>5. \A i \in DOMAIN queue' :
        queue'[i] \in Terminal => Ahead' \/ \E j \in 1 .. i : queue'[j] = terminal'
  <2> SUFFICES ASSUME NEW i \in DOMAIN queue', queue'[i] \in Terminal
               PROVE  Ahead' \/ \E j \in 1 .. i : queue'[j] = terminal'
    OBVIOUS
  <2>1. CASE Latched
    <3>1. Ahead \/ \E j \in 1 .. i : j \in DOMAIN queue /\ queue[j] = terminal
      BY <1>3, <2>1 DEF InOrder
    <3> QED BY <1>2, <1>3, <1>4, <2>1, <3>1 DEF Ahead, Latched
  <2>2. CASE ~Latched
    <3>1. ASSUME i \in DOMAIN queue
          PROVE  FALSE
      <4>1. PICK j \in 1 .. i : queue[j] = terminal
        BY <1>3, <2>2, <3>1 DEF InOrder, Ahead
      <4>2. queue[j] \in Command
        BY <1>1, <1>3, <3>1
      <4> QED BY <2>2, <4>1, <4>2, MailboxAssumption DEF Latched, Item
    <3> QED BY <1>2, <1>3, <2>2, <3>1 DEF Latched
  <2> QED BY <2>1, <2>2
<1>6. Latched' => Ahead' \/ \E i \in DOMAIN queue' : queue'[i] = terminal'
  <2>1. CASE Latched
    BY <1>2, <1>3, <1>4, <2>1 DEF InOrder, Ahead, Latched
  <2>2. CASE ~Latched
    BY <1>2, <1>3, <2>2 DEF Latched
  <2> QED BY <2>1, <2>2
<1>7. /\ results \in Terminal => Latched
      /\ parcel \in Terminal => Ahead /\ Latched
  BY <1>1 DEF InOrder, Ahead, Latched
<1> QED BY <1>1, <1>2, <1>4, <1>5, <1>6, <1>7 DEF InOrder, Ahead, Latched

(* Receive takes the head of the queue: the first terminal command stays in *)
(* front.                                                                   *)
LEMMA ReceiveInOrder ==
  ASSUME MailboxTypeOK, InOrder, ReceiveCommand
  PROVE  InOrder'
<1>1. /\ queue \in Seq(Command) /\ queue # <<>> /\ parcel = None
      /\ parcel' = Head(queue) /\ queue' = Tail(queue) /\ forwarder' = "deliver"
      /\ UNCHANGED <<stopped, terminal, results, forwarderCtx>>
      /\ None \notin Terminal
  BY Commands DEF ReceiveCommand, MailboxTypeOK, channel
<1>2. /\ Len(queue) \in Nat \ {0} /\ DOMAIN queue = 1 .. Len(queue)
      /\ DOMAIN queue' = 1 .. (Len(queue) - 1)
      /\ parcel' = queue[1] /\ parcel' \in Command
      /\ \A i \in DOMAIN queue' : queue'[i] = queue[i + 1] /\ i + 1 \in DOMAIN queue
  BY <1>1
<1>3. parcel' \notin {"error", "stopped"}
  BY <1>2, MailboxAssumption
<1>4. Ahead => Ahead'
  BY <1>1 DEF Ahead, Latched
<1>5. parcel' \in Terminal => Ahead'
  <2> SUFFICES ASSUME queue[1] \in Terminal
               PROVE  Ahead'
    BY <1>2
  <2>1. Ahead \/ queue[1] = terminal
    BY <1>2 DEF InOrder
  <2> QED BY <1>1, <1>2, <1>4, <2>1 DEF Ahead, Latched
<1>6. \A i \in DOMAIN queue' :
        queue'[i] \in Terminal => Ahead' \/ \E j \in 1 .. i : queue'[j] = terminal'
  <2> SUFFICES ASSUME NEW i \in DOMAIN queue', queue'[i] \in Terminal, ~Ahead'
               PROVE  \E j \in 1 .. i : queue'[j] = terminal'
    OBVIOUS
  <2>1. PICK j \in 1 .. (i + 1) : queue[j] = terminal
    BY <1>2, <1>4 DEF InOrder
  <2>2. Latched
    <3>1. queue[j] \in Command
      BY <1>1, <1>2
    <3> QED BY <2>1, <3>1, MailboxAssumption DEF Latched, Item
  <2>3. j # 1
    BY <1>1, <1>2, <2>1, <2>2 DEF Ahead, Latched
  <2>4. j - 1 \in 1 .. i /\ j - 1 \in DOMAIN queue' /\ (j - 1) + 1 = j
    BY <1>2, <2>1, <2>3
  <2>5. queue'[j - 1] = terminal'
    BY <1>1, <1>2, <2>1, <2>4
  <2> QED BY <2>4, <2>5
<1>7. Latched' => Ahead' \/ \E i \in DOMAIN queue' : queue'[i] = terminal'
  <2> SUFFICES ASSUME Latched, ~Ahead'
               PROVE  \E i \in DOMAIN queue' : queue'[i] = terminal'
    BY <1>1 DEF Latched
  <2>1. PICK j \in DOMAIN queue : queue[j] = terminal
    BY <1>4 DEF InOrder
  <2>2. j # 1
    BY <1>1, <1>2, <2>1 DEF Ahead, Latched
  <2>3. j - 1 \in DOMAIN queue' /\ (j - 1) + 1 = j
    BY <1>2, <2>1, <2>2
  <2> QED BY <1>1, <1>2, <2>1, <2>3
<1> QED BY <1>1, <1>3, <1>5, <1>6, <1>7 DEF InOrder, Latched

(* No step of the reader or of the forwarder reorders terminal commands or  *)
(* puts the end of the channel in front of the latched one.                 *)
LEMMA MailboxInOrder ==
  ASSUME MailboxTypeOK, ReaderInv, InOrder, ReaderNext \/ ReaderPanics \/ ForwarderNext
  PROVE  InOrder'
<1>1. CASE ReadLine \/ InputEnds \/ ReaderStops \/ SubmitFails \/ ReaderPanics
  <2>1. UNCHANGED <<queue, stopped, terminal, forwarder, parcel, forwarderCtx, results>>
    BY <1>1 DEF ReadLine, InputEnds, ReaderStops, SubmitFails, ReaderPanics, mailbox, sender,
                channel
  <2> QED BY <2>1 DEF InOrder, Ahead, Latched
<1>2. CASE Submit
  BY <1>2, SubmitInOrder
<1>3. CASE ReceiveCommand
  BY <1>3, ReceiveInOrder
<1>4. CASE ReceiveReaderError \/ ReceiveStopped
  <2>1. /\ queue = <<>> /\ queue' = queue /\ parcel = None /\ forwarder' = "deliver"
        /\ UNCHANGED <<stopped, terminal, results, forwarderCtx>>
        /\ parcel' \in {"error", "stopped"}
        /\ parcel' = "stopped" => stopped
    BY <1>4 DEF ReceiveReaderError, ReceiveStopped, MailboxTypeOK, channel, mailbox
  <2>2. Latched => results = terminal
    BY <2>1 DEF InOrder, Ahead, Latched
  <2>3. stopped => Latched
    BY Commands DEF InOrder, Latched
  <2>4. parcel' \notin Terminal
    BY <2>1, Commands
  <2>5. /\ Latched' = Latched /\ (Ahead => Ahead')
    BY <2>1, <2>2 DEF Ahead, Latched
  <2> QED BY <2>1, <2>2, <2>3, <2>4, <2>5 DEF InOrder
<1>5. CASE Deliver
  <2>1. /\ results = None /\ results' = parcel /\ parcel' = None /\ parcel # None
        /\ forwarder' = IF parcel \in Command THEN "receive" ELSE "done"
        /\ UNCHANGED <<queue, stopped, terminal, forwarderCtx>>
    BY <1>5 DEF Deliver, MailboxTypeOK, mailbox
  <2>2. parcel \in {"error", "stopped"} => ~Latched
    BY <2>1 DEF InOrder, Latched
  <2>3. parcel # "stopped"
    BY <2>2 DEF InOrder
  <2>4. parcel \notin Command => parcel = "error"
    BY <2>1, <2>3 DEF MailboxTypeOK, Item
  <2>5. Latched' = Latched /\ (Ahead => Ahead') /\ (parcel \in Terminal => parcel = terminal)
    BY <2>1 DEF InOrder, Ahead, Latched
  <2> QED BY <2>1, <2>2, <2>3, <2>4, <2>5, Commands, MailboxAssumption DEF InOrder, Item
<1>6. CASE ForwarderStops
  BY <1>6 DEF ForwarderStops, InOrder
<1> QED BY <1>1, <1>2, <1>3, <1>4, <1>5, <1>6 DEF ReaderNext, ForwarderNext

-----------------------------------------------------------------------------
(* The supervisor, action by action.                                       *)

(* The terminal command a select of the supervisor takes is the one the     *)
(* mailbox has latched.                                                     *)
LEMMA TakenFirst ==
  ASSUME ChannelInv, sup.pc \in Early \cup Started \cup {"drain"}, results \in Terminal
  PROVE  results = terminal
BY DEF ChannelInv, Hot, InOrder

(* A status command is not terminal.                                        *)
LEMMA StatusIsNoTerminal == Status \cap Terminal = {}
BY DEF Terminal

(* The ranges of the variables of the supervisor but its locals.           *)
Ranges ==
  /\ life \in Status_
  /\ proc \in {"none", "alive", "exited"}
  /\ tx \in BOOLEAN /\ dirty \in BOOLEAN
  /\ lease \in {"none", "held", "closed", "broken"}
  /\ cleaner \in {"idle", "tree", "record", "done"}
  /\ cleaner # "idle" => sup.pc \in {"cleaning", "cancelling"}
  /\ gate \in {"ok", "output", "log"}

(* The supervisor takes items from the channel and closes it; it writes     *)
(* neither the queue nor the latch nor what the host has broken.            *)
LEMMA SupervisorFrame ==
  ASSUME SupervisorNext
  PROVE  /\ UNCHANGED <<reader, line, unread, queue, terminal, readerErr, forwarder, parcel>>
         /\ UNCHANGED <<ctx, broken>>
         /\ results' \in {results, None} /\ owed' \subseteq owed
         /\ readerStopped' \in {readerStopped, TRUE} /\ readerCtx' \in {readerCtx, TRUE}
         /\ stopped' \in {stopped, TRUE} /\ forwarderCtx' \in {forwarderCtx, TRUE}
<1>1. CASE Acquire
  BY <1>1 DEF Acquire, control, host, inbox, channel, input, mailbox, sender
<1>2. CASE PreflightEnds
  BY <1>2 DEF PreflightEnds, control, host, inbox, channel, input, mailbox, sender
<1>3. CASE PreflightCommand
  BY <1>3 DEF PreflightCommand, inbox, host, input, mailbox, sender
<1>4. CASE Prelude
  BY <1>4 DEF Prelude, control, host, inbox, channel, input, mailbox, sender
<1>5. CASE BeginTx
  BY <1>5 DEF BeginTx, control, host, inbox, channel, input, mailbox, sender
<1>6. CASE TxOpen
  BY <1>6 DEF TxOpen, control, host, inbox, channel, input, mailbox, sender
<1>7. CASE Spawn
  BY <1>7 DEF Spawn, control, inbox, channel, input, mailbox, sender
<1>8. CASE Spawned
  BY <1>8 DEF Spawned, control, host, inbox, channel, input, mailbox, sender
<1>9. CASE UpdateHealth
  BY <1>9 DEF UpdateHealth, control, host, inbox, channel, input, mailbox, sender
<1>10. CASE HealthEnds
  BY <1>10 DEF HealthEnds, control, host, inbox, channel, input, mailbox, sender
<1>11. CASE HealthCommand
  BY <1>11 DEF HealthCommand, inbox, host, input, mailbox, sender
<1>12. CASE Healthy
  BY <1>12 DEF Healthy, control, host, inbox, channel, input, mailbox, sender
<1>13. CASE Updated
  BY <1>13 DEF Updated, control, host, inbox, channel, input, mailbox, sender
<1>14. CASE RunFault
  BY <1>14 DEF RunFault, control, host, inbox, channel, input, mailbox, sender
<1>15. CASE RunInfra
  BY <1>15 DEF RunInfra, control, host, inbox, channel, input, mailbox, sender
<1>16. CASE RunInterrupted
  BY <1>16 DEF RunInterrupted, control, host, inbox, channel, input, mailbox, sender
<1>17. CASE RunExited
  BY <1>17 DEF RunExited, control, host, inbox, channel, input, mailbox, sender
<1>18. CASE RunCommand
  BY <1>18 DEF RunCommand, inbox, host, input, mailbox, sender
<1>19. CASE Exited
  BY <1>19 DEF Exited, control, host, inbox, channel, input, mailbox, sender
<1>20. CASE DelayEnds
  BY <1>20 DEF DelayEnds, control, host, inbox, channel, input, mailbox, sender
<1>21. CASE DelayCommand
  BY <1>21 DEF DelayCommand, inbox, host, input, mailbox, sender
<1>22. CASE AnswerStatus
  BY <1>22 DEF AnswerStatus, inbox, host, input, mailbox, sender
<1>23. CASE AnswerFails
  BY <1>23 DEF AnswerFails, inbox, host, input, mailbox, sender
<1>24. CASE TakeError
  BY <1>24 DEF TakeError, inbox, host, input, mailbox, sender
<1>25. CASE Drained
  BY <1>25 DEF Drained, inbox, host, input, mailbox, sender
<1>26. CASE DrainEndsBadly
  BY <1>26 DEF DrainEndsBadly, control, host, inbox, channel, input, mailbox, sender
<1>27. CASE Resolve
  BY <1>27 DEF Resolve, control, host, inbox, channel, input, mailbox, sender
<1>28. CASE Cleaned
  BY <1>28 DEF Cleaned, control, host, inbox, channel, input, mailbox, sender
<1>29. CASE CloseMailbox
  BY <1>29 DEF CloseMailbox, StopMailbox, host, sender, channel
<1>30. CASE CloseReader
  BY <1>30 DEF CloseReader, StopReader, host, mailbox, sender, channel
<1>31. CASE CloseDrain
  BY <1>31 DEF CloseDrain, inbox, host, input, mailbox, sender
<1>32. CASE ReturnQuietly
  BY <1>32 DEF ReturnQuietly, control, host, inbox, channel, input, mailbox, sender
<1>33. CASE EmitFailed
  BY <1>33 DEF EmitFailed, control, host, inbox, channel, input, mailbox, sender
<1>34. CASE StopNil
  BY <1>34 DEF StopNil, control, host, inbox, channel, input, mailbox, sender
<1>35. CASE BeginShutdown
  BY <1>35 DEF BeginShutdown, control, host, inbox, channel, input, mailbox, sender
<1>36. CASE HttpClose
  BY <1>36 DEF HttpClose, control, host, inbox, channel, input, mailbox, sender
<1>37. CASE AwaitExit
  BY <1>37 DEF AwaitExit, control, host, inbox, channel, input, mailbox, sender
<1>38. CASE Shut
  BY <1>38 DEF Shut, control, host, inbox, channel, input, mailbox, sender
<1>39. CASE BeginCancel
  BY <1>39 DEF BeginCancel, control, host, inbox, channel, input, mailbox, sender
<1>40. CASE CancelItem
  BY <1>40 DEF CancelItem, inbox, host, input, mailbox, sender
<1>41. CASE CancelCleaned
  BY <1>41 DEF CancelCleaned, control, host, inbox, channel, input, mailbox, sender
<1>42. CASE CancelDrained
  BY <1>42 DEF CancelDrained, control, host, inbox, channel, input, mailbox, sender
<1>43. CASE EmitStopped
  BY <1>43 DEF EmitStopped, control, host, inbox, channel, input, mailbox, sender
<1>44. CASE CloseResources
  BY <1>44 DEF CloseResources, input, mailbox, channel, host
<1>45. CASE Join
  BY <1>45 DEF Join, control, host, inbox, channel, input, mailbox, sender
<1>46. CASE EndSession
  BY <1>46 DEF EndSession, mailbox, sender, channel, host
<1>47. CASE Leave
  BY <1>47 DEF Leave, sender, channel, host
<1>48. CASE Exit
  BY <1>48 DEF Exit, control, host, inbox, channel, input, mailbox, sender
<1> QED BY <1>1, <1>2, <1>3, <1>4, <1>5, <1>6, <1>7, <1>8, <1>9, <1>10, <1>11, <1>12, <1>13,
           <1>14, <1>15, <1>16, <1>17, <1>18, <1>19, <1>20, <1>21, <1>22, <1>23, <1>24, <1>25,
           <1>26, <1>27, <1>28, <1>29, <1>30, <1>31, <1>32, <1>33, <1>34, <1>35, <1>36, <1>37,
           <1>38, <1>39, <1>40, <1>41, <1>42, <1>43, <1>44, <1>45, <1>46, <1>47, <1>48
           DEF SupervisorNext

(* Every action keeps the types of the locals.                              *)
LEMMA SupervisorTypes ==
  ASSUME sup \in SupType, dirty \in BOOLEAN, broken \in BOOLEAN,
         terminal \in Terminal \cup {None}, ProcInv,
         SupervisorNext
  PROVE  sup' \in SupType
<1>1. CASE Acquire
  BY <1>1, GotoStep, RaiseStep, Labels, SupFields, Commands DEF Acquire, At, backend, Moved
<1>2. CASE PreflightEnds
  BY <1>2, RaiseStep, DrainForStep, GotoStep, Labels, SupFields, Commands
     DEF PreflightEnds, At, backend, Moved
<1>3. CASE PreflightCommand
  BY <1>3, RaiseStep, InterruptStep, Labels, SupFields, Commands
     DEF PreflightCommand, At, backend, Moved
<1>4. CASE Prelude
  BY <1>4, RaiseStep, DrainForStep, GotoStep, Labels, SupFields, Commands
     DEF Prelude, At, backend, Moved
<1>5. CASE BeginTx
  BY <1>5, GotoStep, RaiseStep, Labels, SupFields, Commands DEF BeginTx, At, Moved
<1>6. CASE TxOpen
  BY <1>6, DropTxStep, DrainForStep, GotoStep, Labels, SupFields, Commands DEF TxOpen, At, Moved
<1>7. CASE Spawn
  BY <1>7, SpawnStep, Labels, SupFields, Commands DEF Spawn, At, Moved
<1>8. CASE Spawned
  BY <1>8, CleanStep, GotoStep, Labels, SupFields, Commands
     DEF Spawned, At, GateError, backend, Moved
<1>9. CASE UpdateHealth
  BY <1>9, UpdateHealthStep, Labels, SupFields, Commands DEF UpdateHealth, At, backend, Moved
<1>10. CASE HealthEnds
  BY <1>10, CleanStep, DrainForStep, GotoStep, Labels, SupFields, Commands
     DEF HealthEnds, At, GateError, backend, Moved
<1>11. CASE HealthCommand
  BY <1>11, CleanStep, FinishStep, Labels, SupFields, Commands
     DEF HealthCommand, At, GateError, backend, Moved
<1>12. CASE Healthy
  BY <1>12, CleanStep, DrainForStep, GotoStep, Labels, SupFields, Commands
     DEF Healthy, At, GateError, backend, Moved
<1>13. CASE Updated
  BY <1>13, UpdatedStep, Labels, SupFields, Commands DEF Updated, At, GateError, backend, Moved
<1>14. CASE RunFault
  BY <1>14, RunFaultStep, Labels, SupFields, Commands DEF RunFault, At, backend, GateError, Moved
<1>15. CASE RunInfra
  BY <1>15, CleanStep, Labels, SupFields, Commands DEF RunInfra, At, GateError, Moved
<1>16. CASE RunInterrupted
  BY <1>16, CleanStep, FinishStep, Labels, SupFields, Commands
     DEF RunInterrupted, At, GateError, backend, Moved
<1>17. CASE RunExited
  BY <1>17, CleanStep, DrainForStep, Labels, SupFields, Commands
     DEF RunExited, At, GateError, backend, Moved
<1>18. CASE RunCommand
  BY <1>18, CleanStep, FinishStep, Labels, SupFields, Commands
     DEF RunCommand, At, GateError, backend, Moved
<1>19. CASE Exited
  BY <1>19, ExitedStep, Labels, SupFields, Commands DEF Exited, At, GateError, backend, Moved
<1>20. CASE DelayEnds
  BY <1>20, RaiseStep, DrainForStep, GotoStep, Labels, SupFields, Commands
     DEF DelayEnds, At, backend, Moved
<1>21. CASE DelayCommand
  BY <1>21, RaiseStep, FinishNilStep, Labels, SupFields, Commands
     DEF DelayCommand, At, backend, Moved
<1>22. CASE AnswerStatus
  BY <1>22, Labels, SupFields, Commands DEF AnswerStatus, Selecting, backend, Moved
<1>23. CASE AnswerFails
  BY <1>23, RaiseStep, CleanStep, DrainFailsStep, Labels, SupFields, Commands
     DEF AnswerFails, Selecting, At, backend, Moved
<1>24. CASE TakeError
  BY <1>24, Labels, SupFields, Commands DEF TakeError, Selecting, backend, Moved
<1>25. CASE Drained
  BY <1>25, InterruptStep, RaiseStep, FinishNilStep, FinishStep, Labels, SupFields, Commands
     DEF Drained, At, backend, Moved
<1>26. CASE DrainEndsBadly
  BY <1>26, DrainFailsStep, Labels, SupFields, Commands DEF DrainEndsBadly, At, Moved
<1>27. CASE Resolve
  BY <1>27, CloseThenStep, FailStep, DrainForStep, FinishNilStep, Labels, SupFields, Commands
     DEF Resolve, At, Interrupted, backend, Moved
<1>28. CASE Cleaned
  BY <1>28, FailStep, GotoStep, RaiseStep, DrainForStep, Labels, SupFields, Commands
     DEF Cleaned, At, Marked, GateError, Moved, ProcInv, Closing
<1>29. CASE CloseMailbox
  BY <1>29, GotoStep, Labels, SupFields, Commands DEF CloseMailbox, At, backend, Moved
<1>30. CASE CloseReader
  BY <1>30, CloseReaderStep, Labels, SupFields, Commands
     DEF CloseReader, At, backend, Moved, ProcInv, Closing
<1>31. CASE CloseDrain
  BY <1>31, CloseFailsStep, GotoStep, Labels, SupFields, Commands
     DEF CloseDrain, At, backend, Moved, ProcInv, Closing
<1>32. CASE ReturnQuietly
  BY <1>32, ReturnStep, Labels, SupFields, Commands DEF ReturnQuietly, At, backend, Moved
<1>33. CASE EmitFailed
  BY <1>33, EmitFailedStep, Labels, SupFields, Commands DEF EmitFailed, At, backend, Moved
<1>34. CASE StopNil
  BY <1>34, StopNilStep, Labels, SupFields, Commands DEF StopNil, At, backend, Moved
<1>35. CASE BeginShutdown
  BY <1>35, BeginStep, Labels, SupFields, Commands DEF BeginShutdown, At, backend, Moved
<1>36. CASE HttpClose
  BY <1>36, HttpCloseStep, Labels, SupFields, Commands DEF HttpClose, At, backend, Moved
<1>37. CASE AwaitExit
  BY <1>37, CleanStep, Labels, SupFields, Commands DEF AwaitExit, At, Moved
<1>38. CASE Shut
  BY <1>38, ShutStep, Labels, SupFields, Commands DEF Shut, At, backend, Moved
<1>39. CASE BeginCancel
  BY <1>39, BeginStep, Labels, SupFields, Commands DEF BeginCancel, At, Moved
<1>40. CASE CancelItem
  BY <1>40, CancelStep, Labels, SupFields, Commands DEF CancelItem, At, backend, Moved
<1>41. CASE CancelCleaned
  BY <1>41, CancelStep, Labels, SupFields, Commands DEF CancelCleaned, At, Moved
<1>42. CASE CancelDrained
  BY <1>42, GotoStep, Labels, SupFields, Commands DEF CancelDrained, At, backend, Moved
<1>43. CASE EmitStopped
  BY <1>43, EmitStoppedStep, Labels, SupFields, Commands DEF EmitStopped, At, backend, Moved
<1>44. CASE CloseResources
  BY <1>44, GotoStep, Labels, SupFields, Commands DEF CloseResources, At, backend, Moved
<1>45. CASE Join
  BY <1>45, GotoStep, Labels, SupFields, Commands DEF Join, At, backend, Moved
<1>46. CASE EndSession
  BY <1>46, GotoStep, Labels, SupFields, Commands DEF EndSession, At, backend, Moved
<1>47. CASE Leave
  BY <1>47, GotoStep, Labels, SupFields, Commands DEF Leave, At, backend, Moved
<1>48. CASE Exit
  BY <1>48, GotoStep, Labels, SupFields, Commands DEF Exit, At, Moved
<1> QED BY <1>1, <1>2, <1>3, <1>4, <1>5, <1>6, <1>7, <1>8, <1>9, <1>10, <1>11, <1>12, <1>13,
           <1>14, <1>15, <1>16, <1>17, <1>18, <1>19, <1>20, <1>21, <1>22, <1>23, <1>24, <1>25,
           <1>26, <1>27, <1>28, <1>29, <1>30, <1>31, <1>32, <1>33, <1>34, <1>35, <1>36, <1>37,
           <1>38, <1>39, <1>40, <1>41, <1>42, <1>43, <1>44, <1>45, <1>46, <1>47, <1>48
           DEF SupervisorNext

(* Every action keeps the ranges of the other variables, and a cleanup runs *)
(* only in the two states that wait for it.                                 *)
LEMMA SupervisorRanges ==
  ASSUME sup \in SupType, dirty \in BOOLEAN, broken \in BOOLEAN,
         terminal \in Terminal \cup {None}, Ranges, ProcInv,
         SupervisorNext
  PROVE  Ranges'
<1>1. CASE Acquire
  BY <1>1, GotoStep, RaiseStep, Labels, SupFields DEF Acquire, At, backend, Moved, Way, Ranges,
                                                      host
<1>2. CASE PreflightEnds
  BY <1>2, RaiseStep, DrainForStep, GotoStep, Labels, SupFields
     DEF PreflightEnds, At, backend, Moved, Way, Ranges, host
<1>3. CASE PreflightCommand
  BY <1>3, RaiseStep, InterruptStep, Labels, SupFields
     DEF PreflightCommand, At, backend, Moved, Way, Ranges, host
<1>4. CASE Prelude
  BY <1>4, RaiseStep, DrainForStep, GotoStep, Labels, SupFields
     DEF Prelude, At, backend, Moved, Way, Ranges, host
<1>5. CASE BeginTx
  BY <1>5, GotoStep, RaiseStep, Labels, SupFields DEF BeginTx, At, Moved, Way, Ranges, host
<1>6. CASE TxOpen
  BY <1>6, DropTxStep, DrainForStep, GotoStep, Labels, SupFields
     DEF TxOpen, At, Moved, Way, Ranges, host
<1>7. CASE Spawn
  BY <1>7, SpawnStep, Labels, SupFields DEF Spawn, At, Moved, Way, Ranges
<1>8. CASE Spawned
  BY <1>8, CleanStep, GotoStep, Labels, SupFields
     DEF Spawned, At, GateError, backend, Moved, Way, Ranges, host, Emit
<1>9. CASE UpdateHealth
  BY <1>9, UpdateHealthStep, Labels, SupFields
     DEF UpdateHealth, At, backend, Moved, Way, Ranges, host
<1>10. CASE HealthEnds
  BY <1>10, CleanStep, DrainForStep, GotoStep, Labels, SupFields
     DEF HealthEnds, At, GateError, backend, Moved, Way, Ranges, host
<1>11. CASE HealthCommand
  BY <1>11, CleanStep, FinishStep, Labels, SupFields
     DEF HealthCommand, At, GateError, backend, Moved, Way, Ranges, host
<1>12. CASE Healthy
  BY <1>12, CleanStep, DrainForStep, GotoStep, Labels, SupFields
     DEF Healthy, At, GateError, backend, Moved, Way, Ranges, host
<1>13. CASE Updated
  BY <1>13, UpdatedStep, Labels, SupFields
     DEF Updated, At, GateError, backend, Moved, Way, Ranges, host, Emit
<1>14. CASE RunFault
  BY <1>14, RunFaultStep, Labels, SupFields
     DEF RunFault, At, backend, GateError, Moved, Way, Ranges, host
<1>15. CASE RunInfra
  BY <1>15, CleanStep, Labels, SupFields DEF RunInfra, At, GateError, Moved, Way, Ranges, host
<1>16. CASE RunInterrupted
  BY <1>16, CleanStep, FinishStep, Labels, SupFields
     DEF RunInterrupted, At, GateError, backend, Moved, Way, Ranges, host
<1>17. CASE RunExited
  BY <1>17, CleanStep, DrainForStep, Labels, SupFields
     DEF RunExited, At, GateError, backend, Moved, Way, Ranges, host
<1>18. CASE RunCommand
  BY <1>18, CleanStep, FinishStep, Labels, SupFields
     DEF RunCommand, At, GateError, backend, Moved, Way, Ranges, host
<1>19. CASE Exited
  BY <1>19, ExitedStep, Labels, SupFields
     DEF Exited, At, GateError, backend, Moved, Way, Ranges, host, Emit
<1>20. CASE DelayEnds
  BY <1>20, RaiseStep, DrainForStep, GotoStep, Labels, SupFields
     DEF DelayEnds, At, backend, Moved, Way, Ranges, host
<1>21. CASE DelayCommand
  BY <1>21, RaiseStep, FinishNilStep, Labels, SupFields
     DEF DelayCommand, At, backend, Moved, Way, Ranges, host
<1>22. CASE AnswerStatus
  BY <1>22, Labels, SupFields DEF AnswerStatus, Selecting, backend, Moved, Way, Ranges, host
<1>23. CASE AnswerFails
  BY <1>23, RaiseStep, CleanStep, DrainFailsStep, Labels, SupFields
     DEF AnswerFails, Selecting, At, backend, Moved, Way, Ranges, host
<1>24. CASE TakeError
  BY <1>24, Labels, SupFields DEF TakeError, Selecting, backend, Moved, Way, Ranges, host
<1>25. CASE Drained
  BY <1>25, InterruptStep, RaiseStep, FinishNilStep, FinishStep, Labels, SupFields
     DEF Drained, At, backend, Moved, Way, Ranges, host
<1>26. CASE DrainEndsBadly
  <2>1. /\ DrainFails("infra") \/ DrainFails("timeout")
        /\ UNCHANGED <<life, lease, gate>> /\ sup.pc = "drain"
    BY <1>26 DEF DrainEndsBadly, At, host
  <2>2. CASE DrainFails("infra")
    BY <2>1, <2>2, DrainFailsStep, Labels DEF backend, Moved, Way, Ranges
  <2>3. CASE DrainFails("timeout")
    BY <2>1, <2>3, DrainFailsStep, Labels DEF backend, Moved, Way, Ranges
  <2> QED BY <2>1, <2>2, <2>3
<1>27. CASE Resolve
  BY <1>27, CloseThenStep, FailStep, DrainForStep, FinishNilStep, Labels, SupFields
     DEF Resolve, At, Interrupted, backend, Moved, Way, Ranges, host
<1>28. CASE Cleaned
  BY <1>28, FailStep, GotoStep, RaiseStep, DrainForStep, Labels, SupFields
     DEF Cleaned, At, Marked, GateError, Moved, Way, Ranges, host
<1>29. CASE CloseMailbox
  BY <1>29, GotoStep, Labels, SupFields DEF CloseMailbox, At, backend, Moved, Way, Ranges, host
<1>30. CASE CloseReader
  BY <1>30, CloseReaderStep, Labels, SupFields
     DEF CloseReader, At, backend, Moved, Way, Ranges, host
<1>31. CASE CloseDrain
  BY <1>31, CloseFailsStep, GotoStep, Labels, SupFields
     DEF CloseDrain, At, backend, Moved, Way, Ranges, host
<1>32. CASE ReturnQuietly
  BY <1>32, ReturnStep, Labels, SupFields DEF ReturnQuietly, At, backend, Moved, Way, Ranges, host
<1>33. CASE EmitFailed
  BY <1>33, EmitFailedStep, Labels, SupFields
     DEF EmitFailed, At, backend, Moved, Way, Ranges, host, Emit
<1>34. CASE StopNil
  BY <1>34, StopNilStep, Labels, SupFields DEF StopNil, At, backend, Moved, Way, Ranges, host,
                                               Emit
<1>35. CASE BeginShutdown
  BY <1>35, BeginStep, Labels, SupFields
     DEF BeginShutdown, At, backend, Moved, Way, Ranges, host, Emit
<1>36. CASE HttpClose
  BY <1>36, HttpCloseStep, Labels, SupFields DEF HttpClose, At, backend, Moved, Way, Ranges, host
<1>37. CASE AwaitExit
  BY <1>37, CleanStep, Labels, SupFields DEF AwaitExit, At, Moved, Way, Ranges, host
<1>38. CASE Shut
  BY <1>38, ShutStep, Labels, SupFields DEF Shut, At, backend, Moved, Way, Ranges, host
<1>39. CASE BeginCancel
  BY <1>39, BeginStep, Labels, SupFields DEF BeginCancel, At, Moved, Way, Ranges, host, Emit
<1>40. CASE CancelItem
  BY <1>40, CancelStep, Labels, SupFields DEF CancelItem, At, backend, Moved, Way, Ranges, host
<1>41. CASE CancelCleaned
  BY <1>41, CancelStep, Labels, SupFields DEF CancelCleaned, At, Moved, Way, Ranges, host
<1>42. CASE CancelDrained
  BY <1>42, GotoStep, Labels, SupFields DEF CancelDrained, At, backend, Moved, Way, Ranges, host
<1>43. CASE EmitStopped
  BY <1>43, EmitStoppedStep, Labels, SupFields
     DEF EmitStopped, At, backend, Moved, Way, Ranges, host, Emit
<1>44. CASE CloseResources
  BY <1>44, GotoStep, Labels, SupFields DEF CloseResources, At, backend, Moved, Way, Ranges, host
<1>45. CASE Join
  BY <1>45, GotoStep, Labels, SupFields DEF Join, At, backend, Moved, Way, Ranges, host
<1>46. CASE EndSession
  BY <1>46, GotoStep, Labels, SupFields DEF EndSession, At, backend, Moved, Way, Ranges, host
<1>47. CASE Leave
  BY <1>47, GotoStep, Labels, SupFields DEF Leave, At, backend, Moved, Way, Ranges, host
<1>48. CASE Exit
  BY <1>48, GotoStep, Labels, SupFields DEF Exit, At, Moved, Way, Ranges, host
<1> QED BY <1>1, <1>2, <1>3, <1>4, <1>5, <1>6, <1>7, <1>8, <1>9, <1>10, <1>11, <1>12, <1>13,
           <1>14, <1>15, <1>16, <1>17, <1>18, <1>19, <1>20, <1>21, <1>22, <1>23, <1>24, <1>25,
           <1>26, <1>27, <1>28, <1>29, <1>30, <1>31, <1>32, <1>33, <1>34, <1>35, <1>36, <1>37,
           <1>38, <1>39, <1>40, <1>41, <1>42, <1>43, <1>44, <1>45, <1>46, <1>47, <1>48
           DEF SupervisorNext

(* Nothing returns to a state that may still wait for a terminal command:   *)
(* whoever takes one, or closes the channel, has left these states for good.*)
LEMMA SupervisorStaysHot ==
  ASSUME sup \in SupType, dirty \in BOOLEAN, broken \in BOOLEAN,
         terminal \in Terminal \cup {None}, ProcInv, readerErr' = readerErr,
         SupervisorNext
  PROVE  Hot' =>
           /\ Hot /\ UNCHANGED <<forwarderCtx, stopped>>
           /\ results' = results \/ (results' = None /\ results \notin Terminal)
<1>1. CASE Acquire
  BY <1>1, GotoStep, RaiseStep, Labels, SupFields, Commands, StatusIsNoTerminal
     DEF Acquire, At, backend, Moved, Way, Hot, Early, Started, Infra, inbox, control, mailbox,
         sender, channel
<1>2. CASE PreflightEnds
  BY <1>2, RaiseStep, DrainForStep, GotoStep, Labels, SupFields, Commands, StatusIsNoTerminal
     DEF PreflightEnds, At, backend, Moved, Way, Hot, Early, Started, Infra, inbox, control,
         mailbox, sender, channel
<1>3. CASE PreflightCommand
  BY <1>3, RaiseStep, InterruptStep, Labels, SupFields, Commands, StatusIsNoTerminal
     DEF PreflightCommand, At, backend, Moved, Way, Hot, Early, Started, Infra, inbox, mailbox,
         sender
<1>4. CASE Prelude
  BY <1>4, RaiseStep, DrainForStep, GotoStep, Labels, SupFields, Commands, StatusIsNoTerminal
     DEF Prelude, At, backend, Moved, Way, Hot, Early, Started, Infra, inbox, control, mailbox,
         sender, channel
<1>5. CASE BeginTx
  BY <1>5, GotoStep, RaiseStep, Labels, SupFields, Commands, StatusIsNoTerminal
     DEF BeginTx, At, Moved, Way, Hot, Early, Started, Infra, inbox, control, mailbox, sender,
         channel
<1>6. CASE TxOpen
  BY <1>6, DropTxStep, DrainForStep, GotoStep, Labels, SupFields, Commands, StatusIsNoTerminal
     DEF TxOpen, At, Moved, Way, Hot, Early, Started, Infra, inbox, control, mailbox, sender,
         channel
<1>7. CASE Spawn
  BY <1>7, SpawnStep, Labels, SupFields, Commands, StatusIsNoTerminal
     DEF Spawn, At, Moved, Way, Hot, Early, Started, Infra, inbox, control, mailbox, sender,
         channel
<1>8. CASE Spawned
  BY <1>8, CleanStep, GotoStep, Labels, SupFields, Commands, StatusIsNoTerminal
     DEF Spawned, At, GateError, backend, Moved, Way, Hot, Early, Started, Infra, inbox,
         control, mailbox, sender, channel
<1>9. CASE UpdateHealth
  BY <1>9, UpdateHealthStep, Labels, SupFields, Commands, StatusIsNoTerminal
     DEF UpdateHealth, At, backend, Moved, Way, Hot, Early, Started, Infra, inbox, control,
         mailbox, sender, channel
<1>10. CASE HealthEnds
  BY <1>10, CleanStep, DrainForStep, GotoStep, Labels, SupFields, Commands, StatusIsNoTerminal
     DEF HealthEnds, At, GateError, backend, Moved, Way, Hot, Early, Started, Infra, inbox,
         control, mailbox, sender, channel
<1>11. CASE HealthCommand
  BY <1>11, CleanStep, FinishStep, Labels, SupFields, Commands, StatusIsNoTerminal
     DEF HealthCommand, At, GateError, backend, Moved, Way, Hot, Early, Started, Infra, inbox,
         mailbox, sender
<1>12. CASE Healthy
  BY <1>12, CleanStep, DrainForStep, GotoStep, Labels, SupFields, Commands, StatusIsNoTerminal
     DEF Healthy, At, GateError, backend, Moved, Way, Hot, Early, Started, Infra, inbox,
         control, mailbox, sender, channel
<1>13. CASE Updated
  BY <1>13, UpdatedStep, Labels, SupFields, Commands, StatusIsNoTerminal
     DEF Updated, At, GateError, backend, Moved, Way, Hot, Early, Started, Infra, inbox,
         control, mailbox, sender, channel
<1>14. CASE RunFault
  BY <1>14, RunFaultStep, Labels, SupFields, Commands, StatusIsNoTerminal
     DEF RunFault, At, backend, GateError, Moved, Way, Hot, Early, Started, Infra, inbox,
         control, mailbox, sender, channel
<1>15. CASE RunInfra
  BY <1>15, CleanStep, Labels, SupFields, Commands, StatusIsNoTerminal
     DEF RunInfra, At, GateError, Moved, Way, Hot, Early, Started, Infra, inbox, control,
         mailbox, sender, channel
<1>16. CASE RunInterrupted
  BY <1>16, CleanStep, FinishStep, Labels, SupFields, Commands, StatusIsNoTerminal
     DEF RunInterrupted, At, GateError, backend, Moved, Way, Hot, Early, Started, Infra, inbox,
         control, mailbox, sender, channel
<1>17. CASE RunExited
  BY <1>17, CleanStep, DrainForStep, Labels, SupFields, Commands, StatusIsNoTerminal
     DEF RunExited, At, GateError, backend, Moved, Way, Hot, Early, Started, Infra, inbox,
         control, mailbox, sender, channel
<1>18. CASE RunCommand
  BY <1>18, CleanStep, FinishStep, Labels, SupFields, Commands, StatusIsNoTerminal
     DEF RunCommand, At, GateError, backend, Moved, Way, Hot, Early, Started, Infra, inbox,
         mailbox, sender
<1>19. CASE Exited
  BY <1>19, ExitedStep, Labels, SupFields, Commands, StatusIsNoTerminal
     DEF Exited, At, GateError, backend, Moved, Way, Hot, Early, Started, Infra, inbox, control,
         mailbox, sender, channel
<1>20. CASE DelayEnds
  BY <1>20, RaiseStep, DrainForStep, GotoStep, Labels, SupFields, Commands, StatusIsNoTerminal
     DEF DelayEnds, At, backend, Moved, Way, Hot, Early, Started, Infra, inbox, control,
         mailbox, sender, channel
<1>21. CASE DelayCommand
  BY <1>21, RaiseStep, FinishNilStep, Labels, SupFields, Commands, StatusIsNoTerminal
     DEF DelayCommand, At, backend, Moved, Way, Hot, Early, Started, Infra, inbox, mailbox,
         sender
<1>22. CASE AnswerStatus
  BY <1>22, Labels, SupFields, Commands, StatusIsNoTerminal
     DEF AnswerStatus, Selecting, backend, Moved, Way, Hot, Early, Started, Infra, inbox,
         mailbox, sender
<1>23. CASE AnswerFails
  BY <1>23, RaiseStep, CleanStep, DrainFailsStep, Labels, SupFields, Commands, StatusIsNoTerminal
     DEF AnswerFails, Selecting, At, backend, Moved, Way, Hot, Early, Started, Infra, inbox,
         mailbox, sender, ProcInv, Closing, DrainSites, Marked
<1>24. CASE TakeError
  BY <1>24, Labels, SupFields, Commands, StatusIsNoTerminal
     DEF TakeError, Selecting, backend, Moved, Way, Hot, Early, Started, Infra, inbox, mailbox,
         sender
<1>25. CASE Drained
  BY <1>25, InterruptStep, RaiseStep, FinishNilStep, FinishStep, Labels, SupFields, Commands,
     StatusIsNoTerminal
     DEF Drained, At, backend, Moved, Way, Hot, Early, Started, Infra, inbox, mailbox, sender,
         ProcInv, Closing, DrainSites
<1>26. CASE DrainEndsBadly
  BY <1>26, DrainFailsStep, Labels, SupFields, Commands, StatusIsNoTerminal
     DEF DrainEndsBadly, At, Moved, Way, Hot, Early, Started, Infra, inbox, control, mailbox,
         sender, channel, ProcInv, Closing, DrainSites, Marked
<1>27. CASE Resolve
  BY <1>27, CloseThenStep, FailStep, DrainForStep, FinishNilStep, Labels, SupFields, Commands,
     StatusIsNoTerminal
     DEF Resolve, At, Interrupted, backend, Moved, Way, Hot, Early, Started, Infra, inbox,
         control, mailbox, sender, channel
<1>28. CASE Cleaned
  BY <1>28, FailStep, GotoStep, RaiseStep, DrainForStep, Labels, SupFields, Commands,
     StatusIsNoTerminal
     DEF Cleaned, At, Marked, GateError, Moved, Way, Hot, Early, Started, Infra, inbox, control,
         mailbox, sender, channel, ProcInv, Closing, DrainSites
<1>29. CASE CloseMailbox
  BY <1>29, GotoStep, Labels, SupFields, Commands, StatusIsNoTerminal
     DEF CloseMailbox, At, backend, Moved, Way, Hot, Early, Started, Infra, sender, channel
<1>30. CASE CloseReader
  BY <1>30, CloseReaderStep, Labels, SupFields, Commands, StatusIsNoTerminal
     DEF CloseReader, At, backend, Moved, Way, Hot, Early, Started, Infra, mailbox, sender,
         channel, ProcInv, Closing, DrainSites
<1>31. CASE CloseDrain
  BY <1>31, CloseFailsStep, GotoStep, Labels, SupFields, Commands, StatusIsNoTerminal
     DEF CloseDrain, At, backend, Moved, Way, Hot, Early, Started, Infra, inbox, mailbox,
         sender, ProcInv, Closing, DrainSites
<1>32. CASE ReturnQuietly
  BY <1>32, ReturnStep, Labels, SupFields, Commands, StatusIsNoTerminal
     DEF ReturnQuietly, At, backend, Moved, Way, Hot, Early, Started, Infra, inbox, control,
         mailbox, sender, channel
<1>33. CASE EmitFailed
  BY <1>33, EmitFailedStep, Labels, SupFields, Commands, StatusIsNoTerminal
     DEF EmitFailed, At, backend, Moved, Way, Hot, Early, Started, Infra, inbox, control,
         mailbox, sender, channel
<1>34. CASE StopNil
  BY <1>34, StopNilStep, Labels, SupFields, Commands, StatusIsNoTerminal
     DEF StopNil, At, backend, Moved, Way, Hot, Early, Started, Infra, inbox, control, mailbox,
         sender, channel
<1>35. CASE BeginShutdown
  BY <1>35, BeginStep, Labels, SupFields, Commands, StatusIsNoTerminal
     DEF BeginShutdown, At, backend, Moved, Way, Hot, Early, Started, Infra, inbox, control,
         mailbox, sender, channel
<1>36. CASE HttpClose
  BY <1>36, HttpCloseStep, Labels, SupFields, Commands, StatusIsNoTerminal
     DEF HttpClose, At, backend, Moved, Way, Hot, Early, Started, Infra, inbox, control,
         mailbox, sender, channel
<1>37. CASE AwaitExit
  BY <1>37, CleanStep, Labels, SupFields, Commands, StatusIsNoTerminal
     DEF AwaitExit, At, Moved, Way, Hot, Early, Started, Infra, inbox, control, mailbox, sender,
         channel
<1>38. CASE Shut
  BY <1>38, ShutStep, Labels, SupFields, Commands, StatusIsNoTerminal
     DEF Shut, At, backend, Moved, Way, Hot, Early, Started, Infra, inbox, control, mailbox,
         sender, channel
<1>39. CASE BeginCancel
  BY <1>39, BeginStep, Labels, SupFields, Commands, StatusIsNoTerminal
     DEF BeginCancel, At, Moved, Way, Hot, Early, Started, Infra, inbox, control, mailbox,
         sender, channel
<1>40. CASE CancelItem
  BY <1>40, CancelStep, Labels, SupFields, Commands, StatusIsNoTerminal
     DEF CancelItem, At, backend, Moved, Way, Hot, Early, Started, Infra, inbox, mailbox, sender
<1>41. CASE CancelCleaned
  BY <1>41, CancelStep, Labels, SupFields, Commands, StatusIsNoTerminal
     DEF CancelCleaned, At, Moved, Way, Hot, Early, Started, Infra, inbox, control, mailbox,
         sender, channel
<1>42. CASE CancelDrained
  BY <1>42, GotoStep, Labels, SupFields, Commands, StatusIsNoTerminal
     DEF CancelDrained, At, backend, Moved, Way, Hot, Early, Started, Infra, inbox, control,
         mailbox, sender, channel
<1>43. CASE EmitStopped
  BY <1>43, EmitStoppedStep, Labels, SupFields, Commands, StatusIsNoTerminal
     DEF EmitStopped, At, backend, Moved, Way, Hot, Early, Started, Infra, inbox, control,
         mailbox, sender, channel
<1>44. CASE CloseResources
  BY <1>44, GotoStep, Labels, SupFields, Commands, StatusIsNoTerminal
     DEF CloseResources, At, backend, Moved, Way, Hot, Early, Started, Infra, mailbox, channel
<1>45. CASE Join
  BY <1>45, GotoStep, Labels, SupFields, Commands, StatusIsNoTerminal
     DEF Join, At, backend, Moved, Way, Hot, Early, Started, Infra, inbox, control, mailbox,
         sender, channel
<1>46. CASE EndSession
  BY <1>46, GotoStep, Labels, SupFields, Commands, StatusIsNoTerminal
     DEF EndSession, At, backend, Moved, Way, Hot, Early, Started, Infra, mailbox, sender,
         channel
<1>47. CASE Leave
  BY <1>47, GotoStep, Labels, SupFields, Commands, StatusIsNoTerminal
     DEF Leave, At, backend, Moved, Way, Hot, Early, Started, Infra, sender, channel
<1>48. CASE Exit
  BY <1>48, GotoStep, Labels, SupFields, Commands, StatusIsNoTerminal
     DEF Exit, At, Moved, Way, Hot, Early, Started, Infra, inbox, control, mailbox, sender,
         channel
<1> QED BY <1>1, <1>2, <1>3, <1>4, <1>5, <1>6, <1>7, <1>8, <1>9, <1>10, <1>11, <1>12, <1>13,
           <1>14, <1>15, <1>16, <1>17, <1>18, <1>19, <1>20, <1>21, <1>22, <1>23, <1>24, <1>25,
           <1>26, <1>27, <1>28, <1>29, <1>30, <1>31, <1>32, <1>33, <1>34, <1>35, <1>36, <1>37,
           <1>38, <1>39, <1>40, <1>41, <1>42, <1>43, <1>44, <1>45, <1>46, <1>47, <1>48
           DEF SupervisorNext

(* Every action keeps the command that was decided on.                      *)
LEMMA SupervisorDecides ==
  ASSUME sup \in SupType, dirty \in BOOLEAN, broken \in BOOLEAN,
         terminal \in Terminal \cup {None}, ProcInv, ChannelInv, DecisionInv,
         terminal' = terminal, ctx' = ctx,
         SupervisorNext
  PROVE  DecisionInv'
<1>1. CASE Acquire
  BY <1>1, GotoStep, RaiseStep, Labels, SupFields, Commands, TakenFirst
     DEF Acquire, At, backend, Moved, Way, Kept, DecisionInv, Target, Closing, Early, Started
<1>2. CASE PreflightEnds
  BY <1>2, RaiseStep, DrainForStep, GotoStep, Labels, SupFields, Commands, TakenFirst
     DEF PreflightEnds, At, backend, Moved, Way, Kept, DecisionInv, Target, Closing, Early,
         Started
<1>3. CASE PreflightCommand
  BY <1>3, RaiseStep, InterruptStep, Labels, SupFields, Commands, TakenFirst
     DEF PreflightCommand, At, backend, Moved, Way, Kept, DecisionInv, Target, Closing, Early,
         Started
<1>4. CASE Prelude
  BY <1>4, RaiseStep, DrainForStep, GotoStep, Labels, SupFields, Commands, TakenFirst
     DEF Prelude, At, backend, Moved, Way, Kept, DecisionInv, Target, Closing, Early, Started
<1>5. CASE BeginTx
  BY <1>5, GotoStep, RaiseStep, Labels, SupFields, Commands, TakenFirst
     DEF BeginTx, At, Moved, Way, Kept, DecisionInv, Target, Closing, Early, Started
<1>6. CASE TxOpen
  BY <1>6, DropTxStep, DrainForStep, GotoStep, Labels, SupFields, Commands, TakenFirst
     DEF TxOpen, At, Moved, Way, Kept, DecisionInv, Target, Closing, Early, Started
<1>7. CASE Spawn
  <2>1. sup.pc = "spawn"
    BY <1>7 DEF Spawn, At
  <2> QED BY <1>7, <2>1, SpawnStep
             DEF Moved, Way, Kept, DecisionInv, Target, Closing, Early, Started
<1>8. CASE Spawned
  BY <1>8, CleanStep, GotoStep, Labels, SupFields, Commands, TakenFirst
     DEF Spawned, At, GateError, backend, Moved, Way, Kept, DecisionInv, Target, Closing, Early,
         Started
<1>9. CASE UpdateHealth
  BY <1>9, UpdateHealthStep, Labels, SupFields, Commands, TakenFirst
     DEF UpdateHealth, At, backend, Moved, Way, Kept, DecisionInv, Target, Closing, Early,
         Started
<1>10. CASE HealthEnds
  BY <1>10, CleanStep, DrainForStep, GotoStep, Labels, SupFields, Commands, TakenFirst
     DEF HealthEnds, At, GateError, backend, Moved, Way, Kept, DecisionInv, Target, Closing,
         Early, Started
<1>11. CASE HealthCommand
  BY <1>11, CleanStep, FinishStep, Labels, SupFields, Commands, TakenFirst
     DEF HealthCommand, At, GateError, backend, Moved, Way, Kept, DecisionInv, Target, Closing,
         Early, Started
<1>12. CASE Healthy
  BY <1>12, CleanStep, DrainForStep, GotoStep, Labels, SupFields, Commands, TakenFirst
     DEF Healthy, At, GateError, backend, Moved, Way, Kept, DecisionInv, Target, Closing, Early,
         Started
<1>13. CASE Updated
  BY <1>13, UpdatedStep, Labels, SupFields, Commands, TakenFirst
     DEF Updated, At, GateError, backend, Moved, Way, Kept, DecisionInv, Target, Closing, Early,
         Started
<1>14. CASE RunFault
  BY <1>14, RunFaultStep, Labels, SupFields, Commands, TakenFirst
     DEF RunFault, At, backend, GateError, Moved, Way, Kept, DecisionInv, Target, Closing,
         Early, Started
<1>15. CASE RunInfra
  BY <1>15, CleanStep, Labels, SupFields, Commands, TakenFirst
     DEF RunInfra, At, GateError, Moved, Way, Kept, DecisionInv, Target, Closing, Early, Started
<1>16. CASE RunInterrupted
  BY <1>16, CleanStep, FinishStep, Labels, SupFields, Commands, TakenFirst
     DEF RunInterrupted, At, GateError, backend, Moved, Way, Kept, DecisionInv, Target, Closing,
         Early, Started
<1>17. CASE RunExited
  BY <1>17, CleanStep, DrainForStep, Labels, SupFields, Commands, TakenFirst
     DEF RunExited, At, GateError, backend, Moved, Way, Kept, DecisionInv, Target, Closing,
         Early, Started
<1>18. CASE RunCommand
  BY <1>18, CleanStep, FinishStep, Labels, SupFields, Commands, TakenFirst
     DEF RunCommand, At, GateError, backend, Moved, Way, Kept, DecisionInv, Target, Closing,
         Early, Started
<1>19. CASE Exited
  BY <1>19, ExitedStep, Labels, SupFields, Commands, TakenFirst
     DEF Exited, At, GateError, backend, Moved, Way, Kept, DecisionInv, Target, Closing, Early,
         Started
<1>20. CASE DelayEnds
  BY <1>20, RaiseStep, DrainForStep, GotoStep, Labels, SupFields, Commands, TakenFirst
     DEF DelayEnds, At, backend, Moved, Way, Kept, DecisionInv, Target, Closing, Early, Started
<1>21. CASE DelayCommand
  BY <1>21, RaiseStep, FinishNilStep, Labels, SupFields, Commands, TakenFirst
     DEF DelayCommand, At, backend, Moved, Way, Kept, DecisionInv, Target, Closing, Early,
         Started
<1>22. CASE AnswerStatus
  BY <1>22, Labels, SupFields, Commands, TakenFirst
     DEF AnswerStatus, Selecting, backend, Moved, Way, Kept, DecisionInv, Target, Closing,
         Early, Started
<1>23. CASE AnswerFails
  BY <1>23, RaiseStep, CleanStep, DrainFailsStep, Labels, SupFields, Commands, TakenFirst
     DEF AnswerFails, Selecting, At, backend, Moved, Way, Kept, DecisionInv, Target, Closing,
         Early, Started
<1>24. CASE TakeError
  BY <1>24, Labels, SupFields, Commands, TakenFirst
     DEF TakeError, Selecting, backend, Moved, Way, Kept, DecisionInv, Target, Closing, Early,
         Started
<1>25. CASE Drained
  BY ZenonT(40), <1>25, InterruptStep, RaiseStep, FinishNilStep, FinishStep, Labels, SupFields,
     Commands,
     TakenFirst
     DEF Drained, At, backend, Moved, Way, Kept, DecisionInv, Target, Closing, Early, Started
<1>26. CASE DrainEndsBadly
  BY <1>26, DrainFailsStep, Labels, SupFields, Commands, TakenFirst
     DEF DrainEndsBadly, At, Moved, Way, Kept, DecisionInv, Target, Closing, Early, Started
<1>27. CASE Resolve
  BY <1>27, CloseThenStep, FailStep, DrainForStep, FinishNilStep, Labels, SupFields, Commands,
     TakenFirst
     DEF Resolve, At, Interrupted, backend, Moved, Way, Kept, DecisionInv, Target, Closing,
         Early, Started
<1>28. CASE Cleaned
  <2>1. sup.pc = "cleaning"
    BY <1>28 DEF Cleaned, At
  <2>2. CASE Fail(sup.err)
    BY <2>1, <2>2, FailStep, SupFields
       DEF Moved, Way, Kept, DecisionInv, Target, Closing, Early, Started
  <2>3. CASE sup.after \in {"exited", "shut"} /\ Goto(sup.after)
    BY <2>1, <2>3, GotoStep, Labels
       DEF Moved, Way, Kept, DecisionInv, Target, Closing, Early, Started
  <2>4. CASE \E e \in Error, c \in BOOLEAN : Raise(e, c)
    BY <2>1, <2>4, RaiseStep DEF Moved, Way, Kept, DecisionInv, Target, Closing, Early, Started
  <2>5. CASE DrainFor("cleaned")
    BY <2>1, <2>5, DrainForStep, Labels
       DEF Moved, Way, Kept, DecisionInv, Target, Closing, Early, Started
  <2>6. /\ GateError \in Error /\ Marked(sup.err) \in BOOLEAN
    BY Labels DEF GateError, Marked
  <2> QED BY <1>28, <2>2, <2>3, <2>4, <2>5, <2>6, SupFields, Labels DEF Cleaned
<1>29. CASE CloseMailbox
  BY <1>29, GotoStep, Labels, SupFields, Commands, TakenFirst
     DEF CloseMailbox, At, backend, Moved, Way, Kept, DecisionInv, Target, Closing, Early,
         Started
<1>30. CASE CloseReader
  BY <1>30, CloseReaderStep, Labels, SupFields, Commands, TakenFirst
     DEF CloseReader, At, backend, Moved, Way, Kept, DecisionInv, Target, Closing, Early,
         Started, ProcInv
<1>31. CASE CloseDrain
  BY <1>31, CloseFailsStep, GotoStep, Labels, SupFields, Commands, TakenFirst
     DEF CloseDrain, At, backend, Moved, Way, Kept, DecisionInv, Target, Closing, Early,
         Started, ProcInv
<1>32. CASE ReturnQuietly
  BY <1>32, ReturnStep, Labels, SupFields, Commands, TakenFirst
     DEF ReturnQuietly, At, backend, Moved, Way, Kept, DecisionInv, Target, Closing, Early,
         Started
<1>33. CASE EmitFailed
  BY <1>33, EmitFailedStep, Labels, SupFields, Commands, TakenFirst
     DEF EmitFailed, At, backend, Moved, Way, Kept, DecisionInv, Target, Closing, Early, Started
<1>34. CASE StopNil
  BY <1>34, StopNilStep, Labels, SupFields, Commands, TakenFirst
     DEF StopNil, At, backend, Moved, Way, Kept, DecisionInv, Target, Closing, Early, Started
<1>35. CASE BeginShutdown
  BY <1>35, BeginStep, Labels, SupFields, Commands, TakenFirst
     DEF BeginShutdown, At, backend, Moved, Way, Kept, DecisionInv, Target, Closing, Early,
         Started
<1>36. CASE HttpClose
  BY <1>36, HttpCloseStep, Labels, SupFields, Commands, TakenFirst
     DEF HttpClose, At, backend, Moved, Way, Kept, DecisionInv, Target, Closing, Early, Started
<1>37. CASE AwaitExit
  BY <1>37, CleanStep, Labels, SupFields, Commands, TakenFirst
     DEF AwaitExit, At, Moved, Way, Kept, DecisionInv, Target, Closing, Early, Started
<1>38. CASE Shut
  BY <1>38, ShutStep, Labels, SupFields, Commands, TakenFirst
     DEF Shut, At, backend, Moved, Way, Kept, DecisionInv, Target, Closing, Early, Started
<1>39. CASE BeginCancel
  BY <1>39, BeginStep, Labels, SupFields, Commands, TakenFirst
     DEF BeginCancel, At, Moved, Way, Kept, DecisionInv, Target, Closing, Early, Started
<1>40. CASE CancelItem
  BY <1>40, CancelStep, Labels, SupFields, Commands, TakenFirst
     DEF CancelItem, At, backend, Moved, Way, Kept, DecisionInv, Target, Closing, Early, Started
<1>41. CASE CancelCleaned
  BY <1>41, CancelStep, Labels, SupFields, Commands, TakenFirst
     DEF CancelCleaned, At, Moved, Way, Kept, DecisionInv, Target, Closing, Early, Started
<1>42. CASE CancelDrained
  BY <1>42, GotoStep, Labels, SupFields, Commands, TakenFirst
     DEF CancelDrained, At, backend, Moved, Way, Kept, DecisionInv, Target, Closing, Early,
         Started
<1>43. CASE EmitStopped
  BY <1>43, EmitStoppedStep, Labels, SupFields, Commands, TakenFirst
     DEF EmitStopped, At, backend, Moved, Way, Kept, DecisionInv, Target, Closing, Early,
         Started
<1>44. CASE CloseResources
  BY <1>44, GotoStep, Labels, SupFields, Commands, TakenFirst
     DEF CloseResources, At, backend, Moved, Way, Kept, DecisionInv, Target, Closing, Early,
         Started
<1>45. CASE Join
  BY <1>45, GotoStep, Labels, SupFields, Commands, TakenFirst
     DEF Join, At, backend, Moved, Way, Kept, DecisionInv, Target, Closing, Early, Started
<1>46. CASE EndSession
  BY <1>46, GotoStep, Labels, SupFields, Commands, TakenFirst
     DEF EndSession, At, backend, Moved, Way, Kept, DecisionInv, Target, Closing, Early, Started
<1>47. CASE Leave
  BY <1>47, GotoStep, Labels, SupFields, Commands, TakenFirst
     DEF Leave, At, backend, Moved, Way, Kept, DecisionInv, Target, Closing, Early, Started
<1>48. CASE Exit
  BY <1>48, GotoStep, Labels, SupFields, Commands, TakenFirst
     DEF Exit, At, Moved, Way, Kept, DecisionInv, Target, Closing, Early, Started
<1> QED BY <1>1, <1>2, <1>3, <1>4, <1>5, <1>6, <1>7, <1>8, <1>9, <1>10, <1>11, <1>12, <1>13,
           <1>14, <1>15, <1>16, <1>17, <1>18, <1>19, <1>20, <1>21, <1>22, <1>23, <1>24, <1>25,
           <1>26, <1>27, <1>28, <1>29, <1>30, <1>31, <1>32, <1>33, <1>34, <1>35, <1>36, <1>37,
           <1>38, <1>39, <1>40, <1>41, <1>42, <1>43, <1>44, <1>45, <1>46, <1>47, <1>48
           DEF SupervisorNext

(* Every action keeps a process tree where it can be accounted for: in the  *)
(* states of a running backend, in a cleanup, or behind a reported failure  *)
(* of one.                                                                  *)
LEMMA SupervisorProcess ==
  ASSUME sup \in SupType, dirty \in BOOLEAN, broken \in BOOLEAN,
         terminal \in Terminal \cup {None}, ProcInv,
         SupervisorNext
  PROVE  ProcInv'
<1>1. CASE Acquire
  BY <1>1, GotoStep, RaiseStep, Labels, SupFields, Commands
     DEF Acquire, At, backend, Moved, Way, ProcInv, MayRun, NoneRuns, Target, Early, Started,
         Closing, DrainSites
<1>2. CASE PreflightEnds
  BY <1>2, RaiseStep, DrainForStep, GotoStep, Labels, SupFields, Commands
     DEF PreflightEnds, At, backend, Moved, Way, ProcInv, MayRun, NoneRuns, Target, Early,
         Started, Closing, DrainSites
<1>3. CASE PreflightCommand
  BY <1>3, RaiseStep, InterruptStep, Labels, SupFields, Commands
     DEF PreflightCommand, At, backend, Moved, Way, ProcInv, MayRun, NoneRuns, Target, Early,
         Started, Closing, DrainSites
<1>4. CASE Prelude
  BY <1>4, RaiseStep, DrainForStep, GotoStep, Labels, SupFields, Commands
     DEF Prelude, At, backend, Moved, Way, ProcInv, MayRun, NoneRuns, Target, Early, Started,
         Closing, DrainSites
<1>5. CASE BeginTx
  BY <1>5, GotoStep, RaiseStep, Labels, SupFields, Commands
     DEF BeginTx, At, Moved, Way, ProcInv, MayRun, NoneRuns, Target, Early, Started, Closing,
         DrainSites
<1>6. CASE TxOpen
  BY <1>6, DropTxStep, DrainForStep, GotoStep, Labels, SupFields, Commands
     DEF TxOpen, At, Moved, Way, ProcInv, MayRun, NoneRuns, Target, Early, Started, Closing,
         DrainSites
<1>7. CASE Spawn
  BY <1>7, SpawnStep, Labels, SupFields, Commands
     DEF Spawn, At, Moved, Way, ProcInv, MayRun, NoneRuns, Target, Early, Started, Closing,
         DrainSites
<1>8. CASE Spawned
  BY <1>8, CleanStep, GotoStep, Labels, SupFields, Commands
     DEF Spawned, At, GateError, backend, Moved, Way, ProcInv, MayRun, NoneRuns, Target, Early,
         Started, Closing, DrainSites
<1>9. CASE UpdateHealth
  BY <1>9, UpdateHealthStep, Labels, SupFields, Commands
     DEF UpdateHealth, At, backend, Moved, Way, ProcInv, MayRun, NoneRuns, Target, Early,
         Started, Closing, DrainSites
<1>10. CASE HealthEnds
  BY <1>10, CleanStep, DrainForStep, GotoStep, Labels, SupFields, Commands
     DEF HealthEnds, At, GateError, backend, Moved, Way, ProcInv, MayRun, NoneRuns, Target,
         Early, Started, Closing, DrainSites
<1>11. CASE HealthCommand
  BY <1>11, CleanStep, FinishStep, Labels, SupFields, Commands
     DEF HealthCommand, At, GateError, backend, Moved, Way, ProcInv, MayRun, NoneRuns, Target,
         Early, Started, Closing, DrainSites
<1>12. CASE Healthy
  BY <1>12, CleanStep, DrainForStep, GotoStep, Labels, SupFields, Commands
     DEF Healthy, At, GateError, backend, Moved, Way, ProcInv, MayRun, NoneRuns, Target, Early,
         Started, Closing, DrainSites
<1>13. CASE Updated
  BY <1>13, UpdatedStep, Labels, SupFields, Commands
     DEF Updated, At, GateError, backend, Moved, Way, ProcInv, MayRun, NoneRuns, Target, Early,
         Started, Closing, DrainSites
<1>14. CASE RunFault
  BY <1>14, RunFaultStep, Labels, SupFields, Commands
     DEF RunFault, At, backend, GateError, Moved, Way, ProcInv, MayRun, NoneRuns, Target, Early,
         Started, Closing, DrainSites
<1>15. CASE RunInfra
  BY <1>15, CleanStep, Labels, SupFields, Commands
     DEF RunInfra, At, GateError, Moved, Way, ProcInv, MayRun, NoneRuns, Target, Early, Started,
         Closing, DrainSites
<1>16. CASE RunInterrupted
  BY <1>16, CleanStep, FinishStep, Labels, SupFields, Commands
     DEF RunInterrupted, At, GateError, backend, Moved, Way, ProcInv, MayRun, NoneRuns, Target,
         Early, Started, Closing, DrainSites
<1>17. CASE RunExited
  BY <1>17, CleanStep, DrainForStep, Labels, SupFields, Commands
     DEF RunExited, At, GateError, backend, Moved, Way, ProcInv, MayRun, NoneRuns, Target,
         Early, Started, Closing, DrainSites
<1>18. CASE RunCommand
  BY <1>18, CleanStep, FinishStep, Labels, SupFields, Commands
     DEF RunCommand, At, GateError, backend, Moved, Way, ProcInv, MayRun, NoneRuns, Target,
         Early, Started, Closing, DrainSites
<1>19. CASE Exited
  BY <1>19, ExitedStep, Labels, SupFields, Commands
     DEF Exited, At, GateError, backend, Moved, Way, ProcInv, MayRun, NoneRuns, Target, Early,
         Started, Closing, DrainSites
<1>20. CASE DelayEnds
  BY <1>20, RaiseStep, DrainForStep, GotoStep, Labels, SupFields, Commands
     DEF DelayEnds, At, backend, Moved, Way, ProcInv, MayRun, NoneRuns, Target, Early, Started,
         Closing, DrainSites
<1>21. CASE DelayCommand
  BY <1>21, RaiseStep, FinishNilStep, Labels, SupFields, Commands
     DEF DelayCommand, At, backend, Moved, Way, ProcInv, MayRun, NoneRuns, Target, Early,
         Started, Closing, DrainSites
<1>22. CASE AnswerStatus
  BY <1>22, Labels, SupFields, Commands
     DEF AnswerStatus, Selecting, backend, Moved, Way, ProcInv, MayRun, NoneRuns, Target, Early,
         Started, Closing, DrainSites
<1>23. CASE AnswerFails
  BY <1>23, RaiseStep, CleanStep, DrainFailsStep, Labels, SupFields, Commands
     DEF AnswerFails, Selecting, At, backend, Moved, Way, ProcInv, MayRun, NoneRuns, Target,
         Early, Started, Closing, DrainSites, Marked
<1>24. CASE TakeError
  BY <1>24, Labels, SupFields, Commands
     DEF TakeError, Selecting, backend, Moved, Way, ProcInv, MayRun, NoneRuns, Target, Early,
         Started, Closing, DrainSites
<1>25. CASE Drained
  <2>1. /\ sup.pc = "drain" /\ results \in Terminal
    BY <1>25 DEF Drained, At
  <2>2. CASE \/ sup.after \in {"start", "resolve"} /\ Interrupt(results) /\ UNCHANGED backend
             \/ /\ sup.after = "cleaned" /\ ~dirty /\ Interrupt(results)
                /\ UNCHANGED backend
    BY <2>1, <2>2, InterruptStep
       DEF backend, Moved, Way, ProcInv, MayRun, NoneRuns, Target, Early, Started, Closing,
           DrainSites
  <2>3. CASE /\ sup.after = "txOpen" /\ UNCHANGED <<proc, cleaner>>
             /\ Interrupt(results)
    BY <2>1, <2>3, InterruptStep
       DEF Moved, Way, ProcInv, MayRun, NoneRuns, Target, Early, Started, Closing, DrainSites
  <2>4. CASE /\ sup.after \in {"txOpen", "cleaned"} /\ UNCHANGED <<proc, cleaner>>
             /\ dirty' = TRUE /\ Raise("business", TRUE)
    BY <2>1, <2>4, RaiseStep, Labels
       DEF Moved, Way, ProcInv, MayRun, NoneRuns, Target, Early, Started, Closing, DrainSites
  <2>5. CASE \/ /\ sup.after \in {"restart", "delay"} /\ FinishNil(results)
                /\ UNCHANGED backend
             \/ /\ sup.after \in {"health", "healthy", "exit"} /\ Finish(results)
                /\ UNCHANGED backend
    BY <2>1, <2>5, FinishNilStep, FinishStep
       DEF backend, Moved, Way, ProcInv, MayRun, NoneRuns, Target, Early, Started, Closing,
           DrainSites
  <2> QED BY <1>25, <2>2, <2>3, <2>4, <2>5 DEF Drained, backend
<1>26. CASE DrainEndsBadly
  <2>1. sup.pc = "drain" /\ (DrainFails("infra") \/ DrainFails("timeout"))
    BY <1>26 DEF DrainEndsBadly, At
  <2>2. CASE DrainFails("infra")
    BY <2>1, <2>2, DrainFailsStep, Labels
       DEF Marked, backend, Moved, Way, ProcInv, MayRun, NoneRuns, Target, Early, Started,
           Closing, DrainSites
  <2>3. CASE DrainFails("timeout")
    BY <2>1, <2>3, DrainFailsStep, Labels
       DEF Marked, backend, Moved, Way, ProcInv, MayRun, NoneRuns, Target, Early, Started,
           Closing, DrainSites
  <2> QED BY <2>1, <2>2, <2>3
<1>27. CASE Resolve
  BY <1>27, CloseThenStep, FailStep, DrainForStep, FinishNilStep, Labels, SupFields, Commands
     DEF Resolve, At, Interrupted, backend, Moved, Way, ProcInv, MayRun, NoneRuns, Target,
         Early, Started, Closing, DrainSites
<1>28. CASE Cleaned
  BY ZenonT(40), <1>28, FailStep, GotoStep, RaiseStep, DrainForStep, Labels, SupFields, Commands
     DEF Cleaned, At, Marked, GateError, Moved, Way, ProcInv, MayRun, NoneRuns, Target, Early,
         Started, Closing, DrainSites
<1>29. CASE CloseMailbox
  BY <1>29, GotoStep, Labels, SupFields, Commands
     DEF CloseMailbox, At, backend, Moved, Way, ProcInv, MayRun, NoneRuns, Target, Early,
         Started, Closing, DrainSites
<1>30. CASE CloseReader
  BY <1>30, CloseReaderStep, Labels, SupFields, Commands
     DEF CloseReader, At, backend, Moved, Way, ProcInv, MayRun, NoneRuns, Target, Early,
         Started, Closing, DrainSites
<1>31. CASE CloseDrain
  BY <1>31, CloseFailsStep, GotoStep, Labels, SupFields, Commands
     DEF CloseDrain, At, backend, Moved, Way, ProcInv, MayRun, NoneRuns, Target, Early, Started,
         Closing, DrainSites
<1>32. CASE ReturnQuietly
  BY <1>32, ReturnStep, Labels, SupFields, Commands
     DEF ReturnQuietly, At, backend, Moved, Way, ProcInv, MayRun, NoneRuns, Target, Early,
         Started, Closing, DrainSites
<1>33. CASE EmitFailed
  BY <1>33, EmitFailedStep, Labels, SupFields, Commands
     DEF EmitFailed, At, backend, Moved, Way, ProcInv, MayRun, NoneRuns, Target, Early, Started,
         Closing, DrainSites
<1>34. CASE StopNil
  BY <1>34, StopNilStep, Labels, SupFields, Commands
     DEF StopNil, At, backend, Moved, Way, ProcInv, MayRun, NoneRuns, Target, Early, Started,
         Closing, DrainSites
<1>35. CASE BeginShutdown
  BY <1>35, BeginStep, Labels, SupFields, Commands
     DEF BeginShutdown, At, backend, Moved, Way, ProcInv, MayRun, NoneRuns, Target, Early,
         Started, Closing, DrainSites
<1>36. CASE HttpClose
  BY <1>36, HttpCloseStep, Labels, SupFields, Commands
     DEF HttpClose, At, backend, Moved, Way, ProcInv, MayRun, NoneRuns, Target, Early, Started,
         Closing, DrainSites
<1>37. CASE AwaitExit
  BY <1>37, CleanStep, Labels, SupFields, Commands
     DEF AwaitExit, At, Moved, Way, ProcInv, MayRun, NoneRuns, Target, Early, Started, Closing,
         DrainSites
<1>38. CASE Shut
  BY <1>38, ShutStep, Labels, SupFields, Commands
     DEF Shut, At, backend, Moved, Way, ProcInv, MayRun, NoneRuns, Target, Early, Started,
         Closing, DrainSites
<1>39. CASE BeginCancel
  BY <1>39, BeginStep, Labels, SupFields, Commands
     DEF BeginCancel, At, Moved, Way, ProcInv, MayRun, NoneRuns, Target, Early, Started,
         Closing, DrainSites
<1>40. CASE CancelItem
  BY <1>40, CancelStep, Labels, SupFields, Commands
     DEF CancelItem, At, backend, Moved, Way, ProcInv, MayRun, NoneRuns, Target, Early, Started,
         Closing, DrainSites
<1>41. CASE CancelCleaned
  BY <1>41, CancelStep, Labels, SupFields, Commands
     DEF CancelCleaned, At, Moved, Way, ProcInv, MayRun, NoneRuns, Target, Early, Started,
         Closing, DrainSites
<1>42. CASE CancelDrained
  BY <1>42, GotoStep, Labels, SupFields, Commands
     DEF CancelDrained, At, backend, Moved, Way, ProcInv, MayRun, NoneRuns, Target, Early,
         Started, Closing, DrainSites
<1>43. CASE EmitStopped
  BY <1>43, EmitStoppedStep, Labels, SupFields, Commands
     DEF EmitStopped, At, backend, Moved, Way, ProcInv, MayRun, NoneRuns, Target, Early,
         Started, Closing, DrainSites
<1>44. CASE CloseResources
  BY <1>44, GotoStep, Labels, SupFields, Commands
     DEF CloseResources, At, backend, Moved, Way, ProcInv, MayRun, NoneRuns, Target, Early,
         Started, Closing, DrainSites
<1>45. CASE Join
  BY <1>45, GotoStep, Labels, SupFields, Commands
     DEF Join, At, backend, Moved, Way, ProcInv, MayRun, NoneRuns, Target, Early, Started,
         Closing, DrainSites
<1>46. CASE EndSession
  BY <1>46, GotoStep, Labels, SupFields, Commands
     DEF EndSession, At, backend, Moved, Way, ProcInv, MayRun, NoneRuns, Target, Early, Started,
         Closing, DrainSites
<1>47. CASE Leave
  BY <1>47, GotoStep, Labels, SupFields, Commands
     DEF Leave, At, backend, Moved, Way, ProcInv, MayRun, NoneRuns, Target, Early, Started,
         Closing, DrainSites
<1>48. CASE Exit
  BY <1>48, GotoStep, Labels, SupFields, Commands
     DEF Exit, At, Moved, Way, ProcInv, MayRun, NoneRuns, Target, Early, Started, Closing,
         DrainSites
<1> QED BY <1>1, <1>2, <1>3, <1>4, <1>5, <1>6, <1>7, <1>8, <1>9, <1>10, <1>11, <1>12, <1>13,
           <1>14, <1>15, <1>16, <1>17, <1>18, <1>19, <1>20, <1>21, <1>22, <1>23, <1>24, <1>25,
           <1>26, <1>27, <1>28, <1>29, <1>30, <1>31, <1>32, <1>33, <1>34, <1>35, <1>36, <1>37,
           <1>38, <1>39, <1>40, <1>41, <1>42, <1>43, <1>44, <1>45, <1>46, <1>47, <1>48
           DEF SupervisorNext

(* The backend mutex is closed only on the way to a failure or out, and     *)
(* stopped is reported last.                                                *)
LEMMA SupervisorLease ==
  ASSUME sup \in SupType, dirty \in BOOLEAN, broken \in BOOLEAN,
         terminal \in Terminal \cup {None}, ProcInv, LeaseInv,
         SupervisorNext
  PROVE  LeaseInv'
<1>1. CASE Acquire
  BY <1>1, GotoStep, RaiseStep, Labels, SupFields, Commands
     DEF Acquire, At, backend, Moved, Way, LeaseInv, Target, Closing, Over, ProcInv, MayRun,
         NoneRuns, Early, Started
<1>2. CASE PreflightEnds
  BY <1>2, RaiseStep, DrainForStep, GotoStep, Labels, SupFields, Commands
     DEF PreflightEnds, At, backend, Moved, Way, LeaseInv, Target, Closing, Over, ProcInv,
         MayRun, NoneRuns, Early, Started
<1>3. CASE PreflightCommand
  BY <1>3, RaiseStep, InterruptStep, Labels, SupFields, Commands
     DEF PreflightCommand, At, backend, Moved, Way, LeaseInv, Target, Closing, Over, ProcInv,
         MayRun, NoneRuns, Early, Started
<1>4. CASE Prelude
  BY <1>4, RaiseStep, DrainForStep, GotoStep, Labels, SupFields, Commands
     DEF Prelude, At, backend, Moved, Way, LeaseInv, Target, Closing, Over, ProcInv, MayRun,
         NoneRuns, Early, Started
<1>5. CASE BeginTx
  BY <1>5, GotoStep, RaiseStep, Labels, SupFields, Commands
     DEF BeginTx, At, Moved, Way, LeaseInv, Target, Closing, Over, ProcInv, MayRun, NoneRuns,
         Early, Started
<1>6. CASE TxOpen
  BY <1>6, DropTxStep, DrainForStep, GotoStep, Labels, SupFields, Commands
     DEF TxOpen, At, Moved, Way, LeaseInv, Target, Closing, Over, ProcInv, MayRun, NoneRuns,
         Early, Started
<1>7. CASE Spawn
  BY <1>7, SpawnStep, Labels, SupFields, Commands
     DEF Spawn, At, Moved, Way, LeaseInv, Target, Closing, Over, ProcInv, MayRun, NoneRuns,
         Early, Started
<1>8. CASE Spawned
  BY <1>8, CleanStep, GotoStep, Labels, SupFields, Commands
     DEF Spawned, At, GateError, backend, Moved, Way, LeaseInv, Target, Closing, Over, ProcInv,
         MayRun, NoneRuns, Early, Started, Emit
<1>9. CASE UpdateHealth
  BY <1>9, UpdateHealthStep, Labels, SupFields, Commands
     DEF UpdateHealth, At, backend, Moved, Way, LeaseInv, Target, Closing, Over, ProcInv,
         MayRun, NoneRuns, Early, Started
<1>10. CASE HealthEnds
  BY <1>10, CleanStep, DrainForStep, GotoStep, Labels, SupFields, Commands
     DEF HealthEnds, At, GateError, backend, Moved, Way, LeaseInv, Target, Closing, Over,
         ProcInv, MayRun, NoneRuns, Early, Started
<1>11. CASE HealthCommand
  BY <1>11, CleanStep, FinishStep, Labels, SupFields, Commands
     DEF HealthCommand, At, GateError, backend, Moved, Way, LeaseInv, Target, Closing, Over,
         ProcInv, MayRun, NoneRuns, Early, Started
<1>12. CASE Healthy
  BY <1>12, CleanStep, DrainForStep, GotoStep, Labels, SupFields, Commands
     DEF Healthy, At, GateError, backend, Moved, Way, LeaseInv, Target, Closing, Over, ProcInv,
         MayRun, NoneRuns, Early, Started
<1>13. CASE Updated
  BY <1>13, UpdatedStep, Labels, SupFields, Commands
     DEF Updated, At, GateError, backend, Moved, Way, LeaseInv, Target, Closing, Over, ProcInv,
         MayRun, NoneRuns, Early, Started, Emit
<1>14. CASE RunFault
  BY <1>14, RunFaultStep, Labels, SupFields, Commands
     DEF RunFault, At, backend, GateError, Moved, Way, LeaseInv, Target, Closing, Over, ProcInv,
         MayRun, NoneRuns, Early, Started
<1>15. CASE RunInfra
  BY <1>15, CleanStep, Labels, SupFields, Commands
     DEF RunInfra, At, GateError, Moved, Way, LeaseInv, Target, Closing, Over, ProcInv, MayRun,
         NoneRuns, Early, Started
<1>16. CASE RunInterrupted
  BY <1>16, CleanStep, FinishStep, Labels, SupFields, Commands
     DEF RunInterrupted, At, GateError, backend, Moved, Way, LeaseInv, Target, Closing, Over,
         ProcInv, MayRun, NoneRuns, Early, Started
<1>17. CASE RunExited
  BY <1>17, CleanStep, DrainForStep, Labels, SupFields, Commands
     DEF RunExited, At, GateError, backend, Moved, Way, LeaseInv, Target, Closing, Over,
         ProcInv, MayRun, NoneRuns, Early, Started
<1>18. CASE RunCommand
  BY <1>18, CleanStep, FinishStep, Labels, SupFields, Commands
     DEF RunCommand, At, GateError, backend, Moved, Way, LeaseInv, Target, Closing, Over,
         ProcInv, MayRun, NoneRuns, Early, Started
<1>19. CASE Exited
  BY <1>19, ExitedStep, Labels, SupFields, Commands
     DEF Exited, At, GateError, backend, Moved, Way, LeaseInv, Target, Closing, Over, ProcInv,
         MayRun, NoneRuns, Early, Started, Emit
<1>20. CASE DelayEnds
  BY <1>20, RaiseStep, DrainForStep, GotoStep, Labels, SupFields, Commands
     DEF DelayEnds, At, backend, Moved, Way, LeaseInv, Target, Closing, Over, ProcInv, MayRun,
         NoneRuns, Early, Started
<1>21. CASE DelayCommand
  BY <1>21, RaiseStep, FinishNilStep, Labels, SupFields, Commands
     DEF DelayCommand, At, backend, Moved, Way, LeaseInv, Target, Closing, Over, ProcInv,
         MayRun, NoneRuns, Early, Started
<1>22. CASE AnswerStatus
  BY <1>22, Labels, SupFields, Commands
     DEF AnswerStatus, Selecting, backend, Moved, Way, LeaseInv, Target, Closing, Over, ProcInv,
         MayRun, NoneRuns, Early, Started
<1>23. CASE AnswerFails
  BY <1>23, RaiseStep, CleanStep, DrainFailsStep, Labels, SupFields, Commands
     DEF AnswerFails, Selecting, At, backend, Moved, Way, LeaseInv, Target, Closing, Over,
         ProcInv, MayRun, NoneRuns, Early, Started
<1>24. CASE TakeError
  BY <1>24, Labels, SupFields, Commands
     DEF TakeError, Selecting, backend, Moved, Way, LeaseInv, Target, Closing, Over, ProcInv,
         MayRun, NoneRuns, Early, Started
<1>25. CASE Drained
  BY <1>25, InterruptStep, RaiseStep, FinishNilStep, FinishStep, Labels, SupFields, Commands
     DEF Drained, At, backend, Moved, Way, LeaseInv, Target, Closing, Over, ProcInv, MayRun,
         NoneRuns, Early, Started
<1>26. CASE DrainEndsBadly
  BY <1>26, DrainFailsStep, Labels, SupFields, Commands
     DEF DrainEndsBadly, At, Moved, Way, LeaseInv, Target, Closing, Over, ProcInv, MayRun,
         NoneRuns, Early, Started
<1>27. CASE Resolve
  BY <1>27, CloseThenStep, FailStep, DrainForStep, FinishNilStep, Labels, SupFields, Commands
     DEF Resolve, At, Interrupted, backend, Moved, Way, LeaseInv, Target, Closing, Over,
         ProcInv, MayRun, NoneRuns, Early, Started
<1>28. CASE Cleaned
  BY <1>28, FailStep, GotoStep, RaiseStep, DrainForStep, Labels, SupFields, Commands
     DEF Cleaned, At, Marked, GateError, Moved, Way, LeaseInv, Target, Closing, Over, ProcInv,
         MayRun, NoneRuns, Early, Started
<1>29. CASE CloseMailbox
  BY <1>29, GotoStep, Labels, SupFields, Commands
     DEF CloseMailbox, At, backend, Moved, Way, LeaseInv, Target, Closing, Over, ProcInv,
         MayRun, NoneRuns, Early, Started
<1>30. CASE CloseReader
  BY <1>30, CloseReaderStep, Labels, SupFields, Commands
     DEF CloseReader, At, backend, Moved, Way, LeaseInv, Target, Closing, Over, ProcInv, MayRun,
         NoneRuns, Early, Started
<1>31. CASE CloseDrain
  BY <1>31, CloseFailsStep, GotoStep, Labels, SupFields, Commands
     DEF CloseDrain, At, backend, Moved, Way, LeaseInv, Target, Closing, Over, ProcInv, MayRun,
         NoneRuns, Early, Started
<1>32. CASE ReturnQuietly
  BY <1>32, ReturnStep, Labels, SupFields, Commands
     DEF ReturnQuietly, At, backend, Moved, Way, LeaseInv, Target, Closing, Over, ProcInv,
         MayRun, NoneRuns, Early, Started
<1>33. CASE EmitFailed
  BY <1>33, EmitFailedStep, Labels, SupFields, Commands
     DEF EmitFailed, At, backend, Moved, Way, LeaseInv, Target, Closing, Over, ProcInv, MayRun,
         NoneRuns, Early, Started, Emit
<1>34. CASE StopNil
  BY <1>34, StopNilStep, Labels, SupFields, Commands
     DEF StopNil, At, backend, Moved, Way, LeaseInv, Target, Closing, Over, ProcInv, MayRun,
         NoneRuns, Early, Started, Emit
<1>35. CASE BeginShutdown
  BY <1>35, BeginStep, Labels, SupFields, Commands
     DEF BeginShutdown, At, backend, Moved, Way, LeaseInv, Target, Closing, Over, ProcInv,
         MayRun, NoneRuns, Early, Started, Emit
<1>36. CASE HttpClose
  BY <1>36, HttpCloseStep, Labels, SupFields, Commands
     DEF HttpClose, At, backend, Moved, Way, LeaseInv, Target, Closing, Over, ProcInv, MayRun,
         NoneRuns, Early, Started
<1>37. CASE AwaitExit
  BY <1>37, CleanStep, Labels, SupFields, Commands
     DEF AwaitExit, At, Moved, Way, LeaseInv, Target, Closing, Over, ProcInv, MayRun, NoneRuns,
         Early, Started
<1>38. CASE Shut
  BY <1>38, ShutStep, Labels, SupFields, Commands
     DEF Shut, At, backend, Moved, Way, LeaseInv, Target, Closing, Over, ProcInv, MayRun,
         NoneRuns, Early, Started
<1>39. CASE BeginCancel
  BY <1>39, BeginStep, Labels, SupFields, Commands
     DEF BeginCancel, At, Moved, Way, LeaseInv, Target, Closing, Over, ProcInv, MayRun,
         NoneRuns, Early, Started, Emit
<1>40. CASE CancelItem
  BY <1>40, CancelStep, Labels, SupFields, Commands
     DEF CancelItem, At, backend, Moved, Way, LeaseInv, Target, Closing, Over, ProcInv, MayRun,
         NoneRuns, Early, Started
<1>41. CASE CancelCleaned
  BY <1>41, CancelStep, Labels, SupFields, Commands
     DEF CancelCleaned, At, Moved, Way, LeaseInv, Target, Closing, Over, ProcInv, MayRun,
         NoneRuns, Early, Started
<1>42. CASE CancelDrained
  BY <1>42, GotoStep, Labels, SupFields, Commands
     DEF CancelDrained, At, backend, Moved, Way, LeaseInv, Target, Closing, Over, ProcInv,
         MayRun, NoneRuns, Early, Started
<1>43. CASE EmitStopped
  BY <1>43, EmitStoppedStep, Labels, SupFields, Commands
     DEF EmitStopped, At, backend, Moved, Way, LeaseInv, Target, Closing, Over, ProcInv, MayRun,
         NoneRuns, Early, Started, Emit
<1>44. CASE CloseResources
  BY <1>44, GotoStep, Labels, SupFields, Commands
     DEF CloseResources, At, backend, Moved, Way, LeaseInv, Target, Closing, Over, ProcInv,
         MayRun, NoneRuns, Early, Started
<1>45. CASE Join
  BY <1>45, GotoStep, Labels, SupFields, Commands
     DEF Join, At, backend, Moved, Way, LeaseInv, Target, Closing, Over, ProcInv, MayRun,
         NoneRuns, Early, Started
<1>46. CASE EndSession
  BY <1>46, GotoStep, Labels, SupFields, Commands
     DEF EndSession, At, backend, Moved, Way, LeaseInv, Target, Closing, Over, ProcInv, MayRun,
         NoneRuns, Early, Started
<1>47. CASE Leave
  BY <1>47, GotoStep, Labels, SupFields, Commands
     DEF Leave, At, backend, Moved, Way, LeaseInv, Target, Closing, Over, ProcInv, MayRun,
         NoneRuns, Early, Started
<1>48. CASE Exit
  BY <1>48, GotoStep, Labels, SupFields, Commands
     DEF Exit, At, Moved, Way, LeaseInv, Target, Closing, Over, ProcInv, MayRun, NoneRuns,
         Early, Started
<1> QED BY <1>1, <1>2, <1>3, <1>4, <1>5, <1>6, <1>7, <1>8, <1>9, <1>10, <1>11, <1>12, <1>13,
           <1>14, <1>15, <1>16, <1>17, <1>18, <1>19, <1>20, <1>21, <1>22, <1>23, <1>24, <1>25,
           <1>26, <1>27, <1>28, <1>29, <1>30, <1>31, <1>32, <1>33, <1>34, <1>35, <1>36, <1>37,
           <1>38, <1>39, <1>40, <1>41, <1>42, <1>43, <1>44, <1>45, <1>46, <1>47, <1>48
           DEF SupervisorNext

(* Where a cleanup of a running backend begins without an error.            *)
LEMMA CleanupBegins ==
  ASSUME sup \in SupType, dirty \in BOOLEAN, broken \in BOOLEAN,
         terminal \in Terminal \cup {None},
         cleaner = "idle", cleaner' = "tree", proc = "alive", sup'.err = "none",
         SupervisorNext
  PROVE  sup.pc \in {"awaitExit", "cancel"}
<1>1. CASE Acquire
  BY <1>1, GotoStep, RaiseStep, Labels, SupFields DEF Acquire, At, backend, Moved
<1>2. CASE PreflightEnds
  BY <1>2, RaiseStep, DrainForStep, GotoStep, Labels, SupFields
     DEF PreflightEnds, At, backend, Moved
<1>3. CASE PreflightCommand
  BY <1>3, RaiseStep, InterruptStep, Labels, SupFields DEF PreflightCommand, At, backend, Moved
<1>4. CASE Prelude
  BY <1>4, RaiseStep, DrainForStep, GotoStep, Labels, SupFields DEF Prelude, At, backend, Moved
<1>5. CASE BeginTx
  BY <1>5, GotoStep, RaiseStep, Labels, SupFields DEF BeginTx, At, Moved
<1>6. CASE TxOpen
  BY <1>6, DropTxStep, DrainForStep, GotoStep, Labels, SupFields DEF TxOpen, At, Moved
<1>7. CASE Spawn
  BY <1>7, SpawnStep, Labels, SupFields DEF Spawn, At, Moved
<1>8. CASE Spawned
  BY <1>8, CleanStep, GotoStep, Labels, SupFields DEF Spawned, At, GateError, backend, Moved
<1>9. CASE UpdateHealth
  BY <1>9, UpdateHealthStep, Labels, SupFields DEF UpdateHealth, At, backend, Moved
<1>10. CASE HealthEnds
  BY <1>10, CleanStep, DrainForStep, GotoStep, Labels, SupFields
     DEF HealthEnds, At, GateError, backend, Moved
<1>11. CASE HealthCommand
  BY <1>11, CleanStep, FinishStep, Labels, SupFields
     DEF HealthCommand, At, GateError, backend, Moved
<1>12. CASE Healthy
  BY <1>12, CleanStep, DrainForStep, GotoStep, Labels, SupFields
     DEF Healthy, At, GateError, backend, Moved
<1>13. CASE Updated
  BY <1>13, UpdatedStep, Labels, SupFields DEF Updated, At, GateError, backend, Moved
<1>14. CASE RunFault
  BY <1>14, RunFaultStep, Labels, SupFields DEF RunFault, At, backend, GateError, Moved
<1>15. CASE RunInfra
  BY <1>15, CleanStep, Labels, SupFields DEF RunInfra, At, GateError, Moved
<1>16. CASE RunInterrupted
  BY <1>16, CleanStep, FinishStep, Labels, SupFields
     DEF RunInterrupted, At, GateError, backend, Moved
<1>17. CASE RunExited
  BY <1>17, CleanStep, DrainForStep, Labels, SupFields DEF RunExited, At, GateError, backend,
                                                           Moved
<1>18. CASE RunCommand
  BY <1>18, CleanStep, FinishStep, Labels, SupFields DEF RunCommand, At, GateError, backend, Moved
<1>19. CASE Exited
  BY <1>19, ExitedStep, Labels, SupFields DEF Exited, At, GateError, backend, Moved
<1>20. CASE DelayEnds
  BY <1>20, RaiseStep, DrainForStep, GotoStep, Labels, SupFields DEF DelayEnds, At, backend, Moved
<1>21. CASE DelayCommand
  BY <1>21, RaiseStep, FinishNilStep, Labels, SupFields DEF DelayCommand, At, backend, Moved
<1>22. CASE AnswerStatus
  BY <1>22, Labels, SupFields DEF AnswerStatus, Selecting, backend, Moved
<1>23. CASE AnswerFails
  BY <1>23, RaiseStep, CleanStep, DrainFailsStep, Labels, SupFields
     DEF AnswerFails, Selecting, At, backend, Moved
<1>24. CASE TakeError
  BY <1>24, Labels, SupFields DEF TakeError, Selecting, backend, Moved
<1>25. CASE Drained
  BY <1>25, InterruptStep, RaiseStep, FinishNilStep, FinishStep, Labels, SupFields
     DEF Drained, At, backend, Moved
<1>26. CASE DrainEndsBadly
  <2>1. CASE DrainFails("infra")
    BY <2>1, DrainFailsStep, Labels DEF backend, Moved
  <2>2. CASE DrainFails("timeout")
    BY <2>2, DrainFailsStep, Labels DEF backend, Moved
  <2> QED BY <1>26, <2>1, <2>2 DEF DrainEndsBadly
<1>27. CASE Resolve
  BY <1>27, CloseThenStep, FailStep, DrainForStep, FinishNilStep, Labels, SupFields
     DEF Resolve, At, Interrupted, backend, Moved
<1>28. CASE Cleaned
  BY <1>28, FailStep, GotoStep, RaiseStep, DrainForStep, Labels, SupFields
     DEF Cleaned, At, Marked, GateError, Moved
<1>29. CASE CloseMailbox
  BY <1>29, GotoStep, Labels, SupFields DEF CloseMailbox, At, backend, Moved
<1>30. CASE CloseReader
  BY <1>30, CloseReaderStep, Labels, SupFields DEF CloseReader, At, backend, Moved
<1>31. CASE CloseDrain
  BY <1>31, CloseFailsStep, GotoStep, Labels, SupFields DEF CloseDrain, At, backend, Moved
<1>32. CASE ReturnQuietly
  BY <1>32, ReturnStep, Labels, SupFields DEF ReturnQuietly, At, backend, Moved
<1>33. CASE EmitFailed
  BY <1>33, EmitFailedStep, Labels, SupFields DEF EmitFailed, At, backend, Moved
<1>34. CASE StopNil
  BY <1>34, StopNilStep, Labels, SupFields DEF StopNil, At, backend, Moved
<1>35. CASE BeginShutdown
  BY <1>35, BeginStep, Labels, SupFields DEF BeginShutdown, At, backend, Moved
<1>36. CASE HttpClose
  BY <1>36, HttpCloseStep, Labels, SupFields DEF HttpClose, At, backend, Moved
<1>37. CASE AwaitExit
  BY <1>37, CleanStep, Labels, SupFields DEF AwaitExit, At, Moved
<1>38. CASE Shut
  BY <1>38, ShutStep, Labels, SupFields DEF Shut, At, backend, Moved
<1>39. CASE BeginCancel
  BY <1>39, BeginStep, Labels, SupFields DEF BeginCancel, At, Moved
<1>40. CASE CancelItem
  BY <1>40, CancelStep, Labels, SupFields DEF CancelItem, At, backend, Moved
<1>41. CASE CancelCleaned
  BY <1>41, CancelStep, Labels, SupFields DEF CancelCleaned, At, Moved
<1>42. CASE CancelDrained
  BY <1>42, GotoStep, Labels, SupFields DEF CancelDrained, At, backend, Moved
<1>43. CASE EmitStopped
  BY <1>43, EmitStoppedStep, Labels, SupFields DEF EmitStopped, At, backend, Moved
<1>44. CASE CloseResources
  BY <1>44, GotoStep, Labels, SupFields DEF CloseResources, At, backend, Moved
<1>45. CASE Join
  BY <1>45, GotoStep, Labels, SupFields DEF Join, At, backend, Moved
<1>46. CASE EndSession
  BY <1>46, GotoStep, Labels, SupFields DEF EndSession, At, backend, Moved
<1>47. CASE Leave
  BY <1>47, GotoStep, Labels, SupFields DEF Leave, At, backend, Moved
<1>48. CASE Exit
  BY <1>48, GotoStep, Labels, SupFields DEF Exit, At, Moved
<1> QED BY <1>1, <1>2, <1>3, <1>4, <1>5, <1>6, <1>7, <1>8, <1>9, <1>10, <1>11, <1>12, <1>13,
           <1>14, <1>15, <1>16, <1>17, <1>18, <1>19, <1>20, <1>21, <1>22, <1>23, <1>24, <1>25,
           <1>26, <1>27, <1>28, <1>29, <1>30, <1>31, <1>32, <1>33, <1>34, <1>35, <1>36, <1>37,
           <1>38, <1>39, <1>40, <1>41, <1>42, <1>43, <1>44, <1>45, <1>46, <1>47, <1>48
           DEF SupervisorNext

-----------------------------------------------------------------------------
(* The invariant.                                                          *)

(* The invariant, for the steps of the supervisor.                          *)
LEMMA SupervisorStep ==
  ASSUME IndInv, SupervisorNext
  PROVE  IndInv'
<1>1. /\ MailboxTypeOK /\ sup \in SupType /\ Ranges /\ broken \in BOOLEAN /\ ctx \in BOOLEAN
      /\ ReaderInv /\ ChannelInv /\ DecisionInv /\ ProcInv /\ LeaseInv
      /\ dirty \in BOOLEAN /\ terminal \in Terminal \cup {None}
  BY DEF IndInv, TypeOK, Ranges, MailboxTypeOK
<1>2. /\ UNCHANGED <<reader, line, unread, queue, terminal, readerErr, forwarder, parcel>>
      /\ UNCHANGED <<ctx, broken>>
      /\ results' \in {results, None} /\ owed' \subseteq owed
      /\ readerStopped' \in {readerStopped, TRUE} /\ readerCtx' \in {readerCtx, TRUE}
      /\ stopped' \in {stopped, TRUE} /\ forwarderCtx' \in {forwarderCtx, TRUE}
  BY SupervisorFrame
<1>3. MailboxTypeOK'
  <2>1. /\ readerStopped' \in BOOLEAN /\ readerCtx' \in BOOLEAN /\ stopped' \in BOOLEAN
        /\ forwarderCtx' \in BOOLEAN
    BY <1>1, <1>2 DEF MailboxTypeOK
  <2>2. results' \in Item \cup {None} /\ owed' \subseteq Status
    BY <1>1, <1>2 DEF MailboxTypeOK
  <2> QED BY <1>1, <1>2, <2>1, <2>2 DEF MailboxTypeOK
<1>4. sup' \in SupType
  BY <1>1, SupervisorTypes
<1>5. Ranges'
  BY <1>1, SupervisorRanges
<1>6. ReaderInv'
  <2>1. None \notin {"error", "stopped"}
    BY MailboxAssumption DEF Item
  <2>2. stopped => stopped'
    BY <1>2 DEF MailboxTypeOK
  <2>3. forwarderCtx => forwarderCtx'
    BY <1>2 DEF MailboxTypeOK
  <2> QED BY <1>1, <1>2, <2>1, <2>2, <2>3 DEF ReaderInv, Infra
<1>7. ChannelInv'
  <2> SUFFICES ASSUME Hot'
               PROVE  InOrder'
    BY DEF ChannelInv
  <2>1. /\ Hot /\ UNCHANGED <<forwarderCtx, stopped>>
        /\ results' = results \/ (results' = None /\ results \notin Terminal)
    BY <1>1, <1>2, SupervisorStaysHot
  <2>2. InOrder
    BY <1>1, <2>1 DEF ChannelInv
  <2>3. Ahead => Ahead'
    BY <1>1, <1>2, <2>1 DEF Ahead, Latched
  <2>4. None \notin Terminal /\ None # "stopped" /\ None # "error"
    BY MailboxAssumption DEF Item, Terminal
  <2>5. Latched' = Latched /\ (results = terminal /\ Latched => results' = results)
    BY <1>1, <1>2, <2>1 DEF Latched
  <2> QED BY <1>2, <2>1, <2>2, <2>3, <2>4, <2>5 DEF InOrder
<1>8. DecisionInv'
  BY <1>1, <1>2, SupervisorDecides
<1>9. ProcInv'
  BY <1>1, SupervisorProcess
<1>10. LeaseInv'
  BY <1>1, SupervisorLease
<1>11. TypeOK'
  BY <1>1, <1>2, <1>3, <1>4, <1>5 DEF TypeOK, Ranges
<1> QED BY <1>6, <1>7, <1>8, <1>9, <1>10, <1>11 DEF IndInv

(* The invariant, for the steps of the reader and of the forwarder.         *)
LEMMA MailboxStep ==
  ASSUME IndInv, ReaderNext \/ ReaderPanics \/ ForwarderNext, UNCHANGED local
  PROVE  IndInv'
<1>1. MailboxTypeOK /\ sup \in SupType /\ ReaderInv /\ ChannelInv
  BY DEF IndInv, TypeOK
<1>2. UNCHANGED <<sup, life, proc, tx, dirty, cleaner, lease, gate, broken, ctx>>
  BY DEF local, backend, host
<1>3. /\ ReaderInv' /\ (Infra => Infra') /\ terminal' \in {terminal} \cup Terminal
      /\ (Latched => terminal' = terminal)
  BY <1>1, MailboxReader
<1>4. MailboxTypeOK'
  BY <1>1, MailboxTypes
<1>5. TypeOK'
  BY <1>2, <1>4 DEF IndInv, TypeOK
<1>6. ChannelInv'
  <2>1. Hot' => Hot
    BY <1>2, <1>3 DEF Hot
  <2> QED BY <1>1, <2>1, MailboxInOrder DEF ChannelInv
<1>7. DecisionInv'
  BY <1>2, <1>3, Commands, SupFields, <1>1 DEF IndInv, DecisionInv, Target, Latched
<1>8. ProcInv' /\ LeaseInv'
  BY <1>2 DEF IndInv, ProcInv, LeaseInv, MayRun, NoneRuns, Target
<1> QED BY <1>3, <1>5, <1>6, <1>7, <1>8 DEF IndInv

(* The invariant, for the steps of cleanupProcess.                          *)
LEMMA CleanerStep ==
  ASSUME IndInv, CleanerNext
  PROVE  IndInv'
<1>1. /\ UNCHANGED <<control, sup, life, lease, host>>
      /\ \/ /\ cleaner = "tree" /\ cleaner' = "record" /\ tx' = tx
            /\ \/ proc' = "none" /\ dirty' = dirty
               \/ proc' \in {"none", proc} /\ dirty' = TRUE
         \/ /\ cleaner = "record" /\ cleaner' = "done" /\ proc' = proc
            /\ \/ tx' = FALSE /\ dirty' = dirty
               \/ tx' \in {FALSE, tx} /\ dirty' = TRUE
  BY DEF CleanerNext, KillTree, RemoveRecord
<1>2. /\ UNCHANGED <<inbox, channel, readerErr, terminal, sup, life, lease, gate, broken, ctx>>
      /\ UNCHANGED <<input, mailbox, sender>>
  BY <1>1 DEF control, host, inbox, mailbox
<1>3. MailboxTypeOK'
  BY <1>2 DEF IndInv, TypeOK, MailboxTypeOK, input, mailbox, sender, channel
<1>4. TypeOK'
  BY <1>1, <1>2, <1>3 DEF IndInv, TypeOK
<1>5. ReaderInv'
  BY <1>2 DEF IndInv, ReaderInv, Infra, input, mailbox, sender, channel
<1>6. ChannelInv'
  BY <1>2 DEF IndInv, ChannelInv, InOrder, Hot, Ahead, Latched, Infra, input, mailbox, sender,
              channel
<1>7. DecisionInv'
  BY <1>2 DEF IndInv, DecisionInv, Target
<1>8. sup.pc \in {"cleaning", "cancelling"}
  BY <1>1 DEF IndInv, TypeOK
<1>9. ProcInv'
  BY <1>1, <1>2, <1>8 DEF IndInv, TypeOK, ProcInv, MayRun, NoneRuns, Target, Early, Started,
                          Closing
<1>10. LeaseInv'
  BY <1>1, <1>2, <1>8 DEF IndInv, LeaseInv, Target, Over, Closing
<1> QED BY <1>4, <1>5, <1>6, <1>7, <1>9, <1>10 DEF IndInv

(* The invariant, for what happens to the Runtime: the backend exits, stdout*)
(* breaks, a log line fails, an interrupt.                                  *)
LEMMA EnvironmentStep ==
  ASSUME IndInv, Environment
  PROVE  IndInv'
<1>1. /\ UNCHANGED <<reader, line, unread, readerStopped, mailbox, sender, channel>>
      /\ UNCHANGED <<sup, life, tx, dirty, cleaner, lease>>
      /\ readerCtx' \in {readerCtx, TRUE}
      /\ proc' = proc \/ (proc = "alive" /\ proc' = "exited")
      /\ gate' \in {gate, "log", "output"}
      /\ broken' \in {broken, TRUE} /\ ctx' \in {ctx, TRUE}
  BY DEF Environment, BackendExits, StdoutBreaks, GateFaults, HostInterrupts, ContextPropagates,
         control, inbox, input, backend, host
<1>2. MailboxTypeOK'
  BY ZenonT(40), <1>1 DEF IndInv, TypeOK, MailboxTypeOK, mailbox, sender, channel
<1>3. TypeOK'
  <2>1. /\ gate' \in {"ok", "output", "log"} /\ proc' \in {"none", "alive", "exited"}
        /\ broken' \in BOOLEAN /\ ctx' \in BOOLEAN
    BY <1>1 DEF IndInv, TypeOK
  <2> QED BY <1>1, <1>2, <2>1 DEF IndInv, TypeOK
<1>4. ReaderInv'
  BY <1>1 DEF IndInv, ReaderInv, Infra, mailbox, sender, channel
<1>5. ChannelInv'
  BY <1>1 DEF IndInv, ChannelInv, InOrder, Hot, Ahead, Latched, Infra, mailbox, sender, channel
<1>6. DecisionInv'
  <2>1. ctx => ctx'
    BY <1>1 DEF IndInv, TypeOK
  <2> QED BY <1>1, <2>1 DEF IndInv, DecisionInv, Target, mailbox
<1>7. ProcInv'
  BY <1>1 DEF IndInv, ProcInv, MayRun, NoneRuns, Target
<1>8. LeaseInv'
  BY <1>1 DEF IndInv, LeaseInv, Target
<1> QED BY <1>3, <1>4, <1>5, <1>6, <1>7, <1>8 DEF IndInv

(* The invariant, for a step of something else.                             *)
LEMMA StutteringStep ==
  ASSUME IndInv, UNCHANGED vars
  PROVE  IndInv'
<1>1. /\ UNCHANGED <<input, mailbox, sender, channel>>
      /\ UNCHANGED <<sup, life, proc, tx, dirty, cleaner, lease, gate, broken, ctx>>
  BY DEF vars, control, inbox, backend, host
<1>2. TypeOK'
  BY <1>1 DEF IndInv, TypeOK, MailboxTypeOK, input, mailbox, sender, channel
<1>3. ReaderInv' /\ ChannelInv'
  BY <1>1 DEF IndInv, ReaderInv, ChannelInv, InOrder, Hot, Ahead, Latched, Infra, input, mailbox,
              sender, channel
<1>4. DecisionInv' /\ ProcInv' /\ LeaseInv'
  BY <1>1 DEF IndInv, DecisionInv, ProcInv, LeaseInv, MayRun, NoneRuns, Target, mailbox
<1> QED BY <1>2, <1>3, <1>4 DEF IndInv

(* The invariant holds when `backend supervise` begins.                     *)
LEMMA InitialStep == Init => IndInv
<1> SUFFICES ASSUME Init
             PROVE  IndInv
  OBVIOUS
<1>1. /\ sup.pc = "acquire" /\ sup.after = "none" /\ sup.err = "none" /\ sup.cmd = None
      /\ sup.outcome = "none" /\ sup \in SupType
  BY Labels DEF Init, SupType
<1>2. /\ queue = <<>> /\ ~stopped /\ terminal = None /\ readerErr = "no" /\ results = None
      /\ forwarder = "receive" /\ parcel = None /\ ~forwarderCtx
  BY DEF Init, MailboxInit
<1>3. TypeOK
  <2>1. MailboxTypeOK
    <3>1. /\ queue = <<>> /\ Capacity \in Nat /\ Len(queue) = 0
      BY MailboxAssumption DEF Init, MailboxInit
    <3>2. queue \in Seq(Command) /\ Len(queue) <= Capacity
      BY <3>1
    <3>3. unread \subseteq Command /\ owed = {}
      BY DEF Init, MailboxInit, Command
    <3> QED BY <3>2, <3>3 DEF Init, MailboxInit, MailboxTypeOK
  <2>2. life \in Status_
    BY Labels DEF Init
  <2> QED BY <1>1, <2>1, <2>2 DEF Init, TypeOK
<1>4. None \notin Terminal \cup {"error", "stopped"}
  BY Commands, MailboxAssumption DEF Item
<1>5. ReaderInv /\ ChannelInv
  BY <1>2, <1>4 DEF ReaderInv, ChannelInv, InOrder, Ahead, Latched, Infra
<1>6. DecisionInv /\ ProcInv /\ LeaseInv
  BY <1>1 DEF Init, DecisionInv, ProcInv, LeaseInv, Target, MayRun, NoneRuns, Early, Started,
              Closing, Over
<1> QED BY <1>3, <1>5, <1>6 DEF IndInv

(* superviseControlled: the invariant holds in every reachable state.       *)
THEOREM SupervisorInvariant == Spec => []IndInv
<1>1. ASSUME IndInv, [Next]_vars
      PROVE  IndInv'
  <2>1. CASE SupervisorNext
    BY <1>1, <2>1, SupervisorStep
  <2>2. CASE (ReaderNext \/ ReaderPanics \/ ForwarderNext) /\ UNCHANGED local
    BY <1>1, <2>2, MailboxStep
  <2>3. CASE CleanerNext
    BY <1>1, <2>3, CleanerStep
  <2>4. CASE Environment
    BY <1>1, <2>4, EnvironmentStep
  <2>5. CASE UNCHANGED vars
    BY <1>1, <2>5, StutteringStep
  <2> QED BY <1>1, <2>1, <2>2, <2>3, <2>4, <2>5 DEF Next, Terminated
<1> QED BY <1>1, InitialStep, PTL DEF Spec

-----------------------------------------------------------------------------
(* What follows from it.                                                   *)

(* finishControlCancel, finishControlShutdown: the stopped event is written *)
(* only when no backend process is left and the backend mutex has been      *)
(* closed.                                                                  *)
THEOREM StoppedIsGone == Spec => []StoppedMeansGone
<1>1. IndInv => StoppedMeansGone
  BY DEF IndInv, LeaseInv, StoppedMeansGone
<1> QED BY <1>1, SupervisorInvariant, PTL

(* superviseControlled, cleanupProcess: a process tree is covered by the    *)
(* backend mutex and named by backend.json, unless a cleanup has said that  *)
(* it failed.                                                               *)
THEOREM TreeIsCovered == Spec => []BackendIsCovered
<1>1. ASSUME IndInv
      PROVE  BackendIsCovered
  <2>1. ProcInv /\ LeaseInv
    BY <1>1 DEF IndInv
  <2>2. lease \in {"closed", "broken"} => ~MayRun
    BY <2>1 DEF LeaseInv, MayRun, Target, Over, Closing, Started
  <2> QED BY <2>1, <2>2 DEF ProcInv, BackendIsCovered, LeaseOutlivesBackend, RecordOutlivesBackend
<1> QED BY <1>1, SupervisorInvariant, PTL

(* ControlMailbox, drainUntilTerminal: while the supervisor selects, an     *)
(* accepted terminal command is on its way to it, and the end of the channel*)
(* is not in front of it.                                                   *)
THEOREM LatchIsDelivered == Spec => []TerminalIsDelivered
<1>1. ASSUME IndInv
      PROVE  TerminalIsDelivered
  <2> SUFFICES ASSUME sup.pc \in Selecting
               PROVE  (Latched => OnItsWay(terminal)) /\ results # "stopped"
    BY DEF TerminalIsDelivered
  <2>1. InOrder
    BY <1>1 DEF IndInv, ChannelInv, Hot, Selecting, Early, Started
  <2>2. parcel \in Command \cup {None, "error", "stopped"}
    BY <1>1 DEF IndInv, TypeOK, MailboxTypeOK, Item
  <2> QED BY <2>1, <2>2 DEF InOrder, Ahead, OnItsWay
<1> QED BY <1>1, SupervisorInvariant, PTL

(* The terminal-control latch: the first accepted terminal command decides  *)
(* the outcome of the supervision.                                          *)
THEOREM FirstCommandDecides == Spec => []FirstTerminalDecides
<1>1. IndInv => FirstTerminalDecides
  BY DEF IndInv, DecisionInv, FirstTerminalDecides
<1> QED BY <1>1, SupervisorInvariant, PTL

(* finishControlShutdown: the tree of a backend that runs is terminated only*)
(* after POST /api/core/close, if the host shut it down and nothing has     *)
(* failed.                                                                  *)
THEOREM CloseComesFirst == Spec => ShutdownIsGraceful
<1>1. ASSUME IndInv, [Next]_vars
      PROVE  [/\ cleaner = "idle" /\ cleaner' = "tree" /\ proc = "alive"
              /\ terminal \in Terminal \ Cancel /\ ~ctx /\ sup'.err = "none"
              => sup.asked]_vars
  <2> SUFFICES ASSUME /\ cleaner = "idle" /\ cleaner' = "tree" /\ proc = "alive"
                      /\ terminal \in Terminal \ Cancel /\ ~ctx /\ sup'.err = "none"
               PROVE  sup.asked
    OBVIOUS
  <2>1. SupervisorNext
    BY <1>1 DEF Next, local, backend, vars, CleanerNext, KillTree, RemoveRecord, Environment,
                BackendExits, StdoutBreaks, GateFaults, HostInterrupts, ContextPropagates,
                Terminated
  <2>2. /\ sup \in SupType /\ dirty \in BOOLEAN /\ broken \in BOOLEAN /\ DecisionInv
        /\ terminal \in Terminal \cup {None}
    BY <1>1 DEF IndInv, TypeOK, MailboxTypeOK
  <2>3. sup.pc \in {"awaitExit", "cancel"}
    BY <2>1, <2>2, CleanupBegins
  <2>4. sup.pc # "cancel"
    BY <2>2, Commands DEF DecisionInv, Target, Closing
  <2> QED BY <2>2, <2>3, <2>4 DEF DecisionInv
<1> QED BY <1>1, SupervisorInvariant, PTL DEF Spec, ShutdownIsGraceful

-----------------------------------------------------------------------------
(* The lifecycle the host is told of.                                      *)

(* Where stopping_backend has been announced and the end is on its way.    *)
Ending ==
  \/ sup.pc \in {"http", "awaitExit", "shut", "cancelling", "cancelDrain", "stopped"}
  \/ sup.pc = "cleaning" /\ sup.after = "shut"
  \/ sup.pc \in Closing /\ sup.after = "cancelDrain"

(* The status a start or a restart is announced with.                      *)
Announced == IF sup.restartUsed THEN "restarting" ELSE "starting"

(* What the host has been told, at each place of the supervisor.           *)
LifeInv ==
  /\ life \in {"stopped", "failed"} => sup.pc \in Over
  /\ ~broken =>
       /\ \/ sup.pc \in Early \cup {"spawned"}
          \/ sup.pc = "drain" /\ sup.after \in {"start", "txOpen", "delay"}
          => life = IF sup.restartUsed THEN "restarting" ELSE "ready"
       /\ \/ sup.pc \in Started \ {"spawned", "run"}
          \/ sup.pc = "drain" /\ sup.after \in {"health", "healthy"}
          => life = Announced
       /\ \/ sup.pc \in {"run", "exited"}
          \/ sup.pc = "drain" /\ sup.after \in {"exit", "restart"}
          \/ sup.pc = "cleaning" /\ sup.after = "exited"
          => life = "running"
       /\ Target \in {"shutdown", "cancel"} => life \in {"starting", "running", "restarting"}
       /\ Ending => life = "stopping"
       /\ life = "stopping" => Ending \/ Target \in {"failed", "failedQuietly"} \cup Over
  /\ sup.snap # "ready" => life # "ready" \/ broken
  /\ \/ sup.pc \in {"run", "exited", "delay"}
     \/ sup.pc = "drain" /\ sup.after \in {"delay", "exit", "restart"}
     \/ sup.pc = "cleaning" /\ sup.after = "exited"
     => sup.snap # "ready"
  /\ Target = "stopNil" => sup.snap # "ready" \/ sup.cmd \in Cancel \cup {None}

(* The locals most statements leave alone.                                 *)
Rest ==
  /\ sup'.snap = sup.snap /\ sup'.restartUsed = sup.restartUsed
  /\ sup'.out = sup.out /\ sup'.ended = sup.ended /\ sup'.closed = sup.closed

(* None of the helpers of superviseControlled writes the snapshot or a flag.*)
LEMMA HelpersRest ==
  ASSUME sup \in SupType
  PROVE  /\ \A p : Goto(p) => Rest
         /\ \A e, c : Raise(e, c) => Rest
         /\ \A s : DrainFor(s) => Rest
         /\ \A a, e : Clean(a, e) => Rest
         /\ \A a, e, k : CloseThen(a, e, k) => Rest
         /\ \A e : Fail(e) => Rest
         /\ \A k : FinishNil(k) => Rest
         /\ \A k : Interrupt(k) => Rest
         /\ \A k : Finish(k) => Rest
         /\ \A e : DropTx(e) => Rest
         /\ \A o : Return(o) => Rest
         /\ \A e : DrainFails(e) => Rest
         /\ CloseFails => Rest
<1> USE DEF Rest, SupType
<1>1. /\ \A p : Goto(p) => Rest
      /\ \A e, c : Raise(e, c) => Rest
      /\ \A s : DrainFor(s) => Rest
      /\ \A a, e : Clean(a, e) => Rest
      /\ \A o : Return(o) => Rest
  BY DEF Goto, Raise, DrainFor, Clean, Return
<1>2. \A a, e, k : CloseThen(a, e, k) => Rest
  BY DEF CloseThen
<1>3. /\ \A e : Fail(e) => Rest
      /\ \A k : FinishNil(k) => Rest
      /\ \A k : Interrupt(k) => Rest
  BY <1>2 DEF Fail, FinishNil, Interrupt
<1>4. \A k : Finish(k) => Rest
  BY DEF Finish
<1>5. \A e : DropTx(e) => Rest
  BY <1>1 DEF DropTx
<1>6. CloseFails => Rest
  BY DEF CloseFails
<1>7. \A e : DrainFails(e) => Rest
  <2> SUFFICES ASSUME NEW e, DrainFails(e)
               PROVE  Rest
    OBVIOUS
  <2>1. CASE sup' = [sup EXCEPT !.pc = "return", !.outcome = "failed"]
    BY <2>1
  <2> QED BY <1>1, <1>3, <1>5, <2>1 DEF DrainFails
<1> QED BY <1>1, <1>2, <1>3, <1>4, <1>5, <1>6, <1>7

(* Most statements of the supervisor leave them alone.                      *)
LEMMA PlainRest ==
  ASSUME sup \in SupType,
         \/ Acquire \/ PreflightEnds \/ PreflightCommand \/ Prelude \/ BeginTx \/ TxOpen
         \/ Spawn \/ Spawned \/ HealthEnds \/ HealthCommand \/ Healthy \/ RunInfra
         \/ RunInterrupted \/ RunExited \/ RunCommand \/ DelayEnds \/ DelayCommand
         \/ AnswerStatus \/ AnswerFails \/ TakeError \/ Drained \/ DrainEndsBadly \/ Resolve
         \/ Cleaned \/ CloseMailbox \/ CloseDrain \/ ReturnQuietly \/ HttpClose \/ AwaitExit
         \/ Shut \/ CancelCleaned \/ CancelDrained \/ CloseResources \/ Join \/ EndSession
         \/ Leave \/ Exit
  PROVE  Rest
<1>1. CASE Acquire
  BY <1>1, HelpersRest DEF Acquire
<1>2. CASE PreflightEnds
  BY <1>2, HelpersRest DEF PreflightEnds
<1>3. CASE PreflightCommand
  BY <1>3, HelpersRest DEF PreflightCommand
<1>4. CASE Prelude
  BY <1>4, HelpersRest DEF Prelude
<1>5. CASE BeginTx
  BY <1>5, HelpersRest DEF BeginTx
<1>6. CASE TxOpen
  BY <1>6, HelpersRest DEF TxOpen
<1>7. CASE Spawn
  BY <1>7, HelpersRest DEF Spawn, Rest, SupType
<1>8. CASE Spawned
  BY <1>8, HelpersRest DEF Spawned
<1>9. CASE HealthEnds
  BY <1>9, HelpersRest DEF HealthEnds
<1>10. CASE HealthCommand
  BY <1>10, HelpersRest DEF HealthCommand
<1>11. CASE Healthy
  BY <1>11, HelpersRest DEF Healthy
<1>12. CASE RunInfra
  BY <1>12, HelpersRest DEF RunInfra
<1>13. CASE RunInterrupted
  BY <1>13, HelpersRest DEF RunInterrupted
<1>14. CASE RunExited
  BY <1>14, HelpersRest DEF RunExited
<1>15. CASE RunCommand
  BY <1>15, HelpersRest DEF RunCommand
<1>16. CASE DelayEnds
  BY <1>16, HelpersRest DEF DelayEnds
<1>17. CASE DelayCommand
  BY <1>17, HelpersRest DEF DelayCommand
<1>18. CASE AnswerStatus
  BY <1>18 DEF AnswerStatus, Rest
<1>19. CASE AnswerFails
  BY <1>19, HelpersRest DEF AnswerFails
<1>20. CASE TakeError
  BY <1>20 DEF TakeError, Rest
<1>21. CASE Drained
  BY <1>21, HelpersRest DEF Drained
<1>22. CASE DrainEndsBadly
  BY <1>22, HelpersRest DEF DrainEndsBadly
<1>23. CASE Resolve
  BY <1>23, HelpersRest DEF Resolve, Interrupted
<1>24. CASE Cleaned
  BY <1>24, HelpersRest DEF Cleaned
<1>25. CASE CloseMailbox
  BY <1>25, HelpersRest DEF CloseMailbox
<1>26. CASE CloseDrain
  BY <1>26, HelpersRest DEF CloseDrain, Rest, SupType
<1>27. CASE ReturnQuietly
  BY <1>27, HelpersRest DEF ReturnQuietly
<1>28. CASE HttpClose
  BY <1>28, HelpersRest DEF HttpClose, Rest, SupType
<1>29. CASE AwaitExit
  BY <1>29, HelpersRest DEF AwaitExit
<1>30. CASE Shut
  BY <1>30, HelpersRest DEF Shut, Rest, SupType
<1>31. CASE CancelCleaned
  BY <1>31, HelpersRest DEF CancelCleaned, Rest, SupType
<1>32. CASE CancelDrained
  BY <1>32, HelpersRest DEF CancelDrained
<1>33. CASE CloseResources
  BY <1>33, HelpersRest DEF CloseResources
<1>34. CASE Join
  BY <1>34, HelpersRest DEF Join
<1>35. CASE EndSession
  BY <1>35, HelpersRest DEF EndSession
<1>36. CASE Leave
  BY <1>36, HelpersRest DEF Leave
<1>37. CASE Exit
  BY <1>37, HelpersRest DEF Exit
<1> QED BY <1>1, <1>2, <1>3, <1>4, <1>5, <1>6, <1>7, <1>8, <1>9, <1>10, <1>11, <1>12, <1>13,
           <1>14, <1>15, <1>16, <1>17, <1>18, <1>19, <1>20, <1>21, <1>22, <1>23, <1>24, <1>25,
           <1>26, <1>27, <1>28, <1>29, <1>30, <1>31, <1>32, <1>33, <1>34, <1>35, <1>36, <1>37

(* The second update has succeeded: running, with its event, or the way of  *)
(* an error with the locals left alone.                                     *)
LEMMA UpdatedRuns ==
  ASSUME sup \in SupType, Updated
  PROVE  /\ sup'.pc = "run" =>
              /\ sup' = [sup EXCEPT !.pc = "run", !.snap = "running"]
              /\ ~broken /\ life' = "running"
         /\ sup'.pc # "run" => Rest /\ (broken \/ life' = life) /\ life' \in {life, "running"}
<1>1. \A a, e : Clean(a, e) => Rest /\ sup'.pc # "run"
  <2>1. \A a, e : Clean(a, e) => sup'.pc = "cleaning"
    BY DEF Clean, SupType
  <2> QED BY <2>1, HelpersRest
<1>2. DrainFor("healthy") => Rest /\ sup'.pc # "run"
  BY HelpersRest DEF DrainFor, SupType
<1>3. sup' = [sup EXCEPT !.pc = "run", !.snap = "running"] => sup'.pc = "run"
  BY DEF SupType
<1> QED BY <1>1, <1>2, <1>3 DEF Updated, Emit

(* After the exit of the backend: its one restart, with its event, or a way *)
(* that leaves the locals alone.                                            *)
LEMMA ExitedRestarts ==
  ASSUME sup \in SupType, Exited
  PROVE  \/ /\ life' = life /\ Rest
            /\ sup'.pc # "delay"
         \/ /\ sup'.pc = IF broken THEN "return" ELSE "delay"
            /\ sup'.restartUsed /\ sup'.snap = "restarting" /\ ~sup.restartUsed
            /\ sup'.out = sup.out /\ sup'.ended = sup.ended /\ sup'.closed = sup.closed
            /\ life' = IF broken THEN life ELSE "restarting"
<1>1. \A e : Fail(e) => Rest /\ sup'.pc # "delay"
  BY HelpersRest DEF Fail, CloseThen, SupType
<1>2. /\ DrainFor("restart") => Rest /\ sup'.pc # "delay"
      /\ FinishNil(None) => Rest /\ sup'.pc # "delay"
  BY HelpersRest DEF DrainFor, FinishNil, CloseThen, SupType
<1>3. CASE /\ ~sup.restartUsed /\ Emit("restarting")
           /\ sup' = [sup EXCEPT !.pc = IF broken THEN "return" ELSE "delay",
                                 !.restartUsed = TRUE, !.snap = "restarting",
                                 !.outcome = IF broken THEN "failed" ELSE @]
  BY <1>3 DEF SupType, Emit
<1> QED BY <1>1, <1>2, <1>3 DEF Exited

(* What the host is told stays in step with the place of the supervisor.    *)
LEMMA SupervisorLife ==
  ASSUME sup \in SupType, broken \in BOOLEAN, dirty \in BOOLEAN, life \in Status_,
         terminal \in Terminal \cup {None}, ProcInv, DecisionInv, LifeInv, UNCHANGED broken,
         SupervisorNext
  PROVE  LifeInv'
<1>1. CASE Acquire
  <2>1. Rest
    BY <1>1, PlainRest
  <2> QED BY ZenonT(60), <1>1, <2>1, GotoStep, RaiseStep, Labels, SupFields, Commands
         DEF Acquire, At, backend, LifeInv, Ending, Announced, Target, Closing, Over, Early,
             Started, Moved, Way, Emit, Rest, ProcInv, DecisionInv
<1>2. CASE PreflightEnds
  <2>1. Rest
    BY <1>2, PlainRest
  <2> QED BY ZenonT(60), <1>2, <2>1, RaiseStep, DrainForStep, GotoStep, Labels, SupFields, Commands
         DEF PreflightEnds, At, backend, LifeInv, Ending, Announced, Target, Closing, Over,
             Early, Started, Moved, Way, Emit, Rest, ProcInv, DecisionInv
<1>3. CASE PreflightCommand
  <2>1. Rest
    BY <1>3, PlainRest
  <2> QED BY <1>3, <2>1, RaiseStep, InterruptStep, Labels, SupFields, Commands
         DEF PreflightCommand, At, backend, LifeInv, Ending, Announced, Target, Closing, Over,
             Early, Started, Moved, Way, Emit, Rest, ProcInv, DecisionInv
<1>4. CASE Prelude
  <2>1. Rest
    BY <1>4, PlainRest
  <2> QED BY ZenonT(60), <1>4, <2>1, RaiseStep, DrainForStep, GotoStep, Labels, SupFields, Commands
         DEF Prelude, At, backend, LifeInv, Ending, Announced, Target, Closing, Over, Early,
             Started, Moved, Way, Emit, Rest, ProcInv, DecisionInv
<1>5. CASE BeginTx
  <2>1. Rest
    BY <1>5, PlainRest
  <2> QED BY <1>5, <2>1, GotoStep, RaiseStep, Labels, SupFields, Commands
         DEF BeginTx, At, backend, LifeInv, Ending, Announced, Target, Closing, Over, Early,
             Started, Moved, Way, Emit, Rest, ProcInv, DecisionInv
<1>6. CASE TxOpen
  <2>1. Rest
    BY <1>6, PlainRest
  <2> QED BY ZenonT(60), <1>6, <2>1, DropTxStep, DrainForStep, GotoStep, Labels, SupFields, Commands
         DEF TxOpen, At, backend, LifeInv, Ending, Announced, Target, Closing, Over, Early,
             Started, Moved, Way, Emit, Rest, ProcInv, DecisionInv
<1>7. CASE Spawn
  <2>1. Rest
    BY <1>7, PlainRest
  <2>2. sup.pc = "spawn" /\ life' = life
    BY <1>7 DEF Spawn, At
  <2>3. \/ sup'.pc \in {"spawned", "resolve"}
        \/ sup'.pc = "cleaning" /\ sup'.after = "raise"
    BY <1>7, SpawnStep DEF Moved
  <2> QED BY <2>1, <2>2, <2>3 DEF Rest, LifeInv, Ending, Announced, Target, Closing, Over,
                                  Early, Started
<1>8. CASE Spawned
  <2>1. Rest
    BY <1>8, PlainRest
  <2> QED BY <1>8, <2>1, CleanStep, GotoStep, Labels, SupFields, Commands
         DEF Spawned, At, GateError, backend, LifeInv, Ending, Announced, Target, Closing, Over,
             Early, Started, Moved, Way, Emit, Rest, ProcInv, DecisionInv
<1>9. CASE UpdateHealth
  BY ZenonT(60), <1>9, UpdateHealthStep, Labels, SupFields, Commands
     DEF UpdateHealth, At, backend, LifeInv, Ending, Announced, Target, Closing, Over, Early,
         Started, Moved, Way, Emit, Rest, ProcInv, DecisionInv, SupType, Clean, DrainFor,
         CloseThen, Fail, FinishNil, Return
<1>10. CASE HealthEnds
  <2>1. Rest
    BY <1>10, PlainRest
  <2> QED BY <1>10, <2>1, CleanStep, DrainForStep, GotoStep, Labels, SupFields, Commands
         DEF HealthEnds, At, GateError, backend, LifeInv, Ending, Announced, Target, Closing,
             Over, Early, Started, Moved, Way, Emit, Rest, ProcInv, DecisionInv
<1>11. CASE HealthCommand
  <2>1. Rest
    BY <1>11, PlainRest
  <2> QED BY <1>11, <2>1, CleanStep, FinishStep, Labels, SupFields, Commands
         DEF HealthCommand, At, GateError, backend, LifeInv, Ending, Announced, Target, Closing,
             Over, Early, Started, Moved, Way, Emit, Rest, ProcInv, DecisionInv
<1>12. CASE Healthy
  <2>1. Rest
    BY <1>12, PlainRest
  <2> QED BY <1>12, <2>1, CleanStep, DrainForStep, GotoStep, Labels, SupFields, Commands
         DEF Healthy, At, GateError, backend, LifeInv, Ending, Announced, Target, Closing, Over,
             Early, Started, Moved, Way, Emit, Rest, ProcInv, DecisionInv
<1>13. CASE Updated
  <2>1. sup.pc = "updated"
    BY <1>13 DEF Updated, At
  <2>2. CASE sup'.pc = "run"
    <3>1. /\ sup' = [sup EXCEPT !.pc = "run", !.snap = "running"]
          /\ ~broken /\ life' = "running"
      BY <1>13, <2>2, UpdatedRuns
    <3> QED BY <2>1, <3>1 DEF SupType, LifeInv, Ending, Announced, Target, Closing, Over, Early,
                              Started
  <2>3. CASE sup'.pc # "run"
    <3>1. Rest /\ (broken \/ life' = life) /\ life' \in {life, "running"}
      BY <1>13, <2>3, UpdatedRuns
    <3>2. \/ sup'.pc = "cleaning" /\ sup'.after = "raise"
          \/ sup'.pc = "drain" /\ sup'.after = "healthy"
      BY <1>13, <2>3, UpdatedStep DEF Moved
    <3> QED BY <2>1, <3>1, <3>2 DEF Rest, LifeInv, Ending, Announced, Target, Closing, Over,
                                    Early, Started
  <2> QED BY <2>2, <2>3
<1>14. CASE RunFault
  BY <1>14, RunFaultStep, Labels, SupFields, Commands
     DEF RunFault, At, GateError, backend, LifeInv, Ending, Announced, Target, Closing, Over,
         Early, Started, Moved, Way, Emit, Rest, ProcInv, DecisionInv, SupType, Clean, DrainFor,
         CloseThen, Fail, FinishNil, Return
<1>15. CASE RunInfra
  <2>1. Rest
    BY <1>15, PlainRest
  <2> QED BY <1>15, <2>1, CleanStep, Labels, SupFields, Commands
         DEF RunInfra, At, GateError, backend, LifeInv, Ending, Announced, Target, Closing,
             Over, Early, Started, Moved, Way, Emit, Rest, ProcInv, DecisionInv
<1>16. CASE RunInterrupted
  <2>1. Rest
    BY <1>16, PlainRest
  <2> QED BY <1>16, <2>1, CleanStep, FinishStep, Labels, SupFields, Commands
         DEF RunInterrupted, At, GateError, backend, LifeInv, Ending, Announced, Target,
             Closing, Over, Early, Started, Moved, Way, Emit, Rest, ProcInv, DecisionInv
<1>17. CASE RunExited
  <2>1. Rest
    BY <1>17, PlainRest
  <2> QED BY <1>17, <2>1, CleanStep, DrainForStep, Labels, SupFields, Commands
         DEF RunExited, At, GateError, backend, LifeInv, Ending, Announced, Target, Closing,
             Over, Early, Started, Moved, Way, Emit, Rest, ProcInv, DecisionInv
<1>18. CASE RunCommand
  <2>1. Rest
    BY <1>18, PlainRest
  <2> QED BY <1>18, <2>1, CleanStep, FinishStep, Labels, SupFields, Commands
         DEF RunCommand, At, GateError, backend, LifeInv, Ending, Announced, Target, Closing,
             Over, Early, Started, Moved, Way, Emit, Rest, ProcInv, DecisionInv
<1>19. CASE Exited
  <2>1. sup.pc = "exited"
    BY <1>19 DEF Exited, At
  <2>2. CASE life' = life /\ Rest
    <3>1. \/ sup'.pc \in {"failed", "closeMailbox"} /\ sup'.after = "failed"
          \/ sup'.pc = "drain" /\ sup'.after = "restart"
          \/ sup'.pc \in {"stopNil", "closeMailbox"} /\ sup'.after = "stopNil" /\ sup'.cmd = None
          \/ sup'.pc = "return"
      BY <1>19, <2>2, ExitedStep, ExitedRestarts DEF Moved, Way, Rest
    <3> QED BY <2>1, <2>2, <3>1 DEF Rest, LifeInv, Ending, Announced, Target, Closing, Over,
                                    Early, Started
  <2>3. CASE ~(life' = life /\ Rest)
    <3>1. /\ sup'.pc = IF broken THEN "return" ELSE "delay"
          /\ sup'.restartUsed /\ sup'.snap = "restarting"
          /\ life' = IF broken THEN life ELSE "restarting"
      BY <1>19, <2>3, ExitedRestarts
    <3> QED BY <2>1, <3>1 DEF LifeInv, Ending, Announced, Target, Closing, Over, Early, Started
  <2> QED BY <2>2, <2>3
<1>20. CASE DelayEnds
  <2>1. Rest
    BY <1>20, PlainRest
  <2> QED BY <1>20, <2>1, RaiseStep, DrainForStep, GotoStep, Labels, SupFields, Commands
         DEF DelayEnds, At, backend, LifeInv, Ending, Announced, Target, Closing, Over, Early,
             Started, Moved, Way, Emit, Rest, ProcInv, DecisionInv
<1>21. CASE DelayCommand
  <2>1. Rest
    BY <1>21, PlainRest
  <2> QED BY <1>21, <2>1, RaiseStep, FinishNilStep, Labels, SupFields, Commands
         DEF DelayCommand, At, backend, LifeInv, Ending, Announced, Target, Closing, Over,
             Early, Started, Moved, Way, Emit, Rest, ProcInv, DecisionInv
<1>22. CASE AnswerStatus
  <2>1. Rest
    BY <1>22, PlainRest
  <2> QED BY <1>22, <2>1, Labels, SupFields, Commands
         DEF AnswerStatus, Selecting, backend, LifeInv, Ending, Announced, Target, Closing,
             Over, Early, Started, Moved, Way, Emit, Rest, ProcInv, DecisionInv
<1>23. CASE AnswerFails
  <2>1. Rest
    BY <1>23, PlainRest
  <2> QED BY <1>23, <2>1, RaiseStep, CleanStep, DrainFailsStep, Labels, SupFields, Commands
         DEF AnswerFails, Selecting, At, backend, LifeInv, Ending, Announced, Target, Closing,
             Over, Early, Started, Moved, Way, Emit, Rest, ProcInv, DecisionInv
<1>24. CASE TakeError
  <2>1. Rest
    BY <1>24, PlainRest
  <2> QED BY <1>24, <2>1, Labels, SupFields, Commands
         DEF TakeError, Selecting, backend, LifeInv, Ending, Announced, Target, Closing, Over,
             Early, Started, Moved, Way, Emit, Rest, ProcInv, DecisionInv
<1>25. CASE Drained
  <2>1. Rest
    BY <1>25, PlainRest
  <2> QED BY ZenonT(60), <1>25, <2>1, InterruptStep, RaiseStep, FinishNilStep, FinishStep, Labels,
         SupFields, Commands
         DEF Drained, At, backend, LifeInv, Ending, Announced, Target, Closing, Over, Early,
             Started, Moved, Way, Emit, Rest, ProcInv, DecisionInv
<1>26. CASE DrainEndsBadly
  <2>1. Rest
    BY <1>26, PlainRest
  <2>2. sup.pc = "drain" /\ life' = life
    BY <1>26 DEF DrainEndsBadly, At
  <2>3. DrainFails("infra") \/ DrainFails("timeout")
    BY <1>26 DEF DrainEndsBadly
  <2>4. \/ sup'.pc \in {"resolve", "return"}
        \/ sup'.pc = "cleaning" /\ sup'.after \in {"healthFailed", "raise", "fail"}
        \/ sup'.pc \in {"failed", "closeMailbox"} /\ sup'.after = "failed"
    BY <2>3, DrainFailsStep, Labels DEF Moved, Way
  <2> QED BY <2>1, <2>2, <2>4 DEF Rest, LifeInv, Ending, Announced, Target, Closing, Over,
                                  Early, Started
<1>27. CASE Resolve
  <2>1. Rest
    BY <1>27, PlainRest
  <2> QED BY <1>27, <2>1, CloseThenStep, FailStep, DrainForStep, FinishNilStep, Labels,
         SupFields, Commands
         DEF Resolve, At, Interrupted, backend, LifeInv, Ending, Announced, Target, Closing,
             Over, Early, Started, Moved, Way, Emit, Rest, ProcInv, DecisionInv
<1>28. CASE Cleaned
  <2>1. Rest
    BY <1>28, PlainRest
  <2>2. sup.pc = "cleaning" /\ life' = life /\ sup.pc \notin Closing
    BY <1>28 DEF Cleaned, At, Closing
  <2>3. GateError \in Error /\ Marked(sup.err) \in BOOLEAN
    BY Labels DEF GateError, Marked
  <2>4. \/ sup'.pc \in {"failed", "closeMailbox"} /\ sup'.after = "failed"
        \/ sup.after \in {"exited", "shut"} /\ sup'.pc = sup.after
        \/ sup'.pc = "resolve" /\ sup.after # "shut"
        \/ sup'.pc = "drain" /\ sup'.after = "cleaned" /\ sup.after # "shut"
    BY <1>28, <2>3, FailStep, GotoStep, RaiseStep, DrainForStep, Labels, SupFields
       DEF Cleaned, Moved, Way
  <2> QED BY <2>1, <2>2, <2>4 DEF Rest, LifeInv, Ending, Announced, Target, Closing, Over,
                                  Early, Started
<1>29. CASE CloseMailbox
  <2>1. Rest
    BY <1>29, PlainRest
  <2> QED BY <1>29, <2>1, GotoStep, Labels, SupFields, Commands
         DEF CloseMailbox, At, backend, LifeInv, Ending, Announced, Target, Closing, Over,
             Early, Started, Moved, Way, Emit, Rest, ProcInv, DecisionInv
<1>30. CASE CloseReader
  BY <1>30, CloseReaderStep, Labels, SupFields, Commands
     DEF CloseReader, At, backend, LifeInv, Ending, Announced, Target, Closing, Over, Early,
         Started, Moved, Way, Emit, Rest, ProcInv, DecisionInv, SupType, Clean, DrainFor,
         CloseThen, Fail, FinishNil, Return
<1>31. CASE CloseDrain
  <2>1. Rest
    BY <1>31, PlainRest
  <2> QED BY <1>31, <2>1, CloseFailsStep, GotoStep, Labels, SupFields, Commands
         DEF CloseDrain, At, backend, LifeInv, Ending, Announced, Target, Closing, Over, Early,
             Started, Moved, Way, Emit, Rest, ProcInv, DecisionInv
<1>32. CASE ReturnQuietly
  <2>1. Rest
    BY <1>32, PlainRest
  <2> QED BY <1>32, <2>1, ReturnStep, Labels, SupFields, Commands
         DEF ReturnQuietly, At, backend, LifeInv, Ending, Announced, Target, Closing, Over,
             Early, Started, Moved, Way, Emit, Rest, ProcInv, DecisionInv
<1>33. CASE EmitFailed
  BY <1>33, EmitFailedStep, Labels, SupFields, Commands
     DEF EmitFailed, At, backend, LifeInv, Ending, Announced, Target, Closing, Over, Early,
         Started, Moved, Way, Emit, Rest, ProcInv, DecisionInv, SupType, Clean, DrainFor,
         CloseThen, Fail, FinishNil, Return
<1>34. CASE StopNil
  <2>1. sup.pc = "stopNil"
    BY <1>34 DEF StopNil, At
  <2>2. CASE sup.cmd \in Cancel \cup {None} /\ sup.snap = "ready"
    <3>1. Rest /\ life' = life /\ sup'.pc = "return"
      BY <1>34, <2>2, HelpersRest, ReturnStep DEF StopNil, Moved
    <3> QED BY <2>1, <3>1 DEF Rest, LifeInv, Ending, Announced, Target, Closing, Over, Early,
                              Started
  <2>3. CASE ~(sup.cmd \in Cancel \cup {None} /\ sup.snap = "ready")
    <3>1. /\ life' = IF broken THEN life ELSE "stopping"
          /\ sup'.snap = "stopping" /\ sup'.pc \in {"failed", "stopped"}
          /\ ~broken => sup'.pc = "stopped"
      <4> DEFINE bad == broken /\ sup.cmd \in Cancel \cup {None}
      <4>1. /\ sup' = [sup EXCEPT !.snap = "stopping", !.out = broken,
                                  !.pc = IF bad THEN "failed" ELSE "stopped"]
            /\ life' = IF broken THEN life ELSE "stopping"
        BY <1>34, <2>3 DEF StopNil, Emit
      <4>2. bad \in BOOLEAN /\ (bad => broken)
        OBVIOUS
      <4> HIDE DEF bad
      <4> QED BY <4>1, <4>2 DEF SupType
    <3> QED BY <2>1, <3>1 DEF LifeInv, Ending, Announced, Target, Closing, Over, Early, Started
  <2> QED BY <2>2, <2>3
<1>35. CASE BeginShutdown
  BY <1>35, BeginStep, Labels, SupFields, Commands
     DEF BeginShutdown, At, backend, LifeInv, Ending, Announced, Target, Closing, Over, Early,
         Started, Moved, Way, Emit, Rest, ProcInv, DecisionInv, SupType, Clean, DrainFor,
         CloseThen, Fail, FinishNil, Return
<1>36. CASE HttpClose
  <2>1. Rest
    BY <1>36, PlainRest
  <2> QED BY <1>36, <2>1, HttpCloseStep, Labels, SupFields, Commands
         DEF HttpClose, At, backend, LifeInv, Ending, Announced, Target, Closing, Over, Early,
             Started, Moved, Way, Emit, Rest, ProcInv, DecisionInv
<1>37. CASE AwaitExit
  <2>1. Rest
    BY <1>37, PlainRest
  <2> QED BY <1>37, <2>1, CleanStep, Labels, SupFields, Commands
         DEF AwaitExit, At, backend, LifeInv, Ending, Announced, Target, Closing, Over, Early,
             Started, Moved, Way, Emit, Rest, ProcInv, DecisionInv
<1>38. CASE Shut
  <2>1. Rest
    BY <1>38, PlainRest
  <2> QED BY <1>38, <2>1, ShutStep, Labels, SupFields, Commands
         DEF Shut, At, backend, LifeInv, Ending, Announced, Target, Closing, Over, Early,
             Started, Moved, Way, Emit, Rest, ProcInv, DecisionInv
<1>39. CASE BeginCancel
  BY <1>39, BeginStep, Labels, SupFields, Commands
     DEF BeginCancel, At, backend, LifeInv, Ending, Announced, Target, Closing, Over, Early,
         Started, Moved, Way, Emit, Rest, ProcInv, DecisionInv, SupType, Clean, DrainFor,
         CloseThen, Fail, FinishNil, Return
<1>40. CASE CancelItem
  BY <1>40, CancelStep, Labels, SupFields, Commands
     DEF CancelItem, At, backend, LifeInv, Ending, Announced, Target, Closing, Over, Early,
         Started, Moved, Way, Emit, Rest, ProcInv, DecisionInv, SupType, Clean, DrainFor,
         CloseThen, Fail, FinishNil, Return
<1>41. CASE CancelCleaned
  <2>1. Rest
    BY <1>41, PlainRest
  <2> QED BY <1>41, <2>1, CancelStep, Labels, SupFields, Commands
         DEF CancelCleaned, At, backend, LifeInv, Ending, Announced, Target, Closing, Over,
             Early, Started, Moved, Way, Emit, Rest, ProcInv, DecisionInv
<1>42. CASE CancelDrained
  <2>1. Rest
    BY <1>42, PlainRest
  <2> QED BY <1>42, <2>1, GotoStep, Labels, SupFields, Commands
         DEF CancelDrained, At, backend, LifeInv, Ending, Announced, Target, Closing, Over,
             Early, Started, Moved, Way, Emit, Rest, ProcInv, DecisionInv
<1>43. CASE EmitStopped
  BY <1>43, EmitStoppedStep, Labels, SupFields, Commands
     DEF EmitStopped, At, backend, LifeInv, Ending, Announced, Target, Closing, Over, Early,
         Started, Moved, Way, Emit, Rest, ProcInv, DecisionInv, SupType, Clean, DrainFor,
         CloseThen, Fail, FinishNil, Return
<1>44. CASE CloseResources
  <2>1. Rest
    BY <1>44, PlainRest
  <2> QED BY <1>44, <2>1, GotoStep, Labels, SupFields, Commands
         DEF CloseResources, At, backend, LifeInv, Ending, Announced, Target, Closing, Over,
             Early, Started, Moved, Way, Emit, Rest, ProcInv, DecisionInv
<1>45. CASE Join
  <2>1. Rest
    BY <1>45, PlainRest
  <2> QED BY <1>45, <2>1, GotoStep, Labels, SupFields, Commands
         DEF Join, At, backend, LifeInv, Ending, Announced, Target, Closing, Over, Early,
             Started, Moved, Way, Emit, Rest, ProcInv, DecisionInv
<1>46. CASE EndSession
  <2>1. Rest
    BY <1>46, PlainRest
  <2> QED BY <1>46, <2>1, GotoStep, Labels, SupFields, Commands
         DEF EndSession, At, backend, LifeInv, Ending, Announced, Target, Closing, Over, Early,
             Started, Moved, Way, Emit, Rest, ProcInv, DecisionInv
<1>47. CASE Leave
  <2>1. Rest
    BY <1>47, PlainRest
  <2> QED BY <1>47, <2>1, GotoStep, Labels, SupFields, Commands
         DEF Leave, At, backend, LifeInv, Ending, Announced, Target, Closing, Over, Early,
             Started, Moved, Way, Emit, Rest, ProcInv, DecisionInv
<1>48. CASE Exit
  <2>1. Rest
    BY <1>48, PlainRest
  <2> QED BY <1>48, <2>1, GotoStep, Labels, SupFields, Commands
         DEF Exit, At, backend, LifeInv, Ending, Announced, Target, Closing, Over, Early,
             Started, Moved, Way, Emit, Rest, ProcInv, DecisionInv
<1> QED BY <1>1, <1>2, <1>3, <1>4, <1>5, <1>6, <1>7, <1>8, <1>9, <1>10, <1>11, <1>12, <1>13,
           <1>14, <1>15, <1>16, <1>17, <1>18, <1>19, <1>20, <1>21, <1>22, <1>23, <1>24, <1>25,
           <1>26, <1>27, <1>28, <1>29, <1>30, <1>31, <1>32, <1>33, <1>34, <1>35, <1>36, <1>37,
           <1>38, <1>39, <1>40, <1>41, <1>42, <1>43, <1>44, <1>45, <1>46, <1>47, <1>48
           DEF SupervisorNext

(* Only these statements write an event of the lifecycle.                   *)
LEMMA Announcing ==
  ASSUME SupervisorNext, life' # life
  PROVE  \/ Spawned \/ Updated \/ Exited \/ EmitFailed \/ StopNil \/ BeginShutdown
         \/ BeginCancel \/ EmitStopped
<1>1. ~(Acquire \/ PreflightEnds \/ PreflightCommand \/ Prelude \/ BeginTx \/ TxOpen \/ Spawn
       \/ UpdateHealth \/ HealthEnds \/ HealthCommand)
  BY DEF Acquire, PreflightEnds, PreflightCommand, Prelude, BeginTx, TxOpen, Spawn,
         UpdateHealth, HealthEnds, HealthCommand
<1>2. ~(Healthy \/ RunFault \/ RunInfra \/ RunInterrupted \/ RunExited \/ RunCommand
       \/ DelayEnds \/ DelayCommand \/ AnswerStatus \/ AnswerFails)
  BY DEF Healthy, RunFault, RunInfra, RunInterrupted, RunExited, RunCommand, DelayEnds,
         DelayCommand, AnswerStatus, AnswerFails
<1>3. ~(TakeError \/ Drained \/ DrainEndsBadly \/ Resolve \/ Cleaned \/ CloseMailbox
       \/ CloseReader \/ CloseDrain \/ ReturnQuietly \/ HttpClose)
  BY DEF TakeError, Drained, DrainEndsBadly, Resolve, Cleaned, CloseMailbox, CloseReader,
         CloseDrain, ReturnQuietly, HttpClose
<1>4. ~(AwaitExit \/ Shut \/ CancelItem \/ CancelCleaned \/ CancelDrained \/ CloseResources
       \/ Join \/ EndSession \/ Leave \/ Exit)
  BY DEF AwaitExit, Shut, CancelItem, CancelCleaned, CancelDrained, CloseResources, Join,
         EndSession, Leave, Exit
<1> QED BY <1>1, <1>2, <1>3, <1>4
           DEF SupervisorNext


(* A lifecycle event follows the published transitions, or announces that   *)
(* the spawn, or what comes before it, has failed.                          *)
LEMMA SupervisorAnnounces ==
  ASSUME sup \in SupType, broken \in BOOLEAN, life \in Status_, LifeInv, SupervisorNext,
         life' # life
  PROVE  /\ <<life, life'>> \in Edges \cup {<<"ready", "failed">>}
         /\ life' = "restarting" => ~sup.restartUsed
<1> USE DEF Edges
<1>1. CASE Spawned
  <2>1. /\ sup.pc = "spawned" /\ ~broken /\ ~sup.restartUsed /\ life' = "starting"
    BY <1>1 DEF Spawned, At, Emit
  <2> QED BY <2>1 DEF LifeInv
<1>2. CASE Updated
  <2>1. sup.pc = "updated" /\ ~broken /\ life' = "running"
    BY <1>2 DEF Updated, At, Emit
  <2> QED BY <2>1 DEF LifeInv, Started, Announced
<1>3. CASE Exited
  <2>1. sup.pc = "exited" /\ ~broken /\ ~sup.restartUsed /\ life' = "restarting"
    BY <1>3 DEF Exited, At, Emit
  <2> QED BY <2>1 DEF LifeInv
<1>4. CASE EmitFailed
  <2>1. sup.pc = "failed" /\ life' = "failed"
    BY <1>4 DEF EmitFailed, At, Emit
  <2> QED BY <2>1 DEF LifeInv, Over, Status_
<1>5. CASE StopNil
  <2>1. /\ sup.pc = "stopNil" /\ ~broken /\ life' = "stopping"
        /\ sup.snap # "ready" \/ sup.cmd \notin Cancel \cup {None}
    BY <1>5 DEF StopNil, At, Emit
  <2>2. sup.snap # "ready"
    BY <2>1 DEF LifeInv, Target, Closing
  <2> QED BY <2>1, <2>2 DEF LifeInv, Over, Status_
<1>6. CASE BeginShutdown \/ BeginCancel
  <2>1. sup.pc \in {"shutdown", "cancel"} /\ ~broken /\ life' = "stopping"
    BY <1>6 DEF BeginShutdown, BeginCancel, At, Emit
  <2> QED BY <2>1 DEF LifeInv, Target, Closing
<1>7. CASE EmitStopped
  <2>1. sup.pc = "stopped" /\ ~broken /\ life' = "stopped"
    BY <1>7 DEF EmitStopped, At, Emit
  <2> QED BY <2>1 DEF LifeInv, Ending
<1> QED BY <1>1, <1>2, <1>3, <1>4, <1>5, <1>6, <1>7, Announcing

(* The reader, the forwarder, the cleanup and the host leave what the       *)
(* invariant is about, but for stdout, which may break.                     *)
LEMMA OthersLife ==
  ASSUME LifeInv, UNCHANGED <<sup, life>>, broken \in BOOLEAN, broken => broken'
  PROVE  LifeInv'
BY DEF LifeInv, Ending, Announced, Target

(* The steps that are none of the supervisor.                               *)
LEMMA OthersFrame ==
  ASSUME broken \in BOOLEAN, [Next]_vars, ~SupervisorNext
  PROVE  UNCHANGED <<sup, life>> /\ (broken => broken')
BY DEF Next, local, host, vars, CleanerNext, KillTree, RemoveRecord, Environment, BackendExits,
       StdoutBreaks, GateFaults, HostInterrupts, ContextPropagates, Terminated

(* superviseControlled: what the host was told fits the place of the        *)
(* supervisor in every reachable state.                                     *)
THEOREM LifeInvariant == Spec => []LifeInv
<1>1. Init => LifeInv
  BY DEF Init, LifeInv, Ending, Announced, Target, Closing, Over, Early, Started
<1>2. ASSUME IndInv, LifeInv, [Next]_vars
      PROVE  LifeInv'
  <2>1. /\ sup \in SupType /\ broken \in BOOLEAN /\ dirty \in BOOLEAN /\ life \in Status_
        /\ terminal \in Terminal \cup {None} /\ ProcInv /\ DecisionInv
    BY <1>2 DEF IndInv, TypeOK, MailboxTypeOK
  <2>2. CASE SupervisorNext
    <3>1. UNCHANGED broken
      BY <2>2, SupervisorFrame
    <3> QED BY <1>2, <2>1, <2>2, <3>1, SupervisorLife
  <2>3. CASE ~SupervisorNext
    BY <1>2, <2>1, <2>3, OthersFrame, OthersLife
  <2> QED BY <2>2, <2>3
<1> QED BY <1>1, <1>2, SupervisorInvariant, PTL DEF Spec

(* Supervise: the host reads the published transitions only, and besides    *)
(* ready_to_start -> backend_failed; at most one restart, nothing after the *)
(* end.  That a running backend fails only after its restart is not claimed *)
(* (MCSupervisorSteps).                                                     *)
THEOREM LifecycleIsKept == Spec => Lifecycle
<1>1. ASSUME IndInv, LifeInv, [Next]_vars
      PROVE  [life' # life =>
                /\ <<life, life'>> \in Edges \cup {<<"ready", "failed">>}
                /\ life' = "restarting" => ~sup.restartUsed]_vars
  <2>1. sup \in SupType /\ broken \in BOOLEAN /\ life \in Status_
    BY <1>1 DEF IndInv, TypeOK
  <2>2. CASE SupervisorNext
    BY <1>1, <2>1, <2>2, SupervisorAnnounces
  <2>3. CASE ~SupervisorNext
    BY <1>1, <2>1, <2>3, OthersFrame
  <2> QED BY <2>2, <2>3
<1> QED BY <1>1, SupervisorInvariant, LifeInvariant, PTL DEF Spec, Lifecycle

-----------------------------------------------------------------------------
(* A status command between its acceptance and the supervisor.             *)
Waiting(c) == c = results \/ c = parcel \/ \E i \in DOMAIN queue : queue[i] = c

(* Nothing is accepted any more, and everything accepted was answered.     *)
Settled == owed = {} /\ stopped

(* Neither stdout nor stdin has failed, and nothing has interrupted.       *)
Sound == ~broken /\ ~Infra /\ ~ctx /\ sup.err # "output"

(* A shutdown is latched.                                                  *)
Shutting == terminal \in Terminal \ Cancel

(* What is behind a shutdown, and behind the end of the channel: nothing.  *)
QueueInv ==
  /\ ~Latched => results \notin Terminal /\ parcel \notin Terminal
                 /\ \A i \in DOMAIN queue : queue[i] \notin Terminal
  /\ Shutting =>
       /\ stopped
       /\ \A i \in DOMAIN queue : queue[i] = terminal => i = Len(queue)
       /\ parcel = terminal => queue = <<>>
       /\ results = terminal => queue = <<>> /\ parcel \notin Command
  /\ parcel = "stopped" => stopped /\ queue = <<>>
  /\ results = "stopped" => stopped /\ queue = <<>> /\ parcel = None
  /\ forwarder = "done" /\ ~forwarderCtx /\ ~Infra => stopped /\ queue = <<>> /\ parcel = None
  /\ results \in {"error", "stopped"} \/ sup.ended => forwarder = "done"
  /\ sup.ended /\ ~Infra => results = None
  /\ forwarderCtx => sup.pc \in Over \ {"return"}

(* Where the channel has been drained: at the ends, and behind the         *)
(* shutdown that was taken from it.                                        *)
Quiet ==
  \/ sup.pc \in {"cancelledQuietly", "stoppedQuietly", "failedQuietly", "failed", "stopNil",
                 "shutdown", "http", "awaitExit", "shut", "stopped"} \cup Over
  \/ sup.pc = "cleaning" /\ sup.after = "shut"
  \/ sup.pc \in {"closeMailbox", "closeReader"} /\ sup.after = "shutdown"

(* Where an error of stdout is being handled.                              *)
Doomed ==
  \/ sup.pc = "cleaning" /\ sup.after \in {"raise", "fail", "healthFailed"}
  \/ sup.pc = "resolve"
  \/ Target \in {"failed", "failedQuietly"} \cup Over

PlaceInv ==
  /\ sup.pc \in {"closeReader", "closeDrain", "cancelDrain"} => stopped
  /\ sup.err = "output" => Doomed
  /\ Sound =>
       /\ gate = "output" => sup.pc = "spawned"
       /\ ~sup.out
       /\ Quiet => Settled
       /\ sup.closed => Settled \/ sup.pc \in {"closeDrain", "cancelDrain"}

(* A status command that was accepted and has no answer is still coming,   *)
(* as long as the forwarder has not been told to stop.                     *)
OwedInv ==
  ~broken /\ ~Infra /\ ~forwarderCtx => \A c \in owed : Waiting(c)

(* What the channel shows of its end.                                      *)
Emptied ==
  /\ sup.pc \in Early \cup Started \cup {"drain"} /\ results \in Terminal \ Cancel => Settled
  /\ results = "stopped" => Settled
  /\ results # "error"
  /\ sup.pc \notin Over =>
       /\ results = None /\ forwarder = "done" => Settled
       /\ sup.ended => Settled

(* Behind a shutdown, and behind the end of the channel.                   *)

(* Submit appends behind everything accepted before, and nothing is behind  *)
(* a shutdown.                                                              *)
LEMMA SubmitQueue ==
  ASSUME MailboxTypeOK, ReaderInv, QueueInv, UNCHANGED sup, Submit
  PROVE  QueueInv'
<1>1. /\ line \in Command /\ queue \in Seq(Command) /\ ~stopped /\ ~Infra
      /\ forwarder # "done" \/ forwarderCtx
      /\ None \notin Terminal
  BY Commands DEF Submit, MailboxTypeOK, ReaderInv, Infra, QueueInv
<1>2. /\ queue' = Append(queue, line)
      /\ terminal' = IF line \in Terminal /\ terminal = None THEN line ELSE terminal
      /\ stopped' = (line \in Terminal \ Cancel /\ terminal = None)
      /\ UNCHANGED <<results, forwarder, parcel, forwarderCtx, readerErr>>
  BY DEF Submit, Latch, sender
<1>3. /\ DOMAIN queue = 1 .. Len(queue) /\ DOMAIN queue' = 1 .. (Len(queue) + 1)
      /\ Len(queue) \in Nat /\ Len(queue') = Len(queue) + 1
      /\ \A i \in 1 .. Len(queue) : queue'[i] = queue[i]
      /\ queue'[Len(queue) + 1] = line
  BY <1>1, <1>2
<1>4. parcel # "stopped" /\ results # "stopped"
  BY <1>1 DEF QueueInv
<1>5. ~Shutting
  BY <1>1 DEF QueueInv
<1>6. ~Latched' => /\ results' \notin Terminal /\ parcel' \notin Terminal
                   /\ \A i \in DOMAIN queue' : queue'[i] \notin Terminal
  BY <1>1, <1>2, <1>3 DEF QueueInv, Latched
<1>7. ASSUME Shutting'
      PROVE  /\ stopped'
             /\ \A i \in DOMAIN queue' : queue'[i] = terminal' => i = Len(queue')
             /\ parcel' = terminal' => queue' = <<>>
             /\ results' = terminal' => queue' = <<>> /\ parcel' \notin Command
  <2>1. ~Latched /\ terminal' = line /\ line \in Terminal \ Cancel
    BY <1>1, <1>2, <1>5, <1>7, Commands DEF Shutting, Latched
  <2>2. /\ results \notin Terminal /\ parcel \notin Terminal
        /\ \A i \in DOMAIN queue : queue[i] \notin Terminal
    BY <2>1 DEF QueueInv
  <2>3. stopped' /\ parcel' # terminal' /\ results' # terminal'
    BY <1>2, <2>1, <2>2 DEF Latched
  <2>4. ASSUME NEW i \in DOMAIN queue', queue'[i] = terminal'
        PROVE  i = Len(queue')
    <3>1. i \notin 1 .. Len(queue)
      BY <1>3, <2>1, <2>2, <2>4
    <3> QED BY <1>3, <3>1
  <2> QED BY <2>3, <2>4
<1> QED BY <1>1, <1>2, <1>4, <1>6, <1>7 DEF QueueInv, Infra

(* The head of the queue moves on.                                          *)
LEMMA ReceiveQueue ==
  ASSUME MailboxTypeOK, ReaderInv, QueueInv, UNCHANGED sup, ReceiveCommand
  PROVE  QueueInv'
<1>1. /\ queue \in Seq(Command) /\ queue # <<>> /\ parcel = None
      /\ parcel' = Head(queue) /\ queue' = Tail(queue) /\ forwarder' = "deliver"
      /\ UNCHANGED <<stopped, terminal, results, forwarderCtx, readerErr>>
      /\ forwarder = "receive"
  BY DEF ReceiveCommand, MailboxTypeOK, channel
<1>2. /\ Len(queue) \in Nat \ {0} /\ DOMAIN queue = 1 .. Len(queue)
      /\ DOMAIN queue' = 1 .. (Len(queue) - 1) /\ Len(queue') = Len(queue) - 1
      /\ parcel' = queue[1] /\ parcel' \in Command
      /\ \A i \in DOMAIN queue' : queue'[i] = queue[i + 1] /\ i + 1 \in DOMAIN queue
      /\ 1 \in DOMAIN queue
      /\ Len(queue) = 1 => queue' = <<>>
  BY <1>1
<1>3. parcel' \notin {"error", "stopped"}
  BY <1>2, MailboxAssumption
<1>4. ~Latched' => /\ results' \notin Terminal /\ parcel' \notin Terminal
                   /\ \A i \in DOMAIN queue' : queue'[i] \notin Terminal
  BY <1>1, <1>2 DEF QueueInv, Latched
<1>5. ASSUME Shutting'
      PROVE  /\ stopped'
             /\ \A i \in DOMAIN queue' : queue'[i] = terminal' => i = Len(queue')
             /\ parcel' = terminal' => queue' = <<>>
             /\ results' # terminal'
  <2>1. Shutting
    BY <1>1, <1>5 DEF Shutting
  <2>2. ASSUME NEW i \in DOMAIN queue', queue'[i] = terminal'
        PROVE  i = Len(queue')
    <3>1. i + 1 \in DOMAIN queue /\ queue[i + 1] = terminal
      BY <1>1, <1>2, <2>2
    <3>2. i + 1 = Len(queue)
      BY <2>1, <3>1 DEF QueueInv
    <3> QED BY <1>2, <3>2, <2>2
  <2>3. parcel' = terminal' => queue' = <<>>
    BY <1>1, <1>2, <2>1 DEF QueueInv
  <2>4. results' # terminal'
    BY <1>1, <2>1 DEF QueueInv
  <2> QED BY <1>1, <2>1, <2>2, <2>3, <2>4 DEF QueueInv
<1>6. results # "stopped" /\ results # "error" /\ ~sup.ended
  BY <1>1 DEF QueueInv
<1> QED BY <1>1, <1>3, <1>4, <1>5, <1>6 DEF QueueInv, Infra

(* The channel under the steps of the reader and of the forwarder.          *)
LEMMA MailboxQueue ==
  ASSUME MailboxTypeOK, ReaderInv, QueueInv, UNCHANGED sup,
         ReaderNext \/ ReaderPanics \/ ForwarderNext
  PROVE  QueueInv'
<1>1. CASE ReadLine \/ InputEnds \/ ReaderStops \/ SubmitFails
  <2>1. UNCHANGED <<queue, stopped, terminal, readerErr, forwarder, parcel, forwarderCtx, results>>
    BY <1>1 DEF ReadLine, InputEnds, ReaderStops, SubmitFails, mailbox, sender, channel
  <2> QED BY <2>1 DEF QueueInv, Latched, Shutting, Infra
<1>2. CASE ReaderPanics
  <2>1. /\ UNCHANGED <<queue, stopped, terminal, forwarder, parcel, forwarderCtx, results>>
        /\ readerErr' = "pending"
    BY <1>2 DEF ReaderPanics, sender, channel
  <2> QED BY <2>1 DEF QueueInv, Latched, Shutting, Infra
<1>3. CASE Submit
  BY <1>3, SubmitQueue
<1>4. CASE ReceiveCommand
  BY <1>4, ReceiveQueue
<1>5. CASE ReceiveReaderError \/ ReceiveStopped
  <2>1. /\ queue = <<>> /\ queue' = queue /\ parcel = None /\ forwarder' = "deliver"
        /\ forwarder = "receive"
        /\ UNCHANGED <<stopped, terminal, results, forwarderCtx>>
        /\ parcel' \in {"error", "stopped"}
        /\ parcel' = "stopped" => stopped
    BY <1>5 DEF ReceiveReaderError, ReceiveStopped, MailboxTypeOK, channel, mailbox
  <2>2. results \notin {"error", "stopped"} /\ ~sup.ended
    BY <2>1 DEF QueueInv
  <2>3. parcel' \notin Terminal /\ parcel' \notin Command
    BY <2>1, MailboxAssumption, Commands
  <2> QED BY <2>1, <2>2, <2>3 DEF QueueInv, Latched, Shutting
<1>6. CASE Deliver
  <2>1. /\ results = None /\ results' = parcel /\ parcel' = None /\ parcel # None
        /\ forwarder' = IF parcel \in Command THEN "receive" ELSE "done"
        /\ forwarder = "deliver" /\ parcel \in Command \cup {"error", "stopped"}
        /\ UNCHANGED <<queue, stopped, terminal, forwarderCtx, readerErr>>
    BY <1>6 DEF Deliver, MailboxTypeOK, mailbox, Item
  <2>2. None \notin Terminal /\ None \notin Command /\ None # "stopped" /\ None # "error"
    BY MailboxAssumption, Commands DEF Item
  <2>3. {"error", "stopped"} \cap Command = {}
    BY MailboxAssumption
  <2>4. ~sup.ended
    BY <2>1 DEF QueueInv
  <2>5. parcel = "error" => Infra
    BY DEF ReaderInv
  <2> QED BY <2>1, <2>2, <2>3, <2>4, <2>5 DEF QueueInv, Latched, Shutting, Infra
<1>7. CASE ForwarderStops
  <2>1. /\ forwarderCtx /\ forwarder # "done" /\ forwarder' = "done" /\ parcel' = None
        /\ UNCHANGED <<queue, stopped, terminal, readerErr, results, forwarderCtx>>
    BY <1>7 DEF ForwarderStops, input, mailbox, channel
  <2>2. None \notin Terminal /\ None # "stopped"
    BY MailboxAssumption, Commands DEF Item
  <2>3. results # "stopped" /\ ~sup.ended /\ results # "error"
    BY <2>1 DEF QueueInv
  <2>4. None \notin Command
    BY MailboxAssumption DEF Item
  <2> QED BY <2>1, <2>2, <2>3, <2>4 DEF QueueInv, Latched, Shutting, Infra
<1> QED BY <1>1, <1>2, <1>3, <1>4, <1>5, <1>6, <1>7 DEF ReaderNext, ForwarderNext

-----------------------------------------------------------------------------
(* The places of the supervisor.                                           *)

(* The return after the exit of the backend is the one of a broken stdout.  *)
LEMMA ExitedReturns ==
  ASSUME sup \in SupType, Exited, sup'.pc = "return"
  PROVE  broken
<1>1. \A e : ~Fail(e)
  BY DEF Fail, CloseThen, SupType
<1>2. ~DrainFor("restart") /\ ~FinishNil(None)
  BY DEF DrainFor, FinishNil, CloseThen, SupType
<1>3. sup' = [sup EXCEPT !.pc = IF broken THEN "return" ELSE "delay",
                        !.restartUsed = TRUE, !.snap = "restarting",
                        !.outcome = IF broken THEN "failed" ELSE @]
  BY <1>1, <1>2 DEF Exited
<1> QED BY <1>3 DEF SupType

(* A statement keeps the invariant, if an end it reaches is one that was    *)
(* drained before, and if it does not drop an error of stdout.              *)
LEMMA PlaceRule ==
  ASSUME sup \in SupType, PlaceInv, UNCHANGED <<ctx, broken, readerErr>>,
         stopped => stopped', Settled => Settled',
         sup'.closed => sup.closed, sup'.out => sup.out \/ ~Sound',
         gate' = "output" => (gate = "output" /\ sup.pc # "spawned") \/ ~Sound',
         sup'.pc \in {"closeReader", "closeDrain", "cancelDrain"} => stopped',
         sup.err = "output" => sup'.err = "output",
         sup'.err = "output" => Doomed',
         sup.pc \in {"closeDrain", "cancelDrain"} => sup'.pc = sup.pc \/ Settled \/ ~Sound',
         Quiet' => Quiet \/ Settled \/ sup.closed \/ ~Sound'
  PROVE  PlaceInv'
<1>1. Sound' => Sound
  BY DEF Sound, Infra
<1>2. ASSUME Sound'
      PROVE  /\ gate' = "output" => sup'.pc = "spawned"
             /\ ~sup'.out
             /\ Quiet' => Settled'
             /\ sup'.closed => Settled' \/ sup'.pc \in {"closeDrain", "cancelDrain"}
  <2>1. /\ gate = "output" => sup.pc = "spawned"
        /\ ~sup.out
        /\ Quiet => Settled
        /\ sup.closed => Settled \/ sup.pc \in {"closeDrain", "cancelDrain"}
    BY <1>1, <1>2 DEF PlaceInv
  <2>2. CASE sup.pc \in {"closeDrain", "cancelDrain"}
    BY <1>2, <2>1, <2>2 DEF Quiet, Over
  <2>3. CASE sup.pc \notin {"closeDrain", "cancelDrain"}
    BY <1>2, <2>1, <2>3
  <2> QED BY <2>2, <2>3
<1> QED BY <1>2 DEF PlaceInv

(* superviseControlled, closeControlAndDrain: an end is reached through a    *)
(* drained channel, or behind the shutdown that was taken from it.          *)
LEMMA SupervisorPlaces ==
  ASSUME "slow" \notin Faults,
         sup \in SupType, broken \in BOOLEAN, ctx \in BOOLEAN, dirty \in BOOLEAN,
         gate \in {"ok", "output", "log"}, terminal \in Terminal \cup {None},
         ProcInv, PlaceInv, UNCHANGED <<ctx, broken, readerErr>>,
         stopped => stopped', Settled => Settled',
         Sound => Emptied,
         SupervisorNext
  PROVE  PlaceInv'
<1>0. sup.err = "output" => Doomed
  BY DEF PlaceInv
<1>1. CASE Acquire
  <2>1. Rest /\ gate' = gate
    BY <1>1, PlainRest DEF Acquire, host
  <2>2. /\ sup'.pc \notin {"closeReader", "closeDrain", "cancelDrain"}
        /\ sup.err = "output" => sup'.err = "output"
        /\ sup'.err = "output" => Doomed'
        /\ sup.pc \notin {"spawned", "closeDrain", "cancelDrain"}
        /\ Quiet' => Quiet \/ Settled \/ sup.closed \/ ~Sound'
    BY <1>1, <1>0, GotoStep, RaiseStep, Labels, SupFields
       DEF Acquire, At, Moved, Way, Quiet, Doomed, Target, Closing, Over
  <2> QED BY <2>1, <2>2, PlaceRule DEF Rest
<1>2. CASE PreflightEnds
  <2>1. Rest /\ gate' = gate
    BY <1>2, PlainRest DEF PreflightEnds, host
  <2>2. /\ sup'.pc \notin {"closeReader", "closeDrain", "cancelDrain"}
        /\ sup.err = "output" => sup'.err = "output"
        /\ sup'.err = "output" => Doomed'
        /\ sup.pc \notin {"spawned", "closeDrain", "cancelDrain"}
        /\ Quiet' => Quiet \/ Settled \/ sup.closed \/ ~Sound'
    BY <1>2, <1>0, RaiseStep, DrainForStep, GotoStep, Labels, SupFields
       DEF PreflightEnds, At, Moved, Way, Quiet, Doomed, Target, Closing, Over
  <2> QED BY <2>1, <2>2, PlaceRule DEF Rest
<1>3. CASE PreflightCommand
  <2>1. Rest /\ gate' = gate
    BY <1>3, PlainRest DEF PreflightCommand, host
  <2>2. /\ sup'.pc \notin {"closeReader", "closeDrain", "cancelDrain"}
        /\ sup.err = "output" => sup'.err = "output"
        /\ sup'.err = "output" => Doomed'
        /\ sup.pc \notin {"spawned", "closeDrain", "cancelDrain"}
        /\ Quiet' => Quiet \/ Settled \/ sup.closed \/ ~Sound'
    BY <1>3, <1>0, RaiseStep, InterruptStep, Labels, SupFields
       DEF PreflightCommand, At, Moved, Way, Quiet, Doomed, Target, Closing, Over
  <2> QED BY <2>1, <2>2, PlaceRule DEF Rest
<1>4. CASE Prelude
  <2>1. Rest /\ gate' = gate
    BY <1>4, PlainRest DEF Prelude, host
  <2>2. /\ sup'.pc \notin {"closeReader", "closeDrain", "cancelDrain"}
        /\ sup.err = "output" => sup'.err = "output"
        /\ sup'.err = "output" => Doomed'
        /\ sup.pc \notin {"spawned", "closeDrain", "cancelDrain"}
        /\ Quiet' => Quiet \/ Settled \/ sup.closed \/ ~Sound'
    BY <1>4, <1>0, RaiseStep, DrainForStep, GotoStep, Labels, SupFields
       DEF Prelude, At, Moved, Way, Quiet, Doomed, Target, Closing, Over
  <2> QED BY <2>1, <2>2, PlaceRule DEF Rest
<1>5. CASE BeginTx
  <2>1. Rest /\ gate' = gate
    BY <1>5, PlainRest DEF BeginTx, host
  <2>2. /\ sup'.pc \notin {"closeReader", "closeDrain", "cancelDrain"}
        /\ sup.err = "output" => sup'.err = "output"
        /\ sup'.err = "output" => Doomed'
        /\ sup.pc \notin {"spawned", "closeDrain", "cancelDrain"}
        /\ Quiet' => Quiet \/ Settled \/ sup.closed \/ ~Sound'
    BY <1>5, <1>0, GotoStep, RaiseStep, Labels, SupFields
       DEF BeginTx, At, Moved, Way, Quiet, Doomed, Target, Closing, Over
  <2> QED BY <2>1, <2>2, PlaceRule DEF Rest
<1>6. CASE TxOpen
  <2>1. Rest /\ gate' = gate
    BY <1>6, PlainRest DEF TxOpen, host
  <2>2. /\ sup'.pc \notin {"closeReader", "closeDrain", "cancelDrain"}
        /\ sup.err = "output" => sup'.err = "output"
        /\ sup'.err = "output" => Doomed'
        /\ sup.pc \notin {"spawned", "closeDrain", "cancelDrain"}
        /\ Quiet' => Quiet \/ Settled \/ sup.closed \/ ~Sound'
    BY <1>6, <1>0, DropTxStep, DrainForStep, GotoStep, Labels, SupFields
       DEF TxOpen, At, Moved, Way, Quiet, Doomed, Target, Closing, Over
  <2> QED BY <2>1, <2>2, PlaceRule DEF Rest
<1>7. CASE Spawn
  <2>1. Rest /\ gate' = "ok" /\ sup.pc = "spawn"
    BY <1>7, PlainRest DEF Spawn, At
  <2>2. /\ sup'.pc \in {"spawned", "resolve", "cleaning"}
        /\ sup'.pc = "spawned" => sup'.err = sup.err
        /\ sup'.pc = "cleaning" => sup'.after = "raise" /\ sup'.err = "business"
    BY <1>7, SpawnStep DEF Moved
  <2>3. sup.err # "output"
    BY <1>0, <2>1 DEF Doomed, Target, Closing, Over
  <2>4. ~Quiet' /\ (sup'.pc = "resolve" => Doomed')
    BY <2>2 DEF Quiet, Over, Doomed
  <2> QED BY <2>1, <2>2, <2>3, <2>4, PlaceRule DEF Rest
<1>8. CASE Spawned
  <2>1. Rest /\ gate' = gate /\ sup.pc = "spawned"
    BY <1>8, PlainRest DEF Spawned, At, host
  <2>2. GateError \in Error
    BY Labels DEF GateError
  <2>3. \/ /\ sup'.pc = "cleaning" /\ sup'.after = "raise"
           /\ gate = "output" => sup'.err = "output"
        \/ sup'.pc = "updateHealth" /\ sup'.err = sup.err /\ gate # "output"
    BY <1>8, <2>2, CleanStep, GotoStep, Labels, SupFields
       DEF Spawned, Moved, Faulty, GateError
  <2>4. sup.err # "output"
    BY <1>0, <2>1 DEF Doomed, Target, Closing, Over
  <2>5. ~Quiet' /\ (sup'.pc = "cleaning" => Doomed') /\ (sup'.err = "output" => ~Sound')
    BY <2>3 DEF Quiet, Over, Doomed, Sound
  <2> QED BY <2>1, <2>3, <2>4, <2>5, PlaceRule DEF Rest
<1>9. CASE UpdateHealth
  <2>1. gate' = gate /\ sup.pc = "updateHealth"
    BY <1>9 DEF UpdateHealth, At, host
  <2>2. sup'.out = sup.out /\ sup'.closed = sup.closed
    BY <1>9, HelpersRest DEF UpdateHealth, SupType, Rest
  <2>3. \/ sup'.pc = "cleaning" /\ sup'.after = "updateFailed" /\ sup'.err = "business"
        \/ sup'.pc = "health" /\ sup'.err = sup.err
    BY <1>9, UpdateHealthStep DEF Moved
  <2>4. sup.err # "output"
    BY <1>0, <2>1 DEF Doomed, Target, Closing, Over
  <2>5. ~Quiet'
    BY <2>3 DEF Quiet, Over
  <2> QED BY <2>1, <2>2, <2>3, <2>4, <2>5, PlaceRule
<1>10. CASE HealthEnds
  <2>1. Rest
    BY <1>10, PlainRest
  <2> QED BY <1>10, <2>1, CleanStep, DrainForStep, GotoStep, Labels, SupFields
         DEF HealthEnds, At, GateError, host, PlaceInv, Sound, Quiet, Doomed, Target, Closing,
             Over, Early, Started, Moved, Way, Rest, Infra
<1>11. CASE HealthCommand
  <2>1. Rest
    BY <1>11, PlainRest
  <2> QED BY <1>11, <2>1, CleanStep, FinishStep, Labels, SupFields, Commands
         DEF HealthCommand, At, GateError, host, PlaceInv, Sound, Quiet, Doomed, Target,
             Closing, Over, Early, Started, Moved, Way, Rest, Infra, Emptied
<1>12. CASE Healthy
  <2>1. Rest
    BY <1>12, PlainRest
  <2> QED BY <1>12, <2>1, CleanStep, DrainForStep, GotoStep, Labels, SupFields
         DEF Healthy, At, GateError, host, PlaceInv, Sound, Quiet, Doomed, Target, Closing,
             Over, Early, Started, Moved, Way, Rest, Infra
<1>13. CASE Updated
  <2>1. gate' = gate /\ sup.pc = "updated"
    BY <1>13 DEF Updated, At, host
  <2>2. sup'.out = sup.out /\ sup'.closed = sup.closed
    BY <1>13, UpdatedRuns DEF SupType, Rest
  <2>3. \/ sup'.pc = "cleaning" /\ sup'.after = "raise"
        \/ sup'.pc = "drain" /\ sup'.after = "healthy" /\ sup'.err = sup.err
        \/ sup'.pc = "run" /\ sup'.err = sup.err
    BY <1>13, UpdatedStep DEF Moved
  <2>4. sup.err # "output"
    BY <1>0, <2>1 DEF Doomed, Target, Closing, Over
  <2>5. ~Quiet' /\ (sup'.pc = "cleaning" => Doomed')
    BY <2>3 DEF Quiet, Over, Doomed
  <2> QED BY <2>1, <2>2, <2>3, <2>4, <2>5, PlaceRule
<1>14. CASE RunFault
  <2>1. gate' = gate /\ sup.pc = "run" /\ gate # "ok"
    BY <1>14 DEF RunFault, At, host, Faulty
  <2>2. /\ sup'.closed = sup.closed
        /\ sup'.pc = "closeMailbox" => gate = "output" /\ sup'.err = sup.err
        /\ sup'.pc = "cleaning" => sup'.out = sup.out /\ sup'.after = "fail"
        /\ sup'.pc \in {"closeMailbox", "cleaning"}
    <3>1. CASE gate = "output" /\ terminal \in Terminal \ Cancel
      <4>1. sup' = [sup EXCEPT !.pc = "closeMailbox", !.after = "shutdown",
                               !.cmd = terminal, !.out = TRUE]
        BY <1>14, <3>1 DEF RunFault
      <4> QED BY <3>1, <4>1 DEF SupType
    <3>2. CASE Clean("fail", GateError)
      BY <3>2, HelpersRest DEF Clean, SupType, Rest
    <3> QED BY <1>14, <3>1, <3>2 DEF RunFault
  <2>3. sup.err # "output"
    BY <1>0, <2>1 DEF Doomed, Target, Closing, Over
  <2>4. gate # "output" \/ ~Sound
    BY <2>1 DEF PlaceInv
  <2>5. sup'.pc = "closeMailbox" => ~Sound' /\ sup'.err # "output"
    BY <2>2, <2>3, <2>4 DEF Sound, Infra
  <2>6. sup'.pc = "cleaning" => ~Quiet' /\ Doomed'
    BY <2>2 DEF Quiet, Over, Doomed
  <2> QED BY <2>1, <2>2, <2>3, <2>5, <2>6, PlaceRule
<1>15. CASE RunInfra
  <2>1. Rest
    BY <1>15, PlainRest
  <2> QED BY <1>15, <2>1, CleanStep, Labels, SupFields
         DEF RunInfra, At, GateError, host, PlaceInv, Sound, Quiet, Doomed, Target, Closing,
             Over, Early, Started, Moved, Way, Rest, Infra
<1>16. CASE RunInterrupted
  <2>1. Rest
    BY <1>16, PlainRest
  <2> QED BY <1>16, <2>1, CleanStep, FinishStep, Labels, SupFields
         DEF RunInterrupted, At, GateError, host, PlaceInv, Sound, Quiet, Doomed, Target,
             Closing, Over, Early, Started, Moved, Way, Rest, Infra
<1>17. CASE RunExited
  <2>1. Rest
    BY <1>17, PlainRest
  <2> QED BY <1>17, <2>1, CleanStep, DrainForStep, Labels, SupFields
         DEF RunExited, At, GateError, host, PlaceInv, Sound, Quiet, Doomed, Target, Closing,
             Over, Early, Started, Moved, Way, Rest, Infra
<1>18. CASE RunCommand
  <2>1. Rest
    BY <1>18, PlainRest
  <2> QED BY <1>18, <2>1, CleanStep, FinishStep, Labels, SupFields, Commands
         DEF RunCommand, At, GateError, host, PlaceInv, Sound, Quiet, Doomed, Target, Closing,
             Over, Early, Started, Moved, Way, Rest, Infra, Emptied
<1>19. CASE Exited
  <2>1. gate' = gate /\ sup.pc = "exited"
    BY <1>19 DEF Exited, At, host
  <2>2. sup'.out = sup.out /\ sup'.closed = sup.closed
    BY <1>19, ExitedRestarts DEF Rest
  <2>3. \/ sup'.pc \in {"failed", "closeMailbox"} /\ sup'.after = "failed"
        \/ sup'.pc = "drain" /\ sup'.after = "restart" /\ sup'.err = sup.err
        \/ sup'.pc \in {"stopNil", "closeMailbox"} /\ sup'.after = "stopNil" /\ sup'.err = "none"
        \/ sup'.pc \in {"delay", "return"} /\ sup'.err = sup.err
    BY <1>19, ExitedStep DEF Moved, Way
  <2>4. sup'.pc \in {"failed", "stopNil"} => sup.closed
    BY <1>19, ExitedStep DEF Moved, Way
  <2>5. sup'.pc = "return" => broken
    BY <1>19, ExitedReturns
  <2>6. sup.err # "output"
    BY <1>0, <2>1 DEF Doomed, Target, Closing, Over
  <2>7. /\ Quiet' => sup.closed \/ ~Sound'
        /\ sup'.err = "output" => Doomed'
    BY <2>3, <2>4, <2>5, <2>6 DEF Quiet, Over, Doomed, Target, Closing, Sound
  <2> QED BY <2>1, <2>2, <2>3, <2>6, <2>7, PlaceRule
<1>20. CASE DelayEnds
  <2>1. Rest /\ gate' = gate
    BY <1>20, PlainRest DEF DelayEnds, host
  <2>2. /\ sup'.pc \notin {"closeReader", "closeDrain", "cancelDrain"}
        /\ sup.err = "output" => sup'.err = "output"
        /\ sup'.err = "output" => Doomed'
        /\ sup.pc \notin {"spawned", "closeDrain", "cancelDrain"}
        /\ Quiet' => Quiet \/ Settled \/ sup.closed \/ ~Sound'
    BY <1>20, <1>0, RaiseStep, DrainForStep, GotoStep, Labels, SupFields
       DEF DelayEnds, At, Moved, Way, Quiet, Doomed, Target, Closing, Over
  <2> QED BY <2>1, <2>2, PlaceRule DEF Rest
<1>21. CASE DelayCommand
  <2>1. Rest /\ gate' = gate
    BY <1>21, PlainRest DEF DelayCommand, host
  <2>2. /\ sup'.pc \notin {"closeReader", "closeDrain", "cancelDrain"}
        /\ sup.err = "output" => sup'.err = "output"
        /\ sup'.err = "output" => Doomed'
        /\ sup.pc \notin {"spawned", "closeDrain", "cancelDrain"}
        /\ Quiet' => Quiet \/ Settled \/ sup.closed \/ ~Sound'
    BY <1>21, <1>0, RaiseStep, FinishNilStep, Labels, SupFields
       DEF DelayCommand, At, Moved, Way, Quiet, Doomed, Target, Closing, Over
  <2> QED BY <2>1, <2>2, PlaceRule DEF Rest
<1>22. CASE AnswerStatus
  <2>1. Rest
    BY <1>22, PlainRest
  <2> QED BY <1>22, <2>1, Labels, SupFields
         DEF AnswerStatus, Selecting, host, PlaceInv, Sound, Quiet, Doomed, Target, Closing,
             Over, Early, Started, Moved, Way, Rest, Infra
<1>23. CASE AnswerFails
  <2>1. Rest /\ gate' = gate
    BY <1>23, PlainRest DEF AnswerFails, host
  <2>2. /\ sup'.pc \notin {"closeReader", "closeDrain", "cancelDrain"}
        /\ sup.err = "output" => sup'.err = "output"
        /\ sup'.err = "output" => Doomed'
        /\ sup.pc \notin {"spawned", "closeDrain", "cancelDrain"}
        /\ Quiet' => Quiet \/ Settled \/ sup.closed \/ ~Sound'
    BY <1>23, <1>0, RaiseStep, CleanStep, DrainFailsStep, Labels, SupFields
       DEF AnswerFails, Selecting, At, Moved, Way, Quiet, Doomed, Target, Closing, Over, Sound,
           backend
  <2> QED BY <2>1, <2>2, PlaceRule DEF Rest
<1>24. CASE TakeError
  <2>1. Rest
    BY <1>24, PlainRest
  <2> QED BY <1>24, <2>1, Labels, SupFields
         DEF TakeError, Selecting, host, PlaceInv, Sound, Quiet, Doomed, Target, Closing, Over,
             Early, Started, Moved, Way, Rest, Infra
<1>25. CASE Drained
  <2>1. Rest /\ gate' = gate
    BY <1>25, PlainRest DEF Drained, host
  <2>2. /\ sup'.pc \notin {"closeReader", "closeDrain", "cancelDrain"}
        /\ sup.err = "output" => sup'.err = "output"
        /\ sup'.err = "output" => Doomed'
        /\ sup.pc \notin {"spawned", "closeDrain", "cancelDrain"}
        /\ Quiet' => Quiet \/ Settled \/ sup.closed \/ ~Sound'
    BY <1>25, <1>0, InterruptStep, RaiseStep, FinishNilStep, FinishStep, Labels, SupFields,
       Commands
       DEF Drained, At, Moved, Way, Quiet, Doomed, Target, Closing, Over, Emptied, Sound, Early,
           Started, Infra
  <2> QED BY <2>1, <2>2, PlaceRule DEF Rest
<1>26. CASE DrainEndsBadly
  <2>1. Rest
    BY <1>26, PlainRest
  <2> QED BY <1>26, <2>1, DrainFailsStep, Labels, SupFields
         DEF DrainEndsBadly, At, host, PlaceInv, Sound, Quiet, Doomed, Target, Closing, Over,
             Early, Started, Moved, Way, Rest, Infra
<1>27. CASE Resolve
  <2>1. Rest
    BY <1>27, PlainRest
  <2> QED BY <1>27, <2>1, CloseThenStep, FailStep, DrainForStep, FinishNilStep, Labels,
         SupFields
         DEF Resolve, At, Interrupted, host, PlaceInv, Sound, Quiet, Doomed, Target, Closing,
             Over, Early, Started, Moved, Way, Rest, Infra
<1>28. CASE Cleaned
  <2>1. Rest /\ gate' = gate /\ sup.pc = "cleaning"
    BY <1>28, PlainRest DEF Cleaned, At, host
  <2>2. GateError \in Error /\ Marked(sup.err) \in BOOLEAN
    BY Labels DEF GateError, Marked
  <2>3. \/ /\ sup'.pc \in {"failed", "closeMailbox"} /\ sup'.after = "failed" /\ sup'.err = sup.err
           /\ sup'.pc = "failed" => sup.closed
        \/ sup.after \in {"exited", "shut"} /\ sup'.pc = sup.after /\ sup'.err = sup.err
        \/ sup'.pc = "resolve" /\ (sup.err = "output" => sup'.err = "output")
        \/ sup'.pc = "drain" /\ sup'.err = sup.err /\ sup.err # "output"
    <3>1. CASE Fail(sup.err)
      BY <3>1, FailStep, SupFields DEF Moved, Way
    <3>2. CASE sup.after \in {"exited", "shut"} /\ Goto(sup.after)
      BY <3>2, GotoStep, Labels DEF Moved
    <3>3. CASE \E e \in Error, c \in BOOLEAN : Raise(e, c) /\ (sup.err = "output" => e = "output")
      BY <3>3, RaiseStep DEF Moved
    <3>4. CASE DrainFor("cleaned") /\ sup.err # "output"
      BY <3>4, DrainForStep, Labels DEF Moved
    <3>5. sup.after = "updateFailed" => sup.err # "output"
      BY <1>0, <2>1 DEF Doomed, Target, Closing, Over
    <3> QED BY <1>28, <2>2, <3>1, <3>2, <3>3, <3>4, <3>5, Labels, SupFields DEF Cleaned
  <2>4. sup.err = "output" => sup.after \notin {"exited", "shut"}
    BY <1>0, <2>1 DEF Doomed, Target, Closing, Over
  <2>5. /\ Quiet' => Quiet \/ sup.closed
        /\ sup'.err = "output" => Doomed'
        /\ sup.err = "output" => sup'.err = "output"
        /\ sup'.pc \notin {"closeReader", "closeDrain", "cancelDrain"}
    BY <2>1, <2>3, <2>4 DEF Quiet, Over, Doomed, Target, Closing
  <2> QED BY <2>1, <2>5, PlaceRule DEF Rest
<1>29. CASE CloseMailbox
  <2>1. Rest /\ gate' = gate /\ sup.pc = "closeMailbox" /\ stopped'
    BY <1>29, PlainRest DEF CloseMailbox, StopMailbox, At, host
  <2>2. sup'.pc = "closeReader" /\ sup'.after = sup.after /\ sup'.err = sup.err
    BY <1>29, GotoStep, Labels DEF CloseMailbox, Moved
  <2>3. (Quiet' => Quiet) /\ (Doomed => Doomed')
    BY <2>1, <2>2 DEF Quiet, Over, Doomed, Target, Closing
  <2> QED BY <1>0, <2>1, <2>2, <2>3, PlaceRule DEF Rest
<1>30. CASE CloseReader
  BY <1>30, CloseReaderStep, Labels, SupFields
     DEF CloseReader, At, host, PlaceInv, Sound, Quiet, Doomed, Target, Closing, Over, Early,
         Started, Moved, Way, Rest, Infra, ProcInv, SupType, Clean, DrainFor, CloseThen, Fail,
         FinishNil, Return
<1>31. CASE CloseDrain
  <2>1. Rest
    BY <1>31, PlainRest
  <2> QED BY <1>31, <2>1, CloseFailsStep, GotoStep, Labels, SupFields, Commands
         DEF CloseDrain, At, host, PlaceInv, Sound, Quiet, Doomed, Target, Closing, Over, Early,
             Started, Moved, Way, Rest, Infra, Emptied, ProcInv
<1>32. CASE ReturnQuietly
  <2>1. Rest
    BY <1>32, PlainRest
  <2> QED BY <1>32, <2>1, ReturnStep, Labels, SupFields
         DEF ReturnQuietly, At, host, PlaceInv, Sound, Quiet, Doomed, Target, Closing, Over,
             Early, Started, Moved, Way, Rest, Infra
<1>33. CASE EmitFailed
  BY <1>33, EmitFailedStep, Labels, SupFields
     DEF EmitFailed, At, host, PlaceInv, Sound, Quiet, Doomed, Target, Closing, Over, Early,
         Started, Moved, Way, Rest, Infra, SupType, Clean, DrainFor, CloseThen, Fail, FinishNil,
         Return
<1>34. CASE StopNil
  <2>1. gate' = gate /\ sup.pc = "stopNil"
    BY <1>34 DEF StopNil, At, host
  <2>2. sup'.pc \in {"return", "failed", "stopped"} /\ sup'.err = sup.err
    BY <1>34, StopNilStep DEF Moved
  <2>3. sup'.closed = sup.closed /\ (sup'.out => sup.out \/ broken)
    <3>1. CASE Return("cancelled")
      BY <3>1, HelpersRest DEF Rest
    <3>2. CASE ~Return("cancelled")
      <4> DEFINE bad == broken /\ sup.cmd \in Cancel \cup {None}
      <4>1. sup' = [sup EXCEPT !.snap = "stopping", !.out = broken,
                               !.pc = IF bad THEN "failed" ELSE "stopped"]
        BY <1>34, <3>2 DEF StopNil
      <4> HIDE DEF bad
      <4> QED BY <4>1 DEF SupType
    <3> QED BY <3>1, <3>2
  <2>4. Quiet /\ sup.err # "output" /\ (broken => ~Sound')
    BY <1>0, <2>1 DEF Quiet, Doomed, Target, Closing, Over, Sound
  <2> QED BY <2>1, <2>2, <2>3, <2>4, PlaceRule
<1>35. CASE BeginShutdown
  BY <1>35, BeginStep, Labels, SupFields
     DEF BeginShutdown, At, host, PlaceInv, Sound, Quiet, Doomed, Target, Closing, Over, Early,
         Started, Moved, Way, Rest, Infra, SupType, Clean, DrainFor, CloseThen, Fail, FinishNil,
         Return
<1>36. CASE HttpClose
  <2>1. Rest
    BY <1>36, PlainRest
  <2> QED BY <1>36, <2>1, HttpCloseStep, Labels, SupFields
         DEF HttpClose, At, host, PlaceInv, Sound, Quiet, Doomed, Target, Closing, Over, Early,
             Started, Moved, Way, Rest, Infra
<1>37. CASE AwaitExit
  <2>1. Rest
    BY <1>37, PlainRest
  <2> QED BY <1>37, <2>1, CleanStep, Labels, SupFields
         DEF AwaitExit, At, host, PlaceInv, Sound, Quiet, Doomed, Target, Closing, Over, Early,
             Started, Moved, Way, Rest, Infra
<1>38. CASE Shut
  <2>1. Rest
    BY <1>38, PlainRest
  <2> QED BY <1>38, <2>1, ShutStep, Labels, SupFields
         DEF Shut, At, host, PlaceInv, Sound, Quiet, Doomed, Target, Closing, Over, Early,
             Started, Moved, Way, Rest, Infra
<1>39. CASE BeginCancel
  BY <1>39, BeginStep, Labels, SupFields
     DEF BeginCancel, At, host, PlaceInv, Sound, Quiet, Doomed, Target, Closing, Over, Early,
         Started, Moved, Way, Rest, Infra, SupType, Clean, DrainFor, CloseThen, Fail, FinishNil,
         Return
<1>40. CASE CancelItem
  <2>1. gate' = gate /\ sup.pc \in {"cancelling", "cancelDrain"} /\ results # None
    BY <1>40 DEF CancelItem, At, host
  <2>2. /\ sup'.closed = sup.closed /\ sup'.err = sup.err
        /\ sup'.out => sup.out \/ broken \/ results = "error"
        /\ sup'.pc = sup.pc \/ (sup.pc = "cancelDrain" /\ sup'.pc = "stopped"
                                /\ results \in {"error", "stopped"})
    <3>1. CASE sup' = [sup EXCEPT !.out = @ \/ broken]
      BY <3>1 DEF SupType
    <3>2. CASE sup' = sup
      BY <3>2
    <3>3. CASE /\ results \in {"error", "stopped"}
               /\ sup' = [sup EXCEPT !.ended = TRUE, !.out = @ \/ results = "error",
                                     !.pc = IF At("cancelDrain") THEN "stopped" ELSE @]
      BY <3>3 DEF SupType, At
    <3> QED BY <1>40, <3>1, <3>2, <3>3 DEF CancelItem
  <2>3. sup.err # "output"
    BY <1>0, <2>1 DEF Doomed, Target, Closing, Over
  <2>4. /\ Sound' = Sound
        /\ Sound => ~broken /\ results # "error" /\ (results = "stopped" => Settled)
    BY <2>2 DEF Sound, Infra, Emptied
  <2>5. sup'.pc = sup.pc => ~Quiet'
    BY <2>1 DEF Quiet, Over
  <2>6. sup.pc = "cancelDrain" => stopped'
    BY DEF PlaceInv
  <2> QED BY <2>1, <2>2, <2>3, <2>4, <2>5, <2>6, PlaceRule
<1>41. CASE CancelCleaned
  <2>1. Rest
    BY <1>41, PlainRest
  <2> QED BY <1>41, <2>1, CancelStep, Labels, SupFields
         DEF CancelCleaned, At, host, PlaceInv, Sound, Quiet, Doomed, Target, Closing, Over,
             Early, Started, Moved, Way, Rest, Infra
<1>42. CASE CancelDrained
  <2>1. Rest
    BY <1>42, PlainRest
  <2> QED BY <1>42, <2>1, GotoStep, Labels, SupFields, Commands
         DEF CancelDrained, At, host, PlaceInv, Sound, Quiet, Doomed, Target, Closing, Over,
             Early, Started, Moved, Way, Rest, Infra, Emptied, ProcInv
<1>43. CASE EmitStopped
  <2>1. gate' = gate /\ sup.pc = "stopped"
    BY <1>43 DEF EmitStopped, At, host
  <2>2. \/ sup'.pc \in {"failed", "closeMailbox"} /\ sup'.after = "failed"
        \/ sup'.pc = "return" /\ sup'.err = sup.err
    BY <1>43, EmitStoppedStep DEF Moved, Way
  <2>3. sup'.closed = sup.closed /\ sup'.out = sup.out
    <3>1. CASE \E e : Fail(e)
      BY <3>1, HelpersRest DEF Rest
    <3>2. CASE ~\E e : Fail(e)
      <4> DEFINE o == IF sup.cmd \in Cancel \cup {None} THEN "cancelled"
                      ELSE IF sup.out \/ broken THEN "failed" ELSE "stopped"
      <4>1. sup' = [sup EXCEPT !.snap = "stopped", !.pc = "return", !.outcome = o]
        BY <1>43, <3>2 DEF EmitStopped
      <4> HIDE DEF o
      <4> QED BY <4>1 DEF SupType
    <3> QED BY <3>1, <3>2
  <2>4. Quiet /\ sup.err # "output"
    BY <1>0, <2>1 DEF Quiet, Doomed, Target, Closing, Over
  <2>5. sup'.err = "output" => Doomed'
    BY <2>2, <2>4 DEF Doomed, Target, Closing
  <2> QED BY <2>1, <2>2, <2>3, <2>4, <2>5, PlaceRule
<1>44. CASE CloseResources
  <2>1. Rest
    BY <1>44, PlainRest
  <2> QED BY <1>44, <2>1, GotoStep, Labels, SupFields
         DEF CloseResources, At, host, PlaceInv, Sound, Quiet, Doomed, Target, Closing, Over,
             Early, Started, Moved, Way, Rest, Infra
<1>45. CASE Join
  <2>1. Rest
    BY <1>45, PlainRest
  <2> QED BY <1>45, <2>1, GotoStep, Labels, SupFields
         DEF Join, At, host, PlaceInv, Sound, Quiet, Doomed, Target, Closing, Over, Early,
             Started, Moved, Way, Rest, Infra
<1>46. CASE EndSession
  <2>1. Rest
    BY <1>46, PlainRest
  <2> QED BY <1>46, <2>1, GotoStep, Labels, SupFields
         DEF EndSession, At, host, PlaceInv, Sound, Quiet, Doomed, Target, Closing, Over, Early,
             Started, Moved, Way, Rest, Infra
<1>47. CASE Leave
  <2>1. Rest
    BY <1>47, PlainRest
  <2> QED BY <1>47, <2>1, GotoStep, Labels, SupFields
         DEF Leave, At, host, PlaceInv, Sound, Quiet, Doomed, Target, Closing, Over, Early,
             Started, Moved, Way, Rest, Infra
<1>48. CASE Exit
  <2>1. Rest
    BY <1>48, PlainRest
  <2> QED BY <1>48, <2>1, GotoStep, Labels, SupFields
         DEF Exit, At, host, PlaceInv, Sound, Quiet, Doomed, Target, Closing, Over, Early,
             Started, Moved, Way, Rest, Infra
<1> QED BY <1>1, <1>2, <1>3, <1>4, <1>5, <1>6, <1>7, <1>8, <1>9, <1>10, <1>11, <1>12, <1>13,
           <1>14, <1>15, <1>16, <1>17, <1>18, <1>19, <1>20, <1>21, <1>22, <1>23, <1>24, <1>25,
           <1>26, <1>27, <1>28, <1>29, <1>30, <1>31, <1>32, <1>33, <1>34, <1>35, <1>36, <1>37,
           <1>38, <1>39, <1>40, <1>41, <1>42, <1>43, <1>44, <1>45, <1>46, <1>47, <1>48
           DEF SupervisorNext

(* With a working stdout the supervisor takes no status command from the    *)
(* channel without answering it.                                            *)
LEMMA Consuming ==
  ASSUME SupervisorNext, ~broken, owed \subseteq Status
  PROVE  /\ results' \in {results, None}
         /\ owed' \in {owed, owed \ {results}}
         /\ results' # results => owed' = owed \ {results}
<1>1. \A c \in Status : c \notin Terminal /\ c # "error" /\ c # "stopped"
  BY MailboxAssumption DEF Terminal, Command
<1>2. CASE Acquire \/ PreflightEnds \/ Prelude \/ BeginTx \/ TxOpen \/ Spawn \/ Spawned
         \/ UpdateHealth
  <2>1. UNCHANGED channel
    BY <1>2 DEF Acquire, PreflightEnds, Prelude, BeginTx, TxOpen, Spawn, Spawned, UpdateHealth,
       control, inbox, channel, StopMailbox, StopReader
  <2> QED BY <2>1 DEF channel
<1>3. CASE HealthEnds \/ Healthy \/ Updated \/ RunFault \/ RunInfra \/ RunInterrupted
         \/ RunExited \/ Exited
  <2>1. UNCHANGED channel
    BY <1>3 DEF HealthEnds, Healthy, Updated, RunFault, RunInfra, RunInterrupted, RunExited,
       Exited, control, inbox, channel, StopMailbox, StopReader
  <2> QED BY <2>1 DEF channel
<1>4. CASE DelayEnds \/ DrainEndsBadly \/ Resolve \/ Cleaned \/ CloseMailbox \/ CloseReader
         \/ ReturnQuietly \/ EmitFailed
  <2>1. UNCHANGED channel
    BY <1>4 DEF DelayEnds, DrainEndsBadly, Resolve, Cleaned, CloseMailbox, CloseReader,
       ReturnQuietly, EmitFailed, control, inbox, channel, StopMailbox, StopReader
  <2> QED BY <2>1 DEF channel
<1>5. CASE StopNil \/ BeginShutdown \/ HttpClose \/ AwaitExit \/ Shut \/ BeginCancel
         \/ CancelCleaned \/ CancelDrained
  <2>1. UNCHANGED channel
    BY <1>5 DEF StopNil, BeginShutdown, HttpClose, AwaitExit, Shut, BeginCancel, CancelCleaned,
       CancelDrained, control, inbox, channel, StopMailbox, StopReader
  <2> QED BY <2>1 DEF channel
<1>6. CASE EmitStopped \/ CloseResources \/ Join \/ EndSession \/ Leave \/ Exit
  <2>1. UNCHANGED channel
    BY <1>6 DEF EmitStopped, CloseResources, Join, EndSession, Leave, Exit, control, inbox,
       channel, StopMailbox, StopReader
  <2> QED BY <2>1 DEF channel
<1>7. CASE PreflightCommand
  BY <1>1, <1>7 DEF PreflightCommand
<1>8. CASE HealthCommand
  BY <1>1, <1>8 DEF HealthCommand
<1>9. CASE RunCommand
  BY <1>1, <1>9 DEF RunCommand
<1>10. CASE DelayCommand
  BY <1>1, <1>10 DEF DelayCommand
<1>11. CASE AnswerStatus
  BY <1>1, <1>11 DEF AnswerStatus
<1>12. CASE AnswerFails
  BY <1>1, <1>12 DEF AnswerFails
<1>13. CASE TakeError
  BY <1>1, <1>13 DEF TakeError
<1>14. CASE Drained
  BY <1>1, <1>14 DEF Drained
<1>15. CASE CloseDrain
  BY <1>1, <1>15 DEF CloseDrain
<1>16. CASE CancelItem
  BY <1>1, <1>16 DEF CancelItem
<1> QED BY <1>1, <1>2, <1>3, <1>4, <1>5, <1>6, <1>7, <1>8, <1>9, <1>10, <1>11, <1>12, <1>13,
           <1>14, <1>15, <1>16
           DEF SupervisorNext

(* The deferred calls at the end of superviseControlled follow each other.  *)
LEMMA EndsFollow ==
  ASSUME sup \in SupType, SupervisorNext, sup.pc \in Over \ {"return"}
  PROVE  sup'.pc \in Over \ {"return"}
<1>1. ~(Acquire \/ PreflightEnds \/ PreflightCommand \/ Prelude \/ BeginTx \/ TxOpen \/ Spawn
       \/ Spawned \/ UpdateHealth \/ HealthEnds \/ HealthCommand \/ Healthy)
  BY DEF Acquire, PreflightEnds, PreflightCommand, Prelude, BeginTx, TxOpen, Spawn, Spawned,
         UpdateHealth, HealthEnds, HealthCommand, Healthy, At, Over, Selecting
<1>2. ~(Updated \/ RunFault \/ RunInfra \/ RunInterrupted \/ RunExited \/ RunCommand
       \/ Exited \/ DelayEnds \/ DelayCommand \/ AnswerStatus \/ AnswerFails \/ TakeError)
  BY DEF Updated, RunFault, RunInfra, RunInterrupted, RunExited, RunCommand, Exited, DelayEnds,
         DelayCommand, AnswerStatus, AnswerFails, TakeError, At, Over, Selecting
<1>3. ~(Drained \/ DrainEndsBadly \/ Resolve \/ Cleaned \/ CloseMailbox \/ CloseReader
       \/ CloseDrain \/ ReturnQuietly \/ EmitFailed \/ StopNil \/ BeginShutdown \/ HttpClose)
  BY DEF Drained, DrainEndsBadly, Resolve, Cleaned, CloseMailbox, CloseReader, CloseDrain,
         ReturnQuietly, EmitFailed, StopNil, BeginShutdown, HttpClose, At, Over, Selecting
<1>4. ~(AwaitExit \/ Shut \/ BeginCancel \/ CancelItem \/ CancelCleaned \/ CancelDrained
       \/ EmitStopped \/ CloseResources)
  BY DEF AwaitExit, Shut, BeginCancel, CancelItem, CancelCleaned, CancelDrained, EmitStopped,
         CloseResources, At, Over, Selecting
<1>5. CASE Join \/ EndSession \/ Leave \/ Exit
  BY <1>5, GotoStep, Labels DEF Join, EndSession, Leave, Exit, Over, Moved
<1> QED BY <1>1, <1>2, <1>3, <1>4, <1>5
           DEF SupervisorNext

(* forwarderCtx is cancelled by the deferred calls only.                    *)
LEMMA ForwarderIsKept ==
  ASSUME SupervisorNext, ~CloseResources
  PROVE  forwarderCtx' = forwarderCtx
<1>1. CASE Acquire \/ PreflightEnds \/ PreflightCommand \/ Prelude \/ BeginTx \/ TxOpen
         \/ Spawn \/ Spawned \/ UpdateHealth \/ HealthEnds \/ HealthCommand \/ Healthy
  <2>1. UNCHANGED sender
    BY <1>1 DEF Acquire, PreflightEnds, PreflightCommand, Prelude, BeginTx, TxOpen, Spawn,
       Spawned, UpdateHealth, HealthEnds, HealthCommand, Healthy, control, inbox, StopMailbox,
       StopReader
  <2> QED BY <2>1 DEF sender
<1>2. CASE Updated \/ RunFault \/ RunInfra \/ RunInterrupted \/ RunExited \/ RunCommand
         \/ Exited \/ DelayEnds \/ DelayCommand \/ AnswerStatus \/ AnswerFails \/ TakeError
  <2>1. UNCHANGED sender
    BY <1>2 DEF Updated, RunFault, RunInfra, RunInterrupted, RunExited, RunCommand, Exited,
       DelayEnds, DelayCommand, AnswerStatus, AnswerFails, TakeError, control, inbox,
       StopMailbox, StopReader
  <2> QED BY <2>1 DEF sender
<1>3. CASE Drained \/ DrainEndsBadly \/ Resolve \/ Cleaned \/ CloseMailbox \/ CloseReader
         \/ CloseDrain \/ ReturnQuietly \/ EmitFailed \/ StopNil \/ BeginShutdown \/ HttpClose
  <2>1. UNCHANGED sender
    BY <1>3 DEF Drained, DrainEndsBadly, Resolve, Cleaned, CloseMailbox, CloseReader,
       CloseDrain, ReturnQuietly, EmitFailed, StopNil, BeginShutdown, HttpClose, control, inbox,
       StopMailbox, StopReader
  <2> QED BY <2>1 DEF sender
<1>4. CASE AwaitExit \/ Shut \/ BeginCancel \/ CancelItem \/ CancelCleaned \/ CancelDrained
         \/ EmitStopped \/ Join \/ EndSession \/ Leave \/ Exit
  <2>1. UNCHANGED sender
    BY <1>4 DEF AwaitExit, Shut, BeginCancel, CancelItem, CancelCleaned, CancelDrained,
       EmitStopped, Join, EndSession, Leave, Exit, control, inbox, StopMailbox, StopReader
  <2> QED BY <2>1 DEF sender
<1> QED BY <1>1, <1>2, <1>3, <1>4
           DEF SupervisorNext

(* controlEnded is set when the end of the channel is taken from it.        *)
LEMMA EndedStep ==
  ASSUME sup \in SupType, SupervisorNext
  PROVE  \/ sup'.ended = sup.ended
         \/ results \in {"error", "stopped"} /\ results' = None
<1> USE DEF SupType, Rest
<1>1. CASE UpdateHealth
  BY <1>1, HelpersRest DEF UpdateHealth
<1>2. CASE Updated
  BY <1>2, UpdatedRuns
<1>3. CASE RunFault
  <2>1. CASE sup' = [sup EXCEPT !.pc = "closeMailbox", !.after = "shutdown",
                                !.cmd = terminal, !.out = TRUE]
    BY <2>1
  <2> QED BY <1>3, <2>1, HelpersRest DEF RunFault
<1>4. CASE Exited
  BY <1>4, ExitedRestarts
<1>5. CASE CloseReader
  BY <1>5 DEF CloseReader
<1>6. CASE EmitFailed
  BY <1>6 DEF EmitFailed
<1>7. CASE StopNil
  BY <1>7, HelpersRest DEF StopNil
<1>8. CASE BeginShutdown \/ BeginCancel
  BY <1>8 DEF BeginShutdown, BeginCancel
<1>9. CASE CancelItem
  BY <1>9 DEF CancelItem
<1>10. CASE EmitStopped
  <2>1. CASE \E e : Fail(e)
    BY <2>1, HelpersRest
  <2>2. CASE ~\E e : Fail(e)
    <3> DEFINE o == IF sup.cmd \in Cancel \cup {None} THEN "cancelled"
                    ELSE IF sup.out \/ broken THEN "failed" ELSE "stopped"
    <3>1. sup' = [sup EXCEPT !.snap = "stopped", !.pc = "return", !.outcome = o]
      BY <1>10, <2>2 DEF EmitStopped
    <3> HIDE DEF o
    <3> QED BY <3>1
  <2> QED BY <2>1, <2>2
<1> QED BY <1>1, <1>2, <1>3, <1>4, <1>5, <1>6, <1>7, <1>8, <1>9, <1>10, PlainRest
        DEF SupervisorNext

(* The channel under the steps of the supervisor.                           *)
LEMMA SupervisorQueue ==
  ASSUME IndInv, QueueInv, SupervisorNext
  PROVE  QueueInv'
<1>1. /\ sup \in SupType /\ stopped \in BOOLEAN /\ forwarderCtx \in BOOLEAN
  BY DEF IndInv, TypeOK, MailboxTypeOK
<1>2. /\ UNCHANGED <<queue, terminal, readerErr, forwarder, parcel>>
      /\ results' \in {results, None} /\ (stopped => stopped')
      /\ forwarderCtx => forwarderCtx'
  BY <1>1, SupervisorFrame
<1>3. None \notin Terminal /\ None # "stopped" /\ None # "error"
  BY MailboxAssumption, Commands DEF Item
<1>4. forwarderCtx' => sup'.pc \in Over \ {"return"}
  <2>1. CASE CloseResources
    BY <1>1, <2>1, GotoStep, Labels DEF CloseResources, Moved, Over
  <2>2. CASE ~CloseResources
    BY <1>1, <2>2, ForwarderIsKept, EndsFollow DEF QueueInv
  <2> QED BY <2>1, <2>2
<1>5. \/ sup'.ended = sup.ended
      \/ results \in {"error", "stopped"} /\ results' = None
  BY <1>1, EndedStep
<1>6. /\ ~Latched' => results' \notin Terminal /\ parcel' \notin Terminal
                      /\ \A i \in DOMAIN queue' : queue'[i] \notin Terminal
      /\ Shutting' =>
           /\ stopped'
           /\ \A i \in DOMAIN queue' : queue'[i] = terminal' => i = Len(queue')
           /\ parcel' = terminal' => queue' = <<>>
           /\ results' = terminal' => queue' = <<>> /\ parcel' \notin Command
  BY <1>2, <1>3 DEF QueueInv, Latched, Shutting
<1>7. /\ parcel' = "stopped" => stopped' /\ queue' = <<>>
      /\ results' = "stopped" => stopped' /\ queue' = <<>> /\ parcel' = None
      /\ forwarder' = "done" /\ ~forwarderCtx' /\ ~Infra' =>
           stopped' /\ queue' = <<>> /\ parcel' = None
  BY <1>1, <1>2, <1>3 DEF QueueInv, Infra
<1>8. /\ results' \in {"error", "stopped"} \/ sup'.ended => forwarder' = "done"
      /\ sup'.ended /\ ~Infra' => results' = None
  BY <1>2, <1>3, <1>5 DEF QueueInv, Infra
<1> QED BY <1>4, <1>6, <1>7, <1>8 DEF QueueInv

-----------------------------------------------------------------------------
(* The answers to the status commands.                                     *)

(* An answer settles the command it is for; every other one keeps its place.*)
LEMMA SupervisorOwed ==
  ASSUME IndInv, OwedInv, SupervisorNext
  PROVE  OwedInv'
<1>1. /\ UNCHANGED <<queue, readerErr, parcel, broken>>
      /\ owed \subseteq Status /\ (forwarderCtx => forwarderCtx')
  BY SupervisorFrame DEF IndInv, TypeOK, MailboxTypeOK
<1> SUFFICES ASSUME ~broken', ~Infra', ~forwarderCtx', NEW c \in owed'
             PROVE  Waiting(c)'
  BY DEF OwedInv
<1>2. /\ results' \in {results, None}
      /\ owed' \in {owed, owed \ {results}}
      /\ results' # results => owed' = owed \ {results}
  BY <1>1, Consuming
<1>3. c \in owed /\ (results' # results => c # results)
  BY <1>2
<1>4. Waiting(c)
  BY <1>1, <1>3 DEF OwedInv, Infra
<1> QED BY <1>1, <1>3, <1>4 DEF Waiting

(* Submit puts a status command into the queue, and the forwarder carries   *)
(* it to the supervisor.                                                    *)
LEMMA MailboxOwed ==
  ASSUME MailboxTypeOK, ReaderInv, OwedInv, UNCHANGED broken,
         ReaderNext \/ ReaderPanics \/ ForwarderNext
  PROVE  OwedInv'
<1> SUFFICES ASSUME ~broken', ~Infra', ~forwarderCtx', NEW c \in owed'
             PROVE  Waiting(c)'
  BY DEF OwedInv
<1>1. ~Infra
  BY MailboxReader
<1>2. CASE ReadLine \/ InputEnds \/ ReaderStops \/ SubmitFails
  <2>1. UNCHANGED <<queue, parcel, results, owed, forwarderCtx>>
    BY <1>2 DEF ReadLine, InputEnds, ReaderStops, SubmitFails, mailbox, sender, channel
  <2> QED BY <1>1, <2>1 DEF OwedInv, Waiting
<1>3. CASE ReaderPanics
  BY <1>3 DEF ReaderPanics, Infra
<1>4. CASE Submit
  <2>1. /\ queue' = Append(queue, line) /\ queue \in Seq(Command) /\ line \in Command
        /\ UNCHANGED <<parcel, results, forwarderCtx>>
        /\ owed' = IF line \in Status THEN owed \cup {line} ELSE owed
    BY <1>4 DEF Submit, sender, MailboxTypeOK
  <2>2. /\ DOMAIN queue = 1 .. Len(queue) /\ DOMAIN queue' = 1 .. (Len(queue) + 1)
        /\ Len(queue) \in Nat
        /\ \A i \in 1 .. Len(queue) : queue'[i] = queue[i]
        /\ queue'[Len(queue) + 1] = line
    BY <2>1
  <2>3. CASE c \in owed
    BY <1>1, <2>1, <2>2, <2>3 DEF OwedInv, Waiting
  <2>4. CASE c = line
    BY <2>2, <2>4 DEF Waiting
  <2> QED BY <2>1, <2>3, <2>4
<1>5. CASE ReceiveCommand
  <2>1. /\ queue \in Seq(Command) /\ queue # <<>> /\ parcel = None
        /\ parcel' = Head(queue) /\ queue' = Tail(queue)
        /\ UNCHANGED <<results, owed, forwarderCtx>>
    BY <1>5 DEF ReceiveCommand, MailboxTypeOK, channel
  <2>2. /\ Len(queue) \in Nat \ {0} /\ DOMAIN queue = 1 .. Len(queue)
        /\ DOMAIN queue' = 1 .. (Len(queue) - 1)
        /\ parcel' = queue[1]
        /\ \A i \in DOMAIN queue' : queue'[i] = queue[i + 1]
    BY <2>1
  <2>3. c # None
    BY <2>1, MailboxAssumption DEF MailboxTypeOK, Item, Command
  <2>4. CASE c = results
    BY <2>1, <2>4 DEF Waiting
  <2>5. CASE c # results
    <3>1. PICK i \in DOMAIN queue : queue[i] = c
      BY <1>1, <2>1, <2>3, <2>5 DEF OwedInv, Waiting
    <3>2. CASE i = 1
      BY <2>2, <3>1, <3>2 DEF Waiting
    <3>3. CASE i # 1
      <4>1. i - 1 \in DOMAIN queue' /\ (i - 1) + 1 = i
        BY <2>2, <3>3
      <4> QED BY <2>2, <3>1, <4>1 DEF Waiting
    <3> QED BY <3>2, <3>3
  <2> QED BY <2>4, <2>5
<1>6. CASE ReceiveReaderError
  BY <1>1, <1>6 DEF ReceiveReaderError, Infra
<1>7. CASE ReceiveStopped
  <2>1. parcel = None /\ UNCHANGED <<queue, results, owed, forwarderCtx>>
    BY <1>7 DEF ReceiveStopped, MailboxTypeOK, channel, mailbox
  <2>2. c # None
    BY <2>1, MailboxAssumption DEF MailboxTypeOK, Item, Command
  <2> QED BY <1>1, <2>1, <2>2 DEF OwedInv, Waiting
<1>8. CASE Deliver
  <2>1. /\ results = None /\ results' = parcel /\ UNCHANGED <<queue, owed, forwarderCtx>>
    BY <1>8 DEF Deliver, mailbox
  <2>2. c # None
    BY <2>1, MailboxAssumption DEF MailboxTypeOK, Item, Command
  <2> QED BY <1>1, <2>1, <2>2 DEF OwedInv, Waiting
<1>9. CASE ForwarderStops
  BY <1>9 DEF ForwarderStops
<1> QED BY <1>2, <1>3, <1>4, <1>5, <1>6, <1>7, <1>8, <1>9 DEF ReaderNext, ForwarderNext

(* What the end of the channel, or a shutdown, tells of the commands that   *)
(* are still owed an answer.                                                *)
LEMMA EndIsEmpty ==
  ASSUME IndInv, QueueInv, PlaceInv, OwedInv, Sound
  PROVE  Emptied
<1>1. CASE sup.pc \in Over
  <2>1. Settled
    BY <1>1 DEF PlaceInv, Quiet
  <2>2. results # "error"
    BY DEF Sound, IndInv, ReaderInv
  <2> QED BY <1>1, <2>1, <2>2 DEF Emptied
<1>2. CASE sup.pc \notin Over
  <2>1. \A c \in owed : Waiting(c) /\ c \in Status
    BY <1>2 DEF OwedInv, QueueInv, Sound, IndInv, TypeOK, MailboxTypeOK
  <2>2. /\ \A c \in Status :
             c \in Command /\ c \notin Terminal /\ c \notin {"error", "stopped", None}
        /\ ~Infra /\ ~forwarderCtx
    BY <1>2, MailboxAssumption DEF Terminal, Command, Sound, QueueInv, Item
  <2>3. results # "error"
    BY <2>2 DEF IndInv, ReaderInv
  <2>4. ASSUME sup.pc \in Early \cup Started \cup {"drain"}, results \in Terminal \ Cancel
        PROVE  Settled
    <3>1. results = terminal
      BY <2>4, TakenFirst DEF IndInv
    <3>2. stopped /\ queue = <<>> /\ parcel \notin Command
      BY <2>4, <3>1 DEF QueueInv, Shutting
    <3> QED BY <2>1, <2>2, <2>4, <3>2 DEF Settled, Waiting
  <2>5. ASSUME results = "stopped"
        PROVE  Settled
    <3>1. stopped /\ queue = <<>> /\ parcel = None
      BY <2>5 DEF QueueInv
    <3> QED BY <2>1, <2>2, <2>5, <3>1 DEF Settled, Waiting
  <2>6. ASSUME results = None, forwarder = "done"
        PROVE  Settled
    <3>1. stopped /\ queue = <<>> /\ parcel = None
      BY <2>2, <2>6 DEF QueueInv
    <3> QED BY <2>1, <2>2, <2>6, <3>1 DEF Settled, Waiting
  <2>7. sup.ended => Settled
    BY <2>2, <2>6 DEF QueueInv
  <2> QED BY <2>3, <2>4, <2>5, <2>6, <2>7 DEF Emptied
<1> QED BY <1>1, <1>2

(* What was answered stays answered, and a stopped mailbox accepts nothing. *)
LEMMA StaysSettled ==
  ASSUME IndInv, Settled, SupervisorNext \/ ReaderNext \/ ReaderPanics \/ ForwarderNext
  PROVE  Settled'
<1>1. CASE SupervisorNext
  BY <1>1, SupervisorFrame DEF Settled, IndInv, TypeOK, MailboxTypeOK
<1>2. CASE ReaderNext \/ ReaderPanics \/ ForwarderNext
  BY <1>2 DEF Settled, ReaderNext, ReadLine, InputEnds, ReaderStops, Submit, SubmitFails,
              ReaderPanics, ForwarderNext, ReceiveCommand, ReceiveReaderError, ReceiveStopped,
              Deliver, ForwarderStops, mailbox, channel
<1> QED BY <1>1, <1>2

(* The cleanup and the host touch the channel not at all, and what they     *)
(* break stays broken.                                                      *)
LEMMA HostFrame ==
  ASSUME broken \in BOOLEAN, ctx \in BOOLEAN, CleanerNext \/ Environment \/ UNCHANGED vars
  PROVE  /\ UNCHANGED <<queue, stopped, terminal, readerErr, forwarder, parcel, forwarderCtx,
                        results, owed>>
         /\ sup' = sup /\ (broken => broken') /\ (ctx => ctx')
         /\ gate' = "output" => gate = "output" \/ broken \/ sup.pc = "spawned"
<1> USE DEF mailbox, sender, channel
<1>1. CASE CleanerNext
  BY <1>1 DEF CleanerNext, KillTree, RemoveRecord, control, inbox, host
<1>2. CASE BackendExits
  BY <1>2 DEF BackendExits, control, inbox, host
<1>3. CASE StdoutBreaks
  BY <1>3 DEF StdoutBreaks, control, inbox
<1>4. CASE GateFaults
  BY <1>4 DEF GateFaults, control, inbox, At
<1>5. CASE HostInterrupts
  BY <1>5 DEF HostInterrupts, control, inbox
<1>6. CASE ContextPropagates
  BY <1>6 DEF ContextPropagates, host
<1>7. CASE UNCHANGED vars
  BY <1>7 DEF vars, control, inbox, host
<1> QED BY <1>1, <1>2, <1>3, <1>4, <1>5, <1>6, <1>7 DEF Environment

(* The reader, the forwarder, the cleanup and the host keep the places.     *)
LEMMA OthersPlaces ==
  ASSUME "slow" \notin Faults, IndInv, PlaceInv, [Next]_vars, ~SupervisorNext
  PROVE  PlaceInv'
<1>1. sup' = sup /\ broken \in BOOLEAN /\ ctx \in BOOLEAN /\ stopped \in BOOLEAN
  BY OthersFrame DEF IndInv, TypeOK, MailboxTypeOK
<1>2. CASE (ReaderNext \/ ReaderPanics \/ ForwarderNext) /\ UNCHANGED local
  <2>1. UNCHANGED <<gate, broken, ctx>> /\ (Settled => Settled') /\ (Infra => Infra')
    BY <1>2, StaysSettled, MailboxReader DEF local, host, IndInv, TypeOK
  <2>2. stopped => stopped'
    BY <1>2 DEF ReaderNext, ReadLine, InputEnds, ReaderStops, Submit, SubmitFails,
              ReaderPanics, ForwarderNext, ReceiveCommand, ReceiveReaderError, ReceiveStopped,
              Deliver, ForwarderStops, mailbox, channel
  <2>3. Sound' => Sound
    BY <1>1, <2>1 DEF Sound
  <2>4. Quiet' = Quiet /\ Doomed' = Doomed
    BY <1>1 DEF Quiet, Doomed, Target
  <2> QED BY <1>1, <2>1, <2>2, <2>3, <2>4 DEF PlaceInv
<1>3. CASE CleanerNext \/ Environment \/ UNCHANGED vars
  <2>1. /\ UNCHANGED <<stopped, owed, readerErr>>
        /\ broken => broken'
        /\ ctx => ctx'
        /\ gate' = "output" => gate = "output" \/ broken \/ sup.pc = "spawned"
    BY <1>1, <1>3, HostFrame
  <2>2. /\ Sound' => Sound /\ ~broken
        /\ Settled' = Settled
    BY <1>1, <2>1 DEF Sound, Infra, Settled
  <2>3. Quiet' = Quiet /\ Doomed' = Doomed
    BY <1>1 DEF Quiet, Doomed, Target
  <2> QED BY <1>1, <2>1, <2>2, <2>3 DEF PlaceInv
<1> QED BY <1>2, <1>3 DEF Next, Terminated

(* ControlMailbox, closeControlAndDrain: in every reachable state a status  *)
(* command without an answer is on its way, and the places where the        *)
(* channel has been drained are reached with every answer given.            *)
THEOREM AnswerInvariant ==
  ASSUME "slow" \notin Faults
  PROVE  Spec => [](QueueInv /\ OwedInv /\ PlaceInv)
<1>1. Init => QueueInv /\ OwedInv /\ PlaceInv
  <2> SUFFICES ASSUME Init
               PROVE  QueueInv /\ OwedInv /\ PlaceInv
    OBVIOUS
  <2>1. None \notin Terminal /\ None # "stopped" /\ None # "error"
    BY MailboxAssumption, Commands DEF Item
  <2>2. QueueInv /\ OwedInv
    BY <2>1 DEF Init, MailboxInit, QueueInv, OwedInv, Latched, Shutting, Infra
  <2>3. PlaceInv
    BY DEF Init, PlaceInv, Quiet, Doomed, Target, Closing, Over
  <2> QED BY <2>2, <2>3
<1>2. ASSUME IndInv, QueueInv, OwedInv, PlaceInv, [Next]_vars
      PROVE  QueueInv' /\ OwedInv' /\ PlaceInv'
  <2>1. /\ sup \in SupType /\ broken \in BOOLEAN /\ ctx \in BOOLEAN /\ dirty \in BOOLEAN
        /\ gate \in {"ok", "output", "log"} /\ terminal \in Terminal \cup {None} /\ ProcInv
        /\ MailboxTypeOK /\ ReaderInv /\ stopped \in BOOLEAN
    BY <1>2 DEF IndInv, TypeOK, MailboxTypeOK
  <2>2. CASE SupervisorNext
    <3>1. UNCHANGED <<ctx, broken, readerErr>> /\ (stopped => stopped')
      BY <2>1, <2>2, SupervisorFrame
    <3>2. Settled => Settled'
      BY <1>2, <2>2, StaysSettled
    <3>3. Sound => Emptied
      BY <1>2, EndIsEmpty
    <3>4. PlaceInv'
      BY <1>2, <2>1, <2>2, <3>1, <3>2, <3>3, SupervisorPlaces
    <3> QED BY <1>2, <2>2, <3>4, SupervisorQueue, SupervisorOwed
  <2>3. CASE (ReaderNext \/ ReaderPanics \/ ForwarderNext) /\ UNCHANGED local
    <3>1. UNCHANGED <<sup, broken>>
      BY <2>3 DEF local, host
    <3>2. CASE ~SupervisorNext
      BY <1>2, <2>1, <2>3, <3>1, <3>2, MailboxQueue, MailboxOwed, OthersPlaces
    <3> QED BY <2>2, <3>2
  <2>4. CASE CleanerNext \/ Environment \/ UNCHANGED vars
    <3>1. /\ UNCHANGED <<queue, stopped, terminal, readerErr, forwarder, parcel, forwarderCtx,
                         results, owed>>
          /\ sup' = sup /\ (broken => broken')
      BY <2>1, <2>4, HostFrame
    <3>2. QueueInv'
      BY <1>2, <3>1 DEF QueueInv, Latched, Shutting, Infra
    <3>3. OwedInv'
      BY <1>2, <2>1, <3>1 DEF OwedInv, Waiting, Infra
    <3>4. CASE ~SupervisorNext
      BY <1>2, <3>2, <3>3, <3>4, OthersPlaces
    <3> QED BY <2>2, <3>4
  <2> QED BY <1>2, <2>2, <2>3, <2>4 DEF Next, Terminated
<1> QED BY <1>1, <1>2, SupervisorInvariant, PTL DEF Spec

(* closeControlAndDrain, drainUntilTerminal: unless stdout or stdin fails,  *)
(* the host interrupts or the one-second limit on a drain expires, every    *)
(* status command that was accepted has been answered at the end.           *)
THEOREM StatusesAreAnswered ==
  ASSUME "slow" \notin Faults
  PROVE  Spec => []EveryStatusIsAnswered
<1>1. PlaceInv => EveryStatusIsAnswered
  BY DEF PlaceInv, EveryStatusIsAnswered, At, Sound, Quiet, Over, Settled
<1>2. Spec => []PlaceInv
  <2>1. Spec => [](QueueInv /\ OwedInv /\ PlaceInv)
    BY AnswerInvariant
  <2> QED BY <2>1, PTL
<1> QED BY <1>1, <1>2, PTL
=============================================================================
