----------------------------- MODULE Supervisor -----------------------------
(***************************************************************************)
(* Package internal/backend, superviseControlled: one `backend supervise`, *)
(* from the backend mutex to the end of the Runtime process, together with *)
(* its control channel (Mailbox), the backend's process tree, its          *)
(* transaction backend.json and the goroutine that cleans up during a      *)
(* cancellation.                                                           *)
(*                                                                         *)
(* sup holds the locals of the supervising goroutine.  pc names where it   *)
(* is; each select statement is one value of pc and each of its branches   *)
(* one action.  The goroutine of a check (preflight, health) is its result *)
(* at the moment it is read, because every way out of the select cancels   *)
(* it and waits for it.                                                    *)
(*                                                                         *)
(* Faults names what may go wrong besides the checks themselves:           *)
(*   stdout     the host no longer reads: every later event fails          *)
(*   log        the log file cannot be written                             *)
(*   panic      the reader goroutine panics                                *)
(*   interrupt  the context of the process is cancelled                    *)
(*   cleanup    a step of a cleanup reports an error                       *)
(*   slow       the one-second limits on draining the channel expire       *)
(***************************************************************************)
EXTENDS Mailbox

CONSTANT Faults

VARIABLES
  sup,       \* the supervisor's locals, see SupType
  life,      \* the status of the last state event that is no answer
  proc,      \* the job: "none", "alive", "exited" (the root has exited)
  tx,        \* backend.json holds the record of this supervision
  lease,     \* "none", "held", "closed", "broken"
  dirty,     \* a cleanup has reported an error
  cleaner,   \* cleanupProcess: "idle", "tree", "record", "done"
  gate,      \* streamGate.fault: "ok", "output", "log"
  broken,    \* stdout
  ctx        \* the context of Supervise is cancelled

inbox    == <<input, mailbox, sender>>
control  == <<inbox, channel>>
backend  == <<proc, tx, dirty, cleaner>>
host     == <<gate, broken, ctx>>
vars     == <<control, sup, life, backend, lease, host>>

Error   == {"none", "output", "infra", "ctx", "timeout", "business"}
Status_ == {"ready", "starting", "running", "restarting", "stopping", "stopped",
            "failed"}
Control == {"acquire", "preflight", "prelude", "begin", "txOpen", "spawn",
            "spawned", "updateHealth", "health", "healthy", "updated", "run",
            "exited", "delay", "drain", "cleaning", "resolve",
            "closeMailbox", "closeReader", "closeDrain", "cancelledQuietly",
            "stoppedQuietly", "failedQuietly", "failed", "stopNil", "shutdown",
            "http", "awaitExit", "shut", "cancel", "cancelling", "cancelDrain", "stopped",
            "return", "join", "session", "leave", "end", "exit"}
After   == {"none", "start", "txOpen", "cleaned", "health", "healthy", "exit",
            "restart", "delay", "resolve", "updateFailed", "healthFailed", "raise",
            "fail", "failed", "exited", "shut", "cancelledQuietly",
            "stoppedQuietly", "failedQuietly", "stopNil", "shutdown",
            "cancelDrain"}

SupType == [pc : Control, after : After,
            err : Error,              \* the error being handled
            committed : BOOLEAN,      \* Error.Committed()
            cmd : Terminal \cup {None},
            restartUsed : BOOLEAN,
            snap : Status_,           \* controlState.status
            out : BOOLEAN,            \* outputErr, controlErr
            asked : BOOLEAN,          \* POST /api/core/close was sent
            ended : BOOLEAN,          \* controlEnded
            closed : BOOLEAN,         \* controlClosed, controlCloseOnce
            outcome : {"none", "stopped", "cancelled", "failed"}]

Init ==
  /\ MailboxInit
  /\ sup = [pc |-> "acquire", after |-> "none", err |-> "none",
            committed |-> FALSE, cmd |-> None, restartUsed |-> FALSE,
            snap |-> "ready", out |-> FALSE, asked |-> FALSE,
            ended |-> FALSE, closed |-> FALSE, outcome |-> "none"]
  /\ life = "ready"
  /\ proc = "none" /\ tx = FALSE /\ dirty = FALSE /\ cleaner = "idle"
  /\ lease = "none"
  /\ gate = "ok" /\ broken = FALSE /\ ctx = FALSE

-----------------------------------------------------------------------------
(* Control flow.                                                           *)

At(p) == sup.pc = p

Goto(p) == sup' = [sup EXCEPT !.pc = p]

(* An error of a start that goes to resolveStartAttemptError, or to the    *)
(* same order of checks written out after a preflight or a delay.          *)
Raise(e, c) == sup' = [sup EXCEPT !.pc = "resolve", !.err = e, !.committed = c]

(* drainUntilTerminal, called from site.                                   *)
DrainFor(site) == sup' = [sup EXCEPT !.pc = "drain", !.after = site]

(* cleanupProcess, called inline.                                          *)
Clean(next, e) ==
  /\ sup' = [sup EXCEPT !.pc = "cleaning", !.after = next, !.err = e]
  /\ cleaner' = "tree"
  /\ UNCHANGED <<proc, tx, dirty>>

(* closeControlAndDrain and closeControlBeforeFailure, once.               *)
CloseThen(next, e, c) ==
  sup' = [sup EXCEPT !.pc = IF sup.closed THEN next ELSE "closeMailbox",
                     !.after = next, !.err = e, !.cmd = c]

(* emitControlFailure.                                                     *)
Fail(e) == CloseThen("failed", e, sup.cmd)

(* finishControlCancel and finishControlShutdown without a process.        *)
FinishNil(c) == CloseThen("stopNil", "none", c)

(* A terminal command before there is a process.                           *)
Interrupt(c) ==
  IF c \in Cancel THEN CloseThen("cancelledQuietly", "none", c)
  ELSE IF sup.snap = "ready" THEN CloseThen("stoppedQuietly", "none", c)
  ELSE FinishNil(c)

(* finishControlCancel without a command, after an interrupt.              *)
Interrupted == FinishNil(None)

Mutant_Finish(c) == sup' = [sup EXCEPT !.pc = "cancel", !.cmd = c]

(* finishControlCancel and finishControlShutdown with a process.  The      *)
(* latter stops the reader without draining.                               *)
Finish(c) ==
  sup' = IF c \in Cancel \cup {None}
         THEN [sup EXCEPT !.pc = "cancel", !.cmd = c]
         ELSE [sup EXCEPT !.pc = "closeMailbox", !.after = "shutdown", !.cmd = c]

Faulty    == gate # "ok"
GateError == IF gate = "output" THEN "output" ELSE "business"

(* The committed flag an error gets from markCommitted: plain context and  *)
(* deadline errors do not carry one, the error of a cleanup does.          *)
Marked(e) == e \notin {"ctx", "timeout"} \/ dirty

(* emitState: it fails when stdout is broken.                              *)
Emit(s) == life' = IF broken THEN life ELSE s

-----------------------------------------------------------------------------
(* Before the process.                                                     *)

Acquire ==
  /\ At("acquire")
  /\ \/ lease' = "held" /\ Goto("preflight")
     \/ lease' = lease /\ Raise("business", FALSE)
  /\ UNCHANGED <<control, life, backend, host>>

(* awaitControlPreflight: done, ctx.Done or an error item.                 *)
PreflightEnds ==
  /\ At("preflight")
  /\ \/ Infra /\ Raise("infra", FALSE)
     \/ ~Infra /\ Latched /\ DrainFor("start")
     \/ ~Infra /\ ~Latched /\ ctx /\ Raise("ctx", FALSE)
     \/ ~Infra /\ ~Latched /\ ~ctx /\ (Goto("prelude") \/ Raise("business", FALSE))
  /\ UNCHANGED <<control, life, backend, lease, host>>

PreflightCommand ==
  /\ At("preflight") /\ results \in Terminal
  /\ results' = None
  /\ IF Infra THEN Raise("infra", FALSE) ELSE Interrupt(results)
  /\ UNCHANGED <<inbox, owed, life, backend, lease, host>>

(* startControlAttempt up to the logger.                                   *)
Prelude ==
  /\ At("prelude")
  /\ \/ Infra /\ Raise("infra", FALSE)
     \/ ~Infra /\ Latched /\ DrainFor("start")
     \/ ~Infra /\ ~Latched /\ ctx /\ Raise("ctx", FALSE)
     \/ ~Infra /\ ~Latched /\ ~ctx /\ (Goto("begin") \/ Raise("business", FALSE))
  /\ UNCHANGED <<control, life, backend, lease, host>>

BeginTx ==
  /\ At("begin")
  /\ \/ tx' = TRUE /\ Goto("txOpen")
     \/ tx' = tx /\ Raise("business", FALSE)
  /\ UNCHANGED <<control, life, proc, dirty, cleaner, lease, host>>

(* removeBackendTransaction and the logger.  errors.Join puts e first: a   *)
(* business error hides the committed flag of the failed removal.          *)
DropTx(e) ==
  \/ tx' = FALSE /\ dirty' = dirty /\ Raise(e, FALSE)
  \/ /\ "cleanup" \in Faults
     /\ tx' \in BOOLEAN /\ dirty' = TRUE
     /\ Raise(e, e \in {"ctx", "timeout"})

(* recheckRevision and the last checks before the spawn.                   *)
TxOpen ==
  /\ At("txOpen")
  /\ \/ DropTx("business")
     \/ Infra /\ DropTx("infra")
     \/ ~Infra /\ Latched /\ DrainFor("txOpen") /\ UNCHANGED <<tx, dirty>>
     \/ ~Infra /\ ~Latched /\ ctx /\ DropTx("ctx")
     \/ ~Infra /\ ~Latched /\ ~ctx /\ Goto("spawn") /\ UNCHANGED <<tx, dirty>>
  /\ UNCHANGED <<control, life, proc, cleaner, lease, host>>

(* StartManaged: a process, a process and an error, or an error only.      *)
Spawn ==
  /\ At("spawn")
  /\ gate' = "ok"
  /\ \/ proc' = "alive" /\ Goto("spawned") /\ UNCHANGED <<tx, dirty, cleaner>>
     \/ /\ proc' = "alive"
        /\ sup' = [sup EXCEPT !.pc = "cleaning", !.after = "raise", !.err = "business"]
        /\ cleaner' = "tree" /\ UNCHANGED <<tx, dirty>>
     \/ DropTx("business") /\ UNCHANGED <<proc, cleaner>>
     \/ "log" \in Faults /\ DropTx("output") /\ UNCHANGED <<proc, cleaner>>
  /\ UNCHANGED <<control, life, lease, broken, ctx>>

-----------------------------------------------------------------------------
(* From the process to running.                                            *)

(* starting_backend, except on a restart, and streamGate.Open, which       *)
(* writes the log lines held back so far.                                  *)
Spawned ==
  /\ At("spawned")
  /\ IF Faulty \/ sup.restartUsed THEN life' = life ELSE Emit("starting")
  /\ \/ Faulty /\ Clean("raise", GateError)
     \/ ~Faulty /\ broken /\ Clean("raise", "output")
     \/ ~Faulty /\ (broken => sup.restartUsed) /\ Goto("updateHealth")
        /\ UNCHANGED backend
  /\ UNCHANGED <<control, lease, host>>

UpdateHealth ==
  /\ At("updateHealth")
  /\ \/ Clean("updateFailed", "business")
     \/ /\ sup' = [sup EXCEPT !.pc = "health",
                     !.snap = IF sup.restartUsed THEN "restarting" ELSE "starting"]
        /\ UNCHANGED backend
  /\ UNCHANGED <<control, life, lease, host>>

(* awaitHealth: done, ctx.Done, Faulted or an error item.                  *)
HealthEnds ==
  /\ At("health")
  /\ \/ Faulty /\ Clean("raise", GateError)
     \/ ~Faulty /\ Infra /\ Clean("raise", "infra")
     \/ ~Faulty /\ ~Infra /\ Latched /\ DrainFor("health") /\ UNCHANGED backend
     \/ ~Faulty /\ ~Infra /\ ~Latched /\ ctx /\ Clean("healthFailed", "ctx")
     \/ /\ ~Faulty /\ ~Infra /\ ~Latched /\ ~ctx
        /\ \/ proc = "alive" /\ Goto("healthy") /\ UNCHANGED backend
           \/ Clean("healthFailed", "business")
  /\ UNCHANGED <<control, life, lease, host>>

HealthCommand ==
  /\ At("health") /\ results \in Terminal
  /\ results' = None
  /\ \/ Faulty /\ Clean("raise", GateError)
     \/ ~Faulty /\ Infra /\ Clean("raise", "infra")
     \/ ~Faulty /\ ~Infra /\ Finish(results) /\ UNCHANGED backend
  /\ UNCHANGED <<inbox, owed, life, lease, host>>

(* The checks after the wait and the second transaction update.            *)
Healthy ==
  /\ At("healthy")
  /\ \/ Faulty /\ Clean("raise", GateError)
     \/ ~Faulty /\ Latched /\ DrainFor("healthy") /\ UNCHANGED backend
     \/ ~Faulty /\ ~Latched /\ Clean("updateFailed", "business")
     \/ ~Faulty /\ ~Latched /\ Goto("updated") /\ UNCHANGED backend
  /\ UNCHANGED <<control, life, lease, host>>

Updated ==
  /\ At("updated")
  /\ \/ /\ life' = life
        /\ \/ Faulty /\ Clean("raise", GateError)
           \/ ~Faulty /\ Infra /\ Clean("raise", "infra")
           \/ ~Faulty /\ ~Infra /\ Latched /\ DrainFor("healthy") /\ UNCHANGED backend
           \/ ~Faulty /\ ~Infra /\ ~Latched /\ ctx /\ Clean("raise", "ctx")
     \/ /\ ~Faulty /\ ~Infra /\ ~Latched /\ ~ctx
        /\ Emit("running")
        /\ IF broken THEN Clean("raise", "output")
           ELSE /\ sup' = [sup EXCEPT !.pc = "run", !.snap = "running"]
                /\ UNCHANGED backend
  /\ UNCHANGED <<control, lease, host>>

-----------------------------------------------------------------------------
(* Running: the checks at the top of the loop and the select.              *)

(* Top of the loop, Faulted.                                               *)
RunFault ==
  /\ At("run") /\ Faulty
  /\ IF gate = "output" /\ terminal \in Terminal \ Cancel
     THEN /\ sup' = [sup EXCEPT !.pc = "closeMailbox", !.after = "shutdown",
                                !.cmd = terminal, !.out = TRUE]
          /\ UNCHANGED backend
     ELSE Clean("fail", GateError)
  /\ UNCHANGED <<control, life, lease, host>>

(* Top of the loop, the error item.                                        *)
RunInfra ==
  /\ At("run") /\ Infra
  /\ IF Faulty THEN Clean("fail", GateError) ELSE Clean("fail", "infra")
  /\ UNCHANGED <<control, life, lease, host>>

(* Top of the loop, ctx.Done.                                              *)
RunInterrupted ==
  /\ At("run") /\ ctx
  /\ \/ Faulty /\ Clean("fail", GateError)
     \/ ~Faulty /\ Infra /\ Clean("fail", "infra")
     \/ ~Faulty /\ ~Infra /\ Finish(terminal) /\ UNCHANGED backend
  /\ UNCHANGED <<control, life, lease, host>>

RunExited ==
  /\ At("run") /\ proc = "exited"
  /\ \/ Faulty /\ Clean("fail", GateError)
     \/ ~Faulty /\ Infra /\ Clean("fail", "infra")
     \/ ~Faulty /\ ~Infra /\ Latched /\ DrainFor("exit") /\ UNCHANGED backend
     \/ ~Faulty /\ ~Infra /\ ~Latched /\ Clean("exited", "none")
  /\ UNCHANGED <<control, life, lease, host>>

RunCommand ==
  /\ At("run") /\ results \in Terminal
  /\ results' = None
  /\ \/ Faulty /\ Clean("fail", GateError)
     \/ ~Faulty /\ Infra /\ Clean("fail", "infra")
     \/ ~Faulty /\ ~Infra /\ Finish(results) /\ UNCHANGED backend
  /\ UNCHANGED <<inbox, owed, life, lease, host>>

(* After the cleanup of a backend that exited by itself.                   *)
Mutant_Exited ==
  /\ At("exited")
  /\ \/ /\ Faulty \/ dirty \/ Infra
        /\ life' = life /\ Fail("business")
     \/ /\ ~Faulty /\ ~dirty /\ ~Infra
        /\ Emit("restarting")
        /\ sup' = [sup EXCEPT !.pc = "delay", !.restartUsed = TRUE,
                              !.snap = "restarting"]
  /\ UNCHANGED <<control, backend, lease, host>>

Exited ==
  /\ At("exited")
  /\ \/ /\ life' = life
        /\ \/ Faulty /\ Fail(GateError)
           \/ ~Faulty /\ dirty /\ Fail("business")
           \/ ~Faulty /\ ~dirty /\ Infra /\ Fail("infra")
           \/ ~Faulty /\ ~dirty /\ ~Infra /\ Latched /\ DrainFor("restart")
           \/ ~Faulty /\ ~dirty /\ ~Infra /\ ~Latched /\ ctx /\ FinishNil(None)
           \/ ~Faulty /\ ~dirty /\ ~Infra /\ ~Latched /\ ~ctx /\ sup.restartUsed
              /\ Fail("business")
     \/ /\ ~Faulty /\ ~dirty /\ ~Infra /\ ~Latched /\ ~ctx /\ ~sup.restartUsed
        /\ Emit("restarting")
        /\ sup' = [sup EXCEPT !.pc = IF broken THEN "return" ELSE "delay",
                              !.restartUsed = TRUE, !.snap = "restarting",
                              !.outcome = IF broken THEN "failed" ELSE @]
  /\ UNCHANGED <<control, backend, lease, host>>

(* waitRestart: top of the loop, ctx.Done, the timer or an error item.     *)
DelayEnds ==
  /\ At("delay")
  /\ \/ Infra /\ Raise("infra", FALSE)
     \/ ~Infra /\ Latched /\ DrainFor("delay")
     \/ ~Infra /\ ~Latched /\ ctx /\ Raise("ctx", FALSE)
     \/ ~Infra /\ ~Latched /\ ~ctx /\ Goto("preflight")
  /\ UNCHANGED <<control, life, backend, lease, host>>

DelayCommand ==
  /\ At("delay") /\ results \in Terminal
  /\ results' = None
  /\ IF Infra THEN Raise("infra", FALSE) ELSE FinishNil(results)
  /\ UNCHANGED <<inbox, owed, life, backend, lease, host>>

-----------------------------------------------------------------------------
(* Answers and drains.                                                     *)

Selecting == {"preflight", "health", "run", "delay", "drain"}

(* The way an error of drainUntilTerminal takes.                           *)
DrainFails(e) ==
  \/ /\ sup.after \in {"start", "delay"}
     /\ Raise(e, FALSE) /\ UNCHANGED backend
  \/ /\ sup.after = "txOpen"
     /\ DropTx(e) /\ UNCHANGED <<proc, cleaner>>
  \/ /\ sup.after = "cleaned"
     /\ Raise(e, Marked(e)) /\ UNCHANGED backend
  \/ sup.after = "health" /\ Clean("healthFailed", e)
  \/ sup.after = "healthy" /\ Clean("raise", e)
  \/ sup.after = "exit" /\ Clean("fail", e)
  \/ sup.after = "restart" /\ Fail(e) /\ UNCHANGED backend
  \/ /\ sup.after = "resolve"
     /\ sup' = [sup EXCEPT !.pc = "return", !.outcome = "failed"]
     /\ UNCHANGED backend

(* A status is answered with a state event that repeats the snapshot,      *)
(* wherever the supervisor selects.                                        *)
AnswerStatus ==
  /\ sup.pc \in Selecting /\ results \in Status
  /\ ~broken
  /\ results' = None
  /\ owed' = owed \ {results}
  /\ UNCHANGED <<inbox, sup, life, backend, lease, host>>

AnswerFails ==
  /\ sup.pc \in Selecting /\ results \in Status
  /\ broken
  /\ results' = None
  /\ \/ At("preflight") /\ Raise("output", FALSE) /\ UNCHANGED backend
     \/ At("delay") /\ Raise("output", FALSE) /\ UNCHANGED backend
     \/ At("health") /\ Clean("raise", "output")
     \/ At("run") /\ Clean("fail", "output")
     \/ At("drain") /\ DrainFails("output")
  /\ UNCHANGED <<inbox, owed, life, lease, host>>

(* The select takes the error item; what follows is decided by Infra.      *)
TakeError ==
  /\ sup.pc \in Selecting \ {"drain"} /\ results = "error"
  /\ results' = None
  /\ UNCHANGED <<inbox, owed, sup, life, backend, lease, host>>

Drained ==
  /\ At("drain") /\ results \in Terminal
  /\ results' = None
  /\ \/ /\ sup.after \in {"start", "resolve"}
        /\ Interrupt(results) /\ UNCHANGED backend
     \/ /\ sup.after = "txOpen"
        /\ UNCHANGED <<proc, cleaner>>
        /\ \/ tx' = FALSE /\ dirty' = dirty /\ Interrupt(results)
           \/ /\ "cleanup" \in Faults
              /\ tx' \in BOOLEAN /\ dirty' = TRUE /\ Raise("business", TRUE)
     \/ /\ sup.after = "cleaned" /\ UNCHANGED backend
        /\ IF dirty THEN Raise("business", TRUE) ELSE Interrupt(results)
     \/ sup.after \in {"restart", "delay"} /\ FinishNil(results) /\ UNCHANGED backend
     \/ sup.after \in {"health", "healthy", "exit"} /\ Finish(results) /\ UNCHANGED backend
  /\ UNCHANGED <<inbox, owed, life, lease, host>>

DrainEndsBadly ==
  /\ At("drain")
  /\ \/ Infra /\ DrainFails("infra")
     \/ ~Infra /\ "slow" \in Faults /\ DrainFails("timeout")
  /\ UNCHANGED <<control, life, lease, host>>

(* resolveStartAttemptError.                                               *)
Resolve ==
  /\ At("resolve")
  /\ LET final == sup.restartUsed \/ sup.committed
         infra == sup.err # "output" /\ Infra
         other == sup.err # "output" /\ ~Infra
         FailQuietly(e) == CloseThen("failedQuietly", e, None)
     IN \/ sup.err = "output" /\ final /\ Fail("output")
        \/ sup.err = "output" /\ ~final /\ FailQuietly("output")
        \/ infra /\ final /\ Fail("infra")
        \/ infra /\ ~final /\ FailQuietly("infra")
        \/ other /\ sup.committed /\ Fail(sup.err)
        \/ other /\ ~sup.committed /\ Latched /\ DrainFor("resolve")
        \/ other /\ ~sup.committed /\ ~Latched /\ ctx /\ Interrupted
        \/ /\ other /\ ~sup.committed /\ ~Latched /\ ~ctx
           /\ IF sup.restartUsed THEN Fail(sup.err) ELSE FailQuietly(sup.err)
  /\ UNCHANGED <<control, life, backend, lease, host>>

-----------------------------------------------------------------------------
(* cleanupProcess: the tree, then the record and the logger.               *)

Mutant_KillTree ==
  /\ cleaner = "tree"
  /\ cleaner' = "record"
  /\ tx' = FALSE
  /\ UNCHANGED <<control, sup, life, proc, dirty, lease, host>>

KillTree ==
  /\ cleaner = "tree"
  /\ cleaner' = "record"
  /\ \/ proc' = "none" /\ dirty' = dirty
     \/ "cleanup" \in Faults /\ proc' \in {"none", proc} /\ dirty' = TRUE
  /\ UNCHANGED <<control, sup, life, tx, lease, host>>

RemoveRecord ==
  /\ cleaner = "record"
  /\ cleaner' = "done"
  /\ \/ tx' = FALSE /\ dirty' = dirty
     \/ "cleanup" \in Faults /\ tx' \in {FALSE, tx} /\ dirty' = TRUE
  /\ UNCHANGED <<control, sup, life, proc, lease, host>>

CleanerNext == KillTree \/ RemoveRecord

(* The code behind an inline cleanup.                                      *)
Cleaned ==
  /\ At("cleaning") /\ cleaner = "done"
  /\ cleaner' = "idle"
  /\ LET failed == sup.after \in {"updateFailed", "healthFailed"}
         update == sup.after = "updateFailed"
     IN \/ sup.after = "fail" /\ Fail(sup.err)
        \/ sup.after \in {"exited", "shut"} /\ Goto(sup.after)
        \/ sup.after = "raise" /\ Raise(sup.err, Marked(sup.err))
        \/ failed /\ sup.err = "output" /\ Raise("output", TRUE)
        \/ failed /\ sup.err # "output" /\ Faulty /\ Raise(GateError, TRUE)
        \/ update /\ ~Faulty /\ Infra /\ Raise("infra", TRUE)
        \/ /\ failed /\ sup.err # "output" /\ ~Faulty /\ ~(update /\ Infra)
           /\ \/ Latched /\ DrainFor("cleaned")
              \/ ~Latched /\ ctx /\ Raise("ctx", dirty)
              \/ ~Latched /\ ~ctx /\ Raise(sup.err, TRUE)
  /\ UNCHANGED <<control, life, proc, tx, dirty, lease, host>>

-----------------------------------------------------------------------------
(* Closing the control channel.                                            *)

CloseMailbox ==
  /\ At("closeMailbox")
  /\ StopMailbox
  /\ Goto("closeReader")
  /\ UNCHANGED <<life, backend, lease, host>>

Mutant_CloseReader ==
  /\ At("closeReader")
  /\ StopReader
  /\ sup' = [sup EXCEPT !.closed = @ \/ sup.after # "shutdown", !.pc = sup.after]
  /\ UNCHANGED <<life, backend, lease, host>>

CloseReader ==
  /\ At("closeReader")
  /\ StopReader
  /\ LET once == sup.after # "shutdown"
         drains == once /\ sup.after # "cancelDrain" /\ sup.err # "output"
     IN sup' = [sup EXCEPT !.closed = @ \/ once,
                           !.pc = IF drains THEN "closeDrain" ELSE sup.after]
  /\ UNCHANGED <<life, backend, lease, host>>

(* A failed drain: the failure is reported nevertheless, anything else     *)
(* returns the error.                                                      *)
CloseFails ==
  sup' = [sup EXCEPT !.pc = IF sup.after = "failed" THEN "failed" ELSE "failedQuietly"]

CloseDrain ==
  /\ At("closeDrain")
  /\ \/ /\ results \in Status /\ ~broken
        /\ results' = None /\ owed' = owed \ {results} /\ sup' = sup
     \/ /\ results \in Status /\ broken
        /\ results' = None /\ CloseFails /\ owed' = owed
     \/ /\ results \in Terminal
        /\ results' = None /\ UNCHANGED <<owed, sup>>
     \/ /\ results = "stopped"
        /\ results' = None /\ Goto(sup.after) /\ owed' = owed
     \/ /\ results = "error"
        /\ results' = None /\ CloseFails /\ owed' = owed
     \/ /\ "slow" \in Faults \/ (results = None /\ forwarder = "done")
        /\ CloseFails /\ UNCHANGED <<results, owed>>
  /\ UNCHANGED <<inbox, life, backend, lease, host>>

-----------------------------------------------------------------------------
(* The ends.                                                               *)

Return(o) == sup' = [sup EXCEPT !.pc = "return", !.outcome = o]

ReturnQuietly ==
  /\ \/ At("cancelledQuietly") /\ Return("cancelled")
     \/ At("stoppedQuietly") /\ Return("stopped")
     \/ At("failedQuietly") /\ Return("failed")
  /\ UNCHANGED <<control, life, backend, lease, host>>

EmitFailed ==
  /\ At("failed")
  /\ Emit("failed")
  /\ sup' = [sup EXCEPT !.pc = "return", !.outcome = "failed", !.snap = "failed"]
  /\ UNCHANGED <<control, backend, lease, host>>

(* stopping_backend without a process.  A cancellation before anything was *)
(* started reports nothing.                                                *)
StopNil ==
  /\ At("stopNil")
  /\ IF sup.cmd \in Cancel \cup {None} /\ sup.snap = "ready"
     THEN Return("cancelled") /\ life' = life
     ELSE /\ Emit("stopping")
          /\ sup' = [sup EXCEPT !.snap = "stopping", !.out = broken,
                !.pc = IF broken /\ sup.cmd \in Cancel \cup {None} THEN "failed" ELSE "stopped"]
  /\ UNCHANGED <<control, backend, lease, host>>

(* finishControlShutdown.                                                  *)
BeginShutdown ==
  /\ At("shutdown")
  /\ Emit("stopping")
  /\ sup' = [sup EXCEPT !.snap = "stopping", !.out = @ \/ broken, !.pc = "http"]
  /\ UNCHANGED <<control, backend, lease, host>>

(* POST /api/core/close, unless the root has exited.                       *)
HttpClose ==
  /\ At("http")
  /\ IF proc = "alive"
     THEN sup' = [sup EXCEPT !.asked = TRUE, !.pc = "awaitExit"] /\ UNCHANGED backend
     ELSE Clean("shut", "none")
  /\ UNCHANGED <<control, life, lease, host>>

(* The exit of the root, the end of the shutdown timeout, a failed POST.   *)
AwaitExit ==
  /\ At("awaitExit")
  /\ Clean("shut", "none")
  /\ UNCHANGED <<control, life, lease, host>>

Shut ==
  /\ At("shut")
  /\ IF dirty THEN Fail(IF sup.out THEN "output" ELSE "business")
     ELSE sup' = [sup EXCEPT !.pc = "stopped"]
  /\ UNCHANGED <<control, life, backend, lease, host>>

(* finishControlCancel: the cleanup runs beside the control channel.       *)
BeginCancel ==
  /\ At("cancel")
  /\ Emit("stopping")
  /\ sup' = [sup EXCEPT !.snap = "stopping", !.out = broken, !.pc = "cancelling"]
  /\ cleaner' = "tree"
  /\ UNCHANGED <<control, proc, tx, dirty, lease, host>>

CancelItem ==
  /\ sup.pc \in {"cancelling", "cancelDrain"} /\ results # None
  /\ results' = None
  /\ \/ /\ results \in Status
        /\ owed' = IF broken THEN owed ELSE owed \ {results}
        /\ sup' = [sup EXCEPT !.out = @ \/ broken]
     \/ results \in Terminal /\ UNCHANGED <<owed, sup>>
     \/ /\ results \in {"error", "stopped"}
        /\ sup' = [sup EXCEPT !.ended = TRUE, !.out = @ \/ results = "error",
              !.pc = IF At("cancelDrain") THEN "stopped" ELSE @]
        /\ owed' = owed
  /\ UNCHANGED <<inbox, life, backend, lease, host>>

CancelCleaned ==
  /\ At("cancelling") /\ cleaner = "done"
  /\ cleaner' = "idle"
  /\ sup' = [sup EXCEPT !.pc = "closeMailbox", !.after = "cancelDrain", !.err = "none"]
  /\ UNCHANGED <<control, life, proc, tx, dirty, lease, host>>

(* The channel has reported its end, or does not within a second.          *)
CancelDrained ==
  /\ At("cancelDrain")
  /\ sup.ended \/ "slow" \in Faults \/ (results = None /\ forwarder = "done")
  /\ Goto("stopped")
  /\ UNCHANGED <<control, life, backend, lease, host>>

Mutant_EmitStopped ==
  /\ At("stopped")
  /\ Emit("stopped")
  /\ sup' = [sup EXCEPT !.snap = "stopped", !.pc = "return",
        !.outcome = IF sup.cmd \in Cancel \cup {None} THEN "cancelled" ELSE "stopped"]
  /\ UNCHANGED <<control, backend, lease, host>>

(* finalizeResources, then stopped.                                        *)
EmitStopped ==
  /\ At("stopped")
  /\ LET cancelled == sup.cmd \in Cancel \cup {None}
         bad == (sup.after # "stopNil" /\ dirty) \/ (cancelled /\ sup.out)
     IN \/ bad /\ Fail("business") /\ UNCHANGED <<lease, life>>
        \/ ~bad /\ "cleanup" \in Faults /\ lease' = "broken"
           /\ Fail(IF sup.out THEN "output" ELSE "business") /\ UNCHANGED life
        \/ /\ ~bad /\ lease' = "closed"
           /\ Emit("stopped")
           /\ sup' = [sup EXCEPT !.snap = "stopped", !.pc = "return",
                 !.outcome = IF cancelled THEN "cancelled"
                             ELSE IF sup.out \/ broken THEN "failed" ELSE "stopped"]
  /\ UNCHANGED <<control, backend, host>>

(* The deferred calls of superviseControlled and the end of the session.   *)
CloseResources ==
  /\ At("return")
  /\ lease' = IF lease = "held" THEN "closed" ELSE lease
  /\ forwarderCtx' = TRUE
  /\ Goto("join")
  /\ UNCHANGED <<input, mailbox, forwarder, parcel, channel, life, backend, host>>

Join ==
  /\ At("join") /\ forwarder = "done"
  /\ Goto("session")
  /\ UNCHANGED <<control, life, backend, lease, host>>

(* cancelReader first: it takes the reader out of Submit, and thus off mu. *)
EndSession ==
  /\ At("session")
  /\ readerCtx' = TRUE
  /\ Goto("leave")
  /\ UNCHANGED <<reader, line, unread, readerStopped, mailbox, sender, channel,
                 life, backend, lease, host>>

(* reader.StopAccepting, mailbox.StopAccepting, the result; the end of the *)
(* process closes the job.                                                 *)
Leave ==
  /\ At("leave") /\ reader # "submit"
  /\ readerStopped' = TRUE /\ stopped' = TRUE
  /\ Goto("end")
  /\ UNCHANGED <<reader, line, unread, readerCtx, queue, terminal, readerErr,
                 sender, channel, life, backend, lease, host>>

Exit ==
  /\ At("end")
  /\ proc' = "none"
  /\ Goto("exit")
  /\ UNCHANGED <<control, life, tx, dirty, cleaner, lease, host>>

SupervisorNext ==
  \/ Acquire \/ PreflightEnds \/ PreflightCommand \/ Prelude \/ BeginTx \/ TxOpen
  \/ Spawn \/ Spawned \/ UpdateHealth \/ HealthEnds \/ HealthCommand \/ Healthy
  \/ Updated \/ RunFault \/ RunInfra \/ RunInterrupted \/ RunExited \/ RunCommand
  \/ Exited \/ DelayEnds \/ DelayCommand \/ AnswerStatus \/ AnswerFails
  \/ TakeError \/ Drained \/ DrainEndsBadly \/ Resolve \/ Cleaned
  \/ CloseMailbox \/ CloseReader \/ CloseDrain \/ ReturnQuietly \/ EmitFailed
  \/ StopNil \/ BeginShutdown \/ HttpClose \/ AwaitExit \/ Shut \/ BeginCancel
  \/ CancelItem \/ CancelCleaned \/ CancelDrained \/ EmitStopped
  \/ CloseResources \/ Join \/ EndSession \/ Leave \/ Exit

-----------------------------------------------------------------------------
(* The environment.                                                        *)

BackendExits ==
  /\ proc = "alive"
  /\ proc' = "exited"
  /\ UNCHANGED <<control, sup, life, tx, dirty, cleaner, lease, host>>

StdoutBreaks ==
  /\ "stdout" \in Faults /\ ~broken
  /\ broken' = TRUE
  /\ UNCHANGED <<control, sup, life, backend, lease, gate, ctx>>

(* streamSink: a log line that cannot be written to the file, or to stdout *)
(* once the gate is open; too many lines before that.                      *)
GateFaults ==
  /\ proc # "none" /\ gate = "ok"
  /\ \/ gate' = "log" /\ "log" \in Faults
     \/ gate' = "output" /\ (IF At("spawned") THEN "log" \in Faults ELSE broken)
  /\ UNCHANGED <<control, sup, life, backend, lease, broken, ctx>>

HostInterrupts ==
  /\ "interrupt" \in Faults /\ ~ctx
  /\ ctx' = TRUE
  /\ UNCHANGED <<control, sup, life, backend, lease, gate, broken>>

(* readerContext is derived from the context of Supervise.                 *)
ContextPropagates ==
  /\ ctx /\ ~readerCtx
  /\ readerCtx' = TRUE
  /\ UNCHANGED <<reader, line, unread, readerStopped, mailbox, sender, channel,
                 sup, life, backend, lease, host>>

Environment ==
  BackendExits \/ StdoutBreaks \/ GateFaults \/ HostInterrupts \/ ContextPropagates

local == <<sup, life, backend, lease, host>>

Terminated == At("exit") /\ UNCHANGED vars

Next ==
  \/ ReaderNext /\ UNCHANGED local
  \/ "panic" \in Faults /\ ReaderPanics /\ UNCHANGED local
  \/ ForwarderNext /\ UNCHANGED local
  \/ SupervisorNext
  \/ CleanerNext
  \/ Environment
  \/ Terminated

Spec == Init /\ [][Next]_vars

(* Every goroutine that can run runs; the reader may sit in its read of    *)
(* stdin.  Nothing is assumed of the host, of the backend or of a failure. *)
Fairness ==
  /\ WF_vars(SupervisorNext)
  /\ WF_vars(CleanerNext)
  /\ WF_vars(ForwarderNext /\ UNCHANGED local)
  /\ WF_vars((Submit \/ SubmitFails) /\ UNCHANGED local)

FairSpec == Spec /\ Fairness

-----------------------------------------------------------------------------
(* Properties.                                                             *)

(* The ranges of the variables, and where a cleanup can be running.        *)
TypeOK ==
  /\ MailboxTypeOK
  /\ sup \in SupType
  /\ life \in Status_
  /\ proc \in {"none", "alive", "exited"}
  /\ tx \in BOOLEAN /\ dirty \in BOOLEAN
  /\ lease \in {"none", "held", "closed", "broken"}
  /\ cleaner \in {"idle", "tree", "record", "done"}
  /\ cleaner # "idle" => sup.pc \in {"cleaning", "cancelling"}
  /\ gate \in {"ok", "output", "log"}
  /\ broken \in BOOLEAN /\ ctx \in BOOLEAN

(* finishControlCancel, finishControlShutdown: a host that reads `stopped` *)
(* finds no backend process and a mutex it can take, whatever failed on    *)
(* the way there.                                                          *)
StoppedMeansGone == life = "stopped" => proc = "none" /\ lease = "closed"

(* superviseControlled, startControlAttempt, cleanupProcess: a process tree *)
(* is covered by the backend mutex, which is not given back before it is   *)
(* gone, and named by backend.json for a later Runtime to find, unless the *)
(* cleanup has said that it failed.                                        *)
LeaseOutlivesBackend == lease \in {"closed", "broken"} => proc = "none" \/ dirty
RecordOutlivesBackend == proc # "none" => tx \/ dirty
BackendIsCovered == LeaseOutlivesBackend /\ RecordOutlivesBackend

(* ControlMailbox: as long as the supervisor selects, a latched command is *)
(* still on its way to it, so that drainUntilTerminal finds it, and the    *)
(* end of the channel, which every select takes for a failure, is not in   *)
(* front of it.                                                            *)
TerminalIsDelivered ==
  sup.pc \in Selecting => (Latched => OnItsWay(terminal)) /\ results # "stopped"

(* The terminal-control latch: the command accepted first decides how the  *)
(* supervision ends, however many follow it.                               *)
FirstTerminalDecides ==
  /\ sup.cmd \in {None, terminal}
  /\ sup.outcome = "stopped" => terminal \in Terminal \ Cancel
  /\ sup.outcome = "cancelled" => terminal \in Cancel \/ ctx

(* closeControlAndDrain, drainUntilTerminal: every status command that was *)
(* accepted is answered before the end, if stdout and stdin work.          *)
EveryStatusIsAnswered ==
  At("exit") /\ ~broken /\ ~Infra /\ ~ctx /\ sup.err # "output" => owed = {}

Edges ==
  {<<"ready", "starting">>, <<"starting", "running">>, <<"running", "restarting">>,
   <<"restarting", "running">>, <<"stopping", "stopped">>}
  \cup ({"starting", "running", "restarting"} \X {"stopping"})
  \cup ({"starting", "running", "restarting", "stopping"} \X {"failed"})

(* The life of a backend as the host sees it: the edges of the published   *)
(* table, and a failure that comes before starting_backend, which the      *)
(* table does not have; one restart at most, and nothing after the end.    *)
(* That a backend that runs fails only after its restart is not part of    *)
(* it: see FailureUsesTheRestart.                                          *)
Lifecycle ==
  [][life' # life =>
       /\ <<life, life'>> \in Edges \cup {<<"ready", "failed">>}
       /\ life' = "restarting" => ~sup.restartUsed]_vars

(* finishControlShutdown: a backend that runs is closed with POST          *)
(* /api/core/close before its tree is terminated, if the host shut it down *)
(* and nothing has failed.                                                 *)
ShutdownIsGraceful ==
  [][ /\ cleaner = "idle" /\ cleaner' = "tree" /\ proc = "alive"
      /\ terminal \in Terminal \ Cancel /\ ~ctx /\ sup'.err = "none"
      => sup.asked ]_vars

(* A terminal command that was accepted, and an interrupt, end the process *)
(* of the Runtime: reader, mailbox, forwarder and supervisor never wait    *)
(* for each other in a circle.                                             *)
SupervisionEnds == Latched \/ ctx ~> At("exit")

-----------------------------------------------------------------------------
(* What the documents say, and the code does not keep.                     *)

(* An answer to a status command is the current state, that is, the last   *)
(* lifecycle event the host has read (startControlAttempt announces        *)
(* starting_backend before it takes the snapshot).                         *)
AnswersAreCurrent == [][owed' \subseteq owed /\ owed' # owed => sup.snap = life]_vars

(* A shutdown of a backend whose start was announced reports its end, too  *)
(* (finishControlShutdownInterrupt goes by the same snapshot).             *)
StoppedIsReported ==
  At("exit") /\ sup.outcome = "stopped" => life \in {"ready", "stopped"}

(* A cancellation during the restart goes through stopping_backend         *)
(* (superviseControlled after awaitControlPreflight).                      *)
CancelledRestartIsReported ==
  At("exit") /\ sup.outcome = "cancelled" /\ ~ctx => life # "restarting"

(* A running backend fails only after its one restart (lifecycle.go, which *)
(* emitControlFailure does not consult).                                   *)
FailureUsesTheRestart ==
  [][life = "running" /\ life' = "failed" => sup.restartUsed]_vars

(* Every transition is an edge of the table in lifecycle.go (a failure of  *)
(* the spawn, or of what comes before, is announced from ready_to_start).  *)
EveryEdgeIsPublished == [][life' # life => <<life, life'>> \in Edges]_vars

(* If stdout breaks while a shutdown is on its way, the backend is closed  *)
(* gracefully all the same (only the top of the loop and Faulted look).    *)
OutputFaultIsGraceful ==
  [][ /\ cleaner = "idle" /\ cleaner' = "tree" /\ proc = "alive"
      /\ terminal \in Terminal \ Cancel /\ gate = "output" /\ sup'.err = "output"
      => sup.asked ]_vars

(* Each accepted status command is answered once, whatever interrupts the  *)
(* supervision (finishControlShutdown with a process does not drain).      *)
InterruptedStatusIsAnswered ==
  At("exit") /\ ~broken /\ ~Infra /\ sup.err # "output" => owed = {}
=============================================================================
