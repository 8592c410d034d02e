------------------------------ MODULE Managed ------------------------------
(***************************************************************************)
(* A managed process (internal/process) and the attempt of the backend     *)
(* supervisor that owns it, from StartManaged to the end of cleanupProcess.*)
(*                                                                         *)
(* The root (uv) is created suspended, put into a Job and only then        *)
(* resumed.  It starts a worker (the backend), which belongs to the Job    *)
(* too, and either may start a game that breaks away from the Job but      *)
(* inherits the pipes.  Besides the supervisor there run one reader per    *)
(* pipe, the waiter (process.Wait, then the readers) and the watcher (the  *)
(* context of the start, Close, or the end of the waiter).                 *)
(***************************************************************************)
EXTENDS Naturals, FiniteSets

CONSTANTS
  Stream,     \* the pipes with a reader
  MaxLines,   \* bound: lines the tree writes in one behaviour
  Budget      \* whether the budget of a cleanup may run out

ASSUME ManagedAssumption == Stream # {} /\ MaxLines \in Nat

VARIABLES
  at,         \* where the supervisor is
  proc,       \* the three processes
  job,        \* the Job: none, open without the root, holds the root, closed
  holds,      \* the processes that hold the write ends of the pipes
  written,    \* lines written so far
  pipe,       \* lines in each pipe
  reader,     \* drainStream of each pipe
  flag,       \* the channels and errors of ManagedProcess
  waiter, watcher,
  clean       \* what cleanupProcess has found: its failures and its round

osVars == <<proc, job, holds, written>>
ioVars == <<pipe, reader>>
mvars == <<at, proc, job, holds, written, pipe, reader, flag, waiter, watcher, clean>>

Proc == {"root", "worker", "game"}
Member == {"root", "worker"}

Flags ==
  {"cancelled",   \* the context of StartManaged
   "exited", "settled", "waitDone", "closed",
   "sinkCancelled", "sinkStopped", "sinkErr", "sinkCancelErr", "cancelErr", "waitErr",
   "cut",         \* stopReaders has closed the read ends
   "killed",      \* recordSinkError or the watcher has ended a live root
   "dropped",     \* a line of the tree was thrown away
   "unkilled"}    \* a Terminate reported an error

Is(f) == f \in flag
Set(fs) == flag' = flag \cup fs

Live(p) == proc[p] \in {"held", "alive"}
InJob == {p \in Member : Live(p) /\ job = "holds"}
JobOpen == job \in {"open", "holds"}

(* What the Job counts: nothing, or members that live.                     *)
Empty == InJob = {}

Killed == [p \in Proc |-> IF p \in InJob THEN "dead" ELSE proc[p]]
Without(ps) == holds \ {p \in ps : p # "game"}

MInit ==
  /\ at = "job"
  /\ proc = [p \in Proc |-> "none"]
  /\ job = "none"
  /\ holds = {}
  /\ written = 0
  /\ pipe = [s \in Stream |-> 0]
  /\ reader = [s \in Stream |-> "off"]
  /\ flag = {}
  /\ waiter = "off" /\ watcher = "off"
  /\ clean = [round |-> 1, out |-> FALSE, empty |-> TRUE, fails |-> {}]

----------------------------------------------------------------------------
(* The processes.                                                          *)

Spawn(p, q) ==
  /\ proc[p] = "alive" /\ proc[q] = "none" /\ q # "root"
  /\ proc' = [proc EXCEPT ![q] = "alive"]
  /\ holds' = IF p \in holds THEN holds \cup {q} ELSE holds
  /\ UNCHANGED <<at, job, written, ioVars, flag, waiter, watcher, clean>>

(* A line goes to a pipe that somebody still reads.                        *)
Write(p, s) ==
  /\ proc[p] = "alive" /\ p \in holds
  /\ written < MaxLines /\ ~Is("cut")
  /\ written' = written + 1
  /\ pipe' = [pipe EXCEPT ![s] = @ + 1]
  /\ UNCHANGED <<at, proc, job, holds, reader, flag, waiter, watcher, clean>>

(* A worker that redirects its output keeps no pipe open.                  *)
LetGo ==
  /\ proc["worker"] = "alive" /\ "worker" \in holds
  /\ holds' = holds \ {"worker"}
  /\ UNCHANGED <<at, proc, job, written, ioVars, flag, waiter, watcher, clean>>

Die(p) ==
  /\ proc[p] = "alive"
  /\ proc' = [proc EXCEPT ![p] = "dead"]
  /\ holds' = holds \ {p}
  /\ UNCHANGED <<at, job, written, ioVars, flag, waiter, watcher, clean>>

Cancel ==
  /\ ~Is("cancelled")
  /\ Set({"cancelled"})
  /\ UNCHANGED <<at, osVars, ioVars, waiter, watcher, clean>>

Processes ==
  \/ \E p \in Member, q \in {"worker", "game"} : Spawn(p, q)
  \/ \E p \in Proc, s \in Stream : Write(p, s)
  \/ LetGo
  \/ \E p \in Proc : Die(p)
  \/ Cancel

----------------------------------------------------------------------------
(* windowsJob.Terminate: it kills every member or reports an error; on a   *)
(* closed Job it does nothing.  own marks the calls ManagedProcess makes   *)
(* on its own account, which note an error in the result of Wait; those of *)
(* cleanupProcess (exit code 1) only report to their caller.               *)
Terminate(own, also, ok) ==
  IF ok \/ ~JobOpen
  THEN /\ proc' = IF JobOpen THEN Killed ELSE proc
       /\ holds' = IF JobOpen THEN Without(InJob) ELSE holds
       /\ Set(also \cup IF own /\ "root" \in InJob THEN {"killed"} ELSE {})
  ELSE /\ Set(also \cup {"unkilled"} \cup IF own THEN {"waitErr"} ELSE {})
       /\ UNCHANGED <<proc, holds>>

(* windowsJob.Close: the last handle of the Job kills its members.         *)
CloseJob ==
  /\ job' = "closed"
  /\ proc' = Killed
  /\ holds' = Without(InJob)

----------------------------------------------------------------------------
(* startManagedWindows.                                                    *)

CreateJob ==
  /\ at = "job" /\ ~Is("cancelled")
  /\ \/ at' = "create" /\ job' = "open"
     \/ at' = "failed" /\ UNCHANGED job
  /\ UNCHANGED <<proc, holds, written, ioVars, flag, waiter, watcher, clean>>

RefuseStart ==
  /\ at = "job" /\ Is("cancelled")
  /\ at' = "failed"
  /\ UNCHANGED <<osVars, ioVars, flag, waiter, watcher, clean>>

(* The pipes are opened and the root is created suspended.                 *)
StartProcess ==
  /\ at = "create"
  /\ at' = "assign"
  /\ proc' = [proc EXCEPT !["root"] = "held"]
  /\ holds' = {"root"}
  /\ UNCHANGED <<job, written, ioVars, flag, waiter, watcher, clean>>

StartFails ==
  /\ at = "create"
  /\ at' = "failed"
  /\ job' = "closed"
  /\ UNCHANGED <<proc, holds, written, ioVars, flag, waiter, watcher, clean>>

Mutant_Assign ==
  /\ at = "assign" /\ at' = "resume"
  /\ job' \in {"open", "holds"}
  /\ UNCHANGED <<proc, holds, written, ioVars, flag, waiter, watcher, clean>>

Assign ==
  /\ at = "assign"
  /\ \/ at' = "resume" /\ job' = "holds"
     \/ at' = "undo" /\ UNCHANGED job
  /\ UNCHANGED <<proc, holds, written, ioVars, flag, waiter, watcher, clean>>

(* The initial thread is found and resumed, unless the context has ended;  *)
(* a resume whose handle cannot be closed fails with the root running.     *)
Resume ==
  /\ at = "resume" /\ ~Is("cancelled")
  /\ proc' = [proc EXCEPT !["root"] = "alive"]
  /\ \/ /\ at' = "run"
        /\ reader' = [s \in Stream |-> "read"]
        /\ waiter' = "root" /\ watcher' = "select"
     \/ at' = "undo" /\ UNCHANGED <<reader, waiter, watcher>>
  /\ UNCHANGED <<job, holds, written, pipe, flag, clean>>

ResumeFails ==
  /\ at = "resume"
  /\ at' = "undo"
  /\ UNCHANGED <<osVars, ioVars, flag, waiter, watcher, clean>>

(* cleanupStarted: a process that is not in the Job is put there again,    *)
(* then the Job, the process or its only thread is terminated, and the Job *)
(* is closed.  What resists all of it is reported as not confirmed.        *)
CleanupStarted ==
  /\ at = "undo"
  /\ at' = "failed"
  /\ \/ /\ proc' = [p \in Proc |-> IF p \in Member /\ Live(p) THEN "dead" ELSE proc[p]]
        /\ holds' = Without(Member)
        /\ UNCHANGED flag
        /\ job' = "closed"
     \/ /\ Set({"unkilled"})
        /\ job' = IF job = "holds" THEN job ELSE "closed"
        /\ UNCHANGED <<proc, holds>>
  /\ UNCHANGED <<written, ioVars, waiter, watcher, clean>>

Starter ==
  \/ CreateJob \/ RefuseStart \/ StartProcess \/ StartFails
  \/ Assign \/ Resume \/ ResumeFails \/ CleanupStarted

----------------------------------------------------------------------------
(* drainStream with guardedSink.  A line is taken when the sink is free:   *)
(* sinkMu lets one reader in.                                              *)

AllDone == \A s \in Stream : reader[s] = "done"

Moves(s, to) == reader' = [reader EXCEPT ![s] = to]

Take(s) ==
  /\ reader[s] = "read" /\ pipe[s] > 0 /\ ~Is("cut")
  /\ \A t \in Stream : reader[t] # "sink"
  /\ pipe' = [pipe EXCEPT ![s] = @ - 1]
  /\ IF Is("sinkStopped")
     THEN Set({"dropped"}) /\ UNCHANGED reader
     ELSE Moves(s, "sink") /\ UNCHANGED flag
  /\ UNCHANGED <<at, osVars, waiter, watcher, clean>>

SinkTakes(s) ==
  /\ reader[s] = "sink"
  /\ Moves(s, "read")
  /\ UNCHANGED <<at, osVars, pipe, flag, waiter, watcher, clean>>

(* recordSinkError: the first error terminates the Job.                    *)
RecordSinkError(also) ==
  IF Is("sinkErr")
  THEN Set(also) /\ UNCHANGED <<proc, holds>>
  ELSE \E ok \in BOOLEAN : Terminate(TRUE, also \cup {"sinkErr"}, ok)

(* A sink that gives up because it was cancelled says so in its error.     *)
SinkRefuses(s) ==
  /\ reader[s] = "sink"
  /\ Moves(s, "read")
  /\ RecordSinkError({"sinkStopped", "dropped"} \cup
       IF Is("sinkCancelled") /\ ~Is("sinkErr") THEN {"sinkCancelErr"} ELSE {})
  /\ UNCHANGED <<at, job, written, pipe, waiter, watcher, clean>>

ReadFails(s) ==
  /\ reader[s] = "read" /\ ~Is("cut")
  /\ Moves(s, "done")
  /\ RecordSinkError(IF pipe[s] > 0 THEN {"dropped"} ELSE {})
  /\ UNCHANGED <<at, job, written, pipe, waiter, watcher, clean>>

(* The end of a pipe nobody can write to, or one stopReaders has closed.   *)
ReadEnds(s) ==
  /\ reader[s] = "read"
  /\ Is("cut") \/ (pipe[s] = 0 /\ holds = {})
  /\ Moves(s, "done")
  /\ UNCHANGED <<at, osVars, pipe, flag, waiter, watcher, clean>>

Reads(s) == Take(s) \/ ReadEnds(s)
Sinks(s) == SinkTakes(s) \/ SinkRefuses(s)
Readers == \E s \in Stream : Reads(s) \/ Sinks(s) \/ ReadFails(s)

----------------------------------------------------------------------------
(* The waiter.                                                             *)

RootExits ==
  /\ waiter = "root" /\ proc["root"] = "dead"
  /\ waiter' = "readers"
  /\ Set({"exited"})
  /\ UNCHANGED <<at, osVars, ioVars, watcher, clean>>

Mutant_Settle ==
  /\ waiter = "readers"
  /\ waiter' = "result"
  /\ Set({"settled"})
  /\ UNCHANGED <<at, osVars, ioVars, watcher, clean>>

Settle ==
  /\ waiter = "readers" /\ AllDone
  /\ waiter' = "result"
  /\ Set({"settled"})
  /\ UNCHANGED <<at, osVars, ioVars, watcher, clean>>

PublishResult ==
  /\ waiter = "result"
  /\ waiter' = "off"
  /\ Set({"waitDone"} \cup IF Is("cancelled") THEN {"cancelErr"} ELSE {})
  /\ UNCHANGED <<at, osVars, ioVars, watcher, clean>>

Waiter == RootExits \/ Settle \/ PublishResult

----------------------------------------------------------------------------
(* The watcher.                                                            *)

Watches(from, to) == watcher = from /\ watcher' = to

TerminateCancelled(also) ==
  \E ok \in BOOLEAN : Terminate(TRUE, also \cup {"cancelErr"}, ok)

WatchCancel ==
  /\ Is("cancelled")
  /\ \/ Watches("select", "grace") /\ TerminateCancelled({})
     \/ /\ Watches("empty", "off") \/ Watches("blind", "off")
        /\ TerminateCancelled({"sinkCancelled"})
  /\ UNCHANGED <<at, job, written, ioVars, waiter, clean>>

(* The readers settle within a second, or their sink is cancelled.         *)
WatchGrace ==
  /\ Watches("grace", "off")
  /\ Set({"sinkCancelled"})
  /\ UNCHANGED <<at, osVars, ioVars, waiter, clean>>

WatchClosed ==
  /\ Is("closed")
  /\ \E w \in {"select", "empty", "blind"} : Watches(w, "off")
  /\ Set({"sinkCancelled"})
  /\ UNCHANGED <<at, osVars, ioVars, waiter, clean>>

Mutant_WatchSettled ==
  /\ Is("settled") /\ Watches("select", "off")
  /\ Set({"sinkCancelled"})
  /\ UNCHANGED <<at, osVars, ioVars, waiter, clean>>

WatchSettled ==
  /\ Is("settled") /\ Watches("select", "empty")
  /\ UNCHANGED <<at, osVars, ioVars, flag, waiter, clean>>

(* The root and the pipes are through; the Job is watched until it is      *)
(* empty, or blindly when it cannot be asked.                              *)
WatchEmpty ==
  /\ \/ /\ Empty /\ JobOpen
        /\ Watches("empty", "off")
        /\ Set({"sinkCancelled"})
     \/ Watches("empty", "blind") /\ UNCHANGED flag
  /\ UNCHANGED <<at, osVars, ioVars, waiter, clean>>

Watcher == WatchCancel \/ WatchGrace \/ WatchClosed \/ WatchSettled \/ WatchEmpty

----------------------------------------------------------------------------
(* cleanupProcess.  A round waits for an empty Job, then for the result of *)
(* the process; a second round follows when the Job did not get empty.     *)

Fails(f) == clean' = [clean EXCEPT !.fails = @ \cup f]

(* A root that is still alive is terminated; one that has exited may have  *)
(* left a worker, and a snapshot that fails counts as one.                 *)
BeginCleanup ==
  /\ at = "run"
  /\ at' = "empty"
  /\ \/ \E ok \in BOOLEAN :
          /\ Terminate(FALSE, {}, ok)
          /\ Fails(IF ok THEN {} ELSE {"terminate"})
     \/ /\ Is("exited") /\ ~Live("worker")
        /\ UNCHANGED <<proc, holds, flag, clean>>
  /\ UNCHANGED <<job, written, ioVars, waiter, watcher>>

RunOut ==
  /\ Budget /\ at \in {"empty", "stop", "wait"} /\ ~clean.out
  /\ clean' = [clean EXCEPT !.out = TRUE]
  /\ UNCHANGED <<at, osVars, ioVars, flag, waiter, watcher>>

(* WaitEmpty stops the readers only when it finds exited closed already.   *)
WaitEmpty ==
  /\ at = "empty" /\ Empty
  /\ at' = IF Is("exited") THEN "stop" ELSE "wait"
  /\ UNCHANGED <<osVars, ioVars, flag, waiter, watcher, clean>>

(* The Job was not empty before the budget ran out, or, at any time, it    *)
(* could not be asked.                                                     *)
WaitEmptyFails ==
  /\ at = "empty"
  /\ at' = "wait"
  /\ clean' = [clean EXCEPT !.empty = FALSE]
  /\ UNCHANGED <<osVars, ioVars, flag, waiter, watcher>>

(* stopReaders: a second for the readers, then their pipes are closed.     *)
StopReaders ==
  /\ at = "stop"
  /\ at' = "wait"
  /\ \/ AllDone /\ UNCHANGED flag
     \/ Set({"cut", "sinkCancelled"})
  /\ UNCHANGED <<osVars, ioVars, waiter, watcher, clean>>

(* Wait: a cancellation is no failure of the cleanup, a sink error is, and *)
(* so is the deadline of the last round.                                   *)
WaitResult ==
  IF Is("waitDone")
  THEN IF Is("waitErr") \/ (Is("sinkErr") /\ ~Is("sinkCancelErr")) THEN {"wait"} ELSE {}
  ELSE {"deadline"}

Wait ==
  /\ at = "wait" /\ (Is("waitDone") \/ clean.out)
  /\ clean.empty \/ clean.round = 2
  /\ at' = "close"
  /\ Fails(WaitResult \cup IF clean.empty THEN {} ELSE {"wait_empty"})
  /\ UNCHANGED <<osVars, ioVars, flag, waiter, watcher>>

ForceAgain ==
  /\ at = "wait" /\ (Is("waitDone") \/ clean.out)
  /\ ~clean.empty /\ clean.round = 1
  /\ at' = "empty"
  /\ \E ok \in BOOLEAN :
       /\ Terminate(FALSE, {}, ok)
       /\ clean' = [round |-> 2, out |-> FALSE, empty |-> TRUE,
                    fails |-> clean.fails \cup (WaitResult \ {"deadline"})
                                \cup IF ok THEN {} ELSE {"terminate"}]
  /\ UNCHANGED <<job, written, ioVars, waiter, watcher>>

Close ==
  /\ at = "close"
  /\ at' = "end"
  /\ CloseJob
  /\ Set({"closed"})
  /\ UNCHANGED <<written, ioVars, waiter, watcher, clean>>

Cleanup ==
  \/ WaitEmpty \/ WaitEmptyFails \/ StopReaders
  \/ Wait \/ ForceAgain \/ Close

----------------------------------------------------------------------------
Running == Processes \/ Readers \/ Waiter \/ Watcher \/ RunOut

MNext == Starter \/ Running \/ BeginCleanup \/ Cleanup

(* The scheduler runs every goroutine, a write or a read of a pipe returns,*)
(* and a sink returns once its context has ended (StreamSink).  Nothing is *)
(* assumed of the processes.                                               *)
MFairness ==
  /\ \A s \in Stream :
       /\ WF_mvars(Reads(s))
       /\ WF_mvars(Is("sinkCancelled") /\ Sinks(s))
  /\ WF_mvars(Waiter) /\ WF_mvars(Watcher)
  /\ WF_mvars(Starter) /\ WF_mvars(Cleanup) /\ WF_mvars(RunOut)

MSpec == MInit /\ [][MNext]_mvars /\ MFairness

----------------------------------------------------------------------------
MTypeOK ==
  /\ at \in {"job", "create", "assign", "resume", "undo", "failed", "run",
             "empty", "stop", "wait", "close", "end"}
  /\ proc \in [Proc -> {"none", "held", "alive", "dead"}]
  /\ job \in {"none", "open", "holds", "closed"}
  /\ holds \subseteq Proc
  /\ written \in 0..MaxLines
  /\ pipe \in [Stream -> 0..MaxLines]
  /\ reader \in [Stream -> {"off", "read", "sink", "done"}]
  /\ flag \subseteq Flags
  /\ waiter \in {"off", "root", "readers", "result"}
  /\ watcher \in {"off", "select", "grace", "empty", "blind"}
  /\ clean.fails \subseteq {"terminate", "wait", "deadline", "wait_empty"}

(* StartManaged: a process runs only inside its Job, so that it dies with  *)
(* it; a start that fails, and a cleanup that reports no failure, leave no *)
(* member of the tree behind.                                              *)
OwnedByItsJob ==
  /\ \A p \in Member : proc[p] = "alive" => job = "holds"
  /\ at = "failed" /\ ~Is("unkilled") => \A p \in Member : ~Live(p)
  /\ at = "close" /\ clean.fails = {} => Empty

(* Wait: a result without an error means that neither the sink nor the     *)
(* context has made the process kill its root (what the supervisor does    *)
(* with Terminate(1) it knows itself), that no line taken from a pipe was  *)
(* thrown away, and that every pipe was read to its end, with nobody left  *)
(* to write; or else stopReaders has closed them.  It does that at any     *)
(* time only when no member of the tree lives, so that what is lost was    *)
(* written by others, or was left by a sink that is slow.                  *)
WaitTellsTheTruth ==
  /\ Is("waitDone") /\ flag \cap {"sinkErr", "cancelErr", "waitErr"} = {} =>
       /\ ~Is("killed") /\ ~Is("dropped")
       /\ Is("cut") \/ (holds = {} /\ \A s \in Stream : pipe[s] = 0)
  /\ Is("cut") => \A p \in Member : ~Live(p)

(* The watcher: a context that ends while the Job is there kills the tree, *)
(* wherever the waiter, the readers and a cleanup are.                     *)
CancelKillsTheTree == Is("cancelled") ~> [](Empty \/ Is("unkilled"))

(* stopReaders: readers that were stopped let Wait return, whoever still   *)
(* holds the pipes and however slow the sink is.                           *)
StoppedReadersEnd == Is("cut") ~> Is("waitDone")

(* cleanupProcess ends, whoever holds the pipes, although WaitEmpty may    *)
(* have stopped no reader and the Job may never have got empty.            *)
CleanupEnds == at = "empty" ~> at = "end"

(* managed_windows.go says of stopReaders that a process that broke away   *)
(* and holds a write end cannot keep the supervision from ending: with an  *)
(* Job found empty a cleanup needs no budget.                              *)
EmptyJobEndsCleanup == at = "wait" /\ clean.empty ~> at # "wait"

(* The same comment: the pipes are closed because of a process that broke  *)
(* away.  If none holds them, and every reader is done or waits for its    *)
(* sink, nothing is left in them.                                          *)
SlowSinkLosesNothing ==
  [][ /\ ~Is("cut") /\ "cut" \in flag' /\ holds = {}
      /\ \A s \in Stream : reader[s] # "read"
      => \A s \in Stream : pipe[s] = 0 ]_mvars
=============================================================================
