------------------------------ MODULE Session -------------------------------
(***************************************************************************)
(* One command of the Runtime as its host sees it: runOperationSession     *)
(* with its output (protocol.ProcessOutput), the reader of control lines   *)
(* on stdin (protocol.ControlReader with workspaceControl), the operation  *)
(* log and the exit code.  The reader and the command share the context,   *)
(* the output and the control; other processes share the log files.        *)
(***************************************************************************)
EXTENDS Logs, Sequences

CONSTANTS
  Me,        \* this process, of Process
  Id,        \* command ids of the host
  MaxLines,  \* bound: control lines of the host
  MaxEvents, \* bound: progress and warning events of the command
  Entries    \* bound: entries every process logs

ASSUME MeAssumption == Me \in Process
ASSUME LinesAssumption == MaxLines \in Nat

VARIABLES
  main,    \* the goroutine of the command
  reader,  \* ControlReader.Run and the goroutine around it
  control, \* workspaceControl and the lock of the ControlReader
  ctx,     \* what is cancelled: "host" (the process), "operation"
  stdin,   \* the lines the host still sends
  output,  \* ProcessOutput
  wire,    \* the events that reached the host
  pipe,    \* whether stdout can be written
  written  \* entries each process has logged or tried to

comm == <<output, wire>>
svars == <<main, reader, control, ctx, stdin, output, wire, pipe, written>>

(* A control line: what the host asks for, with the id of the request.     *)
ControlLine == ({"cancel", "other"} \X Id) \cup {<<"invalid", None>>}

Codes == {"OUTPUT", "CONTROL", "COMMITTED", "CANCELLED", "BUSINESS"}

STypeOK ==
  /\ main.at \in {"hello", "begin", "run", "leave", "settle", "stop", "answer",
                  "record", "error", "result", "done"}
  /\ main.errs \subseteq Codes
  /\ main.exit \in Codes \cup {"none", "ok", "PRECONDITION"}
  /\ main.id \in Id \cup {None} /\ control.id \in Id \cup {None}
  /\ reader.at \in {"off", "top", "read", "take", "dispatch", "report", "ended"}
  /\ control.fault \subseteq {"CONTROL", "OUTPUT"}
  /\ ctx \subseteq {"host", "operation"}
  /\ output.next = Len(wire) + 1

Unstarted ==
  [at |-> "hello",
   controlled |-> TRUE,  \* runOperationWithStdinCancel
   events |-> 0,
   errs |-> {},          \* the errors joined so far
   id |-> None,          \* controlCommandId of the details
   logged |-> FALSE,     \* deps.opLog is bound
   told |-> FALSE,       \* the failure is in the operation log
   exit |-> "none"]

Uncontrolled ==
  [stopped |-> FALSE, locked |-> FALSE,
   id |-> None,          \* of the cancel that was accepted
   fault |-> {},
   seen |-> {}]          \* the ledger of command ids

SInit ==
  /\ main = Unstarted
  /\ reader = [at |-> "off", line |-> None]
  /\ control = Uncontrolled
  /\ ctx = {}
  /\ stdin \in UNION {[1..n -> ControlLine] : n \in 0..MaxLines}
  /\ output = [terminal |-> FALSE, broken |-> FALSE, next |-> 1, warnings |-> 0]
  /\ wire = <<>>
  /\ pipe = TRUE
  /\ written = [p \in Process |-> 0]

----------------------------------------------------------------------------
(* Emitter.emit, EmitWarning and EmitResult under the lock of the output:  *)
(* what is refused, what breaks the output for good, what is numbered and  *)
(* sent.  said is what the caller gets.                                    *)
Refused == output.terminal \/ output.broken

Event(type, extra) == [type |-> type, sequence |-> output.next, extra |-> extra]

(* NDJSONRenderer.render: a whole line, written and flushed                *)
Render(event) == wire' = Append(wire, event)

Emit(event, said) ==
  \/ /\ Refused /\ said = "refused"
     /\ UNCHANGED comm
  \/ /\ ~Refused /\ ~pipe /\ said = "failed"
     /\ output' = [output EXCEPT !.broken = TRUE]
     /\ UNCHANGED wire
  \/ /\ ~Refused /\ pipe /\ said = "ok"
     /\ output' = [output EXCEPT !.next = @ + 1,
                                 !.terminal = event.type = "result",
                                 !.warnings = IF event.type = "warning" THEN @ + 1 ELSE @]
     /\ Render(event)

Goes(at) == main' = [main EXCEPT !.at = at]

(* findOperationErrorCode and its like in classifyFailure: a fault of the  *)
(* output, then of the control channel, then a committed change, then a    *)
(* cancellation, then the error of the command.                            *)
Rank(code) ==
  CASE code = "OUTPUT" -> 1 [] code = "CONTROL" -> 2 [] code = "COMMITTED" -> 3
    [] code = "CANCELLED" -> 4 [] code = "BUSINESS" -> 5
classifyFailure(errs) == CHOOSE c \in errs : \A d \in errs : Rank(c) <= Rank(d)

----------------------------------------------------------------------------
(* The command. *)

Hello ==
  /\ main.at = "hello"
  /\ \E said \in {"ok", "failed"}, c \in BOOLEAN :
       /\ Emit(Event("hello", None), said)
       /\ main' = IF said = "ok" THEN [main EXCEPT !.at = "begin", !.controlled = c]
                  ELSE [main EXCEPT !.at = "done", !.exit = "PRECONDITION"]
  /\ UNCHANGED <<reader, control, ctx, stdin, pipe, written, lvars>>

(* The reader starts with the operation, unless the process is cancelled.  *)
Start ==
  /\ main.at = "begin"
  /\ IF ctx # {}
     THEN /\ main' = [main EXCEPT !.at = "record", !.errs = {"CANCELLED"}]
          /\ UNCHANGED reader
     ELSE /\ Goes("run")
          /\ reader' = IF main.controlled THEN [reader EXCEPT !.at = "top"] ELSE reader
  /\ UNCHANGED <<control, ctx, stdin, output, wire, pipe, written, lvars>>

Free == main.at = "run" /\ Rests(Me)

(* Progress and warnings of the command; one that fails ends it.           *)
RunEmits ==
  /\ Free /\ main.events < MaxEvents
  /\ \E type \in {"progress", "warning"}, said \in {"ok", "failed", "refused"} :
       /\ Emit(Event(type, None), said)
       /\ main' = [main EXCEPT !.events = @ + 1,
                               !.at = IF said = "ok" THEN @ ELSE "leave",
                               !.errs = IF said = "ok" THEN @ ELSE @ \cup {"OUTPUT"}]
  /\ UNCHANGED <<reader, control, ctx, stdin, pipe, written, lvars>>

(* openM5Logger: the binding is set when New returns a logger.             *)
RunOpensLog ==
  /\ Free /\ New(Me)
  /\ UNCHANGED svars

Bind ==
  /\ Free /\ log[Me].at \in {"idle", "closed"} /\ ~main.logged
  /\ main' = IF log[Me].at = "idle" THEN [main EXCEPT !.logged = TRUE]
             ELSE [main EXCEPT !.at = "leave", !.errs = @ \cup {"BUSINESS"}]
  /\ UNCHANGED <<reader, control, ctx, stdin, output, wire, pipe, written, lvars>>

RunRecords ==
  /\ Free /\ main.logged /\ written[Me] < Entries
  /\ Record(Me)
  /\ written' = [written EXCEPT ![Me] = @ + 1]
  /\ UNCHANGED <<main, reader, control, ctx, stdin, output, wire, pipe>>

(* The command returns: well, with an error of its own before or after its *)
(* commit point, by a panic (a BUSINESS error too), or cancelled.          *)
RunEnds ==
  /\ Free /\ (log[Me].at = "off" \/ main.logged)
  /\ \E errs \in {{}, {"BUSINESS"}, {"COMMITTED"}, {"CANCELLED"}, {"COMMITTED", "CANCELLED"}} :
       /\ "CANCELLED" \in errs => ctx # {}
       /\ main' = [main EXCEPT !.at = "leave", !.errs = @ \cup errs]
  /\ UNCHANGED <<reader, control, ctx, stdin, output, wire, pipe, written, lvars>>

(* The deferred Close of the logger runs before the command has returned.  *)
Leave ==
  /\ main.at = "leave"
  /\ IF log[Me].at = "idle" THEN Close(Me) ELSE UNCHANGED lvars
  /\ Goes(IF main.controlled THEN "settle" ELSE "answer")
  /\ UNCHANGED <<reader, control, ctx, stdin, output, wire, pipe, written>>

Settle ==
  /\ main.at = "settle"
  /\ ctx' = ctx \cup {"operation"}
  /\ Goes("stop")
  /\ UNCHANGED <<reader, control, stdin, output, wire, pipe, written, lvars>>

Mutant_StopAccepting ==
  /\ main.at = "stop"
  /\ control' = [control EXCEPT !.stopped = TRUE]
  /\ Goes("answer")
  /\ UNCHANGED <<reader, ctx, stdin, output, wire, pipe, written, lvars>>

(* ControlReader.StopAccepting waits for the line that is being handled.   *)
(* stopWorkspaceControl does not join a reader of the real stdin.          *)
StopAccepting ==
  /\ main.at = "stop"
  /\ ~control.locked
  /\ control' = [control EXCEPT !.stopped = TRUE]
  /\ Goes("answer")
  /\ UNCHANGED <<reader, ctx, stdin, output, wire, pipe, written, lvars>>

(* The fault of the reader joins the error, the id of the accepted command *)
(* goes into the details of whatever the result will be.                   *)
Answer ==
  /\ main.at = "answer"
  /\ LET errs == main.errs \cup control.fault IN
     main' = [main EXCEPT !.errs = errs, !.id = control.id,
                          !.at = IF errs = {} THEN "result" ELSE "record"]
  /\ UNCHANGED <<reader, control, ctx, stdin, output, wire, pipe, written, lvars>>

(* emitFailure: recordOperationFailure first.  A logger that is closed     *)
(* answers ErrClosed, which is ignored.                                    *)
RecordFailure ==
  /\ main.at = "record"
  /\ main' = [main EXCEPT !.at = "error", !.told = main.logged /\ log[Me].at = "idle"]
  /\ UNCHANGED <<reader, control, ctx, stdin, output, wire, pipe, written, lvars>>

EmitError ==
  /\ main.at = "error"
  /\ \E said \in {"ok", "failed", "refused"} :
       /\ Emit(Event("error", None), said)
       /\ main' = IF said = "ok" THEN [main EXCEPT !.at = "result"]
                  ELSE [main EXCEPT !.at = "done", !.exit = classifyFailure(main.errs)]
  /\ UNCHANGED <<reader, control, ctx, stdin, pipe, written, lvars>>

(* ProcessOutput.resultDetails over the details of the command             *)
resultDetails ==
  [success |-> main.errs = {}, warnings |-> output.warnings, id |-> main.id]

(* The result carries the warnings so far.  One that cannot be written     *)
(* takes the reservation back and turns a success into a failure.          *)
EmitResult ==
  /\ main.at = "result"
  /\ \E said \in {"ok", "failed", "refused"} :
       /\ Emit(Event("result", resultDetails), said)
       /\ main' = [main EXCEPT !.at = "done",
                    !.exit = IF main.errs # {} THEN classifyFailure(main.errs)
                             ELSE IF said = "ok" THEN "ok" ELSE "PRECONDITION"]
  /\ UNCHANGED <<reader, control, ctx, stdin, pipe, written, lvars>>

----------------------------------------------------------------------------
(* The reader of control lines. *)

ReaderTop ==
  /\ reader.at = "top" /\ ~control.locked
  /\ reader' = [reader EXCEPT !.at = IF control.stopped \/ ctx # {} THEN "ended" ELSE "read"]
  /\ UNCHANGED <<main, control, ctx, stdin, output, wire, pipe, written, lvars>>

(* The read that blocks: a line, the end of stdin or a fault.              *)
ReaderReads ==
  /\ reader.at = "read"
  /\ \/ /\ stdin # <<>>
        /\ reader' = [at |-> "take", line |-> Head(stdin)]
        /\ stdin' = Tail(stdin)
     \/ /\ stdin = <<>>
        /\ \E end \in {"eof", "fault"} : reader' = [at |-> "take", line |-> <<end>>]
        /\ UNCHANGED stdin
  /\ UNCHANGED <<main, control, ctx, output, wire, pipe, written, lvars>>

(* With the lock: what was stopped or cancelled in the meantime drops the  *)
(* line.                                                                   *)
ReaderTakes ==
  /\ reader.at = "take" /\ ~control.locked
  /\ LET dropped == control.stopped \/ ctx # {} \/ reader.line = <<"eof">> IN
     /\ reader' = [reader EXCEPT !.at = IF dropped THEN "ended"
                                        ELSE IF reader.line = <<"fault">> THEN "report"
                                        ELSE "dispatch"]
     /\ control' = [control EXCEPT !.locked = ~dropped /\ reader.line # <<"fault">>]
  /\ UNCHANGED <<main, ctx, stdin, output, wire, pipe, written, lvars>>

Kind == reader.line[1]
Key == reader.line[2]
Known == \E l \in control.seen : l[2] = Key
Accepted == Kind = "cancel" /\ ~Known

(* dispatch of a cancel that is new: PrepareControl and its action.        *)
Accept ==
  /\ reader.at = "dispatch" /\ Accepted
  /\ control' = [control EXCEPT !.id = IF @ = None THEN Key ELSE @,
                                !.seen = @ \cup {reader.line}, !.locked = FALSE]
  /\ ctx' = ctx \cup {"operation"}
  /\ reader' = [reader EXCEPT !.at = "top"]
  /\ UNCHANGED <<main, stdin, output, wire, pipe, written, lvars>>

(* The same command again is ignored.                                      *)
Repeat ==
  /\ reader.at = "dispatch" /\ Kind # "invalid" /\ reader.line \in control.seen
  /\ control' = [control EXCEPT !.locked = FALSE]
  /\ reader' = [reader EXCEPT !.at = "top"]
  /\ UNCHANGED <<main, ctx, stdin, output, wire, pipe, written, lvars>>

(* Anything else is answered with a warning: a line that is no command, a  *)
(* command this operation does not take, an id used for another command.   *)
Reject ==
  /\ reader.at = "dispatch" /\ ~Accepted
  /\ ~(Kind # "invalid" /\ reader.line \in control.seen)
  /\ \E said \in {"ok", "failed", "refused"} :
       /\ Emit(Event("warning", None), said)
       /\ reader' = [reader EXCEPT !.at = IF said = "ok" THEN "top" ELSE "report"]
  /\ control' = [control EXCEPT !.locked = FALSE,
                   !.seen = IF Kind = "invalid" \/ Known THEN @ ELSE @ \cup {reader.line}]
  /\ UNCHANGED <<main, ctx, stdin, pipe, written, lvars>>

(* The goroutine around Run notes an error (of stdin, or of the output     *)
(* that did not take a warning) and cancels the operation.                 *)
ReaderReports ==
  /\ reader.at = "report"
  /\ control' = [control EXCEPT !.fault = {IF reader.line = <<"fault">> THEN "CONTROL"
                                            ELSE "OUTPUT"}]
  /\ ctx' = ctx \cup {"operation"}
  /\ reader' = [reader EXCEPT !.at = "ended"]
  /\ UNCHANGED <<main, stdin, output, wire, pipe, written, lvars>>

----------------------------------------------------------------------------
(* The host closes the pipe or interrupts the process, other processes log.*)
BreakPipe ==
  /\ pipe /\ pipe' = FALSE
  /\ UNCHANGED <<main, reader, control, ctx, stdin, output, wire, written, lvars>>

Interrupt ==
  /\ "host" \notin ctx
  /\ ctx' = ctx \cup {"host"}
  /\ UNCHANGED <<main, reader, control, stdin, output, wire, pipe, written, lvars>>

Others ==
  \/ \E p \in Process :
       /\ p # Me /\ (New(p) \/ Close(p))
       /\ UNCHANGED svars
  \/ \E p \in Process :
       /\ p # Me /\ written[p] < Entries /\ Record(p)
       /\ written' = [written EXCEPT ![p] = @ + 1]
       /\ UNCHANGED <<main, reader, control, ctx, stdin, output, wire, pipe>>

Logging ==
  \/ \E p \in Process : Works(p) /\ UNCHANGED svars
  \/ Midnight /\ UNCHANGED svars

Ended == main.at = "done" /\ UNCHANGED <<svars, lvars>>

Init == SInit /\ LInit

Main ==
  \/ Hello \/ Start \/ RunEmits \/ RunOpensLog \/ Bind \/ RunRecords \/ RunEnds
  \/ Leave \/ Settle \/ StopAccepting \/ Answer \/ RecordFailure \/ EmitError
  \/ EmitResult

Reader ==
  ReaderTop \/ ReaderReads \/ ReaderTakes \/ Accept \/ Repeat \/ Reject \/ ReaderReports

Next == Main \/ Reader \/ BreakPipe \/ Interrupt \/ Others \/ Logging \/ Ended

Spec == Init /\ [][Next]_<<svars, lvars>>
----------------------------------------------------------------------------
(* What the host reads is whole: numbered without a gap, with at most one  *)
(* result and nothing after it, and as long as stdout can be written there *)
(* is one.  The result counts every warning the host has read and names    *)
(* the cancel that was accepted, even one that is accepted while the       *)
(* command returns; a failure is announced by an error event, and the exit *)
(* code is 0 exactly if a successful result has been written.              *)
AnswerIsWhole ==
  LET Of(type) == {i \in DOMAIN wire : wire[i].type = type} IN
  /\ \A i \in DOMAIN wire : wire[i].sequence = i
  /\ \A i \in Of("result") :
       /\ i = Len(wire)
       /\ wire[i].extra.warnings = Cardinality(Of("warning"))
       /\ wire[i].extra.id = control.id
       /\ wire[i].extra.success <=> Of("error") = {}
  /\ main.at = "done" =>
       /\ pipe => Of("result") # {}
       /\ main.exit = "ok" <=> \E i \in Of("result") : wire[i].extra.success

(* A command that fails after its log was opened leaves a record of the    *)
(* failure in that log.  (RecordFailure comes after the Close in Leave.)   *)
FailureIsRecorded ==
  main.at = "done" /\ main.logged /\ main.exit \in Codes => main.told
=============================================================================
