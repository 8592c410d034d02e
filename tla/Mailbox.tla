------------------------------- MODULE Mailbox -------------------------------
(***************************************************************************)
(* The control channel of `backend supervise`, from the lines the host     *)
(* writes to stdin up to the channel the supervisor selects on:            *)
(*                                                                         *)
(*   ControlReader --Submit--> ControlMailbox --Receive--> forwarder       *)
(*                 --results--> supervisor                                 *)
(*                                                                         *)
(* The reader handles a line while it holds ControlReader.mu ("submit"),   *)
(* the mailbox is a bounded queue that records the first terminal command  *)
(* when it is accepted, and the forwarder is a goroutine with one command  *)
(* in its hands and a channel of capacity one behind it.                   *)
(*                                                                         *)
(* A command is its commandId, every identifier is read at most once: the  *)
(* ledger of the reader drops repetitions without any other effect.  The   *)
(* end of stdin, a read error and a warning that cannot be written all     *)
(* make the same implicit shutdown, which has no commandId.                *)
(***************************************************************************)
EXTENDS Naturals, Sequences, FiniteSets

CONSTANTS
  Status, Cancel, Shutdown,  \* the commands the host may write
  Eof,                       \* the implicit shutdown
  None,
  Capacity                   \* of the mailbox; 64 in the code

Command  == Status \cup Cancel \cup Shutdown \cup {Eof}
Terminal == Command \ Status
Item     == Command \cup {"error", "stopped"}   \* what the forwarder delivers

ASSUME MailboxAssumption ==
  /\ Capacity \in Nat \ {0}
  /\ None \notin Item
  /\ Command \cap {"error", "stopped"} = {}
  /\ Eof \notin Status \cup Cancel \cup Shutdown
  /\ Status \cap (Cancel \cup Shutdown) = {}
  /\ Cancel \cap Shutdown = {}

VARIABLES
  reader,         \* "reading", "submit" (holds mu), "eof" (does not), "done"
  line,           \* the command being submitted
  unread,         \* what the host may still write
  readerStopped,  \* ControlReader.stopped
  readerCtx,      \* readerContext is cancelled
  queue,          \* ControlMailbox.queue
  stopped,        \* ControlMailbox.stopped
  terminal,       \* ControlMailbox.terminal, hasTerm
  readerErr,      \* ControlMailbox.readerErr: "no", "pending", "reported"
  owed,           \* accepted status commands that have no answer yet
  forwarder,      \* "receive", "deliver", "done"
  parcel,         \* the item it delivers
  results,        \* the channel of capacity one
  forwarderCtx    \* forwarderCtx is cancelled

input   == <<reader, line, unread, readerStopped, readerCtx>>
mailbox == <<queue, stopped, terminal, readerErr>>
sender  == <<forwarder, parcel, forwarderCtx>>
channel == <<results, owed>>

MailboxInit ==
  /\ reader = "reading" /\ line = None
  /\ unread = Status \cup Cancel \cup Shutdown
  /\ readerStopped = FALSE /\ readerCtx = FALSE
  /\ queue = <<>> /\ stopped = FALSE /\ terminal = None /\ readerErr = "no"
  /\ owed = {} /\ results = None
  /\ forwarder = "receive" /\ parcel = None /\ forwarderCtx = FALSE

-----------------------------------------------------------------------------
(* The reader goroutine.                                                   *)

(* A shutdown stops the reader before it is submitted, unless a cancel was *)
(* accepted first: then later commands may still be routed.                *)
StopAfterShutdown(c) == c \in Shutdown /\ terminal \notin Cancel

ReadLine ==
  /\ reader = "reading" /\ ~readerStopped /\ ~readerCtx
  /\ \E c \in unread :
       /\ line' = c
       /\ unread' = unread \ {c}
       /\ readerStopped' = StopAfterShutdown(c)
  /\ reader' = "submit"
  /\ UNCHANGED <<readerCtx, mailbox, sender, channel>>

(* SubmitImplicitShutdown, after Run has returned.                         *)
InputEnds ==
  /\ reader = "reading" /\ ~readerStopped /\ ~readerCtx
  /\ reader' = "eof" /\ line' = Eof
  /\ UNCHANGED <<unread, readerStopped, readerCtx, mailbox, sender, channel>>

ReaderStops ==
  /\ reader = "reading"
  /\ readerStopped \/ readerCtx
  /\ reader' = "done"
  /\ UNCHANGED <<line, unread, readerStopped, readerCtx, mailbox, sender, channel>>

(* A panic while reading; SetReaderError.                                  *)
ReaderPanics ==
  /\ reader = "reading"
  /\ reader' = "done"
  /\ readerErr' = "pending"
  /\ UNCHANGED <<line, unread, readerStopped, readerCtx, queue, stopped,
                 terminal, sender, channel>>

Mutant_Latch(c) == IF c \in Terminal THEN c ELSE terminal

(* The first terminal command wins.                                        *)
Latch(c) == IF c \in Terminal /\ terminal = None THEN c ELSE terminal

(* Submit; a full queue blocks the reader, mu held.                        *)
Submit ==
  /\ reader \in {"submit", "eof"}
  /\ ~stopped /\ ~readerCtx
  /\ Len(queue) < Capacity
  /\ queue' = Append(queue, line)
  /\ terminal' = Latch(line)
  /\ stopped' = (line \in Terminal \ Cancel /\ terminal = None)
  /\ owed' = IF line \in Status THEN owed \cup {line} ELSE owed
  /\ reader' = IF reader = "eof" THEN "done" ELSE "reading"
  /\ line' = None
  /\ UNCHANGED <<unread, readerStopped, readerCtx, readerErr, results, sender>>

(* ErrControlStopped, or the context.  As an error of Run it would make an *)
(* implicit shutdown, which fails in the same way.                         *)
SubmitFails ==
  /\ reader \in {"submit", "eof"}
  /\ stopped \/ readerCtx
  /\ reader' = "done" /\ line' = None
  /\ UNCHANGED <<unread, readerStopped, readerCtx, mailbox, sender, channel>>

ReaderNext == ReadLine \/ InputEnds \/ ReaderStops \/ Submit \/ SubmitFails

-----------------------------------------------------------------------------
(* The forwarder goroutine.                                                *)

ReceiveCommand ==
  /\ forwarder = "receive" /\ queue # <<>>
  /\ parcel' = Head(queue) /\ queue' = Tail(queue)
  /\ forwarder' = "deliver"
  /\ UNCHANGED <<input, stopped, terminal, readerErr, channel, forwarderCtx>>

ReceiveReaderError ==
  /\ forwarder = "receive" /\ queue = <<>> /\ readerErr = "pending"
  /\ parcel' = "error" /\ readerErr' = "reported"
  /\ forwarder' = "deliver"
  /\ UNCHANGED <<input, queue, stopped, terminal, channel, forwarderCtx>>

Mutant_ReceiveStopped ==
  /\ forwarder = "receive" /\ stopped
  /\ parcel' = "stopped"
  /\ forwarder' = "deliver"
  /\ UNCHANGED <<input, mailbox, channel, forwarderCtx>>

(* A stopped mailbox still delivers what it has accepted.                  *)
ReceiveStopped ==
  /\ forwarder = "receive" /\ queue = <<>> /\ readerErr # "pending" /\ stopped
  /\ parcel' = "stopped"
  /\ forwarder' = "deliver"
  /\ UNCHANGED <<input, mailbox, channel, forwarderCtx>>

Deliver ==
  /\ forwarder = "deliver" /\ results = None
  /\ results' = parcel /\ parcel' = None
  /\ forwarder' = IF parcel \in Command THEN "receive" ELSE "done"
  /\ UNCHANGED <<input, mailbox, owed, forwarderCtx>>

ForwarderStops ==
  /\ forwarder \in {"receive", "deliver"} /\ forwarderCtx
  /\ forwarder' = "done" /\ parcel' = None
  /\ UNCHANGED <<input, mailbox, channel, forwarderCtx>>

ForwarderNext ==
  ReceiveCommand \/ ReceiveReaderError \/ ReceiveStopped \/ Deliver \/ ForwarderStops

-----------------------------------------------------------------------------
(* What the supervisor sees.                                               *)

Infra   == readerErr # "no"        \* controlInfrastructureError
Latched == terminal # None         \* terminalCommand

(* BeforeShutdown, BeforeControlClose: cancelReader, then                  *)
(* mailbox.StopAccepting, and only then reader.StopAccepting, which waits  *)
(* for mu.  The reader may sit on mu with a full queue before it.          *)
Mutant_StopMailbox ==
  /\ reader # "submit"
  /\ readerCtx' = TRUE /\ stopped' = TRUE
  /\ UNCHANGED <<reader, line, unread, readerStopped, queue, terminal,
                 readerErr, sender, channel>>

StopMailbox ==
  /\ readerCtx' = TRUE /\ stopped' = TRUE
  /\ UNCHANGED <<reader, line, unread, readerStopped, queue, terminal,
                 readerErr, sender, channel>>

StopReader ==
  /\ reader # "submit"
  /\ readerStopped' = TRUE
  /\ UNCHANGED <<reader, line, unread, readerCtx, mailbox, sender, channel>>

-----------------------------------------------------------------------------
(* In the channel, in the hands of the forwarder, or in front of one that  *)
(* will come back for it.                                                  *)
OnItsWay(c) ==
  \/ c \in {results, parcel}
  \/ /\ forwarder # "done" /\ parcel \in Command \cup {None}
     /\ \E i \in DOMAIN queue : queue[i] = c

MailboxTypeOK ==
  /\ reader \in {"reading", "submit", "eof", "done"}
  /\ line \in Command \cup {None}
  /\ (reader \in {"submit", "eof"}) <=> line # None
  /\ unread \subseteq Command
  /\ readerStopped \in BOOLEAN /\ readerCtx \in BOOLEAN /\ stopped \in BOOLEAN
  /\ queue \in Seq(Command) /\ Len(queue) <= Capacity
  /\ terminal \in Terminal \cup {None}
  /\ readerErr \in {"no", "pending", "reported"}
  /\ owed \subseteq Status
  /\ forwarder \in {"receive", "deliver", "done"}
  /\ parcel \in Item \cup {None}
  /\ (forwarder = "deliver") <=> parcel # None
  /\ results \in Item \cup {None}
  /\ forwarderCtx \in BOOLEAN
=============================================================================
