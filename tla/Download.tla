------------------------------- MODULE Download -------------------------------
(***************************************************************************)
(* The download of the archive of uv from one of the sources of module     *)
(* Rotation (mirror/downloader.go, downloader_client.go,                   *)
(* filesystem/download_files_windows.go, uv/bootstrap.go).                 *)
(*                                                                         *)
(* An attempt creates the .part file, asks the source, lets a goroutine    *)
(* read the body while the caller writes it, checks size and checksum,     *)
(* joins the goroutine and gives the file its final name.  A chunk is good *)
(* or not what it should be; the archive has Size good chunks.             *)
(***************************************************************************)
EXTENDS Rotation

CONSTANT Size
ASSUME SizeAssumption == Size \in Nat \ {0}

VARIABLES
  down,      \* where Download is
  declared,  \* Content-Length of the response
  sent,      \* chunks the goroutine has read from the body
  pump,      \* the goroutine: reading, offering or done
  chunk,     \* what it offers
  hash,      \* what was received: chunks, and whether all are good
  failure,   \* why the attempt fails, or "none"
  part,      \* the .part file, or None
  final,     \* the archive in the download cache, or None
  open       \* the handle of the .part file is open

body == <<declared, sent, pump, chunk, hash>>
disk == <<part, final, open>>
vars == <<rotVars, down, body, failure, disk>>

Empty == [n |-> 0, good |-> TRUE]
Whole == [n |-> Size, good |-> TRUE]
Append1(f, c) == [n |-> f.n + 1, good |-> f.good /\ c = "good"]

Fails(f, pc) == failure' = f /\ down' = pc
Step(pc) == down' = pc /\ UNCHANGED failure

-----------------------------------------------------------------------------
(* DownloadFiles.Begin                                                     *)

OutcomeOf(f) ==
  CASE f = "none" -> "succeeded" [] f = "checksum" -> "integrity"
    [] f = "progress" -> "target" [] OTHER -> "switch"

(* The attempt ends in Begin: there is no file to remove.                  *)
BeginFails ==
  /\ rot = "attempt" /\ kind = "uv" /\ down = "off"
  /\ part' \in (IF open THEN {part} ELSE {part, None})
  /\ Attempted(OutcomeOf("filesystem"))
  /\ UNCHANGED <<down, body, failure, final, open>>

(* A .part file of a process that died is deleted.  One that this process  *)
(* could not delete is still open and cannot be opened again.              *)
NewPart == Empty

Begin ==
  /\ rot = "attempt" /\ kind = "uv" /\ down = "off"
  /\ ~cancelled /\ final = None /\ ~open
  /\ part' = NewPart /\ open' = TRUE
  /\ Fails("none", "request")
  /\ UNCHANGED <<rotVars, body, final>>

(* doRequest: the answer is awaited until the connection times out or the  *)
(* command is cancelled; after that a late answer is closed or ignored.    *)
Answered ==
  /\ down = "request" /\ ~cancelled
  /\ declared' \in 1..Size
  /\ sent' = 0 /\ hash' = Empty /\ pump' = "off" /\ chunk' = "none"
  /\ Step("greet")
  /\ UNCHANGED <<rotVars, disk>>

(* No connection, a timeout, another status, no usable length.             *)
NotAnswered ==
  /\ down = "request"
  /\ Fails(IF cancelled THEN "cancelled" ELSE "network", "abort")
  /\ UNCHANGED <<rotVars, body, disk>>

(* progress(0), and readResponse starts the goroutine.                     *)
Greet ==
  /\ down = "greet"
  /\ \/ Step("read") /\ pump' = "reading"
     \/ Fails("progress", "abort") /\ UNCHANGED pump
  /\ UNCHANGED <<rotVars, declared, sent, chunk, hash, disk>>

-----------------------------------------------------------------------------
(* pumpBody: the response ends after Content-Length or with an error.      *)

PumpReads ==
  /\ pump = "reading" /\ down = "read"
  /\ \/ sent < declared /\ chunk' \in {"good", "bad"} /\ sent' = sent + 1
     \/ sent = declared /\ chunk' = "eof" /\ UNCHANGED sent
     \/ chunk' = "error" /\ UNCHANGED sent
  /\ pump' = "offering"
  /\ UNCHANGED <<rotVars, down, declared, hash, failure, disk>>

(* Once the request is cancelled and the body closed it stops.             *)
PumpStops ==
  /\ down = "join" /\ pump \in {"reading", "offering"}
  /\ pump' = "done"
  /\ UNCHANGED <<rotVars, down, declared, sent, chunk, hash, failure, disk>>

-----------------------------------------------------------------------------
(* readResponse                                                            *)

Taken == pump' = IF chunk \in {"good", "bad"} THEN "reading" ELSE "done"

(* Written to the file and hashed, then the progress is reported.          *)
TakeData ==
  /\ down = "read" /\ pump = "offering" /\ chunk \in {"good", "bad"} /\ ~cancelled
  /\ \/ /\ hash' = Append1(hash, chunk) /\ part' = Append1(part, chunk)
        /\ Step("read") \/ Fails("progress", "join")
     \/ Fails("filesystem", "join") /\ UNCHANGED <<hash, part>>
  /\ Taken
  /\ UNCHANGED <<rotVars, declared, sent, chunk, final, open>>

Mutant_Mismatch ==
  CASE hash.n # declared -> "size" [] OTHER -> "none"

(* The checks after the last chunk.                                        *)
Mismatch ==
  CASE hash.n # declared -> "size" [] hash # Whole -> "checksum" [] OTHER -> "none"

TakeEnd ==
  /\ down = "read" /\ pump = "offering" /\ chunk \in {"eof", "error"} /\ ~cancelled
  /\ Fails(IF chunk = "error" THEN "network" ELSE Mismatch, "join")
  /\ Taken
  /\ UNCHANGED <<rotVars, declared, sent, chunk, hash, disk>>

Mutant_ReadEnds ==
  /\ down = "read" /\ cancelled
  /\ Fails("cancelled", "join")
  /\ UNCHANGED <<rotVars, body, disk>>

(* The read timer, or the end of the context.                              *)
ReadEnds ==
  /\ down = "read"
  /\ Fails(IF cancelled THEN "cancelled" ELSE "network", "join")
  /\ UNCHANGED <<rotVars, body, disk>>

(* cancel, Body.Close, which may report an error, and <-pumpDone.          *)
Joined ==
  /\ down = "join" /\ pump = "done"
  /\ \/ failure = "none" /\ Step("publish")
     \/ failure = "none" /\ Fails("network", "abort")
     \/ failure # "none" /\ Step("abort")
  /\ UNCHANGED <<rotVars, body, disk>>

-----------------------------------------------------------------------------
(* DownloadSession                                                         *)

(* PublishNoReplace.  Errors after the rename leave a published archive,   *)
(* which counts as a success.                                              *)
Publish ==
  /\ down = "publish" /\ ~cancelled /\ final = None
  /\ final' = part /\ part' = None /\ open' = FALSE
  /\ Step("off")
  /\ Attempted("succeeded")
  /\ UNCHANGED body

PublishFails ==
  /\ down = "publish"
  /\ Fails("filesystem", "abort")
  /\ UNCHANGED <<rotVars, body, disk>>

(* Abort; when the deletion fails the handle stays open.                   *)
Abort ==
  /\ down = "abort"
  /\ \/ part' = None /\ open' = FALSE
     \/ UNCHANGED <<part, open>>
  /\ Step("off")
  /\ Attempted(OutcomeOf(failure))
  /\ UNCHANGED <<body, final>>

-----------------------------------------------------------------------------
(* A process starts: with an archive in the cache it does not download uv. *)
Run ==
  /\ \E k \in Kind : Start(k) /\ (k = "uv" => final = None)
  /\ down' = "off" /\ open' = FALSE
  /\ declared' = 0 /\ sent' = 0 /\ pump' = "off" /\ chunk' = "none" /\ hash' = Empty
  /\ failure' = "none"
  /\ UNCHANGED <<part, final>>

Die ==
  /\ rot # "idle"
  /\ rot' = "idle" /\ result' = "none" /\ down' = "off" /\ pump' = "off" /\ open' = FALSE
  /\ UNCHANGED <<kind, ranking, trying, cancelled, declared, sent, chunk, hash, failure, part, final>>

(* The archive is used and removed, or its checksum is found wrong.        *)
Discard ==
  /\ rot = "idle" /\ final # None
  /\ final' = None
  /\ UNCHANGED <<rotVars, down, body, failure, part, open>>

Rotating == UNCHANGED <<down, body, failure, disk>>

Init ==
  /\ RotInit
  /\ down = "off" /\ declared = 0 /\ sent = 0 /\ pump = "off" /\ chunk = "none"
  /\ hash = Empty /\ failure = "none" /\ part = None /\ final = None /\ open = FALSE

Transfer ==
  \/ BeginFails \/ Begin \/ Answered \/ NotAnswered \/ Greet
  \/ TakeData \/ TakeEnd \/ ReadEnds \/ Joined \/ Publish \/ PublishFails \/ Abort

Next ==
  \/ (\E s \in Source : ProbeEnds(s)) /\ Rotating
  \/ Rotate /\ Rotating
  \/ Transfer \/ PumpReads \/ PumpStops
  \/ Cancel /\ Rotating
  \/ Run \/ Die \/ Discard

(* The caller goes on: each of its waits has a timer.  A probe ends when   *)
(* its context does, and the pump stops when its request is cancelled.     *)
Fairness ==
  /\ WF_vars(Rotate /\ Rotating) /\ WF_vars(Transfer) /\ WF_vars(PumpStops)
  /\ \A s \in Source : WF_vars((~budget \/ cancelled) /\ ProbeEnds(s) /\ Rotating)

Spec == Init /\ [][Next]_vars /\ Fairness

-----------------------------------------------------------------------------
File == [n : 0..Size, good : BOOLEAN]

TypeOK ==
  /\ RotTypeOK
  /\ part \in File \cup {None} /\ final \in File \cup {None} /\ hash \in File
  /\ pump \in {"reading", "offering"} => down \in {"read", "join"}
  /\ down \in {"read", "join", "publish"} => open /\ part = hash

(* A file that has the final name is the whole archive, whichever attempts *)
(* failed, were cancelled or died before, and whatever their sources sent. *)
PublishedIsWhole == final \in {None, Whole}

(* What a run that ends says of uv is what it leaves: a success its        *)
(* archive, a failure no archive; only the error of the reporter can come  *)
(* with one.                                                               *)
ResultIsTrue ==
  [][rot # "idle" /\ rot' = "idle" /\ kind = "uv" =>
       /\ result' = "succeeded" => final' = Whole
       /\ result' \in {"cancelled", "integrity", "exhausted", "target"} => final' = None]_vars

(* Every run ends, also when a server stops sending, never answers, or a   *)
(* cancellation comes in the middle.                                       *)
EveryRunEnds == rot # "idle" ~> rot = "idle"
=============================================================================
