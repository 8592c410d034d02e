-------------------------------- MODULE Chunks --------------------------------
(***************************************************************************)
(* The engine of the loopback relay (relay/fetch.go, chunk.go): one file   *)
(* is fetched in pieces from several upstreams at the same time, one       *)
(* worker goroutine for each of them, and if that does not work as one     *)
(* stream from one upstream after the other.                               *)
(*                                                                         *)
(* The workers share a plan under a lock: the stack of pieces nobody works *)
(* on, what each worker has in flight, who failed and who is slow.  Each   *)
(* section under that lock is a step of its own.  A worker that is too     *)
(* slow is cancelled by another one and puts the rest of its piece back.   *)
(*                                                                         *)
(* The file has Units units; what was written at an offset is good, bad    *)
(* or nothing.  The order of the upstreams and the strikes against them    *)
(* outlive the file.                                                       *)
(***************************************************************************)
EXTENDS Naturals, Sequences, FiniteSets, SequencesExt

CONSTANTS
  Upstream,        \* the upstreams of the route
  Listed,          \* their order at the start
  Units,           \* length of a file
  PieceLen,        \* length of a piece (ChunkSize)
  MaxChunks,       \* workers for one file (MaxChunksPerFile)
  None             \* no piece

ASSUME UpstreamsAssumption ==
  Listed \in Seq(Upstream) /\ IsInjective(Listed) /\ ToSet(Listed) = Upstream
ASSUME SizesAssumption == {Units, PieceLen, MaxChunks} \subseteq Nat \ {0}

VARIABLES
  order,       \* upstreams of the engine, in the order they are tried
  strikes,     \* checksum mismatches of each of them
  phase,       \* where engine.download is
  registered,  \* the checksum of the file is known
  range,       \* upstreams that accept ranges
  wrong,       \* upstreams that have another file under this name
  pending,     \* stack of pieces, its top is the last one
  work,        \* the worker of each upstream
  failed,      \* upstreams that failed this file
  slow,        \* upstreams that were found too slow for it
  staged,      \* the .part file
  target,      \* the file that is served
  ctxDone      \* the context of the relay

engine == <<order, strikes>>
file == <<registered, range, wrong>>
plan == <<pending, work, failed, slow>>
chunksVars == <<engine, phase, file, plan, staged, target, ctxDone>>

Unit == 1..Units
Piece == [first : Unit, last : Unit]
Length(p) == p.last - p.first + 1
UnitsOf(p) == p.first..p.last
Blank == [u \in Unit |-> "none"]
Idle == [pc |-> "off", piece |-> None, got |-> 0, lead |-> 0, did |-> FALSE, ok |-> FALSE,
         cut |-> FALSE, woken |-> FALSE]

In(s, pcs) == work[s].pc \in pcs
Flying(s) == In(s, {"fetch", "return"})                    \* in plan.inflight
Notified(w) == [s \in Upstream |-> [w[s] EXCEPT !.woken = TRUE]]

(* The pieces of the whole file, the first one on top.                     *)
Pieces ==
  LET n == (Units + PieceLen - 1) \div PieceLen
      Upto(i) == IF i * PieceLen > Units THEN Units ELSE i * PieceLen
  IN Reverse([i \in 1..n |-> [first |-> (i - 1) * PieceLen + 1, last |-> Upto(i)]])

-----------------------------------------------------------------------------
(* rangeSources                                                            *)
Ranging == SelectSeq(order, LAMBDA s : s \in range /\ s \notin failed)
Fast == SelectSeq(Ranging, LAMBDA s : s \notin slow)
Chosen ==
  LET sources == IF Fast # <<>> THEN Fast ELSE Ranging
  IN {sources[i] : i \in {j \in DOMAIN sources : j <= MaxChunks}}

(* demoteUpstream                                                          *)
Demoted(o, s) ==
  IF s \in ToSet(o) THEN Append(SelectSeq(o, LAMBDA t : t # s), s) ELSE o

(* engine.download: with two upstreams that accept ranges in pieces.       *)
Fetch ==
  /\ phase = "idle"
  /\ registered' \in BOOLEAN
  /\ range' \in SUBSET Upstream /\ wrong' \in SUBSET Upstream
  /\ LET chunked == Cardinality(range' \cap ToSet(order)) >= 2
     IN /\ phase' = (IF chunked THEN "round" ELSE "single")
        /\ pending' = (IF chunked THEN Pieces ELSE <<>>)
  /\ work' = [s \in Upstream |-> Idle]
  /\ failed' = {} /\ slow' = {} /\ staged' = Blank /\ target' = None
  /\ UNCHANGED <<engine, ctxDone>>

(* The .part file cannot be opened or made as large as the file.           *)
StagingFails ==
  /\ phase = "round" /\ staged = Blank /\ failed = {} /\ slow = {}
  /\ phase' = "single" /\ pending' = <<>>
  /\ UNCHANGED <<engine, file, work, failed, slow, staged, target, ctxDone>>

Mutant_StartRound ==
  /\ phase = "round" /\ pending # <<>> /\ Chosen # {}
  /\ work' = [s \in Upstream |-> IF s \in Chosen THEN [Idle EXCEPT !.pc = "pop"] ELSE Idle]
  /\ phase' = "workers"
  /\ UNCHANGED <<engine, file, pending, failed, slow, staged, target, ctxDone>>

StartRound ==
  /\ phase = "round" /\ pending # <<>> /\ ~ctxDone /\ Chosen # {}
  /\ work' = [s \in Upstream |-> IF s \in Chosen THEN [Idle EXCEPT !.pc = "pop"] ELSE Idle]
  /\ phase' = "workers"
  /\ UNCHANGED <<engine, file, pending, failed, slow, staged, target, ctxDone>>

EndRound ==
  /\ phase = "workers" /\ \A s \in Upstream : In(s, {"off"})
  /\ phase' = "round"
  /\ UNCHANGED <<engine, file, plan, staged, target, ctxDone>>

-----------------------------------------------------------------------------
(* chunkWorker                                                             *)

Set(s, w) == work' = [work EXCEPT ![s] = w]
Becomes(s, pc) == Set(s, [work[s] EXCEPT !.pc = pc])
ByWorkers == UNCHANGED <<phase, file, target, ctxDone>>

Leave(s) ==
  /\ In(s, {"pop"}) /\ ctxDone
  /\ Becomes(s, "off")
  /\ ByWorkers /\ UNCHANGED <<engine, pending, failed, slow, staged>>

(* pop and begin                                                           *)
Pop(s) ==
  /\ In(s, {"pop"}) /\ ~ctxDone /\ pending # <<>>
  /\ Set(s, [work[s] EXCEPT !.pc = "fetch", !.piece = Last(pending), !.got = 0,
                            !.lead = 0, !.cut = FALSE])
  /\ pending' = Front(pending)
  /\ ByWorkers /\ UNCHANGED <<engine, failed, slow, staged>>

(* demoteTailLaggard: less than half of its piece.  Whether it has been in *)
(* flight long enough is up to the clock.                                  *)
Laggards(s) ==
  {k \in Upstream \ ({s} \cup slow) : Flying(k) /\ work[k].got * 2 < Length(work[k].piece)}

MayTakeOver(s) == work[s].did /\ Laggards(s) # {}

NothingLeft(s) ==
  /\ In(s, {"pop"}) /\ ~ctxDone /\ pending = <<>>
  /\ s \in slow \/ ~(\E k \in Upstream \ {s} : Flying(k)) \/ ~MayTakeOver(s)
  /\ Becomes(s, "off")
  /\ ByWorkers /\ UNCHANGED <<engine, pending, failed, slow, staged>>

TakeOver(s) ==
  /\ In(s, {"pop"}) /\ ~ctxDone /\ pending = <<>> /\ s \notin slow /\ MayTakeOver(s)
  /\ \E k \in Laggards(s) :
       /\ work' = [work EXCEPT ![s].pc = "listen", ![k].cut = TRUE]
       /\ slow' = slow \cup {k}
  /\ ByWorkers /\ UNCHANGED <<engine, pending, failed, staged>>

(* The laggard is too young: awaitChangeOrTimeout, then once more.         *)
NotYet(s) ==
  /\ In(s, {"pop"}) /\ ~ctxDone /\ pending = <<>> /\ s \notin slow /\ MayTakeOver(s)
  /\ UNCHANGED chunksVars

(* awaitChange reads the channel that is closed by the next change ...     *)
Listen(s) ==
  /\ In(s, {"listen"})
  /\ Set(s, [work[s] EXCEPT !.pc = "await", !.woken = FALSE])
  /\ ByWorkers /\ UNCHANGED <<engine, pending, failed, slow, staged>>

(* ... and waits for it, or for the end of the context.                    *)
Awake(s) ==
  /\ In(s, {"await"})
  /\ \/ work[s].woken /\ Becomes(s, "pop")
     \/ ctxDone /\ Becomes(s, "off")

Wakes(s) == Awake(s) /\ ByWorkers /\ UNCHANGED <<engine, pending, failed, slow, staged>>

-----------------------------------------------------------------------------
(* fetchChunk                                                              *)

Content(s) == IF s \in wrong THEN "bad" ELSE "good"

Receive(s) ==
  /\ In(s, {"fetch"}) /\ work[s].got < Length(work[s].piece)
  /\ staged' = [staged EXCEPT ![work[s].piece.first + work[s].got] = Content(s)]
  /\ Set(s, [work[s] EXCEPT !.got = @ + 1])
  /\ ByWorkers /\ UNCHANGED <<engine, pending, failed, slow>>

(* It returns with the whole piece or with an error: the upstream breaks   *)
(* off or stalls, the worker was cut short, the relay is closed.           *)
Return(s) ==
  /\ In(s, {"fetch"})
  /\ \E ok \in BOOLEAN :
       /\ ok => work[s].got = Length(work[s].piece)
       /\ Set(s, [work[s] EXCEPT !.pc = "return", !.ok = ok])
  /\ ByWorkers /\ UNCHANGED <<engine, pending, failed, slow, staged>>

(* plan.end: out of flight, and everybody who waits is woken.              *)
Ended(s) ==
  /\ In(s, {"return"})
  /\ work' = Notified([work EXCEPT ![s].pc = IF work[s].ok THEN "count" ELSE "giveBack"])
  /\ ByWorkers /\ UNCHANGED <<engine, pending, failed, slow, staged>>

(* complete and demoteLaggards: two pieces were finished while another one *)
(* is still in its first quarter.                                          *)
Count(s) ==
  /\ In(s, {"count"})
  /\ LET led == [k \in Upstream |->
                   IF Flying(k) /\ work[k].lead < 2 THEN [work[k] EXCEPT !.lead = @ + 1] ELSE work[k]]
         late == {k \in Upstream \ ({s} \cup slow) :
                    Flying(k) /\ led[k].lead = 2 /\ work[k].got * 4 < Length(work[k].piece)}
     IN \E old \in SUBSET late :
          /\ work' = [k \in Upstream |->
                        IF k = s THEN [led[k] EXCEPT !.pc = "pop", !.piece = None, !.did = TRUE]
                        ELSE IF k \in old THEN [led[k] EXCEPT !.cut = TRUE] ELSE led[k]]
          /\ slow' = slow \cup old
          /\ \E seq \in SetToSeqs(old) : order' = FoldSeq(LAMBDA k, o : Demoted(o, k), order, seq)
  /\ ByWorkers /\ UNCHANGED <<strikes, pending, failed, staged>>

(* push of what a slow upstream has not written.                           *)
Mutant_Rest(w) == [first |-> w.piece.first + w.got + 1, last |-> w.piece.last]
Rest(w) == [first |-> w.piece.first + w.got, last |-> w.piece.last]

SlowGivesBack(s) ==
  /\ In(s, {"giveBack"}) /\ s \in slow /\ ~ctxDone
  /\ LET off == [work EXCEPT ![s] = Idle] IN
       IF Rest(work[s]).first <= Rest(work[s]).last
         THEN pending' = Append(pending, Rest(work[s])) /\ work' = Notified(off)
         ELSE work' = off /\ UNCHANGED pending
  /\ order' = Demoted(order, s)
  /\ ByWorkers /\ UNCHANGED <<strikes, failed, slow, staged>>

(* push of the whole piece and markFailed                                  *)
FailedGivesBack(s) ==
  /\ In(s, {"giveBack"}) /\ (s \notin slow \/ ctxDone)
  /\ pending' = Append(pending, work[s].piece)
  /\ work' = Notified([work EXCEPT ![s] = Idle])
  /\ failed' = failed \cup {s}
  /\ ByWorkers /\ UNCHANGED <<engine, slow, staged>>

Worker(s) ==
  \/ Leave(s) \/ Pop(s) \/ NothingLeft(s) \/ TakeOver(s) \/ Listen(s) \/ Wakes(s)
  \/ Receive(s) \/ Return(s) \/ Ended(s) \/ Count(s) \/ SlowGivesBack(s) \/ FailedGivesBack(s)

-----------------------------------------------------------------------------
(* After the rounds: the checksum, the final name, or one stream.          *)

Whole(f) == \A u \in Unit : f[u] = "good"

GiveUpPieces ==
  /\ phase = "round" /\ pending # <<>> /\ (ctxDone \/ Chosen = {})
  /\ phase' = "single" /\ pending' = <<>>
  /\ UNCHANGED <<engine, file, work, failed, slow, staged, target, ctxDone>>

Mutant_Verified(f) == TRUE
Verified(f) == registered => Whole(f)

(* Who contributed a piece of a file with another checksum has failed it.  *)
Verify ==
  /\ phase = "round" /\ pending = <<>>
  /\ IF Verified(staged)
       THEN phase' = "publish" /\ UNCHANGED failed
       ELSE /\ phase' = "single"
            /\ \E c \in SUBSET range : c # {} /\ failed' = failed \cup c
  /\ UNCHANGED <<engine, file, pending, work, slow, staged, target, ctxDone>>

(* The file cannot be synchronized to the disk, or not be renamed.         *)
Unpublished ==
  /\ phase = "publish" /\ phase' = "single"
  /\ UNCHANGED <<engine, file, plan, staged, target, ctxDone>>

Publish ==
  /\ phase = "publish"
  /\ target' = staged /\ phase' = "idle"
  /\ UNCHANGED <<engine, file, plan, staged, ctxDone>>

Untried == SelectSeq(order, LAMBDA s : s \notin failed)

(* singleStream: a file made anew, complete or not at all.                 *)
Stream ==
  /\ phase = "single" /\ ~ctxDone /\ Untried # <<>>
  /\ staged' = [u \in Unit |-> Content(Head(Untried))] /\ Verified(staged')
  /\ target' = staged' /\ phase' = "idle"
  /\ UNCHANGED <<engine, file, plan, ctxDone>>

StreamFails ==
  /\ phase = "single" /\ ~ctxDone /\ Untried # <<>>
  /\ failed' = failed \cup {Head(Untried)}
  /\ UNCHANGED <<engine, phase, file, pending, work, slow, staged, target, ctxDone>>

(* The checksum of the stream is another one; the second time the upstream *)
(* is evicted (strike).                                                    *)
StreamMismatch ==
  /\ phase = "single" /\ ~ctxDone /\ Untried # <<>> /\ registered
  /\ LET s == Head(Untried) IN
       /\ s \in wrong
       /\ failed' = failed \cup {s}
       /\ strikes' = [strikes EXCEPT ![s] = @ + 1]
       /\ order' = (IF strikes[s] = 1 THEN SelectSeq(order, LAMBDA t : t # s) ELSE order)
  /\ UNCHANGED <<phase, file, pending, work, slow, staged, target, ctxDone>>

GiveUp ==
  /\ phase = "single" /\ (ctxDone \/ Untried = <<>>)
  /\ phase' = "idle"
  /\ UNCHANGED <<engine, file, plan, staged, target, ctxDone>>

CancelContext ==
  /\ ~ctxDone /\ ctxDone' = TRUE
  /\ UNCHANGED <<engine, phase, file, plan, staged, target>>

-----------------------------------------------------------------------------

ChunksInit ==
  /\ order = Listed /\ strikes = [s \in Upstream |-> 0]
  /\ phase = "idle" /\ registered = FALSE /\ range = {} /\ wrong = {} /\ pending = <<>>
  /\ work = [s \in Upstream |-> Idle] /\ failed = {} /\ slow = {}
  /\ staged = Blank /\ target = None /\ ctxDone = FALSE

Download ==
  \/ StagingFails \/ StartRound \/ EndRound \/ GiveUpPieces \/ Verify \/ Unpublished \/ Publish
  \/ Stream \/ StreamFails \/ StreamMismatch \/ GiveUp

ChunksNext ==
  \/ Fetch \/ Download \/ CancelContext
  \/ \E s \in Upstream : Worker(s) \/ NotYet(s)

(* The goroutine of the file goes on; a worker does too, its request has a *)
(* timer for the connection and one for each read.                         *)
ChunksFairness == WF_chunksVars(Download) /\ \A s \in Upstream : WF_chunksVars(Worker(s))

ChunksSpec == ChunksInit /\ [][ChunksNext]_chunksVars /\ ChunksFairness

-----------------------------------------------------------------------------
ChunksTypeOK ==
  /\ IsInjective(order) /\ strikes \in [Upstream -> 0..2]
  /\ phase \in {"idle", "round", "workers", "publish", "single"}
  /\ pending \in Seq(Piece) /\ failed \subseteq Upstream /\ slow \subseteq Upstream
  /\ staged \in [Unit -> {"none", "good", "bad"}]
  /\ \A s \in Upstream :
       /\ In(s, {"off", "pop", "fetch", "return", "count", "giveBack", "listen", "await"})
       /\ In(s, {"fetch", "return", "giveBack"}) =>
            work[s].piece \in Piece /\ work[s].got \in 0..Length(work[s].piece)

Holds(s) == In(s, {"fetch", "return", "giveBack"})

(* No byte of the file is forgotten and none is fetched by two workers at  *)
(* once, however often pieces are cut short, taken over and given back: a  *)
(* unit that was not written is on the stack or in the hands of one worker.*)
WorkIsPartitioned ==
  phase \in {"round", "workers"} =>
    LET Hands(u) == Cardinality({i \in DOMAIN pending : u \in UnitsOf(pending[i])})
                      + Cardinality({s \in Upstream : Holds(s) /\ u \in UnitsOf(work[s].piece)})
    IN \A u \in Unit : Hands(u) <= 1 /\ (staged[u] = "none" => Hands(u) = 1)

(* A file that is served has no holes, and if its checksum is known it is  *)
(* the file: neither the pieces nor a stream can deliver another one.      *)
DeliveredIsWhole ==
  target # None => /\ \A u \in Unit : target[u] # "none"
                   /\ registered => Whole(target)

(* Closing the relay ends every fetch, wherever its workers wait.          *)
CancelEndsFetch == ctxDone ~> phase = "idle"

(* Every fetch ends, whatever the upstreams do: the timers of the relay    *)
(* bound it, so that every request is answered with 200 or 502.            *)
EveryFetchEnds == phase # "idle" ~> phase = "idle"
=============================================================================
