--------------------------------- MODULE Relay ---------------------------------
(***************************************************************************)
(* The loopback server of the relay (relay/server.go): handlers of HTTP    *)
(* requests, one shared fetch for each file, a cache of fetched files in   *)
(* the staging directory, and the end of it all in Close.                  *)
(*                                                                         *)
(* What the engine does inside of one fetch is in Chunks; here a fetch     *)
(* takes one of MaxFiles slots and ends well or not.  A handler takes one  *)
(* of MaxFiles * 2 handler slots.  Requests for an index need a fetch slot *)
(* but share nothing.  Of the two limits of the cache the number of files  *)
(* is modelled; the number of bytes is compared at the same place.         *)
(***************************************************************************)
EXTENDS Naturals, Sequences, FiniteSets, SequencesExt

CONSTANTS
  File,            \* what can be asked for
  Index,           \* an index page, asked for under /simple
  Request,         \* requests that can be under way at the same time
  MaxFiles,        \* concurrent fetches
  MaxCachedFiles   \* files kept in the staging directory

ASSUME IndexAssumption == Index \notin File
ASSUME RequestAssumption == Request \cap File = {}
ASSUME LimitsAssumption == {MaxFiles, MaxCachedFiles} \subseteq Nat \ {0}

VARIABLES
  req,        \* handler goroutine of each request
  line,       \* who waits for a handler slot and for a fetch slot, in order
  fetch,      \* runFetch of each file: "off", "slot", "get", or how it ended
  files,      \* files with an entry in Server.files
  recent,     \* those files, the least recently used first
  disk,       \* files under their final name in the staging directory
  cancelled,  \* fetchCtx is done: the relay was stopped or is closed
  close,      \* where Close is
  forced,     \* http.Server.Close has cut the connections
  lease       \* the staging directory is pinned

cache == <<files, recent, disk>>
ends == <<close, forced, lease>>
vars == <<req, line, fetch, cache, cancelled, ends>>

Off == [pc |-> "off", file |-> Index, found |-> "none"]

At(r, pcs) == req[r].pc \in pcs
Goes(r, pc) == req' = [req EXCEPT ![r] = IF pc = "off" THEN Off ELSE [@ EXCEPT !.pc = pc]]
Same == UNCHANGED <<fetch, cache, cancelled, ends>>
Gone(l, x) == IF x \in ToSet(l) THEN RemoveAt(l, CHOOSE i \in DOMAIN l : l[i] = x) ELSE l
Queues(x) == line' = [line EXCEPT !.fetch = Append(@, x)]
Quits(x) == line' = [line EXCEPT !.fetch = Gone(@, x)]

(* Requests that hold a handler slot, and users of a fetch slot.           *)
Handlers == {r \in Request : ~At(r, {"off", "queued"})}
Slots == {r \in Request : At(r, {"index"})} \cup {f \in File : fetch[f] = "get"}

(* entry.refs: the requests between awaitFile and its release.  Who waits  *)
(* for a fetch that failed refers to an entry that has left the map.       *)
Waits(r, f) == At(r, {"await"}) /\ req[r].file = f /\ req[r].found = "none"
Refs(rs, f) ==
  {r \in Request : rs[r].file = f /\ rs[r].pc \in {"await", "serve"} /\ rs[r].found # "failed"}
Touched(f) == Append(SelectSeq(recent, LAMBDA g : g # f), f)

-----------------------------------------------------------------------------
(* ServeHTTP: a request takes a handler slot or waits for one.             *)

Dispatched(r, x) ==
  /\ req' = [req EXCEPT ![r] = [Off EXCEPT !.file = x, !.pc = IF x = Index THEN "indexSlot" ELSE "join"]]
  /\ line' = [handler |-> Gone(line.handler, r),
              fetch |-> IF x = Index THEN Append(line.fetch, r) ELSE line.fetch]

Arrive(r, x) ==
  /\ At(r, {"off"}) /\ close = "open" /\ ~cancelled
  /\ IF Cardinality(Handlers) < 2 * MaxFiles /\ line.handler = <<>>
       THEN Dispatched(r, x)
       ELSE /\ req' = [req EXCEPT ![r] = [Off EXCEPT !.file = x, !.pc = "queued"]]
            /\ line' = [line EXCEPT !.handler = Append(@, r)]
  /\ Same

Admit(r) ==
  /\ line.handler # <<>> /\ r = Head(line.handler)
  /\ Cardinality(Handlers) < 2 * MaxFiles /\ ~cancelled
  /\ Dispatched(r, req[r].file) /\ Same

(* The relay is stopped, or the client gives up.                           *)
Refuse(r) ==
  /\ At(r, {"queued"})
  /\ Goes(r, "off") /\ line' = [line EXCEPT !.handler = Gone(@, r)]
  /\ Same

(* serveSimple: an index that is cancelled is not answered by the handler, *)
(* and net/http sends status 200 without a body.                           *)
IndexLeaves(r) ==
  /\ At(r, {"indexSlot"})
  /\ (cancelled /\ Goes(r, "empty")) \/ Goes(r, "off")
  /\ Quits(r) /\ Same

IndexEnds(r) ==
  /\ At(r, {"index"})
  /\ (cancelled /\ Goes(r, "empty")) \/ Goes(r, "off")
  /\ UNCHANGED line /\ Same

Unanswered(r) == At(r, {"empty"}) /\ Goes(r, "off") /\ UNCHANGED line /\ Same

-----------------------------------------------------------------------------
(* awaitFile, serveFile and the cache.                                     *)

(* The first request for a file starts its fetch, the others share it.     *)
Join(r) ==
  /\ At(r, {"join"})
  /\ LET f == req[r].file
         new == f \notin files
     IN /\ recent' = Touched(f)
        /\ files' = files \cup {f}
        /\ fetch' = [fetch EXCEPT ![f] = IF new THEN "slot" ELSE @]
        /\ IF new THEN Queues(f) ELSE UNCHANGED line
        /\ req' = [req EXCEPT ![r].pc = "await",
                              ![r].found = IF ~new /\ fetch[f] = "off" THEN "ok" ELSE "none"]
  /\ UNCHANGED <<disk, cancelled, ends>>

(* A finished file is opened and read by the client.                       *)
Open(r) ==
  /\ At(r, {"await"}) /\ req[r].found = "ok" /\ req[r].file \in disk
  /\ Goes(r, "serve")
  /\ UNCHANGED line /\ Same

(* trimCache: the least recently used of the finished files that nobody    *)
(* reads go, until the limit is kept.  A file that cannot be removed stops *)
(* the relay.                                                              *)
Mutant_Evictable(fs, rs) == {f \in fs : fetch'[f] = "off"}
Evictable(fs, rs) == {f \in fs : fetch'[f] = "off" /\ Refs(rs, f) = {}}

Before(f, g) == \E i, j \in DOMAIN recent : i < j /\ recent[i] = f /\ recent[j] = g

Trim(fs, on, rs) ==
  LET idle == Evictable(fs, rs)
      over == Cardinality(fs) - MaxCachedFiles
      need == IF over <= 0 THEN 0 ELSE IF over < Cardinality(idle) THEN over ELSE Cardinality(idle)
  IN \E out \in SUBSET idle :
       /\ Cardinality(out) <= need
       /\ \A f \in out, g \in idle \ out : Before(f, g)
       /\ files' = fs \ out /\ disk' = on \ out
       /\ recent' = SelectSeq(recent, LAMBDA f : f \in fs \ out)
       /\ cancelled' = (cancelled \/ Cardinality(out) < need)

Failed(r) == req[r].found = "failed" \/ cancelled \/ (req[r].found = "ok" /\ req[r].file \notin disk)

(* The handler closes its file and gives its reference back.               *)
Release(r) ==
  /\ Goes(r, "off") /\ UNCHANGED <<line, fetch, ends>>
  /\ Trim(files, disk, req')

Ends(r) == (At(r, {"serve"}) \/ (At(r, {"await"}) /\ Failed(r))) /\ Release(r)

Handler(r) ==
  \/ (cancelled /\ Refuse(r)) \/ (cancelled /\ IndexLeaves(r)) \/ IndexEnds(r) \/ Unanswered(r)
  \/ Join(r) \/ Open(r) \/ Ends(r)

Hangup(r) == Refuse(r) \/ IndexLeaves(r) \/ (At(r, {"await"}) /\ Release(r))

-----------------------------------------------------------------------------
(* runFetch                                                                *)

Take ==
  /\ line.fetch # <<>> /\ Cardinality(Slots) < MaxFiles
  /\ LET x == Head(line.fetch) IN
       IF x \in File
         THEN fetch' = [fetch EXCEPT ![x] = "get"] /\ UNCHANGED req
         ELSE req' = [req EXCEPT ![x].pc = "index"] /\ UNCHANGED fetch
  /\ line' = [line EXCEPT !.fetch = Tail(@)]
  /\ UNCHANGED <<cache, cancelled, ends>>

(* The engine delivers the file or gives it up.                            *)
Deliver(f) ==
  /\ fetch[f] = "get"
  /\ fetch' = [fetch EXCEPT ![f] = "ok"] /\ disk' = disk \cup {f}
  /\ UNCHANGED <<req, line, files, recent, cancelled, ends>>

GivesUp(f) ==
  /\ fetch[f] = "get" \/ (fetch[f] = "slot" /\ cancelled)
  /\ fetch' = [fetch EXCEPT ![f] = "failed"] /\ Quits(f)
  /\ UNCHANGED <<req, cache, cancelled, ends>>

(* A failed fetch leaves the map, so that the next request tries again.    *)
Kept(f) == IF fetch[f] = "failed" THEN files \ {f} ELSE files

Mutant_Told(f) ==
  [r \in Request |-> IF Waits(r, f) /\ fetch[f] = "ok" THEN [req[r] EXCEPT !.found = fetch[f]] ELSE req[r]]
Told(f) ==
  [r \in Request |-> IF Waits(r, f) THEN [req[r] EXCEPT !.found = fetch[f]] ELSE req[r]]

Finish(f) ==
  /\ fetch[f] \in {"ok", "failed"}
  /\ req' = Told(f)
  /\ fetch' = [fetch EXCEPT ![f] = "off"]
  /\ Trim(Kept(f), disk, req')
  /\ UNCHANGED <<line, ends>>

Fetching(f) == Deliver(f) \/ GivesUp(f) \/ Finish(f)

-----------------------------------------------------------------------------
(* The end of the relay.                                                   *)

(* A progress callback fails (tracker.report), or the listener does, or    *)
(* the context of the owner ends and watch will call Close.                *)
Cancel ==
  /\ ~cancelled /\ cancelled' = TRUE
  /\ UNCHANGED <<req, line, fetch, cache, ends>>

Close ==
  /\ close = "open"
  /\ close' = "shutdown" /\ cancelled' = TRUE
  /\ UNCHANGED <<req, line, fetch, cache, forced, lease>>

(* http.Server.Shutdown waits for the handlers.  closeTimeout is longer    *)
(* than any of their steps, except the one that waits for the client.      *)
Drained ==
  /\ close = "shutdown"
  /\ \/ (\A r \in Request : At(r, {"off"})) /\ UNCHANGED forced
     \/ (\E r \in Request : At(r, {"serve"})) /\ (\A r \in Request : At(r, {"off", "serve"})) /\ forced' = TRUE
  /\ close' = "wait"
  /\ UNCHANGED <<req, line, fetch, cache, cancelled, lease>>

Quiet == \A f \in File : fetch[f] = "off"

(* waitBounded: a fetch that does not come back keeps the directory pinned.*)
Waited ==
  /\ close = "wait"
  /\ close' = (IF Quiet THEN "clean" ELSE "kept")
  /\ UNCHANGED <<req, line, fetch, cache, cancelled, forced, lease>>

(* What cannot be removed stays; a file that is open cannot.               *)
Clean ==
  /\ close = "clean"
  /\ \E left \in SUBSET disk :
       /\ \A r \in Request : At(r, {"serve"}) => req[r].file \in left
       /\ disk' = left
  /\ close' = "closed" /\ lease' = FALSE
  /\ UNCHANGED <<req, line, fetch, files, recent, cancelled, forced>>

Closing == Drained \/ Waited \/ Clean

-----------------------------------------------------------------------------

Init ==
  /\ req = [r \in Request |-> Off] /\ line = [handler |-> <<>>, fetch |-> <<>>] /\ fetch = [f \in File |-> "off"]
  /\ files = {} /\ recent = <<>> /\ disk = {}
  /\ cancelled = FALSE
  /\ close = "open" /\ forced = FALSE /\ lease = TRUE

Next ==
  \/ \E r \in Request :
       \/ Handler(r) \/ Admit(r) \/ Hangup(r)
       \/ \E x \in File \cup {Index} : Arrive(r, x)
  \/ \E f \in File : Fetching(f)
  \/ Take \/ Cancel \/ Close \/ Closing

(* Goroutines go on, slots are handed over in order, a fetch ends and uv   *)
(* reads what it has asked for.                                            *)
Fairness ==
  /\ \A r \in Request : WF_vars(Handler(r))
  /\ \A f \in File : WF_vars(Fetching(f))
  /\ WF_vars(Take) /\ WF_vars(\E r \in Request : Admit(r)) /\ WF_vars(Closing)

Spec == Init /\ [][Next]_vars /\ Fairness

-----------------------------------------------------------------------------
TypeOK ==
  /\ files \subseteq File /\ disk \subseteq File /\ ToSet(recent) = files /\ IsInjective(recent)
  /\ fetch \in [File -> {"off", "slot", "get", "ok", "failed"}]
  /\ close \in {"open", "shutdown", "wait", "kept", "clean", "closed"}
  /\ \A r \in Request :
       At(r, {"off", "queued", "indexSlot", "index", "empty", "join", "await", "serve"})
  /\ Cardinality(Handlers) <= 2 * MaxFiles /\ Cardinality(Slots) <= MaxFiles

(* A file the cache promises is there: a finished entry names a file in    *)
(* the staging directory, and a request that was given its path can open   *)
(* and read it to the end, whatever the cache evicts meanwhile.            *)
PromisedIsThere ==
  ~forced /\ lease =>
    /\ \A f \in files : fetch[f] = "off" => f \in disk
    /\ \A r \in Request : At(r, {"serve"}) \/ (At(r, {"await"}) /\ req[r].found = "ok") => req[r].file \in disk

(* The cache comes back to its limit: when nobody reads and nothing is     *)
(* fetched, no more files than MaxCachedFiles are kept, and no file is     *)
(* kept that the map has forgotten, unless a removal failed and the relay  *)
(* has stopped for it.                                                     *)
CacheIsBounded ==
  (\A r \in Request : ~At(r, {"await", "serve"})) /\ Quiet =>
    cancelled \/ (Cardinality(files) <= MaxCachedFiles /\ disk \subseteq files)

(* The staging directory stays pinned until no fetch can write to it       *)
(* ("keep the lease until the end of the I/O is proved").                  *)
LeaseOutlivesFetches == ~lease => Quiet

(* Every request ends, while the relay works and while it closes.  (All    *)
(* requests are alike, so an instance may look at one of them.)            *)
RequestEnds(r) == ~At(r, {"off"}) ~> At(r, {"off"})

(* ServeHTTP states that failures are expressed by the status: no handler  *)
(* leaves a client that still waits without an answer of its own.          *)
FailureHasAStatus == \A r \in Request : ~At(r, {"empty"})
=============================================================================
