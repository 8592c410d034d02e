-------------------------------- MODULE Lock --------------------------------
(***************************************************************************)
(* Package internal/lock: the two named Windows mutexes of one application *)
(* root, "backend" and "mutation", and the pinned worker thread that every *)
(* lock.Set runs.  A worker serves one request at a time; every Win32 call *)
(* (a zero-timeout wait or a release) is one step, and the steps of other  *)
(* workers, crashes and cancellations fall between them.                   *)
(*                                                                         *)
(* ctx.Err() is a choice at each place the code reads it.  The generation  *)
(* of a lease is left out: closeOnce lets a caller send one release per    *)
(* grant, and a Set has at most one open lease (activeConflict).           *)
(***************************************************************************)
EXTENDS Integers

CONSTANT Worker     \* the lock.Set instances that share one application root

ASSUME WorkerAssumption == Worker \cap {"free", "abandoned"} = {}

VARIABLES
  owner,        \* Win32: the thread that owns each mutex, "free" or "abandoned"
  depth,        \* Win32: the recursion count of each mutex
  maybeOwned,   \* mutexState.maybeOwned: the mutexes a worker may own
  active,       \* workerState.activeKind
  poisoned,     \* workerState.poison # nil
  pc,           \* the Win32 call the worker makes next
  want,         \* the request it serves: "staging" is a mutation request
                \* with allowBackend
  reply,        \* the outcome of the caller's last request
  holding       \* the lease the caller has not closed yet

lockVars == <<owner, depth, maybeOwned, active, poisoned, pc, want, reply, holding>>
os   == <<owner, depth>>

Kind      == {"backend", "mutation"}
LeaseKind == {"backend", "mutation", "staging"}
KindOf(l) == IF l = "staging" THEN "mutation" ELSE l
Mutant_Peer(k) == k
Peer(k)   == IF k = "backend" THEN "mutation" ELSE "backend"

Outcome == {"none", "granted", "released", "held", "notHeld",
            "BACKEND_ALREADY_RUNNING", "BACKEND_STILL_RUNNING",
            "MUTATION_IN_PROGRESS", "MUTEX_OPERATION_FAILED",
            "OPERATION_CANCELLED"}

Control == {"absent", "idle", "waitPrimary", "waitPeer", "releasePeer",
            "dropPrimary", "waitProbe", "releaseProbe", "releaseLease",
            "closeBackend", "closeMutation", "exit"}

LockInit ==
  /\ owner = [k \in Kind |-> "free"]
  /\ depth = [k \in Kind |-> 0]
  /\ maybeOwned = [w \in Worker |-> {}]
  /\ active = [w \in Worker |-> "none"]
  /\ poisoned = [w \in Worker |-> FALSE]
  /\ pc = [w \in Worker |-> "absent"]
  /\ want = [w \in Worker |-> "backend"]
  /\ reply = [w \in Worker |-> "none"]
  /\ holding = [w \in Worker |-> "none"]

-----------------------------------------------------------------------------
(* The Win32 mutexes.                                                      *)

(* A wait with timeout 0 by the thread of w would not time out.            *)
CanTake(w, k) == owner[k] \in {"free", "abandoned", w}

(* observeWait: WAIT_OBJECT_0 and WAIT_ABANDONED both give ownership.      *)
Take(w, k) ==
  /\ CanTake(w, k)
  /\ owner' = [owner EXCEPT ![k] = w]
  /\ depth' = [depth EXCEPT ![k] = @ + 1]
  /\ maybeOwned' = [maybeOwned EXCEPT ![w] = @ \cup {k}]

(* ReleaseMutex succeeds only for the owning thread.                       *)
ReleaseMutex(w, k) ==
  /\ owner[k] = w
  /\ depth' = [depth EXCEPT ![k] = @ - 1]
  /\ owner' = [owner EXCEPT ![k] = IF depth[k] = 1 THEN "free" ELSE w]

(* ReleaseMutex returns an error: the code regards ownership as uncertain, *)
(* so the mutex may have been left as it was or have been released.        *)
ReleaseMutexFails(w, k) == UNCHANGED os \/ ReleaseMutex(w, k)

(* releaseSlot: a success clears maybeOwned, a failure poisons the worker. *)
ReleaseSlot(w, k) ==
  /\ ReleaseMutex(w, k)
  /\ maybeOwned' = [maybeOwned EXCEPT ![w] = @ \ {k}]
  /\ UNCHANGED poisoned

ReleaseSlotFails(w, k) ==
  /\ ReleaseMutexFails(w, k)
  /\ poisoned' = [poisoned EXCEPT ![w] = TRUE]
  /\ UNCHANGED maybeOwned

(* The mutexes owned by a thread that dies are abandoned.                  *)
ThreadDies(w) ==
  /\ owner' = [k \in Kind |-> IF owner[k] = w THEN "abandoned" ELSE owner[k]]
  /\ depth' = [k \in Kind |-> IF owner[k] = w THEN 0 ELSE depth[k]]

-----------------------------------------------------------------------------
(* Replies of the worker.                                                  *)

Goto(w, l) == pc' = [pc EXCEPT ![w] = l]

Answer(w, r) == reply' = [reply EXCEPT ![w] = r]

Reply(w, r) == Goto(w, "idle") /\ Answer(w, r)

PrimaryConflict(l) ==
  IF l = "backend" THEN "BACKEND_ALREADY_RUNNING" ELSE "MUTATION_IN_PROGRESS"

PeerConflict(l) ==
  IF l = "backend" THEN "MUTATION_IN_PROGRESS" ELSE "BACKEND_STILL_RUNNING"

ActiveConflict(w, l) ==
  IF active[w] = "mutation" THEN "MUTATION_IN_PROGRESS"
  ELSE IF l = "backend" THEN "BACKEND_ALREADY_RUNNING" ELSE "BACKEND_STILL_RUNNING"

(* The lease is recorded and returned; ctx is not read any more.           *)
Grant(w) ==
  /\ active' = [active EXCEPT ![w] = KindOf(want[w])]
  /\ holding' = [holding EXCEPT ![w] = want[w]]
  /\ Reply(w, "granted")

NoGrant == UNCHANGED <<active, holding>>

-----------------------------------------------------------------------------
(* Acquire: the own mutex first, then a momentary probe of the other one.  *)

(* newSet: the worker starts and opens both mutexes.                       *)
NewSet(w) ==
  /\ pc[w] = "absent"
  /\ Reply(w, "none")
  /\ UNCHANGED <<owner, depth, maybeOwned, active, poisoned, want, holding>>

(* acquire up to the first wait: poison, cancellation, own active lease.   *)
BeginAcquire(w, l) ==
  /\ pc[w] = "idle"
  /\ want' = [want EXCEPT ![w] = l]
  /\ \/ /\ poisoned[w]
        /\ Reply(w, "MUTEX_OPERATION_FAILED")
     \/ Reply(w, "OPERATION_CANCELLED")
     \/ /\ ~poisoned[w] /\ active[w] # "none"
        /\ Reply(w, ActiveConflict(w, l))
     \/ /\ ~poisoned[w] /\ active[w] = "none"
        /\ Goto(w, "waitPrimary")
        /\ Answer(w, "none")
  /\ UNCHANGED <<owner, depth, maybeOwned, active, poisoned, holding>>

WaitPrimary(w) ==
  /\ pc[w] = "waitPrimary"
  /\ \/ /\ Take(w, KindOf(want[w]))
        /\ \/ Goto(w, "waitPeer") /\ UNCHANGED reply
           \/ Goto(w, "dropPrimary") /\ Answer(w, "OPERATION_CANCELLED")
     \/ /\ ~CanTake(w, KindOf(want[w]))
        /\ \E r \in {PrimaryConflict(want[w]), "OPERATION_CANCELLED"} : Reply(w, r)
        /\ UNCHANGED <<os, maybeOwned>>
     \/ /\ Reply(w, "MUTEX_OPERATION_FAILED")
        /\ UNCHANGED <<os, maybeOwned>>
  /\ NoGrant
  /\ UNCHANGED <<poisoned, want>>

(* The wait of probeSlot on the peer; only staging goes on when it is held *)
WaitPeer(w) ==
  /\ pc[w] = "waitPeer"
  /\ \/ /\ Take(w, Peer(KindOf(want[w])))
        /\ Goto(w, "releasePeer")
        /\ NoGrant
        /\ UNCHANGED reply
     \/ /\ ~CanTake(w, Peer(KindOf(want[w])))
        /\ IF want[w] = "staging"
             THEN Grant(w)
             ELSE NoGrant /\ Goto(w, "dropPrimary") /\ Answer(w, PeerConflict(want[w]))
        /\ UNCHANGED <<os, maybeOwned>>
     \/ /\ \E r \in {"OPERATION_CANCELLED", "MUTEX_OPERATION_FAILED"} : Answer(w, r)
        /\ Goto(w, "dropPrimary")
        /\ NoGrant
        /\ UNCHANGED <<os, maybeOwned>>
  /\ UNCHANGED <<poisoned, want>>

(* The release of probeSlot, and the grant when nothing has failed.        *)
ReleasePeer(w) ==
  /\ pc[w] = "releasePeer"
  /\ \/ /\ ReleaseSlot(w, Peer(KindOf(want[w])))
        /\ \/ Grant(w)
           \/ NoGrant /\ Goto(w, "dropPrimary") /\ Answer(w, "OPERATION_CANCELLED")
     \/ /\ ReleaseSlotFails(w, Peer(KindOf(want[w])))
        /\ Goto(w, "dropPrimary")
        /\ Answer(w, "MUTEX_OPERATION_FAILED")
        /\ NoGrant
  /\ UNCHANGED want

(* cleanupPrimary: give the own mutex back, with the cause in reply.       *)
DropPrimary(w) ==
  /\ pc[w] = "dropPrimary"
  /\ \/ /\ ReleaseSlot(w, KindOf(want[w]))
        /\ Reply(w, reply[w])
     \/ /\ ReleaseSlotFails(w, KindOf(want[w]))
        /\ Reply(w, "MUTEX_OPERATION_FAILED")
  /\ NoGrant
  /\ UNCHANGED want

-----------------------------------------------------------------------------
(* Probe: doctor and the inspection of transactions take no lease.         *)

Mutant_BeginProbe(w, k) ==
  /\ pc[w] = "idle" /\ ~poisoned[w]
  /\ want' = [want EXCEPT ![w] = k]
  /\ Goto(w, "waitProbe")
  /\ Answer(w, "none")
  /\ UNCHANGED <<owner, depth, maybeOwned, active, poisoned, holding>>

BeginProbe(w, k) ==
  /\ pc[w] = "idle"
  /\ want' = [want EXCEPT ![w] = k]
  /\ \/ /\ poisoned[w]
        /\ Reply(w, "MUTEX_OPERATION_FAILED")
     \/ Reply(w, "OPERATION_CANCELLED")
     \/ /\ ~poisoned[w] /\ active[w] = k
        /\ Reply(w, "held")
     \/ /\ ~poisoned[w] /\ active[w] # k
        /\ Goto(w, "waitProbe")
        /\ Answer(w, "none")
  /\ UNCHANGED <<owner, depth, maybeOwned, active, poisoned, holding>>

WaitProbe(w) ==
  /\ pc[w] = "waitProbe"
  /\ \/ /\ Take(w, want[w])
        /\ Goto(w, "releaseProbe")
        /\ UNCHANGED reply
     \/ /\ ~CanTake(w, want[w])
        /\ Reply(w, "held")
        /\ UNCHANGED <<os, maybeOwned>>
     \/ /\ \E r \in {"OPERATION_CANCELLED", "MUTEX_OPERATION_FAILED"} : Reply(w, r)
        /\ UNCHANGED <<os, maybeOwned>>
  /\ NoGrant
  /\ UNCHANGED <<poisoned, want>>

ReleaseProbe(w) ==
  /\ pc[w] = "releaseProbe"
  /\ \/ /\ ReleaseSlot(w, want[w])
        /\ \E r \in {"notHeld", "OPERATION_CANCELLED"} : Reply(w, r)
     \/ /\ ReleaseSlotFails(w, want[w])
        /\ Reply(w, "MUTEX_OPERATION_FAILED")
  /\ NoGrant
  /\ UNCHANGED want

-----------------------------------------------------------------------------
(* Lease.Close and Set.Close.                                              *)

(* closeOnce: the caller gives its lease up and asks the worker once.      *)
CloseLease(w) ==
  /\ pc[w] = "idle"
  /\ holding[w] # "none"
  /\ want' = [want EXCEPT ![w] = holding[w]]
  /\ holding' = [holding EXCEPT ![w] = "none"]
  /\ Goto(w, "releaseLease")
  /\ Answer(w, "none")
  /\ UNCHANGED <<owner, depth, maybeOwned, active, poisoned>>

ReleaseLease(w) ==
  /\ pc[w] = "releaseLease"
  /\ \/ /\ poisoned[w]
        /\ Reply(w, "MUTEX_OPERATION_FAILED")
        /\ UNCHANGED <<os, maybeOwned, poisoned, active>>
     \/ /\ ~poisoned[w] /\ active[w] # KindOf(want[w])
        /\ Reply(w, "released")
        /\ UNCHANGED <<os, maybeOwned, poisoned, active>>
     \/ /\ ~poisoned[w] /\ active[w] = KindOf(want[w])
        /\ \/ /\ ReleaseSlot(w, KindOf(want[w]))
              /\ active' = [active EXCEPT ![w] = "none"]
              /\ Reply(w, "released")
           \/ /\ ReleaseSlotFails(w, KindOf(want[w]))
              /\ Reply(w, "MUTEX_OPERATION_FAILED")
              /\ UNCHANGED active
  /\ UNCHANGED <<want, holding>>

(* Set.Close: every later request is refused, open leases are void.        *)
CloseSet(w) ==
  /\ pc[w] = "idle"
  /\ holding' = [holding EXCEPT ![w] = "none"]
  /\ Goto(w, "closeBackend")
  /\ Answer(w, "none")
  /\ UNCHANGED <<owner, depth, maybeOwned, active, poisoned, want>>

(* finishWorker: releaseSlotForClose of one mutex; an error does not stop  *)
(* it, and only a success clears maybeOwned.                               *)
ReleaseForClose(w, k, from, to) ==
  /\ pc[w] = from
  /\ Goto(w, to)
  /\ \/ /\ k \notin maybeOwned[w]
        /\ UNCHANGED <<os, maybeOwned>>
     \/ /\ k \in maybeOwned[w]
        /\ ReleaseMutex(w, k)
        /\ maybeOwned' = [maybeOwned EXCEPT ![w] = @ \ {k}]
     \/ /\ k \in maybeOwned[w]
        /\ ReleaseMutexFails(w, k)
        /\ UNCHANGED maybeOwned
  /\ NoGrant
  /\ UNCHANGED <<poisoned, want, reply>>

CloseBackend(w)  == ReleaseForClose(w, "backend", "closeBackend", "closeMutation")
Mutant_CloseMutation(w) ==
  ReleaseForClose(w, "mutation", "closeMutation", "closeBackend")
CloseMutation(w) == ReleaseForClose(w, "mutation", "closeMutation", "exit")

(* What is left of a worker that is gone: a new Set starts from nothing.   *)
Reset(w) ==
  /\ maybeOwned' = [maybeOwned EXCEPT ![w] = {}]
  /\ active' = [active EXCEPT ![w] = "none"]
  /\ poisoned' = [poisoned EXCEPT ![w] = FALSE]
  /\ pc' = [pc EXCEPT ![w] = "absent"]
  /\ want' = [want EXCEPT ![w] = "backend"]
  /\ reply' = [reply EXCEPT ![w] = "none"]
  /\ holding' = [holding EXCEPT ![w] = "none"]

Mutant_Exit(w) == pc[w] = "exit" /\ UNCHANGED os /\ Reset(w)

(* The worker ends: with nothing left that it may own the thread goes back *)
(* to the scheduler, otherwise it is made to die and Close waits for that. *)
Exit(w) ==
  /\ pc[w] = "exit"
  /\ IF maybeOwned[w] = {} THEN UNCHANGED os ELSE ThreadDies(w)
  /\ Reset(w)

(* The process dies between any two Win32 calls.                           *)
Crash(w) ==
  /\ pc[w] # "absent"
  /\ ThreadDies(w)
  /\ Reset(w)

-----------------------------------------------------------------------------
(* The steps of the worker thread while it serves a request.               *)
Serve(w) ==
  \/ WaitPrimary(w) \/ WaitPeer(w) \/ ReleasePeer(w) \/ DropPrimary(w)
  \/ WaitProbe(w) \/ ReleaseProbe(w)
  \/ ReleaseLease(w)
  \/ CloseBackend(w) \/ CloseMutation(w) \/ Exit(w)

(* What the commands of the runtime ask of it.                             *)
Request(w) ==
  \/ NewSet(w) \/ CloseLease(w) \/ CloseSet(w)
  \/ \E l \in LeaseKind : BeginAcquire(w, l)
  \/ \E k \in Kind : BeginProbe(w, k)

LockNext == \E w \in Worker : Serve(w) \/ Request(w) \/ Crash(w)

LockSpec == LockInit /\ [][LockNext]_lockVars

(* The thread of a worker is scheduled: nothing it calls waits (timeout 0) *)
(* Requests and crashes may never come.                                    *)
FairLockSpec == LockSpec /\ \A w \in Worker : WF_lockVars(Serve(w))

-----------------------------------------------------------------------------
(* Types: the state of the OS mutexes and of every worker.                 *)
LockTypeOK ==
  /\ owner \in [Kind -> Worker \cup {"free", "abandoned"}]
  /\ depth \in [Kind -> 0..1]
  /\ maybeOwned \in [Worker -> SUBSET Kind]
  /\ active \in [Worker -> Kind \cup {"none"}]
  /\ poisoned \in [Worker -> BOOLEAN]
  /\ pc \in [Worker -> Control]
  /\ want \in [Worker -> LeaseKind]
  /\ reply \in [Worker -> Outcome]
  /\ holding \in [Worker -> LeaseKind \cup {"none"}]

(* The leases of two processes that may be open at once: only a staging    *)
(* lease next to the backend that was running before it (AcquireBackend,   *)
(* AcquireMutation, AcquireStaging).                                       *)
MutualExclusion ==
  \A v, w \in Worker : v # w /\ holding[v] # "none" /\ holding[w] # "none"
    => {holding[v], holding[w]} = {"backend", "staging"}

(* No worker ever waits on a mutex its own thread owns: Windows mutexes    *)
(* recurse, and a second acquisition would survive the one release that    *)
(* Lease.Close makes.                                                      *)
NoRecursion == \A k \in Kind : depth[k] = (IF owner[k] \in Worker THEN 1 ELSE 0)

(* A mutex is never owned by a thread that does not know it: whatever path *)
(* acquire or Probe leaves by, maybeOwned covers what must be released.    *)
OwnershipKnown == \A w \in Worker, k \in Kind : owner[k] = w => k \in maybeOwned[w]

(* Between requests an unpoisoned worker owns exactly the mutex of its     *)
(* lease: no error path leaks one, none releases one too many.             *)
IdleOwnsItsLease ==
  \A w \in Worker : pc[w] = "idle" /\ ~poisoned[w] =>
    /\ {k \in Kind : owner[k] = w} = Kind \cap {active[w]}
    /\ maybeOwned[w] = Kind \cap {active[w]}

(* An open lease is backed by its mutex, even when a later probe poisoned  *)
(* the worker.                                                             *)
LeaseIsBacked == \A w \in Worker : holding[w] # "none" => owner[KindOf(holding[w])] = w

(* A Set that is closed, or whose process died, owns nothing: no later     *)
(* command can be locked out by it, also when ReleaseMutex kept failing.   *)
NothingOutlivesASet == \A w \in Worker, k \in Kind : pc[w] = "absent" => owner[k] # w

(* The inductive invariant: what a worker owns is a function of where it   *)
(* is.  Once poisoned it only may own less than maybeOwned says; while it  *)
(* closes, what is left to release.                                        *)
Acquiring == {"waitPrimary", "waitPeer", "releasePeer", "dropPrimary"}
Probing   == {"waitProbe", "releaseProbe"}
Closing   == {"closeBackend", "closeMutation", "exit"}

Owes(w, k) ==
  \/ active[w] = k
  \/ pc[w] \in {"waitPeer", "releasePeer", "dropPrimary"} /\ k = KindOf(want[w])
  \/ pc[w] = "releasePeer" /\ k = Peer(KindOf(want[w]))
  \/ pc[w] = "releaseProbe" /\ k = want[w]

WorkerInv(w) ==
  /\ pc[w] = "absent" => maybeOwned[w] = {} /\ active[w] = "none"
  /\ pc[w] \in Acquiring => active[w] = "none" /\ holding[w] = "none"
  /\ pc[w] \in (Acquiring \cup Probing \cup {"absent"}) \ {"dropPrimary"} => ~poisoned[w]
  /\ pc[w] \in Probing => want[w] \in Kind /\ want[w] # active[w]
  /\ holding[w] # "none" =>
       pc[w] \in Probing \cup {"idle"} /\ active[w] = KindOf(holding[w])
  /\ ~poisoned[w] /\ pc[w] \notin Closing =>
       \A k \in Kind : /\ k \in maybeOwned[w] <=> Owes(w, k)
                       /\ Owes(w, k) => owner[k] = w

IndInv ==
  /\ LockTypeOK /\ NoRecursion /\ OwnershipKnown /\ LeaseIsBacked
  /\ \A w \in Worker : WorkerInv(w)

(* The lease protocol implements the promise of module Leases.             *)
Promise == INSTANCE Leases
LeaseContract == Promise!Spec

(* Every request is answered and every Close returns, whatever the other   *)
(* workers own: the waits have timeout 0, so two workers that hold one     *)
(* mutex each and probe the other one both back off.                       *)
EveryRequestEnds == \A w \in Worker : pc[w] # "idle" ~> pc[w] \in {"idle", "absent"}

(* doctor "takes no mutation lock" (doc): no acquisition of a mutation     *)
(* lease is refused because of a worker that only probes.                  *)
ProbesRefuseNobody ==
  [][\A w \in Worker :
       pc[w] = "waitPrimary" /\ want[w] # "backend" /\ reply'[w] = "MUTATION_IN_PROGRESS"
         => \A v \in Worker : owner["mutation"] = v => pc[v] # "releaseProbe"]_lockVars
=============================================================================
