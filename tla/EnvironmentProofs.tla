------------------------- MODULE EnvironmentProofs --------------------------
(***************************************************************************)
(* Theorems about what a command does to the environment and about the     *)
(* mutexes it does it under: about module Lock, for every set of workers,  *)
(* its types, its safety and the implementation of module Leases; about    *)
(* module Environment, for every set of faults, that damage which is known *)
(* stays recorded and that a result is never better than the environment.  *)
(***************************************************************************)
EXTENDS Lock, Environment, TLAPS

-----------------------------------------------------------------------------
(* The mutexes (module Lock). *)

(* The steps that a worker takes from a request to its answer, and what    *)
(* may be asked of it, one disjunct each.                                  *)
LEMMA LockCases ==
  ASSUME LockNext
  PROVE \E w \in Worker :
          \/ WaitPrimary(w) \/ WaitPeer(w) \/ ReleasePeer(w) \/ DropPrimary(w)
          \/ WaitProbe(w) \/ ReleaseProbe(w) \/ ReleaseLease(w)
          \/ CloseBackend(w) \/ CloseMutation(w) \/ Exit(w)
          \/ NewSet(w) \/ CloseLease(w) \/ CloseSet(w) \/ Crash(w)
          \/ (\E l \in LeaseKind : BeginAcquire(w, l))
          \/ (\E k \in Kind : BeginProbe(w, k))
BY DEF LockNext, Serve, Request

(* The initial state satisfies the inductive invariant.                    *)
LEMMA InitIndInv == LockInit => IndInv
BY WorkerAssumption DEF LockInit, IndInv, LockTypeOK, NoRecursion, OwnershipKnown, LeaseIsBacked, WorkerInv, Owes, Peer,
   Kind, LeaseKind, KindOf, Outcome, Control, Acquiring, Probing, Closing

(* Asking a worker for something changes neither mutex nor maybeOwned.     *)
LEMMA RequestIndInv ==
  ASSUME IndInv, NEW w \in Worker, Request(w)
  PROVE  IndInv'
<1> USE DEF IndInv, LockTypeOK, NoRecursion, OwnershipKnown, LeaseIsBacked, WorkerInv, Owes, Peer,
        Kind, LeaseKind, KindOf, Outcome, Control, Acquiring, Probing, Closing
<1>1. CASE NewSet(w)
  BY <1>1 DEF NewSet, Reply, Goto, Answer
<1>2. CASE CloseLease(w)
  BY <1>2 DEF CloseLease, Goto, Answer
<1>3. CASE CloseSet(w)
  BY <1>3 DEF CloseSet, Goto, Answer
<1>4. ASSUME NEW l \in LeaseKind, BeginAcquire(w, l) PROVE IndInv'
  BY <1>4 DEF BeginAcquire, Reply, Goto, Answer, ActiveConflict
<1>5. ASSUME NEW k \in Kind, BeginProbe(w, k) PROVE IndInv'
  BY <1>5 DEF BeginProbe, Reply, Goto, Answer
<1> QED BY <1>1, <1>2, <1>3, <1>4, <1>5 DEF Request

(* ReleaseMutex by the owner frees the mutex: no thread owns it twice.     *)
LEMMA ReleaseFrees ==
  ASSUME LockTypeOK, NoRecursion, NEW w \in Worker, NEW k \in Kind, ReleaseMutex(w, k)
  PROVE  /\ owner[k] = w
         /\ owner' = [owner EXCEPT ![k] = "free"]
         /\ depth' = [depth EXCEPT ![k] = 0]
<1>1. owner[k] = w /\ depth[k] = 1
  BY DEF NoRecursion, ReleaseMutex
<1> QED BY <1>1 DEF ReleaseMutex

(* A failed release leaves the mutex owned or free.                        *)
LEMMA FailedRelease ==
  ASSUME LockTypeOK, NoRecursion, NEW w \in Worker, NEW k \in Kind, ReleaseMutexFails(w, k)
  PROVE  \/ UNCHANGED owner /\ UNCHANGED depth
         \/ /\ owner[k] = w
            /\ owner' = [owner EXCEPT ![k] = "free"]
            /\ depth' = [depth EXCEPT ![k] = 0]
<1>1. CASE UNCHANGED os
  BY <1>1 DEF os
<1>2. CASE ReleaseMutex(w, k)
  BY <1>2, ReleaseFrees
<1> QED BY <1>1, <1>2 DEF ReleaseMutexFails

(* The Win32 calls on the way to a lease.                                  *)
LEMMA AcquireIndInv ==
  ASSUME IndInv, NEW w \in Worker,
         WaitPrimary(w) \/ WaitPeer(w) \/ ReleasePeer(w) \/ DropPrimary(w)
  PROVE  IndInv'
<1> USE WorkerAssumption
    DEF IndInv, LockTypeOK, NoRecursion, OwnershipKnown, LeaseIsBacked, WorkerInv, Owes, Peer,
        Kind, LeaseKind, KindOf, Outcome, Control, Acquiring, Probing, Closing
<1>1. CASE WaitPrimary(w)
  BY <1>1 DEF WaitPrimary, CanTake, Take, Reply, Goto, Answer, PrimaryConflict, NoGrant, os
<1>2. CASE WaitPeer(w)
  BY <1>2 DEF WaitPeer, CanTake, Take, Grant, Reply, Goto, Answer, PeerConflict, NoGrant, os
<1>3. CASE ReleasePeer(w)
  <2> DEFINE k == Peer(KindOf(want[w]))
  <2>0. k \in Kind /\ pc[w] = "releasePeer" /\ want' = want
    BY <1>3 DEF ReleasePeer
  <2>1. CASE ReleaseSlot(w, k)
    <3>1. /\ owner' = [owner EXCEPT ![k] = "free"]
          /\ depth' = [depth EXCEPT ![k] = 0]
          /\ maybeOwned' = [maybeOwned EXCEPT ![w] = @ \ {k}]
          /\ poisoned' = poisoned
      BY <2>0, <2>1, ReleaseFrees DEF ReleaseSlot
    <3>2. CASE Grant(w)
      BY <2>0, <3>1, <3>2 DEF Grant, Reply, Goto, Answer
    <3>3. CASE NoGrant /\ Goto(w, "dropPrimary") /\ reply' \in [Worker -> Outcome]
      BY <2>0, <3>1, <3>3 DEF Goto, NoGrant
    <3> QED BY <1>3, <3>2, <3>3 DEF ReleasePeer, Answer, ReleaseSlot, ReleaseSlotFails, NoGrant
  <2>2. CASE ReleaseSlotFails(w, k) /\ NoGrant /\ Goto(w, "dropPrimary")
             /\ reply' \in [Worker -> Outcome]
    BY <2>0, <2>2, FailedRelease DEF ReleaseSlotFails, Goto, NoGrant
  <2> QED BY <1>3, <2>1, <2>2 DEF ReleasePeer, Answer
<1>4. CASE DropPrimary(w)
  <2> DEFINE k == KindOf(want[w])
  <2>0. /\ k \in Kind /\ pc[w] = "dropPrimary"
        /\ NoGrant /\ want' = want /\ Goto(w, "idle")
        /\ reply' \in [Worker -> Outcome]
    BY <1>4 DEF DropPrimary, Reply, Answer
  <2>1. CASE ReleaseSlot(w, k)
    BY <2>0, <2>1, ReleaseFrees DEF ReleaseSlot, Goto, NoGrant
  <2>2. CASE ReleaseSlotFails(w, k)
    BY <2>0, <2>2, FailedRelease DEF ReleaseSlotFails, Goto, NoGrant
  <2> QED BY <1>4, <2>1, <2>2 DEF DropPrimary
<1> QED BY <1>1, <1>2, <1>3, <1>4

(* The Win32 calls of a probe and of the release of a lease.               *)
LEMMA ProbeAndReleaseIndInv ==
  ASSUME IndInv, NEW w \in Worker,
         WaitProbe(w) \/ ReleaseProbe(w) \/ ReleaseLease(w)
  PROVE  IndInv'
<1> USE WorkerAssumption
    DEF IndInv, LockTypeOK, NoRecursion, OwnershipKnown, LeaseIsBacked, WorkerInv, Owes, Peer,
        Kind, LeaseKind, KindOf, Outcome, Control, Acquiring, Probing, Closing
<1>1. CASE WaitProbe(w)
  BY <1>1 DEF WaitProbe, CanTake, Take, Reply, Goto, Answer, NoGrant, os
<1>2. CASE ReleaseProbe(w)
  <2> DEFINE k == want[w]
  <2>0. /\ k \in Kind /\ k # active[w] /\ pc[w] = "releaseProbe"
        /\ NoGrant /\ want' = want /\ Goto(w, "idle")
        /\ reply' \in [Worker -> Outcome]
    BY <1>2 DEF ReleaseProbe, Reply, Answer
  <2>1. CASE ReleaseSlot(w, k)
    BY <2>0, <2>1, ReleaseFrees DEF ReleaseSlot, Goto, NoGrant
  <2>2. CASE ReleaseSlotFails(w, k)
    BY <2>0, <2>2, FailedRelease DEF ReleaseSlotFails, Goto, NoGrant
  <2> QED BY <1>2, <2>1, <2>2 DEF ReleaseProbe
<1>3. CASE ReleaseLease(w)
  <2> DEFINE k == KindOf(want[w])
  <2>0. /\ k \in Kind /\ pc[w] = "releaseLease" /\ holding[w] = "none"
        /\ holding' = holding /\ want' = want /\ Goto(w, "idle")
        /\ reply' \in [Worker -> Outcome]
    BY <1>3 DEF ReleaseLease, Reply, Answer
  <2>1. CASE UNCHANGED <<os, maybeOwned, poisoned, active>>
    BY <2>0, <2>1 DEF Goto, os
  <2>2. CASE ~poisoned[w] /\ active[w] = k /\ ReleaseSlot(w, k)
             /\ active' = [active EXCEPT ![w] = "none"]
    BY <2>0, <2>2, ReleaseFrees DEF ReleaseSlot, Goto
  <2>3. CASE active[w] = k /\ ReleaseSlotFails(w, k) /\ UNCHANGED active
    BY <2>0, <2>3, FailedRelease DEF ReleaseSlotFails, Goto
  <2> QED BY <1>3, <2>1, <2>2, <2>3 DEF ReleaseLease
<1> QED BY <1>1, <1>2, <1>3

(* The end of a worker, in order or by a crash.                            *)
LEMMA EndIndInv ==
  ASSUME IndInv, NEW w \in Worker,
         CloseBackend(w) \/ CloseMutation(w) \/ Exit(w) \/ Crash(w)
  PROVE  IndInv'
<1> USE WorkerAssumption
    DEF IndInv, LockTypeOK, NoRecursion, OwnershipKnown, LeaseIsBacked, WorkerInv, Owes, Peer,
        Kind, LeaseKind, KindOf, Outcome, Control, Acquiring, Probing, Closing
<1>1. CASE CloseBackend(w)
  BY <1>1 DEF CloseBackend, ReleaseForClose, ReleaseMutex, ReleaseMutexFails, Goto, NoGrant, os
<1>2. CASE CloseMutation(w)
  BY <1>2 DEF CloseMutation, ReleaseForClose, ReleaseMutex, ReleaseMutexFails, Goto, NoGrant, os
<1>3. CASE Exit(w)
  BY <1>3 DEF Exit, ThreadDies, Reset, os
<1>4. CASE Crash(w)
  BY <1>4 DEF Crash, ThreadDies, Reset
<1> QED BY <1>1, <1>2, <1>3, <1>4

(* A step that changes nothing.                                            *)
LEMMA StutterIndInv == IndInv /\ UNCHANGED lockVars => IndInv'
BY DEF lockVars, IndInv, LockTypeOK, NoRecursion, OwnershipKnown, LeaseIsBacked, WorkerInv, Owes

(* IndInv is an invariant of the lock protocol.                            *)
THEOREM LockInvariant == LockSpec => []IndInv
<1>1. IndInv /\ [LockNext]_lockVars => IndInv'
  <2> SUFFICES ASSUME IndInv, [LockNext]_lockVars PROVE IndInv'
    OBVIOUS
  <2>1. CASE UNCHANGED lockVars
    BY <2>1, StutterIndInv
  <2>2. ASSUME NEW w \in Worker, Serve(w) PROVE IndInv'
    BY <2>2, AcquireIndInv, ProbeAndReleaseIndInv, EndIndInv DEF Serve
  <2>3. ASSUME NEW w \in Worker, Request(w) PROVE IndInv'
    BY <2>3, RequestIndInv
  <2>4. ASSUME NEW w \in Worker, Crash(w) PROVE IndInv'
    BY <2>4, EndIndInv
  <2> QED BY <2>1, <2>2, <2>3, <2>4 DEF LockNext
<1> QED BY InitIndInv, <1>1, PTL DEF LockSpec

(* A grant finds no other lease open but those it tolerates: the mutexes   *)
(* that back them are owned by the worker that is granted the lease.       *)
LEMMA GrantIsTolerated ==
  ASSUME IndInv, NEW w \in Worker, Grant(w), pc[w] \in {"waitPeer", "releasePeer"},
         owner[KindOf(want[w])] = w,
         want[w] # "staging" => owner[Peer(KindOf(want[w]))] = w
  PROVE  Promise!Acquire(w, want[w])
<1>1. holding[w] = "none" /\ want[w] \in LeaseKind
  BY DEF IndInv, LockTypeOK, WorkerInv, Acquiring
<1>2. ASSUME NEW v \in Worker PROVE holding[v] \in Promise!Tolerates(want[w])
  BY <1>1, LeaseKind = {"backend", "mutation", "staging"}
     DEF IndInv, LockTypeOK, LeaseIsBacked, LeaseKind, KindOf, Peer, Promise!Tolerates
<1> QED BY <1>1, <1>2 DEF Grant, Promise!Acquire

(* Lock implements Leases: every step that changes which leases are open   *)
(* is a grant that the leases open elsewhere tolerate, or an end.          *)
THEOREM LockImplementsLeases == LockSpec => LeaseContract
<1>1. LockInit => Promise!Init
  BY DEF LockInit, Promise!Init
<1>2. ASSUME IndInv, [LockNext]_lockVars PROVE [Promise!Next]_holding
  <2> USE <1>2 DEF IndInv
  <2>1. ASSUME NEW w \in Worker, WaitPeer(w) \/ ReleasePeer(w) PROVE [Promise!Next]_holding
    <3>1. CASE UNCHANGED holding
      BY <3>1
    <3>2. CASE Grant(w)
      <4>0. want[w] \in LeaseKind
        BY DEF LockTypeOK
      <4>1. /\ pc[w] \in {"waitPeer", "releasePeer"}
            /\ owner[KindOf(want[w])] = w
            /\ want[w] # "staging" => owner[Peer(KindOf(want[w]))] = w
        <5>1. CASE WaitPeer(w)
          BY <2>1, <5>1, <3>2, <4>0
             DEF WaitPeer, Take, WorkerInv, Owes, Acquiring, Probing, Closing, Kind, LeaseKind, KindOf,
                 LockTypeOK, Goto, Grant, Reply, Control
        <5>2. CASE ReleasePeer(w)
          BY <5>2, <4>0 DEF ReleasePeer, WorkerInv, Owes, Acquiring, Probing, Closing, Kind, LeaseKind, KindOf, Peer
        <5> QED BY <2>1, <5>1, <5>2
      <4> QED BY <3>2, <4>0, <4>1, GrantIsTolerated DEF Promise!Next, LeaseKind, Promise!LeaseKind
    <3> QED BY <2>1, <3>1, <3>2 DEF WaitPeer, ReleasePeer, NoGrant
  <2>2. ASSUME NEW w \in Worker, holding' = [holding EXCEPT ![w] = "none"]
        PROVE  [Promise!Next]_holding
    BY <2>2 DEF LockTypeOK, Promise!Next, Promise!Release
  <2>3. ASSUME NEW w \in Worker, Serve(w) PROVE [Promise!Next]_holding
    BY <2>3, <2>1, <2>2
       DEF Serve, WaitPrimary, DropPrimary, WaitProbe, ReleaseProbe, ReleaseLease,
           CloseBackend, CloseMutation, ReleaseForClose, Exit, Reset, NoGrant
  <2>4. ASSUME NEW w \in Worker, Request(w) PROVE [Promise!Next]_holding
    BY <2>4, <2>2 DEF Request, NewSet, CloseLease, CloseSet, BeginAcquire, BeginProbe
  <2>5. ASSUME NEW w \in Worker, Crash(w) PROVE [Promise!Next]_holding
    BY <2>5, <2>2 DEF Crash, Reset
  <2> QED BY <1>2, <2>3, <2>4, <2>5 DEF LockNext, lockVars
<1> QED BY <1>1, <1>2, LockInvariant, PTL DEF LockSpec, LeaseContract, Promise!Spec

(* Two open leases are a staging lease and an earlier backend lease: the   *)
(* mutexes alone do not keep a mutation lease from a backend lease, the    *)
(* order of the two waits does, and Leases records what it yields.         *)
THEOREM LockMutualExclusion == LockSpec => []MutualExclusion
<1>1. Promise!Init => MutualExclusion
  BY DEF Promise!Init, MutualExclusion
<1>2. ASSUME MutualExclusion, IndInv, [Promise!Next]_holding PROVE MutualExclusion'
  <2>1. CASE UNCHANGED holding
    BY <1>2, <2>1 DEF MutualExclusion
  <2>2. ASSUME NEW u \in Worker, Promise!Release(u) PROVE MutualExclusion'
    BY <1>2, <2>2 DEF MutualExclusion, Promise!Release, IndInv, LockTypeOK
  <2>3. ASSUME NEW u \in Worker, NEW l \in LeaseKind, Promise!Acquire(u, l)
        PROVE  MutualExclusion'
    <3>1. holding \in [Worker -> LeaseKind \cup {"none"}]
      BY <1>2 DEF IndInv, LockTypeOK
    <3>2. \A v \in Worker \ {u} :
            /\ holding'[v] = holding[v]
            /\ holding[v] # "none" => holding[v] = "backend" /\ holding'[u] = "staging"
      BY <2>3, <3>1 DEF Promise!Acquire, Promise!Tolerates
    <3>3. SUFFICES ASSUME NEW v \in Worker, NEW w \in Worker, v # w,
                          holding'[v] # "none", holding'[w] # "none"
                   PROVE  {holding'[v], holding'[w]} = {"backend", "staging"}
      BY DEF MutualExclusion
    <3>4. CASE v # u /\ w # u
      BY <1>2, <3>2, <3>3, <3>4 DEF MutualExclusion
    <3>5. CASE v = u \/ w = u
      BY <3>2, <3>3, <3>5
    <3> QED BY <3>4, <3>5
  <2> QED BY <1>2, <2>1, <2>2, <2>3 DEF Promise!Next, Promise!LeaseKind, LeaseKind
<1> QED BY <1>1, <1>2, LockInvariant, LockImplementsLeases, PTL DEF LeaseContract, Promise!Spec

(* Error and cancellation paths leak no mutex, and a closed or dead Set    *)
(* owns none.                                                              *)
THEOREM LockLeaksNothing == LockSpec => [](IdleOwnsItsLease /\ NothingOutlivesASet)
<1>1. IndInv => IdleOwnsItsLease
  <2> SUFFICES ASSUME IndInv, NEW w \in Worker, pc[w] = "idle", ~poisoned[w]
               PROVE  /\ {k \in Kind : owner[k] = w} = Kind \cap {active[w]}
                      /\ maybeOwned[w] = Kind \cap {active[w]}
    BY DEF IdleOwnsItsLease
  <2>1. \A k \in Kind : /\ k \in maybeOwned[w] <=> active[w] = k
                        /\ active[w] = k => owner[k] = w
    BY DEF IndInv, WorkerInv, Owes, Closing
  <2>2. \A k \in Kind : owner[k] = w => k \in maybeOwned[w]
    BY DEF IndInv, OwnershipKnown
  <2>3. maybeOwned[w] \subseteq Kind
    BY DEF IndInv, LockTypeOK
  <2> QED BY <2>1, <2>2, <2>3
<1>2. IndInv => NothingOutlivesASet
  BY DEF IndInv, LockTypeOK, OwnershipKnown, NothingOutlivesASet, WorkerInv
<1> QED BY <1>1, <1>2, LockInvariant, PTL

-----------------------------------------------------------------------------
(* The environment (module Environment).  A command is a script, and what  *)
(* it owes is a matter of what it has already done: the invariant says     *)
(* what holds in front of each step, and Pair says of any two steps that   *)
(* follow each other in a script what the invariant needs to know.         *)

Stage ==
  {"uv.check", "uv.download", "uv.verify", "workspace", "repair", "python.check",
   "python.install", "dependencies.check", "dependencies.sync", "dependencies.rebuild",
   "ready", "done"}

Steps ==
  [do : {"begin", "mark", "drop", "succeed", "reuse", "settle", "open", "swap", "activate",
         "commit"} \cup ToolStep,
   stage : Stage]

(* The commands that may start without a repository.                       *)
Unfounded == {"bootstrap", "envEnsure", "sync"}

(* The steps of bootstrap and workspace sync that have a repository.       *)
Late(x) ==
  \/ x.stage \in {"python.check", "python.install", "dependencies.check", "dependencies.sync",
                  "dependencies.rebuild", "ready"}
  \/ x.do = "drop" /\ x.stage = "workspace"

(* The steps in front of which no command owes a record of damage.         *)
Even(x) ==
  \/ x.do \in {"begin", "drop", "commit", "succeed", "readSpec", "checkTools", "reuse", "swap",
               "activate"}
  \/ x.do = "mark" /\ x.stage # "dependencies.sync"

(* What follows x directly: a tool that changes a tree is announced by a   *)
(* record that invalidates the environment, a record is dropped only after *)
(* what it announced has been committed, and the steps of the switch of    *)
(* the workspace come as one group.                                        *)
Pair(x, y) ==
  /\ x.do # "succeed"
  /\ y.do \in {"clearUV", "installPython", "rebuildVenv", "syncVenv"} =>
       x.do = "mark" /\ Invalidates(x.stage)
  /\ y.do \in {"clearUV", "ensureUV", "installPython"} =>
       \/ x.do = "mark" /\ Even(x)
       \/ x.do = "clearUV" /\ y.do = "ensureUV"
  /\ y.do \in {"mark", "begin"} => y.stage # "workspace"
  /\ x.do = "settle" <=> y.do = "open"
  /\ x.do = "open" <=> y.do = "swap"
  /\ x.do = "swap" <=> y.do = "activate"
  /\ x.do = "activate" <=> y.do = "drop" /\ y.stage = "workspace"
  /\ y.do = "reuse" => x.do = "drop" /\ x.stage = "workspace"
  /\ y.do = "commit" => x.do = "syncVenv"
  /\ y.do = "drop" /\ y.stage = "dependencies.sync" => x.do = "commit"
  /\ y.do = "succeed" /\ y.stage = "ready" => x.do = "drop" /\ x.stage = "dependencies.sync"
  /\ Even(y) => Even(x) \/ x.do \in {"ensureUV", "installPython", "syncVenv", "open"}
  /\ y.do \in {"syncVenv", "commit", "installPython", "rebuildVenv"} => Late(y)
  /\ y.do = "activate" => ~Late(y)
  /\ y.do = "begin" => Late(y)

(* Strict: in a command that may start without a repository.               *)
Joins(x, y, strict) ==
  /\ Pair(x, y)
  /\ strict /\ Late(y) => Late(x) \/ x.do = "activate"
  /\ strict /\ Late(x) => Late(y) \/ y.do = "succeed"
  /\ x.do = "swap" => strict

(* A sequence of steps that begins with a and ends with b.                 *)
Path(s, a, b, strict) ==
  /\ s \in Seq(Steps)
  /\ s # <<>> /\ s[1] = a /\ s[Len(s)] = b
  /\ \A i \in 1..(Len(s) - 1) : Joins(s[i], s[i + 1], strict)

(* Unusable, and nothing will say so.                                      *)
Exposed == hurt /\ env = Ready(repo) /\ ~pending

(* A command that has a repository, and knows its revision.                *)
Founded == job.cmd \notin Unfounded \/ Late(Step)

(* Types; a command that has opened a record finds it.                     *)
TypeInv ==
  /\ repo \in Revision \cup {None}
  /\ env \in [status : {"uninitialized", "ready", "broken"}, rev : Revision \cup {None}]
  /\ mut \in [stage : Stage \cup {"none"}, version : Version \cup {None}]
  /\ mut.stage = "none" <=> mut = NoRecord
  /\ uv \in Part /\ archive \in Part /\ python \in Part
  /\ venv \in Revision \cup {"none", "bad"}
  /\ job \in [cmd : Command \cup {"none"}, at : Nat, version : Version \cup {None},
               rev : Revision \cup {None}, ifNeeded : BOOLEAN, open : BOOLEAN]
  /\ pending \in BOOLEAN /\ calm \in BOOLEAN /\ hurt \in BOOLEAN
  /\ job.open => mut # NoRecord

(* An environment that is ready was prepared for a repository, and only    *)
(* the commands that may start without one run without one.                *)
RepoInv ==
  /\ env.status = "ready" => env.rev # None /\ repo # None
  /\ pending => repo # None
  /\ job.cmd # "none" /\ job.cmd \notin Unfounded => repo # None
  /\ job.cmd # "none" /\ job.at > 0 =>
       /\ Founded => repo # None /\ job.rev = repo
       /\ Step.do = "activate" => repo # None
       /\ job.rev = None /\ Step.do # "settle" => env.status # "ready"

(* What a command knows in front of each of its steps.                     *)
JobInv ==
  /\ job.cmd = "none" => job = Idle
  /\ job.cmd # "none" =>
       /\ job.at <= Len(Script[job.cmd])
       /\ job.cmd = "sync" => job.at > 0
       /\ job.at = 0 => ~job.open
       /\ At("clearUV") \/ At("installPython") \/ At("rebuildVenv") \/ At("syncVenv")
            => Invalidates(mut.stage)
       /\ job.cmd = "sync" => \/ Late(Step)
                              \/ Step.do \in {"settle", "open", "swap", "activate", "succeed"}
       /\ job.cmd \in Unfounded /\ At("begin") => Late(Step) \/ Step.stage = "uv.check"
       /\ At("syncVenv") \/ At("commit") \/ At("installPython") \/ At("rebuildVenv")
            => Late(Step)
       /\ At("swap") \/ At("activate") \/ (At("drop") /\ Step.stage = "workspace")
            => ~Invalidates(mut.stage)
       /\ At("commit") \/ (At("drop") /\ Step.stage = "dependencies.sync")
            \/ (At("succeed") /\ Step.stage = "ready") => Usable
       /\ (At("drop") /\ Step.stage = "dependencies.sync")
            \/ (At("succeed") /\ Step.stage = "ready") => env = Ready(repo)

(* An environment that is unusable is recorded as such, except in front of *)
(* the steps that are about to repair it.                                  *)
HurtInv ==
  /\ hurt => ~Usable
  /\ Exposed => Invalidates(mut.stage)
  /\ job.cmd # "none" /\ Exposed =>
       /\ ~Even(Step)
       /\ At("clearUV") \/ At("ensureUV") => python = "good" /\ venv = repo /\ repo # None
       /\ At("installPython") => uv = "good" /\ venv = repo /\ repo # None

EnvInv == TypeInv /\ RepoInv /\ JobInv /\ HurtInv

-----------------------------------------------------------------------------
(* Two paths one behind the other.                                         *)
LEMMA Join ==
  ASSUME NEW s, NEW t, NEW a, NEW b, NEW c, NEW d, NEW strict \in BOOLEAN,
         Path(s, a, b, strict), Path(t, c, d, strict),
         Joins(b, c, strict)
  PROVE  Path(s \o t, a, d, strict)
<1>1. /\ s \in Seq(Steps) /\ t \in Seq(Steps) /\ Len(s) \in Nat \ {0} /\ Len(t) \in Nat \ {0}
      /\ s[1] = a /\ s[Len(s)] = b /\ t[1] = c /\ t[Len(t)] = d
  BY DEF Path
<1>2. s \o t \in Seq(Steps) /\ Len(s \o t) = Len(s) + Len(t)
  BY <1>1
<1>3. \A i \in 1..Len(s \o t) : (s \o t)[i] = IF i <= Len(s) THEN s[i] ELSE t[i - Len(s)]
  BY <1>1
<1>4. (s \o t)[1] = a /\ (s \o t)[Len(s \o t)] = d /\ s \o t # <<>>
  BY <1>1, <1>2, <1>3
<1>5. ASSUME NEW i \in 1..(Len(s \o t) - 1)
      PROVE  Joins((s \o t)[i], (s \o t)[i + 1], strict)
  <2>1. CASE i < Len(s)
    <3>1. (s \o t)[i] = s[i] /\ (s \o t)[i + 1] = s[i + 1] /\ i \in 1..(Len(s) - 1)
      BY <1>1, <1>2, <1>3, <2>1
    <3> QED BY <3>1 DEF Path
  <2>2. CASE i = Len(s)
    <3>1. (s \o t)[i] = b /\ (s \o t)[i + 1] = c
      BY <1>1, <1>2, <1>3, <2>2
    <3> QED BY <3>1
  <2>3. CASE i > Len(s)
    <3>1. /\ (s \o t)[i] = t[i - Len(s)] /\ (s \o t)[i + 1] = t[(i - Len(s)) + 1]
          /\ i - Len(s) \in 1..(Len(t) - 1)
      BY <1>1, <1>2, <1>3, <2>3
    <3> QED BY <3>1 DEF Path
  <2> QED BY <1>1, <2>1, <2>2, <2>3
<1> QED BY <1>2, <1>4, <1>5 DEF Path

(* The short sequences are paths when their steps join.                    *)
LEMMA One ==
  ASSUME NEW x \in Steps, NEW strict \in BOOLEAN
  PROVE  Path(<<x>>, x, x, strict)
BY DEF Path

LEMMA Two ==
  ASSUME NEW x \in Steps, NEW y \in Steps, NEW k \in BOOLEAN, Joins(x, y, k)
  PROVE  Path(<<x, y>>, x, y, k)
<1> DEFINE s == <<x, y>>
<1>1. s \in Seq(Steps) /\ Len(s) = 2 /\ s[1] = x /\ s[2] = y /\ s # <<>>
  OBVIOUS
<1> HIDE DEF s
<1>2. \A i \in 1..(Len(s) - 1) : i = 1
  BY <1>1
<1>3. Path(s, x, y, k)
  BY <1>1, <1>2 DEF Path
<1> QED BY <1>3 DEF s

LEMMA Three ==
  ASSUME NEW x \in Steps, NEW y \in Steps, NEW z \in Steps, NEW k \in BOOLEAN,
         Joins(x, y, k), Joins(y, z, k)
  PROVE  Path(<<x, y, z>>, x, z, k)
<1> DEFINE s == <<x, y, z>>
<1>1. s \in Seq(Steps) /\ Len(s) = 3 /\ s[1] = x /\ s[2] = y /\ s[3] = z /\ s # <<>>
  OBVIOUS
<1> HIDE DEF s
<1>2. \A i \in 1..(Len(s) - 1) : i = 1 \/ i = 2
  BY <1>1
<1>3. Path(s, x, z, k)
  BY <1>1, <1>2 DEF Path
<1> QED BY <1>3 DEF s

LEMMA Five ==
  ASSUME NEW x \in Steps, NEW y \in Steps, NEW z \in Steps, NEW u \in Steps, NEW v \in Steps,
         NEW k \in BOOLEAN, Joins(x, y, k), Joins(y, z, k), Joins(z, u, k), Joins(u, v, k)
  PROVE  Path(<<x, y, z, u, v>>, x, v, k)
<1> DEFINE s == <<x, y, z, u, v>>
<1>1. s \in Seq(Steps) /\ Len(s) = 5 /\ s # <<>>
      /\ s[1] = x /\ s[2] = y /\ s[3] = z /\ s[4] = u /\ s[5] = v
  OBVIOUS
<1> HIDE DEF s
<1>2. \A i \in 1..(Len(s) - 1) : i = 1 \/ i = 2 \/ i = 3 \/ i = 4
  BY <1>1
<1>3. Path(s, x, v, k)
  BY <1>1, <1>2 DEF Path
<1> QED BY <1>3 DEF s

(* The pieces the scripts are made of.                                     *)
LEMMA Pieces ==
  ASSUME NEW k \in BOOLEAN
  PROVE  /\ Path(EnsureSteps, S("mark", "uv.download"), S("mark", "uv.verify"), k)
         /\ Path(Tail(EnsureSteps), S("ensureUV", "uv.download"), S("mark", "uv.verify"), k)
         /\ k => Path(SwitchSteps, S("settle", "workspace"), S("drop", "workspace"), k)
         /\ Path(InstallSteps,
                 S("readSpec", "python.check"), S("installPython", "python.install"), k)
         /\ Path(SyncSteps, S("mark", "dependencies.sync"), S("succeed", "ready"), k)
         /\ Path(RebuildSteps, S("mark", "dependencies.rebuild"), S("succeed", "ready"), k)
<1> DEFINE E1 == S("mark", "uv.download")
           E2 == S("ensureUV", "uv.download")
           E3 == S("mark", "uv.verify")
<1>1. Path(EnsureSteps, E1, E3, k) /\ Path(Tail(EnsureSteps), E2, E3, k)
  <2>1. E1 \in Steps /\ E2 \in Steps /\ E3 \in Steps /\ Joins(E1, E2, k) /\ Joins(E2, E3, k)
    BY DEF S, Steps, Stage, ToolStep, Joins, Pair, Late, Even, Invalidates
  <2>2. EnsureSteps = <<E1, E2, E3>>
    BY DEF EnsureSteps
  <2> HIDE DEF E1, E2, E3
  <2>3. Tail(EnsureSteps) = <<E2, E3>>
    BY <2>2
  <2> QED BY <2>1, <2>2, <2>3, Two, Three
<1> DEFINE W1 == S("settle", "workspace")
           W2 == S("open", "workspace")
           W3 == S("swap", "workspace")
           W4 == S("activate", "workspace")
           W5 == S("drop", "workspace")
<1>2. ASSUME k PROVE Path(SwitchSteps, W1, W5, k)
  <2>1. W1 \in Steps /\ W2 \in Steps /\ W3 \in Steps /\ W4 \in Steps /\ W5 \in Steps
    BY DEF S, Steps, Stage, ToolStep
  <2>2. Joins(W1, W2, k) /\ Joins(W2, W3, k) /\ Joins(W3, W4, k) /\ Joins(W4, W5, k)
    BY <1>2 DEF S, Joins, Pair, Late, Even, Invalidates
  <2>3. SwitchSteps = <<W1, W2, W3, W4, W5>>
    BY DEF SwitchSteps
  <2> HIDE DEF W1, W2, W3, W4, W5
  <2> QED BY <2>1, <2>2, <2>3, Five
<1> DEFINE I1 == S("readSpec", "python.check")
           I2 == S("mark", "python.install")
           I3 == S("installPython", "python.install")
<1>3. Path(InstallSteps, I1, I3, k)
  <2>1. I1 \in Steps /\ I2 \in Steps /\ I3 \in Steps /\ Joins(I1, I2, k) /\ Joins(I2, I3, k)
    BY DEF S, Steps, Stage, ToolStep, Joins, Pair, Late, Even, Invalidates
  <2>2. InstallSteps = <<I1, I2, I3>>
    BY DEF InstallSteps
  <2> HIDE DEF I1, I2, I3
  <2> QED BY <2>1, <2>2, Three
<1> DEFINE D1 == S("mark", "dependencies.sync")
           D2 == S("syncVenv", "dependencies.sync")
           D3 == S("commit", "dependencies.sync")
           D4 == S("drop", "dependencies.sync")
           D5 == S("succeed", "ready")
<1>4. Path(SyncSteps, D1, D5, k)
  <2>1. D1 \in Steps /\ D2 \in Steps /\ D3 \in Steps /\ D4 \in Steps /\ D5 \in Steps
    BY DEF S, Steps, Stage, ToolStep
  <2>2. Joins(D1, D2, k) /\ Joins(D2, D3, k) /\ Joins(D3, D4, k) /\ Joins(D4, D5, k)
    BY DEF S, Joins, Pair, Late, Even, Invalidates
  <2>3. SyncSteps = <<D1, D2, D3, D4, D5>>
    BY DEF SyncSteps
  <2> HIDE DEF D1, D2, D3, D4, D5
  <2> QED BY <2>1, <2>2, <2>3, Five
<1> DEFINE R1 == S("mark", "dependencies.rebuild")
           R2 == S("rebuildVenv", "dependencies.rebuild")
<1>5. Path(RebuildSteps, R1, D5, k)
  <2>1. R1 \in Steps /\ R2 \in Steps /\ Joins(R1, R2, k) /\ Joins(R2, D1, k)
    BY DEF S, Steps, Stage, ToolStep, Joins, Pair, Late, Even, Invalidates
  <2>2. Path(<<R1, R2>>, R1, R2, k)
    BY <2>1, Two
  <2>3. RebuildSteps = <<R1, R2>> \o SyncSteps
    BY DEF RebuildSteps
  <2> HIDE DEF R1, R2, D1, D5
  <2> QED BY <2>1, <2>2, <2>3, <1>4, Join
<1> QED BY <1>1, <1>2, <1>3, <1>4, <1>5

(* Every script is a path from its first step to its success.              *)
LEMMA ScriptPaths ==
  /\ Path(Bootstrap, S("begin", "uv.check"), S("succeed", "ready"), TRUE)
  /\ Path(Repair, S("begin", "repair"), S("succeed", "ready"), FALSE)
  /\ Path(EnvironmentEnsure, S("begin", "uv.check"), S("succeed", "done"), TRUE)
  /\ Path(EnvironmentRepair, S("begin", "uv.check"), S("succeed", "done"), FALSE)
  /\ Path(Dependencies(SyncSteps), S("begin", "dependencies.check"), S("succeed", "ready"), FALSE)
  /\ Path(Dependencies(RebuildSteps), S("begin", "dependencies.check"), S("succeed", "ready"),
          FALSE)
  /\ Path(SwitchSteps \o <<S("succeed", "done")>>, S("settle", "workspace"),
          S("succeed", "done"), TRUE)
<1>1. Path(Bootstrap, S("begin", "uv.check"),
          S("succeed", "ready"), TRUE)
  <2>1. /\ S("begin", "python.check") \in Steps /\ S("begin", "uv.check") \in Steps
        /\ S("drop", "uv.verify") \in Steps /\ S("mark", "dependencies.check") \in Steps
        /\ S("reuse", "dependencies.check") \in Steps
    BY DEF S, Steps, Stage, ToolStep
  <2>2. /\ Joins(S("reuse", "dependencies.check"), S("begin", "python.check"), TRUE)
        /\ Joins(S("begin", "uv.check"), S("mark", "uv.download"), TRUE)
        /\ Joins(S("mark", "uv.verify"), S("drop", "uv.verify"), TRUE)
        /\ Joins(S("drop", "uv.verify"), S("settle", "workspace"), TRUE)
        /\ Joins(S("drop", "workspace"), S("reuse", "dependencies.check"), TRUE)
        /\ Joins(S("begin", "python.check"), S("readSpec", "python.check"), TRUE)
        /\ Joins(S("installPython", "python.install"), S("mark", "dependencies.check"), TRUE)
        /\ Joins(S("mark", "dependencies.check"), S("mark", "dependencies.sync"), TRUE)
    BY DEF S, Joins, Pair, Late, Even, Invalidates
  <2>3. /\ Path(<<S("begin", "uv.check")>>, S("begin", "uv.check"), S("begin", "uv.check"), TRUE)
        /\ Path(<<S("drop", "uv.verify")>>, S("drop", "uv.verify"), S("drop", "uv.verify"), TRUE)
        /\ Path(<<S("reuse", "dependencies.check"), S("begin", "python.check")>>,
                S("reuse", "dependencies.check"), S("begin", "python.check"), TRUE)
        /\ Path(<<S("mark", "dependencies.check")>>,
                S("mark", "dependencies.check"), S("mark", "dependencies.check"), TRUE)
    BY <2>1, <2>2, One, Two, Three
  <2>4. /\ Path(EnsureSteps, S("mark", "uv.download"), S("mark", "uv.verify"), TRUE)
        /\ Path(SwitchSteps, S("settle", "workspace"), S("drop", "workspace"), TRUE)
        /\ Path(InstallSteps,
                S("readSpec", "python.check"), S("installPython", "python.install"), TRUE)
        /\ Path(SyncSteps, S("mark", "dependencies.sync"), S("succeed", "ready"), TRUE)
    BY Pieces
  <2> DEFINE P1 == <<S("begin", "uv.check")>>
             P2 == P1 \o EnsureSteps
             P3 == P2 \o <<S("drop", "uv.verify")>>
             P4 == P3 \o SwitchSteps
             P5 == P4 \o <<S("reuse", "dependencies.check"), S("begin", "python.check")>>
             P6 == P5 \o InstallSteps
             P7 == P6 \o <<S("mark", "dependencies.check")>>
             P8 == P7 \o SyncSteps
  <2>5. Path(P2, S("begin", "uv.check"), S("mark", "uv.verify"), TRUE)
    <3> QED BY <2>2, <2>3, <2>4, Join
  <2>6. Path(P3, S("begin", "uv.check"), S("drop", "uv.verify"), TRUE)
    <3> HIDE DEF P2
    <3> QED BY <2>2, <2>3, <2>4, <2>5, Join
  <2>7. Path(P4, S("begin", "uv.check"), S("drop", "workspace"), TRUE)
    <3> HIDE DEF P3
    <3> QED BY <2>2, <2>3, <2>4, <2>6, Join
  <2>8. Path(P5, S("begin", "uv.check"), S("begin", "python.check"), TRUE)
    <3> HIDE DEF P4
    <3> QED BY <2>2, <2>3, <2>4, <2>7, Join
  <2>9. Path(P6, S("begin", "uv.check"), S("installPython", "python.install"), TRUE)
    <3> HIDE DEF P5
    <3> QED BY <2>2, <2>3, <2>4, <2>8, Join
  <2>10. Path(P7, S("begin", "uv.check"), S("mark", "dependencies.check"), TRUE)
    <3> HIDE DEF P6
    <3> QED BY <2>2, <2>3, <2>4, <2>9, Join
  <2>11. Path(P8, S("begin", "uv.check"), S("succeed", "ready"), TRUE)
    <3> HIDE DEF P7
    <3> QED BY <2>2, <2>3, <2>4, <2>10, Join
  <2> QED BY <2>11 DEF Bootstrap
<1>2. Path(Repair, S("begin", "repair"),
          S("succeed", "ready"), FALSE)
  <2>1. /\ S("begin", "repair") \in Steps /\ S("clearUV", "uv.download") \in Steps
        /\ S("mark", "python.check") \in Steps /\ S("mark", "uv.download") \in Steps
    BY DEF S, Steps, Stage, ToolStep
  <2>2. /\ Joins(S("begin", "repair"), S("mark", "uv.download"), FALSE)
        /\ Joins(S("mark", "uv.download"), S("clearUV", "uv.download"), FALSE)
        /\ Joins(S("clearUV", "uv.download"), S("ensureUV", "uv.download"), FALSE)
        /\ Joins(S("mark", "uv.verify"), S("mark", "python.check"), FALSE)
        /\ Joins(S("mark", "python.check"), S("readSpec", "python.check"), FALSE)
        /\ Joins(S("installPython", "python.install"), S("mark", "dependencies.rebuild"), FALSE)
    BY DEF S, Joins, Pair, Late, Even, Invalidates
  <2>3. /\ Path(<<S("begin", "repair"), S("mark", "uv.download"), S("clearUV", "uv.download")>>,
                S("begin", "repair"), S("clearUV", "uv.download"), FALSE)
        /\ Path(<<S("mark", "python.check")>>,
                S("mark", "python.check"), S("mark", "python.check"), FALSE)
    BY <2>1, <2>2, One, Two, Three
  <2>4. /\ Path(Tail(EnsureSteps), S("ensureUV", "uv.download"), S("mark", "uv.verify"), FALSE)
        /\ Path(InstallSteps,
                S("readSpec", "python.check"), S("installPython", "python.install"), FALSE)
        /\ Path(RebuildSteps, S("mark", "dependencies.rebuild"), S("succeed", "ready"), FALSE)
    BY Pieces
  <2> DEFINE P1 == <<S("begin", "repair"), S("mark", "uv.download"), S("clearUV", "uv.download")>>
             P2 == P1 \o Tail(EnsureSteps)
             P3 == P2 \o <<S("mark", "python.check")>>
             P4 == P3 \o InstallSteps
             P5 == P4 \o RebuildSteps
  <2>5. Path(P2, S("begin", "repair"), S("mark", "uv.verify"), FALSE)
    <3> QED BY <2>2, <2>3, <2>4, Join
  <2>6. Path(P3, S("begin", "repair"), S("mark", "python.check"), FALSE)
    <3> HIDE DEF P2
    <3> QED BY <2>2, <2>3, <2>4, <2>5, Join
  <2>7. Path(P4, S("begin", "repair"), S("installPython", "python.install"), FALSE)
    <3> HIDE DEF P3
    <3> QED BY <2>2, <2>3, <2>4, <2>6, Join
  <2>8. Path(P5, S("begin", "repair"), S("succeed", "ready"), FALSE)
    <3> HIDE DEF P4
    <3> QED BY <2>2, <2>3, <2>4, <2>7, Join
  <2> QED BY <2>8 DEF Repair
<1>3. Path(EnvironmentEnsure, S("begin", "uv.check"),
          S("succeed", "done"), TRUE)
  <2>1. /\ S("begin", "uv.check") \in Steps /\ S("drop", "uv.verify") \in Steps
        /\ S("succeed", "done") \in Steps
    BY DEF S, Steps, Stage, ToolStep
  <2>2. /\ Joins(S("drop", "uv.verify"), S("succeed", "done"), TRUE)
        /\ Joins(S("begin", "uv.check"), S("mark", "uv.download"), TRUE)
        /\ Joins(S("mark", "uv.verify"), S("drop", "uv.verify"), TRUE)
    BY DEF S, Joins, Pair, Late, Even, Invalidates
  <2>3. /\ Path(<<S("begin", "uv.check")>>, S("begin", "uv.check"), S("begin", "uv.check"), TRUE)
        /\ Path(<<S("drop", "uv.verify"), S("succeed", "done")>>,
                S("drop", "uv.verify"), S("succeed", "done"), TRUE)
    BY <2>1, <2>2, One, Two, Three
  <2>4. /\ Path(EnsureSteps, S("mark", "uv.download"), S("mark", "uv.verify"), TRUE)
    BY Pieces
  <2> DEFINE P1 == <<S("begin", "uv.check")>>
             P2 == P1 \o EnsureSteps
             P3 == P2 \o <<S("drop", "uv.verify"), S("succeed", "done")>>
  <2>5. Path(P2, S("begin", "uv.check"), S("mark", "uv.verify"), TRUE)
    <3> QED BY <2>2, <2>3, <2>4, Join
  <2>6. Path(P3, S("begin", "uv.check"), S("succeed", "done"), TRUE)
    <3> HIDE DEF P2
    <3> QED BY <2>2, <2>3, <2>4, <2>5, Join
  <2> QED BY <2>6 DEF EnvironmentEnsure
<1>4. Path(EnvironmentRepair, S("begin", "uv.check"),
          S("succeed", "done"), FALSE)
  <2>1. /\ S("begin", "uv.check") \in Steps /\ S("clearUV", "uv.download") \in Steps
        /\ S("drop", "python.install") \in Steps /\ S("mark", "python.check") \in Steps
        /\ S("mark", "uv.download") \in Steps /\ S("succeed", "done") \in Steps
    BY DEF S, Steps, Stage, ToolStep
  <2>2. /\ Joins(S("begin", "uv.check"), S("mark", "uv.download"), FALSE)
        /\ Joins(S("mark", "uv.download"), S("clearUV", "uv.download"), FALSE)
        /\ Joins(S("drop", "python.install"), S("succeed", "done"), FALSE)
        /\ Joins(S("clearUV", "uv.download"), S("ensureUV", "uv.download"), FALSE)
        /\ Joins(S("mark", "uv.verify"), S("mark", "python.check"), FALSE)
        /\ Joins(S("mark", "python.check"), S("readSpec", "python.check"), FALSE)
        /\ Joins(S("installPython", "python.install"), S("drop", "python.install"), FALSE)
    BY DEF S, Joins, Pair, Late, Even, Invalidates
  <2>3. /\ Path(<<S("begin", "uv.check"), S("mark", "uv.download"), S("clearUV", "uv.download")>>,
                S("begin", "uv.check"), S("clearUV", "uv.download"), FALSE)
        /\ Path(<<S("mark", "python.check")>>,
                S("mark", "python.check"), S("mark", "python.check"), FALSE)
        /\ Path(<<S("drop", "python.install"), S("succeed", "done")>>,
                S("drop", "python.install"), S("succeed", "done"), FALSE)
    BY <2>1, <2>2, One, Two, Three
  <2>4. /\ Path(Tail(EnsureSteps), S("ensureUV", "uv.download"), S("mark", "uv.verify"), FALSE)
        /\ Path(InstallSteps,
                S("readSpec", "python.check"), S("installPython", "python.install"), FALSE)
    BY Pieces
  <2> DEFINE P1 == <<S("begin", "uv.check"), S("mark", "uv.download"), S("clearUV", "uv.download")>>
             P2 == P1 \o Tail(EnsureSteps)
             P3 == P2 \o <<S("mark", "python.check")>>
             P4 == P3 \o InstallSteps
             P5 == P4 \o <<S("drop", "python.install"), S("succeed", "done")>>
  <2>5. Path(P2, S("begin", "uv.check"), S("mark", "uv.verify"), FALSE)
    <3> QED BY <2>2, <2>3, <2>4, Join
  <2>6. Path(P3, S("begin", "uv.check"), S("mark", "python.check"), FALSE)
    <3> HIDE DEF P2
    <3> QED BY <2>2, <2>3, <2>4, <2>5, Join
  <2>7. Path(P4, S("begin", "uv.check"), S("installPython", "python.install"), FALSE)
    <3> HIDE DEF P3
    <3> QED BY <2>2, <2>3, <2>4, <2>6, Join
  <2>8. Path(P5, S("begin", "uv.check"), S("succeed", "done"), FALSE)
    <3> HIDE DEF P4
    <3> QED BY <2>2, <2>3, <2>4, <2>7, Join
  <2> QED BY <2>8 DEF EnvironmentRepair
<1>5. Path(Dependencies(SyncSteps), S("begin", "dependencies.check"),
          S("succeed", "ready"), FALSE)
  <2>1. /\ S("begin", "dependencies.check") \in Steps /\ S("checkTools", "uv.check") \in Steps
    BY DEF S, Steps, Stage, ToolStep
  <2>2. /\ Joins(S("begin", "dependencies.check"), S("checkTools", "uv.check"), FALSE)
        /\ Joins(S("checkTools", "uv.check"), S("mark", "dependencies.sync"), FALSE)
    BY DEF S, Joins, Pair, Late, Even, Invalidates
  <2>3. /\ Path(<<S("begin", "dependencies.check"), S("checkTools", "uv.check")>>,
                S("begin", "dependencies.check"), S("checkTools", "uv.check"), FALSE)
    BY <2>1, <2>2, One, Two, Three
  <2>4. /\ Path(SyncSteps, S("mark", "dependencies.sync"), S("succeed", "ready"), FALSE)
    BY Pieces
  <2> DEFINE P1 == <<S("begin", "dependencies.check"), S("checkTools", "uv.check")>>
             P2 == P1 \o SyncSteps
  <2>5. Path(P2, S("begin", "dependencies.check"), S("succeed", "ready"), FALSE)
    <3> QED BY <2>2, <2>3, <2>4, Join
  <2> QED BY <2>5 DEF Dependencies
<1>6. Path(Dependencies(RebuildSteps), S("begin", "dependencies.check"),
          S("succeed", "ready"), FALSE)
  <2>1. /\ S("begin", "dependencies.check") \in Steps /\ S("checkTools", "uv.check") \in Steps
    BY DEF S, Steps, Stage, ToolStep
  <2>2. /\ Joins(S("begin", "dependencies.check"), S("checkTools", "uv.check"), FALSE)
        /\ Joins(S("checkTools", "uv.check"), S("mark", "dependencies.rebuild"), FALSE)
    BY DEF S, Joins, Pair, Late, Even, Invalidates
  <2>3. /\ Path(<<S("begin", "dependencies.check"), S("checkTools", "uv.check")>>,
                S("begin", "dependencies.check"), S("checkTools", "uv.check"), FALSE)
    BY <2>1, <2>2, One, Two, Three
  <2>4. /\ Path(RebuildSteps, S("mark", "dependencies.rebuild"), S("succeed", "ready"), FALSE)
    BY Pieces
  <2> DEFINE P1 == <<S("begin", "dependencies.check"), S("checkTools", "uv.check")>>
             P2 == P1 \o RebuildSteps
  <2>5. Path(P2, S("begin", "dependencies.check"), S("succeed", "ready"), FALSE)
    <3> QED BY <2>2, <2>3, <2>4, Join
  <2> QED BY <2>5 DEF Dependencies
<1>7. Path(SwitchSteps \o <<S("succeed", "done")>>, S("settle", "workspace"),
          S("succeed", "done"), TRUE)
  <2>1. /\ S("succeed", "done") \in Steps
    BY DEF S, Steps, Stage, ToolStep
  <2>2. /\ Joins(S("drop", "workspace"), S("succeed", "done"), TRUE)
    BY DEF S, Joins, Pair, Late, Even, Invalidates
  <2>3. /\ Path(<<S("succeed", "done")>>, S("succeed", "done"), S("succeed", "done"), TRUE)
    BY <2>1, <2>2, One, Two, Three
  <2>4. /\ Path(SwitchSteps, S("settle", "workspace"), S("drop", "workspace"), TRUE)
    BY Pieces
  <2> DEFINE P1 == SwitchSteps
             P2 == P1 \o <<S("succeed", "done")>>
  <2>5. Path(P2, S("settle", "workspace"), S("succeed", "done"), TRUE)
    <3> QED BY <2>2, <2>3, <2>4, Join
  <2> QED BY <2>5
<1> QED BY <1>1, <1>2, <1>3, <1>4, <1>5, <1>6, <1>7
(* Every script is a path that ends with succeed.                          *)
LEMMA Along ==
  ASSUME NEW c \in Command
  PROVE  \E a, b : /\ Path(Script[c], a, b, c \in Unfounded)
                   /\ a.do = IF c = "sync" THEN "settle" ELSE "begin"
                   /\ c \in Unfounded =>
                        ~Late(a) /\ a.stage = IF c = "sync" THEN "workspace" ELSE "uv.check"
                   /\ b.do = "succeed"
<1>1. Command = {"bootstrap", "repair", "envEnsure", "envRepair", "depsSync", "depsRebuild", "sync"}
  BY DEF Command, Script
<1> DEFINE Q(a, b) == /\ Path(Script[c], a, b, c \in Unfounded)
                      /\ a.do = IF c = "sync" THEN "settle" ELSE "begin"
                      /\ c \in Unfounded =>
                        ~Late(a) /\ a.stage = IF c = "sync" THEN "workspace" ELSE "uv.check"
                      /\ b.do = "succeed"
<1>2. CASE c = "bootstrap"
  <2>1. Script[c] = Bootstrap
    BY <1>2 DEF Script
  <2>2. (c \in Unfounded) = TRUE /\ c # "sync"
    BY <1>2 DEF Unfounded
  <2>3. Q(S("begin", "uv.check"), S("succeed", "ready"))
    BY <2>1, <2>2, ScriptPaths DEF Late, S
  <2> QED BY <2>3
<1>3. CASE c = "repair"
  <2>1. Script[c] = Repair
    BY <1>3 DEF Script
  <2>2. (c \in Unfounded) = FALSE /\ c # "sync"
    BY <1>3 DEF Unfounded
  <2>3. Q(S("begin", "repair"), S("succeed", "ready"))
    BY <2>1, <2>2, ScriptPaths DEF Late, S
  <2> QED BY <2>3
<1>4. CASE c = "envEnsure"
  <2>1. Script[c] = EnvironmentEnsure
    BY <1>4 DEF Script
  <2>2. (c \in Unfounded) = TRUE /\ c # "sync"
    BY <1>4 DEF Unfounded
  <2>3. Q(S("begin", "uv.check"), S("succeed", "done"))
    BY <2>1, <2>2, ScriptPaths DEF Late, S
  <2> QED BY <2>3
<1>5. CASE c = "envRepair"
  <2>1. Script[c] = EnvironmentRepair
    BY <1>5 DEF Script
  <2>2. (c \in Unfounded) = FALSE /\ c # "sync"
    BY <1>5 DEF Unfounded
  <2>3. Q(S("begin", "uv.check"), S("succeed", "done"))
    BY <2>1, <2>2, ScriptPaths DEF Late, S
  <2> QED BY <2>3
<1>6. CASE c = "depsSync"
  <2>1. Script[c] = Dependencies(SyncSteps)
    BY <1>6 DEF Script
  <2>2. (c \in Unfounded) = FALSE /\ c # "sync"
    BY <1>6 DEF Unfounded
  <2>3. Q(S("begin", "dependencies.check"), S("succeed", "ready"))
    BY <2>1, <2>2, ScriptPaths DEF Late, S
  <2> QED BY <2>3
<1>7. CASE c = "depsRebuild"
  <2>1. Script[c] = Dependencies(RebuildSteps)
    BY <1>7 DEF Script
  <2>2. (c \in Unfounded) = FALSE /\ c # "sync"
    BY <1>7 DEF Unfounded
  <2>3. Q(S("begin", "dependencies.check"), S("succeed", "ready"))
    BY <2>1, <2>2, ScriptPaths DEF Late, S
  <2> QED BY <2>3
<1>8. CASE c = "sync"
  <2>1. Script[c] = SwitchSteps \o <<S("succeed", "done")>>
    BY <1>8 DEF Script
  <2>2. (c \in Unfounded) = TRUE /\ c = "sync"
    BY <1>8 DEF Unfounded
  <2>3. Q(S("settle", "workspace"), S("succeed", "done"))
    BY <2>1, <2>2, ScriptPaths DEF Late, S
  <2> QED BY <2>3
<1> QED BY <1>1, <1>2, <1>3, <1>4, <1>5, <1>6, <1>7, <1>8

(* Where a command is.                                                     *)
LEMMA Now ==
  ASSUME TypeInv, JobInv, job.cmd # "none"
  PROVE  /\ job.at = 0 => Step = S("recover", "none")
         /\ job.at > 0 => Step \in Steps
         /\ job.at = 1 => /\ Step.do = IF job.cmd = "sync" THEN "settle" ELSE "begin"
                          /\ job.cmd \in Unfounded =>
                               ~Late(Step) /\ Step.stage = IF job.cmd = "sync" THEN "workspace"
                                                           ELSE "uv.check"
<1>1. job.cmd \in Command /\ job.at \in Nat /\ job.at <= Len(Script[job.cmd])
  BY DEF TypeInv, JobInv
<1>2. PICK a, b : /\ Path(Script[job.cmd], a, b, job.cmd \in Unfounded)
                  /\ a.do = IF job.cmd = "sync" THEN "settle" ELSE "begin"
                  /\ job.cmd \in Unfounded =>
                       ~Late(a) /\ a.stage = IF job.cmd = "sync" THEN "workspace" ELSE "uv.check"
                  /\ b.do = "succeed"
  BY <1>1, Along
<1>3. Script[job.cmd] \in Seq(Steps) /\ Script[job.cmd][1] = a
  BY <1>2 DEF Path
<1> QED BY <1>1, <1>2, <1>3 DEF Step

(* What a step goes on with.                                               *)
LEMMA Advance ==
  ASSUME TypeInv, JobInv, job.cmd # "none", job'.cmd = job.cmd, job'.at = job.at + 1,
         job.at > 0 => Step.do # "succeed"
  PROVE  /\ job'.at \in Nat /\ job'.at <= Len(Script[job.cmd]) /\ Step' \in Steps
         /\ job.at > 0 => Joins(Step, Step', job.cmd \in Unfounded)
         /\ job.at = 0 => /\ Step'.do = IF job.cmd = "sync" THEN "settle" ELSE "begin"
                          /\ job.cmd \in Unfounded =>
                               ~Late(Step') /\ Step'.stage = IF job.cmd = "sync" THEN "workspace"
                                                             ELSE "uv.check"
<1>1. job.cmd \in Command /\ job.at \in Nat /\ job.at <= Len(Script[job.cmd])
  BY DEF TypeInv, JobInv
<1>2. PICK a, b : /\ Path(Script[job.cmd], a, b, job.cmd \in Unfounded)
                  /\ a.do = IF job.cmd = "sync" THEN "settle" ELSE "begin"
                  /\ job.cmd \in Unfounded =>
                       ~Late(a) /\ a.stage = IF job.cmd = "sync" THEN "workspace" ELSE "uv.check"
                  /\ b.do = "succeed"
  BY <1>1, Along
<1> DEFINE s == Script[job.cmd]
           n == job.at
<1>3. s \in Seq(Steps) /\ Len(s) \in Nat /\ Len(s) > 0 /\ s[1] = a /\ s[Len(s)] = b
  BY <1>2 DEF Path
<1>4. n > 0 => Step = s[n]
  BY <1>1 DEF Step
<1>5. n + 1 <= Len(s)
  BY <1>1, <1>2, <1>3, <1>4
<1>6. Step' = s[n + 1]
  BY <1>1 DEF Step
<1>7. n > 0 => Joins(s[n], s[n + 1], job.cmd \in Unfounded)
  <2>1. n > 0 => n \in 1..(Len(s) - 1)
    BY <1>1, <1>3, <1>5
  <2> QED BY <1>2, <2>1 DEF Path
<1>8. s[n + 1] \in Steps
  BY <1>1, <1>3, <1>5
<1> QED BY <1>1, <1>2, <1>3, <1>4, <1>5, <1>6, <1>7, <1>8
(* What a command leaves: By(own, A) and Untold(A), seen from A.           *)
Hurts == hurt' \in BOOLEAN /\ (hurt' => (hurt \/ Usable) /\ ~Usable')

(* A command ends, and uv, Python and the venv are as they were.           *)
LEMMA EndKeeps ==
  ASSUME EnvInv, Hurts, job' = Idle, UNCHANGED <<repo, pending, uv, python, venv>>,
         archive' \in Part, calm' \in BOOLEAN,
         mut' \in [stage : Stage \cup {"none"}, version : Version \cup {None}],
         mut'.stage = "none" <=> mut' = NoRecord,
         \/ env' = env
         \/ env'.status = "broken" /\ env'.rev \in Revision
         \/ env' = Ready(repo) /\ Usable,
         env' \in [status : {"uninitialized", "ready", "broken"}, rev : Revision \cup {None}],
         env' = env /\ Exposed => Invalidates(mut'.stage)
  PROVE  EnvInv'
<1>1. Usable' = Usable
  BY DEF Usable
<1>2. hurt' => hurt /\ ~Usable
  BY <1>1 DEF Hurts
<1>3. TypeInv'
  <2>1. Idle \in [cmd : Command \cup {"none"}, at : Nat, version : Version \cup {None},
                 rev : Revision \cup {None}, ifNeeded : BOOLEAN, open : BOOLEAN]
    BY DEF Idle
  <2> QED BY <2>1 DEF TypeInv, EnvInv, Idle, Hurts
<1>4. env'.status = "ready" => env' = env \/ (env' = Ready(repo) /\ Usable)
  OBVIOUS
<1>5. RepoInv'
  BY <1>3, <1>4 DEF RepoInv, EnvInv, Idle, Usable, TypeInv, Ready
<1>6. JobInv'
  BY DEF JobInv, Idle, At
<1>7. HurtInv'
  <2>1. Exposed' => (env' = env /\ Exposed) \/ (env' = Ready(repo) /\ Usable /\ hurt)
    BY <1>2, <1>4 DEF Exposed, Ready
  <2> QED BY <1>1, <1>2, <2>1 DEF HurtInv, EnvInv, Idle, Exposed
<1> QED BY <1>3, <1>5, <1>6, <1>7 DEF EnvInv

(* persistM5FailureWithLifecycle, at the end of a command.                 *)
LEMMA BreaksKeeps ==
  ASSUME EnvInv, Hurts, Breaks, job' = Idle, UNCHANGED <<repo, pending, uv, python, venv>>,
         archive' \in Part, calm' \in BOOLEAN,
         job.cmd # "none", job.at > 0, Step.do # "settle"
  PROVE  EnvInv'
<1>1. /\ mut' \in {mut, NoRecord}
      /\ \/ env' = (IF job.rev = None THEN env ELSE Broken(job.rev))
         \/ mut' = mut /\ env' \in {env, Broken(job.rev)} /\ job.rev # None
  BY DEF Breaks, Dropped
<1>2. NoRecord \in [stage : Stage \cup {"none"}, version : Version \cup {None}]
  BY DEF NoRecord
<1>3. job.rev # None => job.rev \in Revision
  BY DEF EnvInv, TypeInv
<1>4. mut \in [stage : Stage \cup {"none"}, version : Version \cup {None}]
      /\ (mut.stage = "none" <=> mut = NoRecord)
  BY DEF EnvInv, TypeInv
<1>5. mut' \in [stage : Stage \cup {"none"}, version : Version \cup {None}]
      /\ (mut'.stage = "none" <=> mut' = NoRecord)
  BY <1>1, <1>2, <1>4 DEF NoRecord
<1>6. \/ env' = env
      \/ env' = Broken(job.rev) /\ job.rev \in Revision
  BY <1>1, <1>3
<1>7. env \in [status : {"uninitialized", "ready", "broken"}, rev : Revision \cup {None}]
  BY DEF EnvInv, TypeInv
<1>8. env' \in [status : {"uninitialized", "ready", "broken"}, rev : Revision \cup {None}]
      /\ (env' = env \/ (env'.status = "broken" /\ env'.rev \in Revision))
  BY <1>6, <1>7 DEF Broken
<1>9. env' = env /\ Exposed => Invalidates(mut'.stage)
  <2>1. job.rev = None => env.status # "ready"
    BY DEF EnvInv, RepoInv
  <2>2. Exposed => env.status = "ready" /\ Invalidates(mut.stage)
    BY DEF Exposed, Ready, EnvInv, HurtInv
  <2>3. job.rev # None /\ env' = env /\ Exposed => mut' = mut
    BY <1>1, <2>2 DEF Broken
  <2> QED BY <2>1, <2>2, <2>3
<1> QED BY <1>5, <1>8, <1>9, EndKeeps
(* The record is written, or moves to the next stage.                      *)
LEMMA WriteRecordKeeps ==
  ASSUME EnvInv, Hurts, WriteRecord
  PROVE  EnvInv'
<1>1. job.cmd # "none" /\ Step.do \in {"begin", "mark"}
  BY DEF WriteRecord, At
<1>2. TypeInv /\ JobInv /\ RepoInv /\ HurtInv
  BY DEF EnvInv
<1>3. job.at > 0 /\ Step \in Steps
  BY <1>1, <1>2, Now DEF S, TypeInv
<1>4. job'.cmd = job.cmd /\ job'.at = job.at + 1
  BY <1>2 DEF WriteRecord, Proceed, After, Marked, TargetVersion, Version, Late, TypeInv
<1>5. job'.at \in Nat /\ job'.at <= Len(Script[job.cmd]) /\ Step' \in Steps
      /\ Joins(Step, Step', job.cmd \in Unfounded)
  BY <1>1, <1>2, <1>3, <1>4, Advance
<1>6. TypeInv'
  <2>1. /\ job' \in [cmd : Command \cup {"none"}, at : Nat, version : Version \cup {None},
                     rev : Revision \cup {None}, ifNeeded : BOOLEAN, open : BOOLEAN]
        /\ job'.open => job.open \/ Step.do \in {"begin", "mark"}
    BY <1>1, <1>2, <1>5 DEF WriteRecord, Proceed, After, Marked, TargetVersion, Version, Late,
                            TypeInv
  <2>2. /\ mut' \in [stage : Stage \cup {"none"}, version : Version \cup {None}]
        /\ mut'.stage = "none" <=> mut' = NoRecord
        /\ Step.do \in {"begin", "mark"} => mut' # NoRecord
        /\ job'.open /\ job.open => mut' # NoRecord
    BY <1>1, <1>2, <1>3 DEF WriteRecord, Proceed, After, Marked, TargetVersion, Version, Late,
                            record, tool, TypeInv, RepoInv, JobInv, Founded, At, NoRecord, Steps,
       Stage, Late, Unfounded
  <2>3. /\ env' \in [status : {"uninitialized", "ready", "broken"}, rev : Revision \cup {None}]
        /\ repo' \in Revision \cup {None} /\ pending' \in BOOLEAN /\ calm' \in BOOLEAN
    BY <1>1, <1>2, <1>3 DEF WriteRecord, Proceed, After, Marked, TargetVersion, Version, Late,
                            record, tool, TypeInv, RepoInv, JobInv, Founded, At
  <2>4. /\ uv' \in Part /\ archive' \in Part /\ python' \in Part
        /\ venv' \in Revision \cup {"none", "bad"}
    BY <1>1, <1>2, <1>3 DEF WriteRecord, Proceed, After, Marked, TargetVersion, Version, Late,
                            record, tool, TypeInv, RepoInv, JobInv, Founded, At, Part
  <2> QED BY <2>1, <2>2, <2>3, <2>4 DEF TypeInv, Hurts
<1>7. RepoInv'
  BY RevisionAssumption, <1>1, <1>2, <1>3, <1>4, <1>5, <1>6
     DEF WriteRecord, Proceed, After, Marked, TargetVersion, Version, Late, record, tool,
         RepoInv, JobInv, At, Founded, TypeInv, Unfounded, Joins, Pair, Even, Invalidates, Usable
<1>8. JobInv'
  BY <1>1, <1>2, <1>3, <1>4, <1>5, <1>6
     DEF WriteRecord, Proceed, After, Marked, TargetVersion, Version, Late, record, tool, JobInv,
         RepoInv, Founded, At, TypeInv, Usable, Unfounded, Joins, Pair, Even, Invalidates
<1>9. HurtInv'
  BY <1>1, <1>2, <1>3, <1>4, <1>5, <1>6, <1>8
     DEF WriteRecord, Proceed, After, Marked, TargetVersion, Version, Late, record, tool,
         HurtInv, RepoInv, JobInv, Founded, Hurts, Exposed, Usable, At, Ready, TypeInv,
         Unfounded, Joins, Pair, Even, Invalidates
<1> QED BY <1>6, <1>7, <1>8, <1>9 DEF EnvInv

(* The record is removed.                                                  *)
LEMMA DropRecordKeeps ==
  ASSUME EnvInv, Hurts, DropRecord
  PROVE  EnvInv'
<1>1. job.cmd # "none" /\ Step.do \in {"drop"}
  BY DEF DropRecord, At
<1>2. TypeInv /\ JobInv /\ RepoInv /\ HurtInv
  BY DEF EnvInv
<1>3. job.at > 0 /\ Step \in Steps
  BY <1>1, <1>2, Now DEF S, TypeInv
<1>4. job'.cmd = job.cmd /\ job'.at = job.at + 1
  BY <1>2 DEF DropRecord, Proceed, After, TypeInv
<1>5. job'.at \in Nat /\ job'.at <= Len(Script[job.cmd]) /\ Step' \in Steps
      /\ Joins(Step, Step', job.cmd \in Unfounded)
  BY <1>1, <1>2, <1>3, <1>4, Advance
<1>6. TypeInv'
  <2>1. /\ job' \in [cmd : Command \cup {"none"}, at : Nat, version : Version \cup {None},
                     rev : Revision \cup {None}, ifNeeded : BOOLEAN, open : BOOLEAN]
        /\ job'.open => job.open \/ Step.do \in {"begin", "mark"}
    BY <1>1, <1>2, <1>5 DEF DropRecord, Proceed, After, TypeInv
  <2>2. /\ mut' \in [stage : Stage \cup {"none"}, version : Version \cup {None}]
        /\ mut'.stage = "none" <=> mut' = NoRecord
        /\ Step.do \in {"begin", "mark"} => mut' # NoRecord
        /\ job'.open /\ job.open => mut' # NoRecord
    BY <1>1, <1>2, <1>3 DEF DropRecord, Proceed, After, record, tool, TypeInv, RepoInv, JobInv,
                            Founded, At, NoRecord, Steps,
       Stage, Late, Unfounded
  <2>3. /\ env' \in [status : {"uninitialized", "ready", "broken"}, rev : Revision \cup {None}]
        /\ repo' \in Revision \cup {None} /\ pending' \in BOOLEAN /\ calm' \in BOOLEAN
    BY <1>1, <1>2, <1>3 DEF DropRecord, Proceed, After, record, tool, TypeInv, RepoInv, JobInv,
                            Founded, At
  <2>4. /\ uv' \in Part /\ archive' \in Part /\ python' \in Part
        /\ venv' \in Revision \cup {"none", "bad"}
    BY <1>1, <1>2, <1>3 DEF DropRecord, Proceed, After, record, tool, TypeInv, RepoInv, JobInv,
                            Founded, At, Part
  <2> QED BY <2>1, <2>2, <2>3, <2>4 DEF TypeInv, Hurts
<1>7. RepoInv'
  BY RevisionAssumption, <1>1, <1>2, <1>3, <1>4, <1>5, <1>6
     DEF DropRecord, Proceed, After, record, tool, RepoInv, JobInv, At, Founded, TypeInv,
         Unfounded, Joins, Pair, Even, Late, Invalidates, Usable
<1>8. JobInv'
  BY <1>1, <1>2, <1>3, <1>4, <1>5, <1>6
     DEF DropRecord, Proceed, After, record, tool, JobInv, RepoInv, Founded, At, TypeInv, Usable,
         Unfounded, Joins, Pair, Even, Late, Invalidates
<1>9. HurtInv'
  BY <1>1, <1>2, <1>3, <1>4, <1>5, <1>6, <1>8
     DEF DropRecord, Proceed, After, record, tool, HurtInv, RepoInv, JobInv, Founded, Hurts,
         Exposed, Usable, At, Ready, TypeInv, Unfounded, Joins, Pair, Even, Late, Invalidates
<1> QED BY <1>6, <1>7, <1>8, <1>9 DEF EnvInv

(* An executable of the right version is kept.                             *)
LEMMA UVKeptKeeps ==
  ASSUME EnvInv, Hurts, UVKept
  PROVE  EnvInv'
<1>1. job.cmd # "none" /\ Step.do \in {"ensureUV"}
  BY DEF UVKept, At
<1>2. TypeInv /\ JobInv /\ RepoInv /\ HurtInv
  BY DEF EnvInv
<1>3. job.at > 0 /\ Step \in Steps
  BY <1>1, <1>2, Now DEF S, TypeInv
<1>4. job'.cmd = job.cmd /\ job'.at = job.at + 1
  BY <1>2 DEF UVKept, Proceed, After, UVIs, TypeInv
<1>5. job'.at \in Nat /\ job'.at <= Len(Script[job.cmd]) /\ Step' \in Steps
      /\ Joins(Step, Step', job.cmd \in Unfounded)
  BY <1>1, <1>2, <1>3, <1>4, Advance
<1>6. TypeInv'
  <2>1. /\ job' \in [cmd : Command \cup {"none"}, at : Nat, version : Version \cup {None},
                     rev : Revision \cup {None}, ifNeeded : BOOLEAN, open : BOOLEAN]
        /\ job'.open => job.open \/ Step.do \in {"begin", "mark"}
    BY <1>1, <1>2, <1>5 DEF UVKept, Proceed, After, UVIs, TypeInv
  <2>2. /\ mut' \in [stage : Stage \cup {"none"}, version : Version \cup {None}]
        /\ mut'.stage = "none" <=> mut' = NoRecord
        /\ Step.do \in {"begin", "mark"} => mut' # NoRecord
        /\ job'.open /\ job.open => mut' # NoRecord
    BY <1>1, <1>2, <1>3 DEF UVKept, Proceed, After, UVIs, record, tool, TypeInv, RepoInv,
                            JobInv, Founded, At, NoRecord, Steps,
       Stage, Late, Unfounded
  <2>3. /\ env' \in [status : {"uninitialized", "ready", "broken"}, rev : Revision \cup {None}]
        /\ repo' \in Revision \cup {None} /\ pending' \in BOOLEAN /\ calm' \in BOOLEAN
    BY <1>1, <1>2, <1>3 DEF UVKept, Proceed, After, UVIs, record, tool, TypeInv, RepoInv,
                            JobInv, Founded, At
  <2>4. /\ uv' \in Part /\ archive' \in Part /\ python' \in Part
        /\ venv' \in Revision \cup {"none", "bad"}
    BY <1>1, <1>2, <1>3 DEF UVKept, Proceed, After, UVIs, record, tool, TypeInv, RepoInv,
                            JobInv, Founded, At, Part
  <2> QED BY <2>1, <2>2, <2>3, <2>4 DEF TypeInv, Hurts
<1>7. RepoInv'
  BY RevisionAssumption, <1>1, <1>2, <1>3, <1>4, <1>5, <1>6
     DEF UVKept, Proceed, After, UVIs, record, tool, RepoInv, JobInv, At, Founded, TypeInv,
         Unfounded, Joins, Pair, Even, Late, Invalidates, Usable
<1>8. JobInv'
  BY <1>1, <1>2, <1>3, <1>4, <1>5, <1>6
     DEF UVKept, Proceed, After, UVIs, record, tool, JobInv, RepoInv, Founded, At, TypeInv,
         Usable, Unfounded, Joins, Pair, Even, Late, Invalidates
<1>9. HurtInv'
  BY <1>1, <1>2, <1>3, <1>4, <1>5, <1>6, <1>8
     DEF UVKept, Proceed, After, UVIs, record, tool, HurtInv, RepoInv, JobInv, Founded, Hurts,
         Exposed, Usable, At, Ready, TypeInv, Unfounded, Joins, Pair, Even, Late, Invalidates
<1> QED BY <1>6, <1>7, <1>8, <1>9 DEF EnvInv

(* A new one is published.                                                 *)
LEMMA UVPublishedKeeps ==
  ASSUME EnvInv, Hurts, UVPublished
  PROVE  EnvInv'
<1>1. job.cmd # "none" /\ Step.do \in {"ensureUV"}
  BY DEF UVPublished, At
<1>2. TypeInv /\ JobInv /\ RepoInv /\ HurtInv
  BY DEF EnvInv
<1>3. job.at > 0 /\ Step \in Steps
  BY <1>1, <1>2, Now DEF S, TypeInv
<1>4. job'.cmd = job.cmd /\ job'.at = job.at + 1
  BY <1>2 DEF UVPublished, Proceed, After, UVIs, TypeInv
<1>5. job'.at \in Nat /\ job'.at <= Len(Script[job.cmd]) /\ Step' \in Steps
      /\ Joins(Step, Step', job.cmd \in Unfounded)
  BY <1>1, <1>2, <1>3, <1>4, Advance
<1>6. TypeInv'
  <2>1. /\ job' \in [cmd : Command \cup {"none"}, at : Nat, version : Version \cup {None},
                     rev : Revision \cup {None}, ifNeeded : BOOLEAN, open : BOOLEAN]
        /\ job'.open => job.open \/ Step.do \in {"begin", "mark"}
    BY <1>1, <1>2, <1>5 DEF UVPublished, Proceed, After, UVIs, TypeInv
  <2>2. /\ mut' \in [stage : Stage \cup {"none"}, version : Version \cup {None}]
        /\ mut'.stage = "none" <=> mut' = NoRecord
        /\ Step.do \in {"begin", "mark"} => mut' # NoRecord
        /\ job'.open /\ job.open => mut' # NoRecord
    BY <1>1, <1>2, <1>3 DEF UVPublished, Proceed, After, UVIs, record, tool, TypeInv, RepoInv,
                            JobInv, Founded, At, NoRecord, Steps,
       Stage, Late, Unfounded
  <2>3. /\ env' \in [status : {"uninitialized", "ready", "broken"}, rev : Revision \cup {None}]
        /\ repo' \in Revision \cup {None} /\ pending' \in BOOLEAN /\ calm' \in BOOLEAN
    BY <1>1, <1>2, <1>3 DEF UVPublished, Proceed, After, UVIs, record, tool, TypeInv, RepoInv,
                            JobInv, Founded, At
  <2>4. /\ uv' \in Part /\ archive' \in Part /\ python' \in Part
        /\ venv' \in Revision \cup {"none", "bad"}
    BY <1>1, <1>2, <1>3 DEF UVPublished, Proceed, After, UVIs, record, tool, TypeInv, RepoInv,
                            JobInv, Founded, At, Part
  <2> QED BY <2>1, <2>2, <2>3, <2>4 DEF TypeInv, Hurts
<1>7. RepoInv'
  BY RevisionAssumption, <1>1, <1>2, <1>3, <1>4, <1>5, <1>6
     DEF UVPublished, Proceed, After, UVIs, record, tool, RepoInv, JobInv, At, Founded, TypeInv,
         Unfounded, Joins, Pair, Even, Late, Invalidates, Usable
<1>8. JobInv'
  BY <1>1, <1>2, <1>3, <1>4, <1>5, <1>6
     DEF UVPublished, Proceed, After, UVIs, record, tool, JobInv, RepoInv, Founded, At, TypeInv,
         Usable, Unfounded, Joins, Pair, Even, Late, Invalidates
<1>9. HurtInv'
  BY <1>1, <1>2, <1>3, <1>4, <1>5, <1>6, <1>8
     DEF UVPublished, Proceed, After, UVIs, record, tool, HurtInv, RepoInv, JobInv, Founded,
         Hurts, Exposed, Usable, At, Ready, TypeInv, Unfounded, Joins, Pair, Even, Late,
         Invalidates
<1> QED BY <1>6, <1>7, <1>8, <1>9 DEF EnvInv

(* The Python specification of the project.                                *)
LEMMA ReadSpecKeeps ==
  ASSUME EnvInv, Hurts, ReadSpec
  PROVE  EnvInv'
<1>1. job.cmd # "none" /\ Step.do \in {"readSpec"}
  BY DEF ReadSpec, At
<1>2. TypeInv /\ JobInv /\ RepoInv /\ HurtInv
  BY DEF EnvInv
<1>3. job.at > 0 /\ Step \in Steps
  BY <1>1, <1>2, Now DEF S, TypeInv
<1>4. job'.cmd = job.cmd /\ job'.at = job.at + 1
  BY <1>2 DEF ReadSpec, Proceed, After, TypeInv
<1>5. job'.at \in Nat /\ job'.at <= Len(Script[job.cmd]) /\ Step' \in Steps
      /\ Joins(Step, Step', job.cmd \in Unfounded)
  BY <1>1, <1>2, <1>3, <1>4, Advance
<1>6. TypeInv'
  <2>1. /\ job' \in [cmd : Command \cup {"none"}, at : Nat, version : Version \cup {None},
                     rev : Revision \cup {None}, ifNeeded : BOOLEAN, open : BOOLEAN]
        /\ job'.open => job.open \/ Step.do \in {"begin", "mark"}
    BY <1>1, <1>2, <1>5 DEF ReadSpec, Proceed, After, TypeInv
  <2>2. /\ mut' \in [stage : Stage \cup {"none"}, version : Version \cup {None}]
        /\ mut'.stage = "none" <=> mut' = NoRecord
        /\ Step.do \in {"begin", "mark"} => mut' # NoRecord
        /\ job'.open /\ job.open => mut' # NoRecord
    BY <1>1, <1>2, <1>3 DEF ReadSpec, Proceed, After, record, tool, TypeInv, RepoInv, JobInv,
                            Founded, At, NoRecord, Steps,
       Stage, Late, Unfounded
  <2>3. /\ env' \in [status : {"uninitialized", "ready", "broken"}, rev : Revision \cup {None}]
        /\ repo' \in Revision \cup {None} /\ pending' \in BOOLEAN /\ calm' \in BOOLEAN
    BY <1>1, <1>2, <1>3 DEF ReadSpec, Proceed, After, record, tool, TypeInv, RepoInv, JobInv,
                            Founded, At
  <2>4. /\ uv' \in Part /\ archive' \in Part /\ python' \in Part
        /\ venv' \in Revision \cup {"none", "bad"}
    BY <1>1, <1>2, <1>3 DEF ReadSpec, Proceed, After, record, tool, TypeInv, RepoInv, JobInv,
                            Founded, At, Part
  <2> QED BY <2>1, <2>2, <2>3, <2>4 DEF TypeInv, Hurts
<1>7. RepoInv'
  BY RevisionAssumption, <1>1, <1>2, <1>3, <1>4, <1>5, <1>6
     DEF ReadSpec, Proceed, After, record, tool, RepoInv, JobInv, At, Founded, TypeInv,
         Unfounded, Joins, Pair, Even, Late, Invalidates, Usable
<1>8. JobInv'
  BY <1>1, <1>2, <1>3, <1>4, <1>5, <1>6
     DEF ReadSpec, Proceed, After, record, tool, JobInv, RepoInv, Founded, At, TypeInv, Usable,
         Unfounded, Joins, Pair, Even, Late, Invalidates
<1>9. HurtInv'
  BY <1>1, <1>2, <1>3, <1>4, <1>5, <1>6, <1>8
     DEF ReadSpec, Proceed, After, record, tool, HurtInv, RepoInv, JobInv, Founded, Hurts,
         Exposed, Usable, At, Ready, TypeInv, Unfounded, Joins, Pair, Even, Late, Invalidates
<1> QED BY <1>6, <1>7, <1>8, <1>9 DEF EnvInv

(* The venv is deleted.                                                    *)
LEMMA RebuildVenvKeeps ==
  ASSUME EnvInv, Hurts, RebuildVenv
  PROVE  EnvInv'
<1>1. job.cmd # "none" /\ Step.do \in {"rebuildVenv"}
  BY DEF RebuildVenv, At
<1>2. TypeInv /\ JobInv /\ RepoInv /\ HurtInv
  BY DEF EnvInv
<1>3. job.at > 0 /\ Step \in Steps
  BY <1>1, <1>2, Now DEF S, TypeInv
<1>4. job'.cmd = job.cmd /\ job'.at = job.at + 1
  BY <1>2 DEF RebuildVenv, Proceed, After, TypeInv
<1>5. job'.at \in Nat /\ job'.at <= Len(Script[job.cmd]) /\ Step' \in Steps
      /\ Joins(Step, Step', job.cmd \in Unfounded)
  BY <1>1, <1>2, <1>3, <1>4, Advance
<1>6. TypeInv'
  <2>1. /\ job' \in [cmd : Command \cup {"none"}, at : Nat, version : Version \cup {None},
                     rev : Revision \cup {None}, ifNeeded : BOOLEAN, open : BOOLEAN]
        /\ job'.open => job.open \/ Step.do \in {"begin", "mark"}
    BY <1>1, <1>2, <1>5 DEF RebuildVenv, Proceed, After, TypeInv
  <2>2. /\ mut' \in [stage : Stage \cup {"none"}, version : Version \cup {None}]
        /\ mut'.stage = "none" <=> mut' = NoRecord
        /\ Step.do \in {"begin", "mark"} => mut' # NoRecord
        /\ job'.open /\ job.open => mut' # NoRecord
    BY <1>1, <1>2, <1>3 DEF RebuildVenv, Proceed, After, record, tool, TypeInv, RepoInv, JobInv,
                            Founded, At, NoRecord, Steps,
       Stage, Late, Unfounded
  <2>3. /\ env' \in [status : {"uninitialized", "ready", "broken"}, rev : Revision \cup {None}]
        /\ repo' \in Revision \cup {None} /\ pending' \in BOOLEAN /\ calm' \in BOOLEAN
    BY <1>1, <1>2, <1>3 DEF RebuildVenv, Proceed, After, record, tool, TypeInv, RepoInv, JobInv,
                            Founded, At
  <2>4. /\ uv' \in Part /\ archive' \in Part /\ python' \in Part
        /\ venv' \in Revision \cup {"none", "bad"}
    BY <1>1, <1>2, <1>3 DEF RebuildVenv, Proceed, After, record, tool, TypeInv, RepoInv, JobInv,
                            Founded, At, Part
  <2> QED BY <2>1, <2>2, <2>3, <2>4 DEF TypeInv, Hurts
<1>7. RepoInv'
  BY RevisionAssumption, <1>1, <1>2, <1>3, <1>4, <1>5, <1>6
     DEF RebuildVenv, Proceed, After, record, tool, RepoInv, JobInv, At, Founded, TypeInv,
         Unfounded, Joins, Pair, Even, Late, Invalidates, Usable
<1>8. JobInv'
  BY <1>1, <1>2, <1>3, <1>4, <1>5, <1>6
     DEF RebuildVenv, Proceed, After, record, tool, JobInv, RepoInv, Founded, At, TypeInv,
         Usable, Unfounded, Joins, Pair, Even, Late, Invalidates
<1>9. HurtInv'
  BY <1>1, <1>2, <1>3, <1>4, <1>5, <1>6, <1>8
     DEF RebuildVenv, Proceed, After, record, tool, HurtInv, RepoInv, JobInv, Founded, Hurts,
         Exposed, Usable, At, Ready, TypeInv, Unfounded, Joins, Pair, Even, Late, Invalidates
<1> QED BY <1>6, <1>7, <1>8, <1>9 DEF EnvInv

(* The venv is what the lock file of the revision asks for.                *)
LEMMA SyncVenvKeeps ==
  ASSUME EnvInv, Hurts, SyncVenv
  PROVE  EnvInv'
<1>1. job.cmd # "none" /\ Step.do \in {"syncVenv"}
  BY DEF SyncVenv, At
<1>2. TypeInv /\ JobInv /\ RepoInv /\ HurtInv
  BY DEF EnvInv
<1>3. job.at > 0 /\ Step \in Steps
  BY <1>1, <1>2, Now DEF S, TypeInv
<1>4. job'.cmd = job.cmd /\ job'.at = job.at + 1
  BY <1>2 DEF SyncVenv, Proceed, After, TypeInv
<1>5. job'.at \in Nat /\ job'.at <= Len(Script[job.cmd]) /\ Step' \in Steps
      /\ Joins(Step, Step', job.cmd \in Unfounded)
  BY <1>1, <1>2, <1>3, <1>4, Advance
<1>6. TypeInv'
  <2>1. /\ job' \in [cmd : Command \cup {"none"}, at : Nat, version : Version \cup {None},
                     rev : Revision \cup {None}, ifNeeded : BOOLEAN, open : BOOLEAN]
        /\ job'.open => job.open \/ Step.do \in {"begin", "mark"}
    BY <1>1, <1>2, <1>5 DEF SyncVenv, Proceed, After, TypeInv
  <2>2. /\ mut' \in [stage : Stage \cup {"none"}, version : Version \cup {None}]
        /\ mut'.stage = "none" <=> mut' = NoRecord
        /\ Step.do \in {"begin", "mark"} => mut' # NoRecord
        /\ job'.open /\ job.open => mut' # NoRecord
    BY <1>1, <1>2, <1>3 DEF SyncVenv, Proceed, After, record, tool, TypeInv, RepoInv, JobInv,
                            Founded, At, NoRecord, Steps,
       Stage, Late, Unfounded
  <2>3. /\ env' \in [status : {"uninitialized", "ready", "broken"}, rev : Revision \cup {None}]
        /\ repo' \in Revision \cup {None} /\ pending' \in BOOLEAN /\ calm' \in BOOLEAN
    BY <1>1, <1>2, <1>3 DEF SyncVenv, Proceed, After, record, tool, TypeInv, RepoInv, JobInv,
                            Founded, At
  <2>4. /\ uv' \in Part /\ archive' \in Part /\ python' \in Part
        /\ venv' \in Revision \cup {"none", "bad"}
    BY <1>1, <1>2, <1>3 DEF SyncVenv, Proceed, After, record, tool, TypeInv, RepoInv, JobInv,
                            Founded, At, Part
  <2> QED BY <2>1, <2>2, <2>3, <2>4 DEF TypeInv, Hurts
<1>7. RepoInv'
  BY RevisionAssumption, <1>1, <1>2, <1>3, <1>4, <1>5, <1>6
     DEF SyncVenv, Proceed, After, record, tool, RepoInv, JobInv, At, Founded, TypeInv,
         Unfounded, Joins, Pair, Even, Late, Invalidates, Usable
<1>8. JobInv'
  BY <1>1, <1>2, <1>3, <1>4, <1>5, <1>6
     DEF SyncVenv, Proceed, After, record, tool, JobInv, RepoInv, Founded, At, TypeInv, Usable,
         Unfounded, Joins, Pair, Even, Late, Invalidates
<1>9. HurtInv'
  BY <1>1, <1>2, <1>3, <1>4, <1>5, <1>6, <1>8
     DEF SyncVenv, Proceed, After, record, tool, HurtInv, RepoInv, JobInv, Founded, Hurts,
         Exposed, Usable, At, Ready, TypeInv, Unfounded, Joins, Pair, Even, Late, Invalidates
<1> QED BY <1>6, <1>7, <1>8, <1>9 DEF EnvInv

(* environment.json says ready.                                            *)
LEMMA CommitKeeps ==
  ASSUME EnvInv, Hurts, Commit
  PROVE  EnvInv'
<1>1. job.cmd # "none" /\ Step.do \in {"commit"}
  BY DEF Commit, At
<1>2. TypeInv /\ JobInv /\ RepoInv /\ HurtInv
  BY DEF EnvInv
<1>3. job.at > 0 /\ Step \in Steps
  BY <1>1, <1>2, Now DEF S, TypeInv
<1>4. job'.cmd = job.cmd /\ job'.at = job.at + 1
  BY <1>2 DEF Commit, Proceed, After, Ready, TypeInv
<1>5. job'.at \in Nat /\ job'.at <= Len(Script[job.cmd]) /\ Step' \in Steps
      /\ Joins(Step, Step', job.cmd \in Unfounded)
  BY <1>1, <1>2, <1>3, <1>4, Advance
<1>6. TypeInv'
  <2>1. /\ job' \in [cmd : Command \cup {"none"}, at : Nat, version : Version \cup {None},
                     rev : Revision \cup {None}, ifNeeded : BOOLEAN, open : BOOLEAN]
        /\ job'.open => job.open \/ Step.do \in {"begin", "mark"}
    BY <1>1, <1>2, <1>5 DEF Commit, Proceed, After, Ready, TypeInv
  <2>2. /\ mut' \in [stage : Stage \cup {"none"}, version : Version \cup {None}]
        /\ mut'.stage = "none" <=> mut' = NoRecord
        /\ Step.do \in {"begin", "mark"} => mut' # NoRecord
        /\ job'.open /\ job.open => mut' # NoRecord
    BY <1>1, <1>2, <1>3 DEF Commit, Proceed, After, Ready, record, tool, TypeInv, RepoInv,
                            JobInv, Founded, At, NoRecord, Steps,
       Stage, Late, Unfounded
  <2>3. /\ env' \in [status : {"uninitialized", "ready", "broken"}, rev : Revision \cup {None}]
        /\ repo' \in Revision \cup {None} /\ pending' \in BOOLEAN /\ calm' \in BOOLEAN
    BY <1>1, <1>2, <1>3 DEF Commit, Proceed, After, Ready, record, tool, TypeInv, RepoInv,
                            JobInv, Founded, At
  <2>4. /\ uv' \in Part /\ archive' \in Part /\ python' \in Part
        /\ venv' \in Revision \cup {"none", "bad"}
    BY <1>1, <1>2, <1>3 DEF Commit, Proceed, After, Ready, record, tool, TypeInv, RepoInv,
                            JobInv, Founded, At, Part
  <2> QED BY <2>1, <2>2, <2>3, <2>4 DEF TypeInv, Hurts
<1>7. RepoInv'
  BY RevisionAssumption, <1>1, <1>2, <1>3, <1>4, <1>5, <1>6
     DEF Commit, Proceed, After, Ready, record, tool, RepoInv, JobInv, At, Founded, TypeInv,
         Unfounded, Joins, Pair, Even, Late, Invalidates, Usable
<1>8. JobInv'
  BY <1>1, <1>2, <1>3, <1>4, <1>5, <1>6
     DEF Commit, Proceed, After, Ready, record, tool, JobInv, RepoInv, Founded, At, TypeInv,
         Usable, Unfounded, Joins, Pair, Even, Late, Invalidates
<1>9. HurtInv'
  BY <1>1, <1>2, <1>3, <1>4, <1>5, <1>6, <1>8
     DEF Commit, Proceed, After, Ready, record, tool, HurtInv, RepoInv, JobInv, Founded, Hurts,
         Exposed, Usable, At, Ready, TypeInv, Unfounded, Joins, Pair, Even, Late, Invalidates
<1> QED BY <1>6, <1>7, <1>8, <1>9 DEF EnvInv

(* The swap before is settled, or this one.                                *)
LEMMA SettleKeeps ==
  ASSUME EnvInv, Hurts, Settle
  PROVE  EnvInv'
<1>1. job.cmd # "none" /\ Step.do \in {"settle", "activate"}
  BY DEF Settle, At
<1>2. TypeInv /\ JobInv /\ RepoInv /\ HurtInv
  BY DEF EnvInv
<1>3. job.at > 0 /\ Step \in Steps
  BY <1>1, <1>2, Now DEF S, TypeInv
<1>4. job'.cmd = job.cmd /\ job'.at = job.at + 1
  BY <1>2 DEF Settle, Proceed, After, Broken, TypeInv
<1>5. job'.at \in Nat /\ job'.at <= Len(Script[job.cmd]) /\ Step' \in Steps
      /\ Joins(Step, Step', job.cmd \in Unfounded)
  BY <1>1, <1>2, <1>3, <1>4, Advance
<1>6. TypeInv'
  <2>1. /\ job' \in [cmd : Command \cup {"none"}, at : Nat, version : Version \cup {None},
                     rev : Revision \cup {None}, ifNeeded : BOOLEAN, open : BOOLEAN]
        /\ job'.open => job.open \/ Step.do \in {"begin", "mark"}
    BY <1>1, <1>2, <1>5 DEF Settle, Proceed, After, Broken, TypeInv
  <2>2. /\ mut' \in [stage : Stage \cup {"none"}, version : Version \cup {None}]
        /\ mut'.stage = "none" <=> mut' = NoRecord
        /\ Step.do \in {"begin", "mark"} => mut' # NoRecord
        /\ job'.open /\ job.open => mut' # NoRecord
    BY <1>1, <1>2, <1>3 DEF Settle, Proceed, After, Broken, record, tool, TypeInv, RepoInv,
                            JobInv, Founded, At, NoRecord, Steps,
       Stage, Late, Unfounded
  <2>3. /\ env' \in [status : {"uninitialized", "ready", "broken"}, rev : Revision \cup {None}]
        /\ repo' \in Revision \cup {None} /\ pending' \in BOOLEAN /\ calm' \in BOOLEAN
    BY <1>1, <1>2, <1>3 DEF Settle, Proceed, After, Broken, record, tool, TypeInv, RepoInv,
                            JobInv, Founded, At
  <2>4. /\ uv' \in Part /\ archive' \in Part /\ python' \in Part
        /\ venv' \in Revision \cup {"none", "bad"}
    BY <1>1, <1>2, <1>3 DEF Settle, Proceed, After, Broken, record, tool, TypeInv, RepoInv,
                            JobInv, Founded, At, Part
  <2> QED BY <2>1, <2>2, <2>3, <2>4 DEF TypeInv, Hurts
<1>7. RepoInv'
  BY RevisionAssumption, <1>1, <1>2, <1>3, <1>4, <1>5, <1>6
     DEF Settle, Proceed, After, Broken, record, tool, RepoInv, JobInv, At, Founded, TypeInv,
         Unfounded, Joins, Pair, Even, Late, Invalidates, Usable
<1>8. JobInv'
  BY <1>1, <1>2, <1>3, <1>4, <1>5, <1>6
     DEF Settle, Proceed, After, Broken, record, tool, JobInv, RepoInv, Founded, At, TypeInv,
         Usable, Unfounded, Joins, Pair, Even, Late, Invalidates
<1>9. HurtInv'
  BY <1>1, <1>2, <1>3, <1>4, <1>5, <1>6, <1>8
     DEF Settle, Proceed, After, Broken, record, tool, HurtInv, RepoInv, JobInv, Founded, Hurts,
         Exposed, Usable, At, Ready, TypeInv, Unfounded, Joins, Pair, Even, Late, Invalidates
<1> QED BY <1>6, <1>7, <1>8, <1>9 DEF EnvInv

(* The record of a synchronization overwrites what is there.               *)
LEMMA OpenSyncKeeps ==
  ASSUME EnvInv, hurt' = FALSE, OpenSync
  PROVE  EnvInv'
<1>1. job.cmd # "none" /\ Step.do \in {"open"}
  BY DEF OpenSync, At
<1>2. TypeInv /\ JobInv /\ RepoInv /\ HurtInv
  BY DEF EnvInv
<1>3. job.at > 0 /\ Step \in Steps
  BY <1>1, <1>2, Now DEF S, TypeInv
<1>4. job'.cmd = job.cmd /\ job'.at = job.at + 1
  BY <1>2 DEF OpenSync, Proceed, After, TypeInv
<1>5. job'.at \in Nat /\ job'.at <= Len(Script[job.cmd]) /\ Step' \in Steps
      /\ Joins(Step, Step', job.cmd \in Unfounded)
  BY <1>1, <1>2, <1>3, <1>4, Advance
<1>6. TypeInv'
  <2>1. /\ job' \in [cmd : Command \cup {"none"}, at : Nat, version : Version \cup {None},
                     rev : Revision \cup {None}, ifNeeded : BOOLEAN, open : BOOLEAN]
        /\ job'.open => job.open \/ Step.do \in {"begin", "mark"}
    BY <1>1, <1>2, <1>5 DEF OpenSync, Proceed, After, TypeInv
  <2>2. /\ mut' \in [stage : Stage \cup {"none"}, version : Version \cup {None}]
        /\ mut'.stage = "none" <=> mut' = NoRecord
        /\ Step.do \in {"begin", "mark"} => mut' # NoRecord
        /\ job'.open /\ job.open => mut' # NoRecord
    BY <1>1, <1>2, <1>3 DEF OpenSync, Proceed, After, record, tool, TypeInv, RepoInv, JobInv,
                            Founded, At, NoRecord, Steps,
       Stage, Late, Unfounded
  <2>3. /\ env' \in [status : {"uninitialized", "ready", "broken"}, rev : Revision \cup {None}]
        /\ repo' \in Revision \cup {None} /\ pending' \in BOOLEAN /\ calm' \in BOOLEAN
    BY <1>1, <1>2, <1>3 DEF OpenSync, Proceed, After, record, tool, TypeInv, RepoInv, JobInv,
                            Founded, At
  <2>4. /\ uv' \in Part /\ archive' \in Part /\ python' \in Part
        /\ venv' \in Revision \cup {"none", "bad"}
    BY <1>1, <1>2, <1>3 DEF OpenSync, Proceed, After, record, tool, TypeInv, RepoInv, JobInv,
                            Founded, At, Part
  <2> QED BY <2>1, <2>2, <2>3, <2>4 DEF TypeInv, Hurts
<1>7. RepoInv'
  BY RevisionAssumption, <1>1, <1>2, <1>3, <1>4, <1>5, <1>6
     DEF OpenSync, Proceed, After, record, tool, RepoInv, JobInv, At, Founded, TypeInv,
         Unfounded, Joins, Pair, Even, Late, Invalidates, Usable
<1>8. JobInv'
  BY <1>1, <1>2, <1>3, <1>4, <1>5, <1>6
     DEF OpenSync, Proceed, After, record, tool, JobInv, RepoInv, Founded, At, TypeInv, Usable,
         Unfounded, Joins, Pair, Even, Late, Invalidates
<1>9. HurtInv'
  BY <1>1, <1>2, <1>3, <1>4, <1>5, <1>6, <1>8
     DEF OpenSync, Proceed, After, record, tool, HurtInv, RepoInv, JobInv, Founded, Hurts,
         Exposed, Usable, At, Ready, TypeInv, Unfounded, Joins, Pair, Even, Late, Invalidates
<1> QED BY <1>6, <1>7, <1>8, <1>9 DEF EnvInv

(* The repository is another revision.                                     *)
LEMMA SwapKeeps ==
  ASSUME EnvInv, Hurts, Swap
  PROVE  EnvInv'
<1>1. job.cmd # "none" /\ Step.do \in {"swap"}
  BY DEF Swap, At
<1>2. TypeInv /\ JobInv /\ RepoInv /\ HurtInv
  BY DEF EnvInv
<1>3. job.at > 0 /\ Step \in Steps
  BY <1>1, <1>2, Now DEF S, TypeInv
<1>4. job'.cmd = job.cmd /\ job'.at = job.at + 1
  BY <1>2 DEF Swap, Proceed, After, TypeInv
<1>5. job'.at \in Nat /\ job'.at <= Len(Script[job.cmd]) /\ Step' \in Steps
      /\ Joins(Step, Step', job.cmd \in Unfounded)
  BY <1>1, <1>2, <1>3, <1>4, Advance
<1>6. TypeInv'
  <2>1. /\ job' \in [cmd : Command \cup {"none"}, at : Nat, version : Version \cup {None},
                     rev : Revision \cup {None}, ifNeeded : BOOLEAN, open : BOOLEAN]
        /\ job'.open => job.open \/ Step.do \in {"begin", "mark"}
    BY <1>1, <1>2, <1>5 DEF Swap, Proceed, After, TypeInv
  <2>2. /\ mut' \in [stage : Stage \cup {"none"}, version : Version \cup {None}]
        /\ mut'.stage = "none" <=> mut' = NoRecord
        /\ Step.do \in {"begin", "mark"} => mut' # NoRecord
        /\ job'.open /\ job.open => mut' # NoRecord
    BY <1>1, <1>2, <1>3 DEF Swap, Proceed, After, record, tool, TypeInv, RepoInv, JobInv,
                            Founded, At, NoRecord, Steps,
       Stage, Late, Unfounded
  <2>3. /\ env' \in [status : {"uninitialized", "ready", "broken"}, rev : Revision \cup {None}]
        /\ repo' \in Revision \cup {None} /\ pending' \in BOOLEAN /\ calm' \in BOOLEAN
    BY <1>1, <1>2, <1>3 DEF Swap, Proceed, After, record, tool, TypeInv, RepoInv, JobInv,
                            Founded, At
  <2>4. /\ uv' \in Part /\ archive' \in Part /\ python' \in Part
        /\ venv' \in Revision \cup {"none", "bad"}
    BY <1>1, <1>2, <1>3 DEF Swap, Proceed, After, record, tool, TypeInv, RepoInv, JobInv,
                            Founded, At, Part
  <2> QED BY <2>1, <2>2, <2>3, <2>4 DEF TypeInv, Hurts
<1>7. RepoInv'
  BY RevisionAssumption, <1>1, <1>2, <1>3, <1>4, <1>5, <1>6
     DEF Swap, Proceed, After, record, tool, RepoInv, JobInv, At, Founded, TypeInv, Unfounded,
         Joins, Pair, Even, Late, Invalidates, Usable
<1>8. JobInv'
  BY <1>1, <1>2, <1>3, <1>4, <1>5, <1>6
     DEF Swap, Proceed, After, record, tool, JobInv, RepoInv, Founded, At, TypeInv, Usable,
         Unfounded, Joins, Pair, Even, Late, Invalidates
<1>9. HurtInv'
  BY <1>1, <1>2, <1>3, <1>4, <1>5, <1>6, <1>8
     DEF Swap, Proceed, After, record, tool, HurtInv, RepoInv, JobInv, Founded, Hurts, Exposed,
         Usable, At, Ready, TypeInv, Unfounded, Joins, Pair, Even, Late, Invalidates
<1> QED BY <1>6, <1>7, <1>8, <1>9 DEF EnvInv

(* A damaged directory is removed.                                         *)
LEMMA UVRemovedKeeps ==
  ASSUME EnvInv, Hurts, UVRemoved
  PROVE  EnvInv'
<1>1. job.cmd # "none" /\ Step.do = "ensureUV"
  BY DEF UVRemoved, Erodes, At
<1>2. TypeInv /\ JobInv /\ RepoInv /\ HurtInv
  BY DEF EnvInv
<1>3. job.at > 0 /\ Step' = Step /\ UNCHANGED <<repo, env, pending, mut, job, calm>>
  BY <1>1, <1>2, Now DEF S, TypeInv, Step, UVRemoved, UVIs, record, tool
<1>4. TypeInv'
  BY <1>2, <1>3 DEF TypeInv, Hurts, Part, UVRemoved, UVIs, record, tool
<1>5. RepoInv'
  BY <1>2, <1>3 DEF RepoInv, Founded
<1>6. JobInv'
  BY <1>1, <1>2, <1>3 DEF JobInv, At, Usable
<1>7. HurtInv'
  BY <1>1, <1>2, <1>3, <1>4, <1>6
     DEF UVRemoved, UVIs, record, tool, HurtInv, RepoInv, JobInv, Founded, Hurts, Exposed,
         Usable, At, Even
<1> QED BY <1>4, <1>5, <1>6, <1>7 DEF EnvInv

(* An archive is downloaded.                                               *)
LEMMA UVDownloadedKeeps ==
  ASSUME EnvInv, Hurts, UVDownloaded
  PROVE  EnvInv'
<1>1. job.cmd # "none" /\ Step.do = "ensureUV"
  BY DEF UVDownloaded, Erodes, At
<1>2. TypeInv /\ JobInv /\ RepoInv /\ HurtInv
  BY DEF EnvInv
<1>3. job.at > 0 /\ Step' = Step /\ UNCHANGED <<repo, env, pending, mut, job, calm>>
  BY <1>1, <1>2, Now DEF S, TypeInv, Step, UVDownloaded, record, tool
<1>4. TypeInv'
  BY <1>2, <1>3 DEF TypeInv, Hurts, Part, UVDownloaded, record, tool
<1>5. RepoInv'
  BY <1>2, <1>3 DEF RepoInv, Founded
<1>6. JobInv'
  BY <1>1, <1>2, <1>3 DEF JobInv, At, Usable
<1>7. HurtInv'
  BY <1>1, <1>2, <1>3, <1>4, <1>6
     DEF UVDownloaded, record, tool, HurtInv, RepoInv, JobInv, Founded, Hurts, Exposed, Usable,
         At, Even
<1> QED BY <1>4, <1>5, <1>6, <1>7 DEF EnvInv

(* The installation is on its way.                                         *)
LEMMA PythonErodesKeeps ==
  ASSUME EnvInv, Hurts, PythonErodes
  PROVE  EnvInv'
<1>1. job.cmd # "none" /\ Step.do = "installPython"
  BY DEF PythonErodes, Erodes, At
<1>2. TypeInv /\ JobInv /\ RepoInv /\ HurtInv
  BY DEF EnvInv
<1>3. job.at > 0 /\ Step' = Step /\ UNCHANGED <<repo, env, pending, mut, job, calm>>
  BY <1>1, <1>2, Now DEF S, TypeInv, Step, PythonErodes, record, tool
<1>4. TypeInv'
  BY <1>2, <1>3 DEF TypeInv, Hurts, Part, PythonErodes, record, tool
<1>5. RepoInv'
  BY <1>2, <1>3 DEF RepoInv, Founded
<1>6. JobInv'
  BY <1>1, <1>2, <1>3 DEF JobInv, At, Usable
<1>7. HurtInv'
  BY <1>1, <1>2, <1>3, <1>4, <1>6
     DEF PythonErodes, record, tool, HurtInv, RepoInv, JobInv, Founded, Hurts, Exposed, Usable,
         At, Even
<1> QED BY <1>4, <1>5, <1>6, <1>7 DEF EnvInv

(* The venv is being deleted.                                              *)
LEMMA RebuildErodesKeeps ==
  ASSUME EnvInv, Hurts, RebuildErodes
  PROVE  EnvInv'
<1>1. job.cmd # "none" /\ Step.do = "rebuildVenv"
  BY DEF RebuildErodes, Erodes, At
<1>2. TypeInv /\ JobInv /\ RepoInv /\ HurtInv
  BY DEF EnvInv
<1>3. job.at > 0 /\ Step' = Step /\ UNCHANGED <<repo, env, pending, mut, job, calm>>
  BY <1>1, <1>2, Now DEF S, TypeInv, Step, RebuildErodes, Erodes, record, tool
<1>4. TypeInv'
  BY <1>2, <1>3 DEF TypeInv, Hurts, Part, RebuildErodes, Erodes, record, tool
<1>5. RepoInv'
  BY <1>2, <1>3 DEF RepoInv, Founded
<1>6. JobInv'
  BY <1>1, <1>2, <1>3 DEF JobInv, At, Usable
<1>7. HurtInv'
  BY <1>1, <1>2, <1>3, <1>4, <1>6
     DEF RebuildErodes, Erodes, record, tool, HurtInv, RepoInv, JobInv, Founded, Hurts, Exposed,
         Usable, At, Even
<1> QED BY <1>4, <1>5, <1>6, <1>7 DEF EnvInv

(* The venv is being changed.                                              *)
LEMMA SyncErodesKeeps ==
  ASSUME EnvInv, Hurts, SyncErodes
  PROVE  EnvInv'
<1>1. job.cmd # "none" /\ Step.do = "syncVenv"
  BY DEF SyncErodes, Erodes, At
<1>2. TypeInv /\ JobInv /\ RepoInv /\ HurtInv
  BY DEF EnvInv
<1>3. job.at > 0 /\ Step' = Step /\ UNCHANGED <<repo, env, pending, mut, job, calm>>
  BY <1>1, <1>2, Now DEF S, TypeInv, Step, SyncErodes, Erodes, record, tool
<1>4. TypeInv'
  BY <1>2, <1>3 DEF TypeInv, Hurts, Part, SyncErodes, Erodes, record, tool
<1>5. RepoInv'
  BY <1>2, <1>3 DEF RepoInv, Founded
<1>6. JobInv'
  BY <1>1, <1>2, <1>3 DEF JobInv, At, Usable
<1>7. HurtInv'
  BY <1>1, <1>2, <1>3, <1>4, <1>6
     DEF SyncErodes, Erodes, record, tool, HurtInv, RepoInv, JobInv, Founded, Hurts, Exposed,
         Usable, At, Even
<1> QED BY <1>4, <1>5, <1>6, <1>7 DEF EnvInv

(* The directory and the archive are removed.                              *)
LEMMA ClearsUVKeeps ==
  ASSUME EnvInv, Hurts, ClearsUV, Proceed
  PROVE  EnvInv'
<1>1. job.cmd # "none" /\ Step.do \in {"clearUV"}
  BY DEF ClearsUV, At
<1>2. TypeInv /\ JobInv /\ RepoInv /\ HurtInv
  BY DEF EnvInv
<1>3. job.at > 0 /\ Step \in Steps
  BY <1>1, <1>2, Now DEF S, TypeInv
<1>4. job'.cmd = job.cmd /\ job'.at = job.at + 1
  BY <1>2 DEF ClearsUV, Proceed, After, TypeInv
<1>5. job'.at \in Nat /\ job'.at <= Len(Script[job.cmd]) /\ Step' \in Steps
      /\ Joins(Step, Step', job.cmd \in Unfounded)
  BY <1>1, <1>2, <1>3, <1>4, Advance
<1>6. TypeInv'
  <2>1. /\ job' \in [cmd : Command \cup {"none"}, at : Nat, version : Version \cup {None},
                     rev : Revision \cup {None}, ifNeeded : BOOLEAN, open : BOOLEAN]
        /\ job'.open => job.open \/ Step.do \in {"begin", "mark"}
    BY <1>1, <1>2, <1>5 DEF ClearsUV, Proceed, After, TypeInv
  <2>2. /\ mut' \in [stage : Stage \cup {"none"}, version : Version \cup {None}]
        /\ mut'.stage = "none" <=> mut' = NoRecord
        /\ Step.do \in {"begin", "mark"} => mut' # NoRecord
        /\ job'.open /\ job.open => mut' # NoRecord
    BY <1>1, <1>2, <1>3 DEF ClearsUV, Proceed, After, record, tool, TypeInv, RepoInv, JobInv,
                            Founded, At, NoRecord, Steps,
       Stage, Late, Unfounded
  <2>3. /\ env' \in [status : {"uninitialized", "ready", "broken"}, rev : Revision \cup {None}]
        /\ repo' \in Revision \cup {None} /\ pending' \in BOOLEAN /\ calm' \in BOOLEAN
    BY <1>1, <1>2, <1>3 DEF ClearsUV, Proceed, After, record, tool, TypeInv, RepoInv, JobInv,
                            Founded, At
  <2>4. /\ uv' \in Part /\ archive' \in Part /\ python' \in Part
        /\ venv' \in Revision \cup {"none", "bad"}
    BY <1>1, <1>2, <1>3 DEF ClearsUV, Proceed, After, record, tool, TypeInv, RepoInv, JobInv,
                            Founded, At, Part
  <2> QED BY <2>1, <2>2, <2>3, <2>4 DEF TypeInv, Hurts
<1>7. RepoInv'
  BY RevisionAssumption, <1>1, <1>2, <1>3, <1>4, <1>5, <1>6
     DEF ClearsUV, Proceed, After, record, tool, RepoInv, JobInv, At, Founded, TypeInv,
         Unfounded, Joins, Pair, Even, Late, Invalidates, Usable
<1>8. JobInv'
  BY <1>1, <1>2, <1>3, <1>4, <1>5, <1>6
     DEF ClearsUV, Proceed, After, record, tool, JobInv, RepoInv, Founded, At, TypeInv, Usable,
         Unfounded, Joins, Pair, Even, Late, Invalidates
<1>9. HurtInv'
  BY <1>1, <1>2, <1>3, <1>4, <1>5, <1>6, <1>8
     DEF ClearsUV, Proceed, After, record, tool, HurtInv, RepoInv, JobInv, Founded, Hurts,
         Exposed, Usable, At, Ready, TypeInv, Unfounded, Joins, Pair, Even, Late, Invalidates
<1> QED BY <1>6, <1>7, <1>8, <1>9 DEF EnvInv

(* uv and Python are there.                                                *)
LEMMA CheckToolsKeeps ==
  ASSUME EnvInv, Hurts, CheckTools, Proceed, UNCHANGED record
  PROVE  EnvInv'
<1>1. job.cmd # "none" /\ Step.do \in {"checkTools"}
  BY DEF CheckTools, At
<1>2. TypeInv /\ JobInv /\ RepoInv /\ HurtInv
  BY DEF EnvInv
<1>3. job.at > 0 /\ Step \in Steps
  BY <1>1, <1>2, Now DEF S, TypeInv
<1>4. job'.cmd = job.cmd /\ job'.at = job.at + 1
  BY <1>2 DEF CheckTools, Proceed, After, TypeInv
<1>5. job'.at \in Nat /\ job'.at <= Len(Script[job.cmd]) /\ Step' \in Steps
      /\ Joins(Step, Step', job.cmd \in Unfounded)
  BY <1>1, <1>2, <1>3, <1>4, Advance
<1>6. TypeInv'
  <2>1. /\ job' \in [cmd : Command \cup {"none"}, at : Nat, version : Version \cup {None},
                     rev : Revision \cup {None}, ifNeeded : BOOLEAN, open : BOOLEAN]
        /\ job'.open => job.open \/ Step.do \in {"begin", "mark"}
    BY <1>1, <1>2, <1>5 DEF CheckTools, Proceed, After, TypeInv
  <2>2. /\ mut' \in [stage : Stage \cup {"none"}, version : Version \cup {None}]
        /\ mut'.stage = "none" <=> mut' = NoRecord
        /\ Step.do \in {"begin", "mark"} => mut' # NoRecord
        /\ job'.open /\ job.open => mut' # NoRecord
    BY <1>1, <1>2, <1>3 DEF CheckTools, Proceed, After, record, tool, TypeInv, RepoInv, JobInv,
                            Founded, At, NoRecord, Steps,
       Stage, Late, Unfounded
  <2>3. /\ env' \in [status : {"uninitialized", "ready", "broken"}, rev : Revision \cup {None}]
        /\ repo' \in Revision \cup {None} /\ pending' \in BOOLEAN /\ calm' \in BOOLEAN
    BY <1>1, <1>2, <1>3 DEF CheckTools, Proceed, After, record, tool, TypeInv, RepoInv, JobInv,
                            Founded, At
  <2>4. /\ uv' \in Part /\ archive' \in Part /\ python' \in Part
        /\ venv' \in Revision \cup {"none", "bad"}
    BY <1>1, <1>2, <1>3 DEF CheckTools, Proceed, After, record, tool, TypeInv, RepoInv, JobInv,
                            Founded, At, Part
  <2> QED BY <2>1, <2>2, <2>3, <2>4 DEF TypeInv, Hurts
<1>7. RepoInv'
  BY RevisionAssumption, <1>1, <1>2, <1>3, <1>4, <1>5, <1>6
     DEF CheckTools, Proceed, After, record, tool, RepoInv, JobInv, At, Founded, TypeInv,
         Unfounded, Joins, Pair, Even, Late, Invalidates, Usable
<1>8. JobInv'
  BY <1>1, <1>2, <1>3, <1>4, <1>5, <1>6
     DEF CheckTools, Proceed, After, record, tool, JobInv, RepoInv, Founded, At, TypeInv, Usable,
         Unfounded, Joins, Pair, Even, Late, Invalidates
<1>9. HurtInv'
  BY <1>1, <1>2, <1>3, <1>4, <1>5, <1>6, <1>8
     DEF CheckTools, Proceed, After, record, tool, HurtInv, RepoInv, JobInv, Founded, Hurts,
         Exposed, Usable, At, Ready, TypeInv, Unfounded, Joins, Pair, Even, Late, Invalidates
<1> QED BY <1>6, <1>7, <1>8, <1>9 DEF EnvInv

(* Python is installed.                                                    *)
LEMMA PythonInstalledKeeps ==
  ASSUME EnvInv, Hurts, PythonInstalled, Proceed, python' = "good", UNCHANGED record
  PROVE  EnvInv'
<1>1. job.cmd # "none" /\ Step.do \in {"installPython"}
  BY DEF PythonInstalled, At
<1>2. TypeInv /\ JobInv /\ RepoInv /\ HurtInv
  BY DEF EnvInv
<1>3. job.at > 0 /\ Step \in Steps
  BY <1>1, <1>2, Now DEF S, TypeInv
<1>4. job'.cmd = job.cmd /\ job'.at = job.at + 1
  BY <1>2 DEF PythonInstalled, Proceed, After, TypeInv
<1>5. job'.at \in Nat /\ job'.at <= Len(Script[job.cmd]) /\ Step' \in Steps
      /\ Joins(Step, Step', job.cmd \in Unfounded)
  BY <1>1, <1>2, <1>3, <1>4, Advance
<1>6. TypeInv'
  <2>1. /\ job' \in [cmd : Command \cup {"none"}, at : Nat, version : Version \cup {None},
                     rev : Revision \cup {None}, ifNeeded : BOOLEAN, open : BOOLEAN]
        /\ job'.open => job.open \/ Step.do \in {"begin", "mark"}
    BY <1>1, <1>2, <1>5 DEF PythonInstalled, Proceed, After, TypeInv
  <2>2. /\ mut' \in [stage : Stage \cup {"none"}, version : Version \cup {None}]
        /\ mut'.stage = "none" <=> mut' = NoRecord
        /\ Step.do \in {"begin", "mark"} => mut' # NoRecord
        /\ job'.open /\ job.open => mut' # NoRecord
    BY <1>1, <1>2, <1>3 DEF PythonInstalled, Proceed, After, record, tool, TypeInv, RepoInv,
                            JobInv, Founded, At, NoRecord, Steps,
       Stage, Late, Unfounded
  <2>3. /\ env' \in [status : {"uninitialized", "ready", "broken"}, rev : Revision \cup {None}]
        /\ repo' \in Revision \cup {None} /\ pending' \in BOOLEAN /\ calm' \in BOOLEAN
    BY <1>1, <1>2, <1>3 DEF PythonInstalled, Proceed, After, record, tool, TypeInv, RepoInv,
                            JobInv, Founded, At
  <2>4. /\ uv' \in Part /\ archive' \in Part /\ python' \in Part
        /\ venv' \in Revision \cup {"none", "bad"}
    BY <1>1, <1>2, <1>3 DEF PythonInstalled, Proceed, After, record, tool, TypeInv, RepoInv,
                            JobInv, Founded, At, Part
  <2> QED BY <2>1, <2>2, <2>3, <2>4 DEF TypeInv, Hurts
<1>7. RepoInv'
  BY RevisionAssumption, <1>1, <1>2, <1>3, <1>4, <1>5, <1>6
     DEF PythonInstalled, Proceed, After, record, tool, RepoInv, JobInv, At, Founded, TypeInv,
         Unfounded, Joins, Pair, Even, Late, Invalidates, Usable
<1>8. JobInv'
  BY <1>1, <1>2, <1>3, <1>4, <1>5, <1>6
     DEF PythonInstalled, Proceed, After, record, tool, JobInv, RepoInv, Founded, At, TypeInv,
         Usable, Unfounded, Joins, Pair, Even, Late, Invalidates
<1>9. HurtInv'
  BY <1>1, <1>2, <1>3, <1>4, <1>5, <1>6, <1>8
     DEF PythonInstalled, Proceed, After, record, tool, HurtInv, RepoInv, JobInv, Founded, Hurts,
         Exposed, Usable, At, Ready, TypeInv, Unfounded, Joins, Pair, Even, Late, Invalidates
<1> QED BY <1>6, <1>7, <1>8, <1>9 DEF EnvInv

(* The environment is prepared anew.                                       *)
LEMMA ReuseKeeps ==
  ASSUME EnvInv, Hurts, Reuse, Proceed
  PROVE  EnvInv'
<1>1. job.cmd # "none" /\ Step.do \in {"reuse"}
  BY DEF Reuse, At
<1>2. TypeInv /\ JobInv /\ RepoInv /\ HurtInv
  BY DEF EnvInv
<1>3. job.at > 0 /\ Step \in Steps
  BY <1>1, <1>2, Now DEF S, TypeInv
<1>4. job'.cmd = job.cmd /\ job'.at = job.at + 1
  BY <1>2 DEF Reuse, Proceed, After, TypeInv
<1>5. job'.at \in Nat /\ job'.at <= Len(Script[job.cmd]) /\ Step' \in Steps
      /\ Joins(Step, Step', job.cmd \in Unfounded)
  BY <1>1, <1>2, <1>3, <1>4, Advance
<1>6. TypeInv'
  <2>1. /\ job' \in [cmd : Command \cup {"none"}, at : Nat, version : Version \cup {None},
                     rev : Revision \cup {None}, ifNeeded : BOOLEAN, open : BOOLEAN]
        /\ job'.open => job.open \/ Step.do \in {"begin", "mark"}
    BY <1>1, <1>2, <1>5 DEF Reuse, Proceed, After, TypeInv
  <2>2. /\ mut' \in [stage : Stage \cup {"none"}, version : Version \cup {None}]
        /\ mut'.stage = "none" <=> mut' = NoRecord
        /\ Step.do \in {"begin", "mark"} => mut' # NoRecord
        /\ job'.open /\ job.open => mut' # NoRecord
    BY <1>1, <1>2, <1>3 DEF Reuse, Proceed, After, record, tool, TypeInv, RepoInv, JobInv,
                            Founded, At, NoRecord, Steps,
       Stage, Late, Unfounded
  <2>3. /\ env' \in [status : {"uninitialized", "ready", "broken"}, rev : Revision \cup {None}]
        /\ repo' \in Revision \cup {None} /\ pending' \in BOOLEAN /\ calm' \in BOOLEAN
    BY <1>1, <1>2, <1>3 DEF Reuse, Proceed, After, record, tool, TypeInv, RepoInv, JobInv,
                            Founded, At
  <2>4. /\ uv' \in Part /\ archive' \in Part /\ python' \in Part
        /\ venv' \in Revision \cup {"none", "bad"}
    BY <1>1, <1>2, <1>3 DEF Reuse, Proceed, After, record, tool, TypeInv, RepoInv, JobInv,
                            Founded, At, Part
  <2> QED BY <2>1, <2>2, <2>3, <2>4 DEF TypeInv, Hurts
<1>7. RepoInv'
  BY RevisionAssumption, <1>1, <1>2, <1>3, <1>4, <1>5, <1>6
     DEF Reuse, Proceed, After, record, tool, RepoInv, JobInv, At, Founded, TypeInv, Unfounded,
         Joins, Pair, Even, Late, Invalidates, Usable
<1>8. JobInv'
  BY <1>1, <1>2, <1>3, <1>4, <1>5, <1>6
     DEF Reuse, Proceed, After, record, tool, JobInv, RepoInv, Founded, At, TypeInv, Usable,
         Unfounded, Joins, Pair, Even, Late, Invalidates
<1>9. HurtInv'
  BY <1>1, <1>2, <1>3, <1>4, <1>5, <1>6, <1>8
     DEF Reuse, Proceed, After, record, tool, HurtInv, RepoInv, JobInv, Founded, Hurts, Exposed,
         Usable, At, Ready, TypeInv, Unfounded, Joins, Pair, Even, Late, Invalidates
<1> QED BY <1>6, <1>7, <1>8, <1>9 DEF EnvInv

(* Typed values the records may get.                                       *)
LEMMA Types ==
  ASSUME TypeInv
  PROVE  /\ NoRecord \in [stage : Stage \cup {"none"}, version : Version \cup {None}]
         /\ NoRecord.stage = "none"
         /\ mut \in [stage : Stage \cup {"none"}, version : Version \cup {None}]
         /\ mut.stage = "none" <=> mut = NoRecord
         /\ env \in [status : {"uninitialized", "ready", "broken"}, rev : Revision \cup {None}]
         /\ \A r \in Revision :
              /\ Broken(r) \in [status : {"uninitialized", "ready", "broken"},
                                rev : Revision \cup {None}]
              /\ Broken(r).status = "broken" /\ Broken(r).rev \in Revision
              /\ Ready(r) \in [status : {"uninitialized", "ready", "broken"},
                               rev : Revision \cup {None}]
         /\ archive \in Part /\ calm \in BOOLEAN
BY DEF TypeInv, NoRecord, Broken, Ready

(* recoverPreparationTransaction                                           *)
LEMMA RecoverKeeps ==
  ASSUME EnvInv, Hurts, Recover
  PROVE  EnvInv'
<1> USE RevisionAssumption
<1>1. TypeInv /\ JobInv /\ RepoInv /\ HurtInv /\ job.cmd # "none" /\ job.at = 0
  BY DEF EnvInv, Recover, Recovering
<1>2. CASE mut # NoRecord /\ Refused
  <2>1. job' = Idle /\ UNCHANGED <<env, mut, repo, pending, uv, archive, python, venv, calm>>
    BY <1>2 DEF Recover, End, tool
  <2> QED BY <1>1, <2>1, Types, EndKeeps DEF HurtInv
<1>3. CASE ~(mut # NoRecord /\ Refused)
  <2> DEFINE chosen == IF job.cmd \in {"bootstrap", "envEnsure"} THEN env'.rev ELSE repo
  <2>1. /\ env' = (IF mut = NoRecord THEN env ELSE Invalidated)
        /\ mut' = NoRecord
        /\ job' = [After(job) EXCEPT !.rev = chosen]
        /\ UNCHANGED <<repo, pending, uv, archive, python, venv, calm>>
    BY <1>3 DEF Recover, tool
  <2>2. Invalidated = env \/ (Invalidated = Broken(env.rev) /\ env.rev \in Revision)
    BY <1>1 DEF Invalidated, TypeInv
  <2>3. /\ env' = env \/ (env'.status = "broken" /\ env'.rev \in Revision)
        /\ env' \in [status : {"uninitialized", "ready", "broken"}, rev : Revision \cup {None}]
    BY <1>1, <2>1, <2>2, Types
  <2>4. chosen \in Revision \cup {None}
    BY <1>1, <2>3 DEF TypeInv
  <2> HIDE DEF chosen
  <2>5. /\ job' \in [cmd : Command \cup {"none"}, at : Nat, version : Version \cup {None},
                     rev : Revision \cup {None}, ifNeeded : BOOLEAN, open : BOOLEAN]
        /\ job'.cmd = job.cmd /\ job'.at = 1 /\ job'.rev = chosen /\ job'.open = job.open
    <3>1. /\ After(job) \in [cmd : Command \cup {"none"}, at : Nat, version : Version \cup {None},
                            rev : Revision \cup {None}, ifNeeded : BOOLEAN, open : BOOLEAN]
          /\ After(job).cmd = job.cmd /\ After(job).at = 1 /\ After(job).open = job.open
      BY <1>1 DEF After, TypeInv
    <3> HIDE DEF After
    <3> QED BY <2>1, <2>4, <3>1
  <2>6. /\ Step' \in Steps /\ job'.at <= Len(Script[job.cmd])
        /\ job.cmd # "sync" /\ Step'.do = "begin"
        /\ job.cmd \in Unfounded => ~Late(Step') /\ Step'.stage = "uv.check"
    BY <1>1, <2>5, Advance DEF JobInv
  <2>7. mut = NoRecord => ~Invalidates(mut.stage)
    BY DEF NoRecord, Invalidates
  <2>8. ~Exposed'
    <3>1. Usable' = Usable
      BY <2>1 DEF Usable
    <3>2. SUFFICES ASSUME Exposed' PROVE FALSE
      OBVIOUS
    <3>3. hurt' /\ env' = Ready(repo) /\ ~pending
      BY <3>2, <2>1 DEF Exposed
    <3>4. hurt
      BY <3>1, <3>3 DEF Hurts
    <3>5. env' = env
      BY <2>3, <3>3 DEF Ready
    <3>6. Invalidates(mut.stage) /\ env.rev # None
      BY <1>1, <3>3, <3>4, <3>5 DEF HurtInv, Exposed, RepoInv, Ready
    <3>7. env' = Broken(env.rev)
      BY <2>1, <2>7, <3>6 DEF Invalidated
    <3> QED BY <3>3, <3>7 DEF Broken, Ready
  <2>9. TypeInv'
    <3>1. job.open = FALSE
      BY <1>1 DEF JobInv
    <3> QED BY <1>1, <2>1, <2>3, <2>5, <3>1 DEF TypeInv, Hurts, NoRecord, Part
  <2>10. RepoInv'
    <3>1. env'.status = "ready" => env' = env
      BY <2>3
    <3> QED BY <1>1, <2>1, <2>5, <2>6, <3>1 DEF RepoInv, Founded, Unfounded, chosen
  <2>11. JobInv'
    BY <1>1, <2>1, <2>5, <2>6 DEF JobInv, At, Unfounded
  <2>12. HurtInv'
    BY <1>1, <2>1, <2>8, <2>9 DEF HurtInv, Hurts, Usable, TypeInv
  <2> QED BY <2>9, <2>10, <2>11, <2>12 DEF EnvInv
<1> QED BY <1>2, <1>3

(* The endings that leave environment.json and the records as they were,   *)
(* or half changed.                                                        *)
LEMMA EndsKeep ==
  ASSUME EnvInv, Hurts,
         \/ RecoverFails \/ WriteRecordFails \/ DropRecordFails \/ Succeed
         \/ Die \/ CommitFails \/ SyncFails
         \/ OutputFails /\ hurt' = FALSE
  PROVE  EnvInv'
<1> USE RevisionAssumption
<1>1. TypeInv /\ JobInv /\ RepoInv /\ HurtInv
  BY DEF EnvInv
<1>2. job' = Idle /\ UNCHANGED <<repo, pending, uv, archive, python, venv, calm>>
  BY DEF RecoverFails, WriteRecordFails, DropRecordFails, Succeed, OutputFails, Die, CommitFails,
         SyncFails, End, record, tool
<1>3. Exposed => Invalidates(mut.stage) /\ env.status = "ready" /\ env.rev # None
  BY <1>1 DEF HurtInv, RepoInv, Exposed, Ready
<1>4. CASE RecoverFails
  <2>1. mut' = mut /\ env' \in {env, IF mut = NoRecord THEN env ELSE Invalidated}
    BY <1>4 DEF RecoverFails
  <2>2. Invalidated = env \/ (Invalidated = Broken(env.rev) /\ env.rev \in Revision)
    BY <1>1 DEF Invalidated, TypeInv
  <2> QED BY <1>1, <1>2, <1>3, <2>1, <2>2, Types, EndKeeps
<1>5. CASE WriteRecordFails
  <2>1. job.cmd # "none" /\ Step.do \in {"begin", "mark"} /\ mut' \in {mut, Marked} /\ env' = env
    BY <1>5 DEF WriteRecordFails, At
  <2>2. job.at > 0 /\ Step \in Steps
    BY <1>1, <2>1, Now DEF TypeInv, S
  <2>3. Marked \in [stage : Stage \cup {"none"}, version : Version \cup {None}]
    BY <1>1, <2>1, <2>2 DEF Marked, TargetVersion, TypeInv, JobInv, RepoInv, At, Founded, Late,
       Unfounded, Steps, Version
  <2>4. Marked.stage = Step.stage /\ Step.stage # "none"
    BY <1>1, <2>2 DEF Marked, TypeInv, Steps, Stage
  <2>5. Exposed => Invalidates(Step.stage)
    BY <1>1, <2>1 DEF HurtInv, Even, Invalidates
  <2> QED BY <1>1, <1>2, <1>3, <2>1, <2>3, <2>4, <2>5, Types, EndKeeps DEF NoRecord
<1>6. CASE DropRecordFails
  <2>1. job.cmd # "none" /\ Step.do = "drop" /\ mut' \in {mut, NoRecord} /\ env' = env
    BY <1>6 DEF DropRecordFails, At
  <2>2. ~Exposed
    BY <1>1, <2>1 DEF HurtInv, Even
  <2> QED BY <1>1, <1>2, <2>1, <2>2, Types, EndKeeps
<1>7. CASE Succeed \/ Die
  <2>1. mut' = mut /\ env' = env
    BY <1>7 DEF Succeed, Die, record
  <2> QED BY <1>1, <1>2, <1>3, <2>1, Types, EndKeeps
<1>8. CASE OutputFails /\ hurt' = FALSE
  <2>1. mut' \in {mut, NoRecord} /\ env' = env /\ hurt' = FALSE
    BY <1>8 DEF OutputFails, Dropped
  <2>2. TypeInv' /\ RepoInv' /\ JobInv'
    <3>1. Idle \in [cmd : Command \cup {"none"}, at : Nat, version : Version \cup {None},
                   rev : Revision \cup {None}, ifNeeded : BOOLEAN, open : BOOLEAN]
          /\ Idle.cmd = "none" /\ Idle.open = FALSE
      BY DEF Idle
    <3>2. TypeInv'
      <4>1. /\ mut' \in [stage : Stage \cup {"none"}, version : Version \cup {None}]
            /\ mut'.stage = "none" <=> mut' = NoRecord
        BY <1>1, <2>1, Types
      <4> QED BY <1>1, <1>2, <2>1, <3>1, <4>1 DEF TypeInv
    <3> QED BY <1>1, <1>2, <2>1, <3>1, <3>2 DEF RepoInv, JobInv
  <2>3. HurtInv'
    BY <2>1 DEF HurtInv, Exposed
  <2> QED BY <2>2, <2>3 DEF EnvInv
<1>9. CASE CommitFails
  <2>1. job.cmd # "none" /\ Step.do = "commit" /\ mut' = mut /\ env' \in {env, Ready(repo)}
    BY <1>9 DEF CommitFails, At
  <2>2. Usable /\ repo \in Revision
    BY <1>1, <2>1 DEF JobInv, At, Usable, TypeInv
  <2> QED BY <1>1, <1>2, <1>3, <2>1, <2>2, Types, EndKeeps
<1>10. CASE SyncFails
  <2>1. /\ mut' \in (IF At("swap") THEN {mut, NoRecord} ELSE {mut}) /\ env' = env
        /\ At("swap") => job.cmd # "none" /\ Step.do = "swap"
    BY <1>10 DEF SyncFails, At
  <2>2. At("swap") => ~Exposed
    BY <1>1, <2>1 DEF HurtInv, Even
  <2> QED BY <1>1, <1>2, <1>3, <2>1, <2>2, Types, EndKeeps
<1> QED BY <1>4, <1>5, <1>6, <1>7, <1>8, <1>9, <1>10

(* The steps that fail for a reason in the tools.                          *)
LEMMA FailuresKeep ==
  ASSUME EnvInv, Hurts,
         \/ ToolFails \/ UVRejected
         \/ CheckTools /\ Breaks /\ End("failed") /\ UNCHANGED pending
         \/ PythonInstalled /\ Breaks /\ End("failed") /\ UNCHANGED <<python, pending>>
  PROVE  EnvInv'
<1>1. TypeInv /\ JobInv
  BY DEF EnvInv
<1>2. /\ Breaks /\ job' = Idle /\ UNCHANGED <<repo, pending, uv, python, venv>>
      /\ archive' \in {archive, "none", "bad"} /\ calm' = calm
      /\ job.cmd # "none" /\ Step.do \in ToolStep
  BY DEF ToolFails, UVRejected, CheckTools, PythonInstalled, End, record, tool, At, ToolStep
<1>3. job.at > 0 /\ Step.do # "settle"
  BY <1>1, <1>2, Now DEF S, TypeInv, ToolStep
<1> QED BY <1>1, <1>2, <1>3, Types, BreaksKeeps DEF Part

(* The removal of the directory has only begun.                            *)
LEMMA ClearsUVBegins ==
  ASSUME EnvInv, Hurts, ClearsUV, ~Proceed
  PROVE  EnvInv'
<1>1. job.cmd # "none" /\ Step.do = "clearUV" /\ uv = "good" /\ uv' = "bad"
      /\ UNCHANGED <<archive, job, repo, env, pending, mut, python, venv, calm>>
  BY DEF ClearsUV, At, record
<1>2. TypeInv /\ JobInv /\ RepoInv /\ HurtInv
  BY DEF EnvInv
<1>3. job.at > 0 /\ Step' = Step
  BY <1>1, <1>2, Now DEF S, TypeInv, Step
<1>4. TypeInv'
  BY <1>1, <1>2 DEF TypeInv, Hurts, Part
<1>5. RepoInv'
  BY <1>1, <1>2, <1>3 DEF RepoInv, Founded
<1>6. JobInv'
  BY <1>1, <1>2, <1>3 DEF JobInv, At, Usable
<1>7. HurtInv'
  BY <1>1, <1>2, <1>3, <1>4, <1>6 DEF HurtInv, JobInv, Hurts, Exposed, Usable, At, Even
<1> QED BY <1>4, <1>5, <1>6, <1>7 DEF EnvInv

(* checkBootstrapReadiness: the environment is reused as it is.            *)
LEMMA ReuseEnds ==
  ASSUME EnvInv, Hurts, Reuse, ~Proceed
  PROVE  EnvInv'
<1>1. TypeInv /\ HurtInv
  BY DEF EnvInv
<1>2. job' = Idle /\ UNCHANGED <<repo, env, pending, mut, uv, archive, python, venv, calm>>
  BY DEF Reuse, End, record, tool
<1> QED BY <1>1, <1>2, Types, EndKeeps DEF HurtInv

(* A command starts.                                                       *)
LEMMA StartKeeps ==
  ASSUME EnvInv, Hurts, NEW c \in Command, NEW v \in Version \cup {None}, NEW n \in BOOLEAN,
         Start(c, v, n)
  PROVE  EnvInv'
<1>1. TypeInv /\ JobInv /\ RepoInv /\ HurtInv
  BY DEF EnvInv
<1>2. /\ job = Idle
      /\ c \in Unfounded \/ repo # None
      /\ job' = [Idle EXCEPT !.cmd = c, !.at = IF c = "sync" THEN 1 ELSE 0,
                             !.version = v, !.ifNeeded = n]
      /\ UNCHANGED <<repo, env, pending, mut, uv, archive, python, venv, calm>>
  BY DEF Start, record, tool, Unfounded
<1>3. /\ job' \in [cmd : Command \cup {"none"}, at : Nat, version : Version \cup {None},
                   rev : Revision \cup {None}, ifNeeded : BOOLEAN, open : BOOLEAN]
      /\ job'.cmd = c /\ job'.at = (IF c = "sync" THEN 1 ELSE 0) /\ ~job'.open
  BY <1>2 DEF Idle
<1>4. "none" \notin Command
  BY DEF Command, Script
<1>5. PICK a, b : /\ Path(Script[c], a, b, c \in Unfounded)
                  /\ a.do = IF c = "sync" THEN "settle" ELSE "begin"
                  /\ c \in Unfounded =>
                       ~Late(a) /\ a.stage = IF c = "sync" THEN "workspace" ELSE "uv.check"
                  /\ b.do = "succeed"
  BY Along
<1>6. /\ c # "sync" => Step' = S("recover", "none")
      /\ c = "sync" => Step' = Script[c][1]
  BY <1>3 DEF Step
<1>7. /\ Script[c] \in Seq(Steps) /\ Len(Script[c]) > 0
      /\ c # "sync" => Step'.do = "recover"
      /\ c = "sync" => Step'.do = "settle" /\ ~Late(Step')
  BY <1>5, <1>6 DEF Path, S, Unfounded
<1>8. Len(Script[c]) \in Nat
  BY <1>7
<1>9. Usable' = Usable /\ (hurt' => hurt /\ ~Usable)
  BY <1>2 DEF Usable, Hurts
<1>10. TypeInv'
  BY <1>1, <1>2, <1>3 DEF TypeInv, Hurts
<1>11. RepoInv'
  BY <1>1, <1>2, <1>3, <1>7 DEF RepoInv, Founded, Unfounded
<1>12. JobInv'
  BY <1>1, <1>2, <1>3, <1>4, <1>7, <1>8 DEF JobInv, At
<1>13. HurtInv'
  BY <1>1, <1>2, <1>3, <1>7, <1>9 DEF HurtInv, Exposed, At, Even
<1> QED BY <1>10, <1>11, <1>12, <1>13 DEF EnvInv

(* Damage from outside, between two commands, and the end of the faults.   *)
LEMMA OutsideKeeps ==
  ASSUME EnvInv,
         \/ By(FALSE, Damage)
         \/ By(TRUE, CalmDown)
         \/ UNCHANGED vars
  PROVE  EnvInv'
<1>1. TypeInv /\ JobInv /\ RepoInv /\ HurtInv
  BY DEF EnvInv
<1>2. /\ UNCHANGED <<repo, env, pending, mut, job>> /\ calm' \in BOOLEAN
      /\ hurt' => hurt /\ ~Usable'
      /\ hurt' \in BOOLEAN
      /\ \/ job = Idle
            /\ uv' \in Part /\ archive' \in Part /\ python' \in Part /\ venv' \in {venv, "bad"}
         \/ UNCHANGED <<uv, archive, python, venv>>
  <2>1. CASE By(FALSE, Damage)
    BY <1>1, <2>1 DEF By, Damage, record, TypeInv, Part
  <2>2. CASE By(TRUE, CalmDown)
    BY <1>1, <2>2 DEF By, CalmDown, record, tool, TypeInv, Usable
  <2>3. CASE UNCHANGED vars
    BY <1>1, <2>3 DEF vars, record, tool, TypeInv, HurtInv, Usable
  <2> QED BY <2>1, <2>2, <2>3
<1>3. Step' = Step
  BY <1>2 DEF Step
<1>4. TypeInv'
  BY <1>1, <1>2 DEF TypeInv
<1>5. RepoInv'
  BY <1>1, <1>2, <1>3 DEF RepoInv, Founded
<1>6. JobInv'
  BY <1>1, <1>2, <1>3 DEF JobInv, At, Usable, Idle
<1>7. HurtInv'
  BY <1>1, <1>2, <1>3 DEF HurtInv, Exposed, At, Idle
<1> QED BY <1>4, <1>5, <1>6, <1>7 DEF EnvInv

(* What the next-state relation is made of.                                *)
LEMMA NextCases ==
  ASSUME EnvInv, [Next]_vars
  PROVE  \/ Hurts /\ \E c \in Command, v \in Version \cup {None}, n \in BOOLEAN : Start(c, v, n)
         \/ Hurts /\ (\/ Recover \/ WriteRecord \/ DropRecord \/ Succeed
                      \/ ClearsUV \/ UVKept \/ UVRemoved \/ UVDownloaded \/ UVRejected
                      \/ UVPublished)
         \/ Hurts /\ (\/ ReadSpec \/ CheckTools \/ PythonErodes \/ PythonInstalled
                      \/ RebuildErodes \/ RebuildVenv \/ SyncErodes \/ SyncVenv \/ Commit \/ Reuse
                      \/ Settle \/ Swap)
         \/ Hurts /\ (\/ RecoverFails \/ WriteRecordFails \/ DropRecordFails \/ ToolFails
                      \/ CommitFails \/ SyncFails \/ Die)
         \/ hurt' = FALSE /\ (OpenSync \/ OutputFails)
         \/ By(FALSE, Damage) \/ By(TRUE, CalmDown) \/ UNCHANGED vars
<1>1. \A A \in BOOLEAN : By(TRUE, A) => A /\ Hurts
  BY DEF By, Hurts, EnvInv, TypeInv, Usable
<1>2. ASSUME By(TRUE, StartBootstrap) \/ By(TRUE, StartRepair) \/ By(TRUE, StartSync)
             \/ By(TRUE, StartOther)
      PROVE  Hurts /\ \E c \in Command, v \in Version \cup {None}, n \in BOOLEAN : Start(c, v, n)
  <2>1. Hurts
    BY <1>2 DEF By, Hurts, EnvInv, TypeInv, Usable
  <2>2. {"bootstrap", "repair", "sync"} \subseteq Command
    BY DEF Command, Script
  <2>3. StartBootstrap \/ StartRepair \/ StartSync \/ StartOther
    BY <1>2 DEF By
  <2>4. FALSE \in BOOLEAN /\ TRUE \in BOOLEAN
    OBVIOUS
  <2>5. CASE StartBootstrap
    BY <2>1, <2>2, <2>5 DEF StartBootstrap
  <2>6. CASE StartRepair
    BY <2>1, <2>2, <2>6 DEF StartRepair
  <2>7. CASE StartSync
    BY <2>1, <2>2, <2>7 DEF StartSync
  <2>8. CASE StartOther
    BY <2>1, <2>8 DEF StartOther
  <2> QED BY <2>3, <2>5, <2>6, <2>7, <2>8
<1> QED BY <1>2 DEF Next, Work, Fault, By, Untold, Hurts, EnvInv, TypeInv, Usable

(* Every step of the model, in the groups of NextCases.                    *)
LEMMA NextKeeps ==
  ASSUME EnvInv, [Next]_vars
  PROVE  EnvInv'
<1> DEFINE Fails == End("failed") /\ Breaks /\ UNCHANGED pending
<1>0. /\ CheckTools => (Proceed /\ UNCHANGED record) \/ Fails
      /\ PythonInstalled => \/ Proceed /\ python' = "good" /\ UNCHANGED record
                            \/ Fails /\ UNCHANGED python
  BY DEF CheckTools, PythonInstalled
<1>1. CASE Hurts /\ \E c \in Command, v \in Version \cup {None}, n \in BOOLEAN : Start(c, v, n)
  BY <1>1, StartKeeps
<1>2. CASE Hurts /\ (\/ Recover \/ WriteRecord \/ DropRecord \/ Succeed
                     \/ ClearsUV \/ UVKept \/ UVRemoved \/ UVDownloaded \/ UVRejected
                     \/ UVPublished)
  BY <1>2, RecoverKeeps, WriteRecordKeeps, DropRecordKeeps, EndsKeep, ClearsUVKeeps,
     ClearsUVBegins, UVKeptKeeps, UVRemovedKeeps, UVDownloadedKeeps, FailuresKeep,
     UVPublishedKeeps
<1>3. CASE Hurts /\ (\/ ReadSpec \/ CheckTools \/ PythonErodes \/ PythonInstalled
                     \/ RebuildErodes \/ RebuildVenv \/ SyncErodes \/ SyncVenv \/ Commit \/ Reuse
                     \/ Settle \/ Swap)
  BY <1>0, <1>3, ReadSpecKeeps, CheckToolsKeeps, PythonErodesKeeps, PythonInstalledKeeps,
     FailuresKeep,
     RebuildErodesKeeps, RebuildVenvKeeps, SyncErodesKeeps, SyncVenvKeeps, CommitKeeps,
     ReuseKeeps, ReuseEnds, SettleKeeps, SwapKeeps
<1>4. CASE Hurts /\ (\/ RecoverFails \/ WriteRecordFails \/ DropRecordFails \/ ToolFails
                     \/ CommitFails \/ SyncFails \/ Die)
  BY <1>4, EndsKeep, FailuresKeep
<1>5. CASE hurt' = FALSE /\ (OpenSync \/ OutputFails)
  <2>1. Hurts
    BY <1>5 DEF Hurts
  <2> QED BY <1>5, <2>1, OpenSyncKeeps, EndsKeep
<1> QED BY <1>1, <1>2, <1>3, <1>4, <1>5, NextCases, OutsideKeeps

(* Types of Environment, and what is true between two steps of a command.  *)
THEOREM EnvironmentInvariant == Spec => []EnvInv
<1>1. Init => EnvInv
  <2> SUFFICES ASSUME Init PROVE EnvInv
    OBVIOUS
  <2>1. TypeInv
    BY DEF Init, TypeInv, Idle, NoRecord, NoEnvironment, Part
  <2>2. RepoInv /\ JobInv
    BY DEF Init, RepoInv, JobInv, Idle, NoEnvironment
  <2>3. HurtInv
    BY DEF Init, HurtInv, Exposed
  <2> QED BY <2>1, <2>2, <2>3 DEF EnvInv
<1> QED BY <1>1, NextKeeps, PTL DEF Spec

(* Types.                                                                  *)
THEOREM EnvironmentTypes == Spec => []TypeOK
<1>1. EnvInv => TypeOK
  BY DEF EnvInv, TypeInv, TypeOK
<1> QED BY <1>1, EnvironmentInvariant, PTL

(* mutation.json, update.json: damage done by a command is never forgotten *)
(* by the records, whatever fails and wherever the process dies.           *)
THEOREM DamageStaysRecorded == Spec => []DamageIsRecorded
<1>1. EnvInv => DamageIsRecorded
  BY DEF EnvInv, HurtInv, Exposed, DamageIsRecorded
<1> QED BY <1>1, EnvironmentInvariant, PTL

(* checkBootstrapReadiness, succeed: what is reported as ready is usable.  *)
THEOREM ReadyIsUsable == Spec => ReadyMeansUsable
<1>1. ASSUME EnvInv, [Next]_vars
      PROVE  [result' = "ready" /\ result # "ready" => Usable' /\ env' = Ready(repo')]_vars
  <2> SUFFICES ASSUME Next, result' = "ready", result # "ready"
               PROVE  Usable' /\ env' = Ready(repo')
    BY <1>1
  <2>1. Succeed \/ Reuse
    <3>1. \A c \in Command, v \in Version \cup {None}, n \in BOOLEAN : ~Start(c, v, n)
      BY DEF Start
    <3>2. ~(By(FALSE, Damage) \/ By(TRUE, CalmDown) \/ UNCHANGED vars)
      BY DEF By, Damage, CalmDown, vars
    <3>3. ~(\/ Recover \/ WriteRecord \/ DropRecord
            \/ ClearsUV \/ UVKept \/ UVRemoved \/ UVDownloaded \/ UVRejected \/ UVPublished)
      BY DEF Recover, WriteRecord, DropRecord, ClearsUV, UVKept, UVRemoved, UVDownloaded,
             UVRejected, UVPublished, Proceed, End
    <3>4. ~(\/ ReadSpec \/ CheckTools \/ PythonErodes \/ PythonInstalled
            \/ RebuildErodes \/ RebuildVenv \/ SyncErodes \/ SyncVenv \/ Commit
            \/ Settle \/ Swap)
      BY DEF ReadSpec, CheckTools, PythonErodes, PythonInstalled, RebuildErodes, RebuildVenv,
             SyncErodes, SyncVenv, Commit, Settle, Swap, Erodes, Proceed, End
    <3>5. ~(\/ RecoverFails \/ WriteRecordFails \/ DropRecordFails \/ ToolFails
            \/ CommitFails \/ SyncFails \/ Die \/ OpenSync \/ OutputFails)
      BY DEF RecoverFails, WriteRecordFails, DropRecordFails, ToolFails, CommitFails, SyncFails,
             Die, OpenSync, OutputFails, Proceed, End
    <3> QED BY <1>1, <3>1, <3>2, <3>3, <3>4, <3>5, NextCases
  <2>2. CASE Succeed
    <3>1. Step.stage = "ready" /\ At("succeed")
      BY <2>2 DEF Succeed, End
    <3>2. Usable /\ env = Ready(repo)
      BY <1>1, <3>1 DEF EnvInv, JobInv, At
    <3> QED BY <2>2, <3>2 DEF Succeed, Usable, record, tool, Ready
  <2>3. CASE Reuse
    BY <2>3 DEF Reuse, Verified, Usable, Proceed, record, tool, Ready
  <2> QED BY <2>1, <2>2, <2>3
<1> QED BY <1>1, EnvironmentInvariant, PTL DEF Spec, ReadyMeansUsable
=============================================================================
