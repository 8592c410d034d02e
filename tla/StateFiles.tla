----------------------------- MODULE StateFiles -----------------------------
(***************************************************************************)
(* One runtime-state file of one application root (update, mutation,       *)
(* backend or environment.json), as filesystem.StateFiles keeps it in a    *)
(* directory several processes share: a guard file opened shared by a read *)
(* and exclusively by a write or remove, a payload that is renamed from    *)
(* temp to its name, and a sealed intent that names the old and the new    *)
(* object while the old one is renamed away.                               *)
(*                                                                         *)
(* An object stands for its identity and its bytes, which do not change    *)
(* once it is sealed.  A leaf whose random nonce no intent names is never  *)
(* opened again and is not kept here.  The directory is the application's  *)
(* own: nobody else puts objects in it.                                    *)
(***************************************************************************)
EXTENDS Naturals

CONSTANTS
  Process,
  MaxObject,   \* bound: how many payloads are ever written
  Classic      \* the volume lacks POSIX unlink: a deleted name stays, and
               \* cannot be opened, until the last handle is closed

ASSUME ParameterAssumption == MaxObject \in Nat /\ Classic \in BOOLEAN

None == 0
Object == 1 .. MaxObject
Leaf == {"dest", "backup", "temp"}

VARIABLES
  leaf,      \* the object under each name
  pending,   \* the names that are deleted as soon as the last reader closes
  intent,    \* the published intent: the old and the new object, or NoIntent
  pc,        \* where the call of each process is
  job,       \* the call of each process
  seen,      \* the snapshot of the last read of each process
  report,    \* what its last call told its caller
  written    \* how many payloads were written

vars == <<leaf, pending, intent, pc, job, seen, report, written>>
files == <<leaf, pending, intent>>

NoIntent == [old |-> None, new |-> None]
Job(op, o) == [op |-> op, object |-> o, effect |-> FALSE, said |-> FALSE, dirty |-> FALSE]
NoJob == Job("idle", None)

Exclusive == {"recover", "create", "publish", "back", "commit", "rollback",
              "undoTemp", "undoIntent", "dropBackup", "dropIntent",
              "unlink", "leave"}
Location == {"idle", "share", "guard", "open", "value"} \cup Exclusive

TypeOK ==
  /\ leaf \in [Leaf -> Object \cup {None}]
  /\ pending \subseteq {n \in Leaf : leaf[n] # None}
  /\ intent \in [old : Object, new : Object] \cup {NoIntent}
  /\ pc \in [Process -> Location]
  /\ job \in [Process -> [op : {"idle", "read", "write", "remove"},
                          object : Object \cup {None},
                          effect : BOOLEAN, said : BOOLEAN, dirty : BOOLEAN]]
  /\ seen \in [Process -> Object \cup {None}]
  /\ report \in [Process -> {"none", "applied", "unapplied", "unsure", "value"}]
  /\ written \in 0 .. MaxObject

Init ==
  /\ leaf = [n \in Leaf |-> None]
  /\ pending = {}
  /\ intent = NoIntent
  /\ pc = [p \in Process |-> "idle"]
  /\ job = [p \in Process |-> NoJob]
  /\ seen = [p \in Process |-> None]
  /\ report = [p \in Process |-> "none"]
  /\ written = 0

-----------------------------------------------------------------------------
(* Names, handles and unlinks.                                             *)

Missing(n) == leaf[n] = None
Openable(n) == n \notin pending

(* A read keeps its payload open after it has given the guard back.        *)
Held(o) == \E p \in Process : pc[p] = "value" /\ job[p].object = o

Move(from, to) == leaf' = [leaf EXCEPT ![to] = leaf[from], ![from] = None]
Drop(n) == leaf' = [leaf EXCEPT ![n] = None]

(* POSIX semantics remove the name at once; the classic disposition only   *)
(* when nobody has the object open.                                        *)
Unlinked(n) ==
  /\ Openable(n)
  /\ Classic => ~Held(leaf[n])
  /\ Drop(n) /\ UNCHANGED pending

(* The disposition is refused, or the name is gone and the check after it  *)
(* fails, or it is still there because a reader holds the object.          *)
UnlinkRefused == UNCHANGED <<leaf, pending>>
UnlinkUnverified(n) == Unlinked(n)
UnlinkPending(n) ==
  /\ Classic /\ Held(leaf[n])
  /\ pending' = pending \cup {n} /\ UNCHANGED leaf

UnlinkFails(n) == UnlinkRefused \/ UnlinkUnverified(n) \/ UnlinkPending(n)

At(p, l) == pc[p] = l
Goto(p, l) == pc' = [pc EXCEPT ![p] = l]

(* The rest of the call only closes handles: what it will tell.            *)
Fail(p, dirty) ==
  /\ Goto(p, "leave")
  /\ job' = [job EXCEPT ![p].dirty = job[p].dirty \/ dirty]

Caller == <<seen, report, written>>

-----------------------------------------------------------------------------
(* The calls.  A process makes one at a time (Store.mu).                   *)

BeginRead(p) ==
  /\ At(p, "idle")
  /\ Goto(p, "share")
  /\ job' = [job EXCEPT ![p] = Job("read", None)]
  /\ UNCHANGED <<files, Caller>>

BeginWrite(p) ==
  /\ At(p, "idle") /\ written < MaxObject
  /\ written' = written + 1
  /\ Goto(p, "guard")
  /\ job' = [job EXCEPT ![p] = Job("write", written + 1)]
  /\ UNCHANGED <<files, seen, report>>

(* A remove is given the snapshot of a read of the same Store.             *)
BeginRemove(p) ==
  /\ At(p, "idle") /\ seen[p] # None
  /\ Goto(p, "guard")
  /\ job' = [job EXCEPT ![p] = Job("remove", seen[p])]
  /\ UNCHANGED <<files, Caller>>

Ended(p, r) ==
  /\ Goto(p, "idle")
  /\ job' = [job EXCEPT ![p] = NoJob]
  /\ report' = [report EXCEPT ![p] = r]
  /\ UNCHANGED <<intent, written>>

(* The wait for the guard is cancelled or its 30 seconds are over.         *)
GuardFails(p) ==
  /\ pc[p] \in {"share", "guard"}
  /\ \E r \in {"unapplied", "unsure"} : Ended(p, r)
  /\ UNCHANGED <<leaf, pending, seen>>

(* The sharing modes of the guard file: reads next to reads, else nobody.  *)
GrantShared(p) ==
  /\ At(p, "share")
  /\ \A q \in Process : pc[q] \notin Exclusive
  /\ Goto(p, "open")
  /\ UNCHANGED <<files, job, Caller>>

GrantExclusive(p) ==
  /\ At(p, "guard")
  /\ \A q \in Process : pc[q] \notin Exclusive \cup {"open"}
  /\ Goto(p, "recover")
  /\ UNCHANGED <<files, job, Caller>>

-----------------------------------------------------------------------------
(* What the intent and the three names say.  The first two stand before    *)
(* the commit, the third after it; the last needs a foreign object.        *)

OldStands ==
  /\ leaf["dest"] = intent.old /\ Missing("backup")
  /\ leaf["temp"] \in {None, intent.new}
OldIsAside ==
  /\ Missing("dest") /\ leaf["backup"] = intent.old /\ leaf["temp"] = intent.new
NewStands ==
  /\ leaf["dest"] = intent.new /\ Missing("temp")
  /\ leaf["backup"] \in {None, intent.old}

selectStateAuthority(o) ==
  IF intent = NoIntent THEN o = leaf["dest"]
  ELSE \/ o = intent.old /\ (OldStands \/ OldIsAside)
       \/ o = intent.new /\ NewStands

-----------------------------------------------------------------------------
(* Read: the authority is opened under the shared guard, and read after    *)
(* the guard was given back.                                               *)

OpenPayload(p) ==
  /\ At(p, "open")
  /\ \/ /\ \A n \in (IF intent = NoIntent THEN {"dest"} ELSE Leaf) : Openable(n)
        /\ \E o \in Object \cup {None} :
             /\ selectStateAuthority(o)
             /\ job' = [job EXCEPT ![p].object = o, ![p].effect = TRUE]
        /\ Goto(p, "value")
        /\ UNCHANGED <<files, Caller>>
     \/ Ended(p, "unapplied") /\ UNCHANGED <<leaf, pending, seen>>

(* The last handle of a deleted object takes its name away.                *)
CloseHandle(p) ==
  LET last == \A q \in Process \ {p} : ~(pc[q] = "value" /\ job[q].object = job[p].object)
      gone == {n \in pending : At(p, "value") /\ last /\ leaf[n] = job[p].object}
  IN /\ leaf' = [n \in Leaf |-> IF n \in gone THEN None ELSE leaf[n]]
     /\ pending' = pending \ gone

ReadPayload(p) ==
  /\ At(p, "value")
  /\ CloseHandle(p)
  /\ \/ Ended(p, "value") /\ seen' = [seen EXCEPT ![p] = job[p].object]
     \/ Ended(p, "unapplied") /\ UNCHANGED seen

-----------------------------------------------------------------------------
(* What a crash has left is undone or finished before anything else.  The  *)
(* classification is stable under its own steps, so that each of them may  *)
(* start from it.                                                          *)

UnlinkIntent(p, next) ==
  \/ intent' = NoIntent /\ Goto(p, next) /\ UNCHANGED job
  \/ intent' \in {intent, NoIntent} /\ Fail(p, TRUE)

UnlinkPayload(p, n, next) ==
  \/ Unlinked(n) /\ Goto(p, next) /\ UNCHANGED job
  \/ UnlinkFails(n) /\ Fail(p, TRUE)

recoverOld(p) ==
  /\ intent # NoIntent /\ OldStands
  /\ \/ ~Missing("temp") /\ UnlinkPayload(p, "temp", "recover") /\ UNCHANGED intent
     \/ Missing("temp") /\ UnlinkIntent(p, "recover") /\ UNCHANGED <<leaf, pending>>

recoverAside(p) ==
  /\ intent # NoIntent /\ OldIsAside
  /\ Move("backup", "dest")
  /\ UNCHANGED <<pending, intent, pc, job>>

recoverNew(p) ==
  /\ intent # NoIntent /\ NewStands
  /\ \/ ~Missing("backup") /\ UnlinkPayload(p, "backup", "recover") /\ UNCHANGED intent
     \/ Missing("backup") /\ UnlinkIntent(p, "recover") /\ UNCHANGED <<leaf, pending>>

recoverStateNamespace(p) ==
  /\ At(p, "recover")
  /\ \/ pending = {} /\ (recoverOld(p) \/ recoverAside(p) \/ recoverNew(p))
     \/ /\ intent = NoIntent
        /\ Goto(p, IF job[p].op = "write" THEN "create" ELSE "unlink")
        /\ UNCHANGED <<files, job>>
     \/ Fail(p, TRUE) /\ UNCHANGED files
  /\ UNCHANGED Caller

-----------------------------------------------------------------------------
(* Write.                                                                  *)

Commits(p) == job' = [job EXCEPT ![p].effect = TRUE, ![p].said = TRUE]

(* temp is created, written, flushed and read back.                        *)
createTemp(p) ==
  /\ At(p, "create")
  /\ \/ /\ leaf' = [leaf EXCEPT !["temp"] = job[p].object]
        /\ Goto(p, "publish") /\ UNCHANGED job
     \/ (\E dirty \in BOOLEAN : Fail(p, dirty)) /\ UNCHANGED leaf
  /\ UNCHANGED <<pending, intent, Caller>>

(* Without an old object the rename of temp is the commit; else the intent *)
(* is written, sealed and renamed to its name.                             *)
publish(p) ==
  /\ At(p, "publish")
  /\ \/ /\ Openable("dest") /\ Missing("dest")
        /\ Move("temp", "dest") /\ Commits(p) /\ Goto(p, "leave")
        /\ UNCHANGED intent
     \/ /\ Openable("dest") /\ ~Missing("dest")
        /\ intent' = [old |-> leaf["dest"], new |-> leaf["temp"]]
        /\ Goto(p, "back") /\ UNCHANGED <<leaf, job>>
     \/ /\ \E dirty \in BOOLEAN : (Openable("dest") \/ dirty) /\ Fail(p, dirty)
        /\ Drop("temp") /\ UNCHANGED intent
  /\ UNCHANGED <<pending, Caller>>

renameBack(p) ==
  /\ At(p, "back")
  /\ \/ Move("dest", "backup") /\ Goto(p, "commit")
     \/ Goto(p, "undoTemp") /\ UNCHANGED leaf
  /\ UNCHANGED <<pending, intent, job, Caller>>

renameCommit(p) ==
  /\ At(p, "commit")
  /\ \/ Move("temp", "dest") /\ Commits(p) /\ Goto(p, "dropBackup")
     \/ Goto(p, "rollback") /\ UNCHANGED <<leaf, job>>
  /\ UNCHANGED <<pending, intent, Caller>>

(* When the old object cannot be put back everything is left to the next   *)
(* recovery, for which the new one must still be there.                    *)
Mutant_rollbackState(p) ==
  /\ At(p, "rollback")
  /\ \/ Move("backup", "dest") /\ Goto(p, "undoTemp") /\ UNCHANGED job
     \/ Goto(p, "undoTemp") /\ UNCHANGED <<leaf, job>>
  /\ UNCHANGED <<pending, intent, Caller>>

rollbackState(p) ==
  /\ At(p, "rollback")
  /\ \/ Move("backup", "dest") /\ Goto(p, "undoTemp") /\ UNCHANGED job
     \/ Fail(p, TRUE) /\ UNCHANGED leaf
  /\ UNCHANGED <<pending, intent, Caller>>

(* temp and the intent are both tried; temp without an intent is a leaf    *)
(* nobody opens again.                                                     *)
undoTemp(p) ==
  /\ At(p, "undoTemp")
  /\ Goto(p, "undoIntent")
  /\ \/ Unlinked("temp") /\ UNCHANGED job
     \/ UnlinkFails("temp") /\ job' = [job EXCEPT ![p].dirty = TRUE]
  /\ UNCHANGED <<intent, Caller>>

undoIntent(p) ==
  /\ At(p, "undoIntent")
  /\ UnlinkIntent(p, "leave")
  /\ leaf' = [leaf EXCEPT !["temp"] = IF intent' = NoIntent THEN None ELSE @]
  /\ UNCHANGED <<pending, Caller>>

dropBackup(p) ==
  /\ At(p, "dropBackup")
  /\ UnlinkPayload(p, "backup", "dropIntent")
  /\ UNCHANGED <<intent, Caller>>

dropIntent(p) ==
  /\ At(p, "dropIntent")
  /\ UnlinkIntent(p, "leave")
  /\ UNCHANGED <<leaf, pending, Caller>>

-----------------------------------------------------------------------------
(* Remove: only the object of the snapshot.                                *)

Mutant_Unchanged(p) == Openable("dest") /\ ~Missing("dest")

Unchanged(p) == Openable("dest") /\ leaf["dest"] = job[p].object

removeStateLocked(p) ==
  /\ At(p, "unlink")
  /\ Goto(p, "leave")
  /\ \/ ~Unchanged(p) /\ Openable("dest") /\ UNCHANGED <<leaf, pending, job>>
     \/ Unchanged(p) /\ Unlinked("dest") /\ Commits(p)
     \/ /\ Unchanged(p)
        /\ UnlinkUnverified("dest") \/ UnlinkPending("dest")
        /\ job' = [job EXCEPT ![p].effect = TRUE, ![p].dirty = TRUE]
     \/ /\ \E dirty \in BOOLEAN : (Openable("dest") \/ dirty) /\ Fail(p, dirty)
        /\ UNCHANGED <<leaf, pending>>
  /\ UNCHANGED <<intent, Caller>>

-----------------------------------------------------------------------------
(* The handles and the guard are closed, which may fail; MutationApplied   *)
(* and RecoveryRequired are what is left of the call.                      *)
Leave(p) ==
  /\ At(p, "leave")
  /\ \E dirty \in {job[p].dirty, TRUE} :
       Ended(p, IF job[p].said THEN "applied" ELSE IF dirty THEN "unsure" ELSE "unapplied")
  /\ UNCHANGED <<leaf, pending, seen>>

(* A process dies: its handles are closed, and with them the guard.        *)
Die(p) ==
  /\ IF At(p, "publish") THEN Drop("temp") /\ UNCHANGED pending
                         ELSE CloseHandle(p)
  /\ Ended(p, "none")
  /\ seen' = [seen EXCEPT ![p] = None]

Step(p) ==
  \/ GuardFails(p) \/ GrantShared(p) \/ GrantExclusive(p)
  \/ OpenPayload(p) \/ ReadPayload(p)
  \/ recoverStateNamespace(p)
  \/ createTemp(p) \/ publish(p) \/ renameBack(p) \/ renameCommit(p)
  \/ rollbackState(p) \/ undoTemp(p) \/ undoIntent(p)
  \/ dropBackup(p) \/ dropIntent(p)
  \/ removeStateLocked(p) \/ Leave(p)

Next ==
  \E p \in Process :
    Step(p) \/ BeginRead(p) \/ BeginWrite(p) \/ BeginRemove(p) \/ Die(p)

Spec == Init /\ [][Next]_vars

-----------------------------------------------------------------------------
(* A call that dies or fails anywhere leaves names that the next command   *)
(* can classify: the default of recoverStateNamespace, which would refuse  *)
(* the file for good, needs an object that StateFiles did not put there.   *)
EveryRestIsRecoverable ==
  intent # NoIntent => OldStands \/ OldIsAside \/ NewStands

(* The file is a register: every write, remove and read of any process     *)
(* happens at one moment, recovery and rollback change nothing a reader    *)
(* could see, only the object of the snapshot is removed, and a call that  *)
(* says it has (not) applied its mutation tells the truth.                 *)
Content ==
  CHOOSE o \in Object \cup {None} :
    IF "dest" \in pending /\ intent = NoIntent THEN o = None
    ELSE selectStateAuthority(o)

Abstract == INSTANCE Register WITH
  Client <- Process,
  Nothing <- None,
  content <- Content,
  call <- [p \in Process |->
             [op |-> job[p].op, object |-> job[p].object, effect |-> job[p].effect]]

ImplementsRegister == Abstract!Spec
=============================================================================
