--------------------------- MODULE StateFilesProofs ---------------------------
(***************************************************************************)
(* Theorems about module StateFiles, for every set of processes, every     *)
(* number of payloads and both kinds of volume: the inductive invariant,   *)
(* that every crash leaves names the next command can classify, and that   *)
(* the file is the register of module Register.                            *)
(***************************************************************************)
EXTENDS StateFiles, TLAPS

(* The guard file: whoever has it exclusively is alone with it.            *)
GuardInv ==
  \A p, q \in Process :
    pc[p] \in Exclusive /\ pc[q] \in Exclusive \cup {"open"} => p = q

(* Objects are numbered in the order of their writes.                      *)
WrittenInv ==
  /\ \A n \in Leaf : leaf[n] <= written
  /\ intent.old <= written /\ intent.new <= written
  /\ \A p \in Process : job[p].object <= written /\ seen[p] <= written

(* Without an intent only the payload and the temp of a call under way     *)
(* exist; with one, the names are in one of the three states.              *)
NamesInv ==
  /\ intent = NoIntent =>
       /\ Missing("backup")
       /\ Missing("temp") \/ \E p \in Process : pc[p] = "publish"
  /\ intent # NoIntent => intent.old # intent.new /\ (OldStands \/ OldIsAside \/ NewStands)
  /\ "temp" \notin pending
  /\ "dest" \in pending => intent = NoIntent
  /\ "backup" \in pending => intent # NoIntent /\ NewStands

(* What holds where a process is in its call.                              *)
Uncommitted(p) == ~job[p].effect /\ ~job[p].said

Elsewhere(o) ==
  /\ leaf["dest"] # o /\ leaf["backup"] # o /\ leaf["temp"] # o
  /\ intent.old # o /\ intent.new # o

Replacing(p) ==
  /\ job[p].op = "write" /\ Uncommitted(p)
  /\ intent # NoIntent /\ intent.new = job[p].object

CallInv(p) ==
  /\ pc[p] = "idle" => job[p] = NoJob
  /\ pc[p] # "idle" => job[p].op # "idle"
  /\ pc[p] \in {"share", "open", "value"} => job[p].op = "read"
  /\ job[p].op = "remove" => job[p].object # None
  /\ pc[p] \in {"share", "open"} => Uncommitted(p)
  /\ pc[p] = "value" => job[p].effect
  /\ pc[p] \in {"guard", "recover"} => job[p].op \in {"write", "remove"} /\ Uncommitted(p)
  /\ pc[p] \in {"guard", "recover", "create"} /\ job[p].op = "write" => Elsewhere(job[p].object)
  /\ pc[p] \in {"create", "publish"} =>
       job[p].op = "write" /\ Uncommitted(p) /\ intent = NoIntent
  /\ pc[p] = "publish" => leaf["temp"] = job[p].object /\ leaf["dest"] # job[p].object
  /\ pc[p] = "back" => Replacing(p) /\ OldStands /\ ~Missing("temp") /\ pending = {}
  /\ pc[p] \in {"commit", "rollback"} => Replacing(p) /\ OldIsAside /\ pending = {}
  /\ pc[p] \in {"undoTemp", "undoIntent"} => Replacing(p) /\ OldStands
  /\ pc[p] = "undoTemp" => ~Missing("temp")
  /\ pc[p] \in {"dropBackup", "dropIntent"} =>
       /\ job[p].op = "write" /\ job[p].effect /\ job[p].said
       /\ intent # NoIntent /\ NewStands
  /\ pc[p] = "dropBackup" => ~Missing("backup") /\ pending = {}
  /\ pc[p] = "dropIntent" => Missing("backup")
  /\ pc[p] = "unlink" => job[p].op = "remove" /\ Uncommitted(p) /\ intent = NoIntent
  /\ pc[p] = "leave" =>
       /\ job[p].op \in {"write", "remove"}
       /\ job[p].said => job[p].effect
       /\ job[p].effect /\ ~job[p].said => job[p].op = "remove" /\ job[p].dirty

(* No reader and no remove knows the object.                               *)
Hidden(o) ==
  \A q \in Process :
    /\ job[q].op \in {"read", "remove"} => job[q].object # o
    /\ seen[q] # o

Unpublished(p) == job[p].op = "write" /\ ~job[p].effect

HiddenInv ==
  /\ intent # NoIntent /\ (OldStands \/ OldIsAside) => Hidden(intent.new)
  /\ \A p \in Process : Unpublished(p) =>
       /\ job[p].object # None /\ Hidden(job[p].object)
       /\ \A q \in Process : Unpublished(q) /\ q # p => job[q].object # job[p].object

IndInv ==
  /\ TypeOK /\ GuardInv /\ WrittenInv /\ NamesInv
  /\ \A p \in Process : CallInv(p)
  /\ HiddenInv

-----------------------------------------------------------------------------
JobType == [op : {"idle", "read", "write", "remove"}, object : Object \cup {None},
            effect : BOOLEAN, said : BOOLEAN, dirty : BOOLEAN]

(* The initial state satisfies the inductive invariant.                    *)
LEMMA InitIndInv == Init => IndInv
BY ParameterAssumption
   DEF Init, IndInv, TypeOK, GuardInv, WrittenInv, NamesInv, CallInv, HiddenInv, Hidden, Unpublished,
       Uncommitted, Replacing, Elsewhere, NoIntent, NoJob, Job, Location, Exclusive, Leaf, Object, None,
       Missing, OldStands, OldIsAside, NewStands

(* A call that fails, commits or finds something amiss stays a call of the *)
(* same operation on the same object.                                      *)
LEMMA FailKeepsCall ==
  ASSUME TypeOK, NEW p \in Process, NEW d \in BOOLEAN, Fail(p, d)
  PROVE  /\ job' \in [Process -> JobType] /\ pc' \in [Process -> Location]
         /\ pc'[p] = "leave"
         /\ d => job'[p].dirty
         /\ job'[p].op = job[p].op /\ job'[p].object = job[p].object
         /\ job'[p].effect = job[p].effect /\ job'[p].said = job[p].said
         /\ \A q \in Process \ {p} : pc'[q] = pc[q] /\ job'[q] = job[q]
<1>1. job \in [Process -> JobType] /\ pc \in [Process -> Location]
  BY DEF TypeOK, JobType
<1>2. job' \in [Process -> JobType]
  BY <1>1 DEF JobType, Fail
<1>3. pc' \in [Process -> Location] /\ pc'[p] = "leave"
  BY <1>1 DEF Fail, Goto, Location, Exclusive
<1> QED BY <1>1, <1>2, <1>3 DEF JobType, Fail, Goto

(* The commit of a call is recorded in its job and nowhere else.            *)
LEMMA CommitsKeepsCall ==
  ASSUME TypeOK, NEW p \in Process, Commits(p)
  PROVE  /\ job' \in [Process -> JobType]
         /\ job'[p].op = job[p].op /\ job'[p].object = job[p].object
         /\ job'[p].effect /\ job'[p].said
         /\ \A q \in Process \ {p} : job'[q] = job[q]
<1>1. job \in [Process -> JobType]
  BY DEF TypeOK, JobType
<1>2. job' \in [Process -> JobType]
  BY <1>1 DEF JobType, Commits
<1> QED BY <1>1, <1>2 DEF JobType, Commits

(* What a step of the process that has the guard must keep of the others:  *)
(* they wait for the guard, read an object they have opened, or do nothing.*)
Frame(p) ==
  /\ pc' \in [Process -> Location] /\ job' \in [Process -> JobType]
  /\ \A q \in Process \ {p} : pc'[q] = pc[q] /\ job'[q] = job[q]
  /\ job'[p].op = job[p].op /\ job'[p].object = job[p].object
  /\ job[p].effect => job'[p].effect
  /\ UNCHANGED Caller

(* A step under the exclusive guard preserves the invariant when the names  *)
(* it leaves behind, and its own place in the call, are as the invariant    *)
(* says: the other processes depend only on which objects are nowhere yet.  *)
LEMMA ExclusiveStep ==
  ASSUME IndInv, NEW p \in Process, pc[p] \in Exclusive, pc'[p] \in Exclusive,
         Frame(p), NamesInv', CallInv(p)', 
         leaf' \in [Leaf -> Object \cup {None}],
         pending' \subseteq {n \in Leaf : leaf'[n] # None},
         intent' \in [old : Object, new : Object] \cup {NoIntent},
         \A o \in Nat \ {None} : Elsewhere(o) /\ (Unpublished(p) => o # job[p].object) => Elsewhere(o)',
         (intent # NoIntent /\ (OldStands \/ OldIsAside))' => Hidden(intent'.new)
  PROVE  IndInv'
<1> USE DEF IndInv
<1>1. TypeOK'
  BY DEF TypeOK, Frame, JobType, Caller
<1>2. GuardInv'
  BY DEF GuardInv, Frame, TypeOK
<1>3. WrittenInv'
  <2>1. written' = written /\ written \in Nat /\ \A q \in Process : job'[q].object = job[q].object /\ seen' = seen
    BY ParameterAssumption DEF Frame, Caller, TypeOK
  <2>2. \A o \in Nat \ {None} : o > written => Elsewhere(o) /\ (Unpublished(p) => o # job[p].object)
    BY ParameterAssumption DEF WrittenInv, Elsewhere, TypeOK, Object, None, NoIntent, Leaf
  <2>3. \A o \in Nat \ {None} : o > written => Elsewhere(o)'
    BY <2>2
  <2>4. \A n \in Leaf : leaf'[n] <= written
    BY <2>1, <2>3, ParameterAssumption DEF Elsewhere, TypeOK, Object, None, Leaf
  <2>5. intent'.old <= written /\ intent'.new <= written
    BY <2>1, <2>3, ParameterAssumption DEF Elsewhere, TypeOK, Object, None, NoIntent
  <2> QED BY <2>1, <2>4, <2>5 DEF WrittenInv
<1>4. \A q \in Process \ {p} : pc[q] \in {"idle", "share", "guard", "value"}
  BY DEF GuardInv, TypeOK, Location
<1>5. ASSUME NEW q \in Process PROVE CallInv(q)'
  <2>1. CASE q # p
    <3>1. pc'[q] = pc[q] /\ job'[q] = job[q]
      BY <2>1 DEF Frame
    <3>2. CallInv(q)
      OBVIOUS
    <3>3. pc[q] = "guard" /\ job[q].op = "write" => Elsewhere(job[q].object)'
      BY <2>1, <3>1, <3>2 DEF CallInv, Uncommitted, HiddenInv, Unpublished, TypeOK, Object, None
    <3> QED BY <1>4, <2>1, <3>1, <3>2, <3>3 DEF CallInv, Uncommitted, Exclusive
  <2> QED BY <2>1
<1>6. HiddenInv'
  <2>1. \A q \in Process : /\ job'[q].op = job[q].op /\ job'[q].object = job[q].object
                           /\ Unpublished(q)' => Unpublished(q)
    BY DEF Frame, Unpublished
  <2>2. \A o : Hidden(o) => Hidden(o)'
    BY <2>1 DEF Frame, Caller, Hidden
  <2> QED BY <2>1, <2>2 DEF HiddenInv
<1> QED BY <1>1, <1>2, <1>3, <1>5, <1>6

(* A step that fails and leaves the names alone.                           *)
LEMMA FailStep ==
  ASSUME IndInv, NEW p \in Process, pc[p] \in Exclusive \ {"publish", "leave"}, NEW d \in BOOLEAN,
         Fail(p, d), UNCHANGED files, UNCHANGED Caller
  PROVE  IndInv'
<1>1. Frame(p) /\ pc'[p] = "leave" /\ job'[p].effect = job[p].effect /\ job'[p].said = job[p].said
  <2>1. TypeOK
    BY DEF IndInv
  <2> QED BY <2>1, FailKeepsCall DEF Frame
<1>2. leaf' = leaf /\ pending' = pending /\ intent' = intent
  BY DEF files
<1>3. NamesInv'
  BY <1>1, <1>2 DEF IndInv, NamesInv, OldStands, OldIsAside, NewStands, Missing, Frame
<1>4. CallInv(p)'
  <2>1. CallInv(p) /\ TypeOK
    BY DEF IndInv
  <2> QED BY <1>1, <2>1, FailKeepsCall DEF TypeOK, CallInv, Exclusive, Uncommitted, Replacing, Frame
<1>5. (intent # NoIntent /\ (OldStands \/ OldIsAside))' => Hidden(intent'.new)
  BY <1>2 DEF IndInv, HiddenInv, OldStands, OldIsAside, Missing
<1> QED BY <1>1, <1>2, <1>3, <1>4, <1>5, ExclusiveStep DEF IndInv, TypeOK, Elsewhere, Exclusive

(* temp is created for an object that is nowhere else.                      *)
LEMMA createTempIndInv == ASSUME IndInv, NEW p \in Process, createTemp(p) PROVE IndInv'
<1> USE DEF createTemp, At
<1>1. ASSUME NEW d \in BOOLEAN, Fail(p, d), leaf' = leaf PROVE IndInv'
  BY <1>1, FailStep DEF files, Exclusive
<1>2. CASE leaf' = [leaf EXCEPT !["temp"] = job[p].object] /\ Goto(p, "publish") /\ UNCHANGED job
  <2>1. /\ job[p].op = "write" /\ Uncommitted(p) /\ intent = NoIntent
        /\ Elsewhere(job[p].object) /\ job[p].object \in Object
    BY DEF IndInv, CallInv, HiddenInv, Unpublished, Uncommitted, TypeOK
  <2>2. /\ leaf' \in [Leaf -> Object \cup {None}] /\ leaf'["temp"] = job[p].object
        /\ leaf'["dest"] = leaf["dest"] /\ leaf'["backup"] = leaf["backup"]
        /\ pending' = pending /\ intent' = intent
    BY <1>2, <2>1 DEF IndInv, TypeOK, Leaf
  <2>3. Frame(p) /\ pc'[p] = "publish"
    BY <1>2 DEF IndInv, TypeOK, Frame, JobType, Goto, Location, Exclusive
  <2>4. NamesInv'
    BY <2>1, <2>2, <2>3 DEF IndInv, NamesInv, Missing
  <2>5. CallInv(p)'
    BY <2>1, <2>2, <2>3, <1>2 DEF CallInv, Uncommitted, Elsewhere
  <2>6. pending' \subseteq {n \in Leaf : leaf'[n] # None}
    BY <2>1, <2>2, ParameterAssumption DEF IndInv, TypeOK, Leaf, Object, None
  <2> QED BY <2>1, <2>2, <2>3, <2>4, <2>5, <2>6, ExclusiveStep
             DEF IndInv, TypeOK, Elsewhere, Exclusive, Unpublished, Uncommitted
<1> QED BY <1>1, <1>2

(* Publishing either commits at once, or writes an intent that names the    *)
(* object under the file name and the one in temp.                          *)
LEMMA publishIndInv == ASSUME IndInv, NEW p \in Process, publish(p) PROVE IndInv'
<1> USE DEF publish, At
<1>0. /\ job[p].op = "write" /\ Uncommitted(p) /\ intent = NoIntent /\ leaf["backup"] = None
      /\ leaf["temp"] = job[p].object /\ job[p].object \in Object /\ leaf["dest"] # job[p].object
      /\ pending' = pending
  BY DEF IndInv, CallInv, HiddenInv, Unpublished, Uncommitted, TypeOK, NamesInv, Missing
<1>1. CASE /\ Openable("dest") /\ Missing("dest") /\ Move("temp", "dest") /\ Commits(p)
           /\ Goto(p, "leave") /\ UNCHANGED intent
  <2>1. /\ leaf' \in [Leaf -> Object \cup {None}] /\ leaf'["temp"] = None
        /\ leaf'["dest"] = job[p].object /\ leaf'["backup"] = None
        /\ pending' = pending /\ intent' = intent
    BY <1>0, <1>1 DEF IndInv, TypeOK, Leaf, Move
  <2>2. Frame(p) /\ pc'[p] = "leave" /\ job'[p].effect /\ job'[p].said
    BY <1>1, CommitsKeepsCall DEF IndInv, TypeOK, Frame, Goto, Location, Exclusive
  <2>3. NamesInv'
    BY <1>0, <1>1, <2>1 DEF IndInv, NamesInv, Missing
  <2>4. CallInv(p)'
    BY <1>0, <2>2 DEF CallInv, Frame
  <2>5. pending' \subseteq {n \in Leaf : leaf'[n] # None}
    BY <1>0, <1>1, <2>1 DEF IndInv, TypeOK, Leaf, NamesInv, Openable, Missing
  <2> QED BY <1>0, <2>1, <2>2, <2>3, <2>4, <2>5, ExclusiveStep
             DEF IndInv, TypeOK, Elsewhere, Exclusive, Unpublished, Uncommitted
<1>2. CASE /\ Openable("dest") /\ ~Missing("dest")
           /\ intent' = [old |-> leaf["dest"], new |-> leaf["temp"]]
           /\ Goto(p, "back") /\ UNCHANGED <<leaf, job>>
  <2>1. /\ intent' \in [old : Object, new : Object] /\ intent'.old = leaf["dest"]
        /\ intent'.new = job[p].object /\ intent' # NoIntent
    BY <1>0, <1>2, ParameterAssumption DEF IndInv, TypeOK, Missing, Leaf, Object, None, NoIntent
  <2>2. Frame(p) /\ pc'[p] = "back"
    BY <1>2 DEF IndInv, TypeOK, Frame, JobType, Goto, Location, Exclusive
  <2>3. NamesInv' /\ pending = {}
    BY <1>0, <1>2, <2>1
       DEF IndInv, NamesInv, OldStands, OldIsAside, NewStands, Missing, Openable, TypeOK, Leaf
  <2>4. CallInv(p)'
    BY <1>0, <1>2, <2>1, <2>2, <2>3, ParameterAssumption
       DEF CallInv, Frame, Replacing, OldStands, Missing, Uncommitted, Object, None
  <2>5. Hidden(intent'.new)
    BY <1>0, <2>1 DEF IndInv, HiddenInv, Unpublished, Uncommitted
  <2> QED BY <1>0, <1>2, <2>1, <2>2, <2>3, <2>4, <2>5, ExclusiveStep
             DEF IndInv, TypeOK, Elsewhere, Exclusive, Unpublished, Uncommitted
<1>3. ASSUME NEW d \in BOOLEAN, Fail(p, d), Drop("temp"), UNCHANGED intent PROVE IndInv'
  <2>1. /\ leaf' \in [Leaf -> Object \cup {None}] /\ leaf'["temp"] = None
        /\ leaf'["dest"] = leaf["dest"] /\ leaf'["backup"] = None /\ intent' = intent
    BY <1>0, <1>3 DEF IndInv, TypeOK, Leaf, Drop
  <2>2. Frame(p) /\ pc'[p] = "leave" /\ ~job'[p].effect /\ ~job'[p].said
    <3>1. TypeOK
      BY DEF IndInv
    <3> QED BY <1>0, <1>3, <3>1, FailKeepsCall DEF Frame, Uncommitted
  <2>3. NamesInv'
    BY <1>0, <2>1 DEF IndInv, NamesInv, Missing
  <2>4. CallInv(p)'
    BY <1>0, <2>2 DEF CallInv, Frame
  <2>5. pending' \subseteq {n \in Leaf : leaf'[n] # None}
    BY <1>0, <2>1 DEF IndInv, TypeOK, Leaf, NamesInv
  <2> QED BY <1>0, <2>1, <2>2, <2>3, <2>4, <2>5, ExclusiveStep
             DEF IndInv, TypeOK, Elsewhere, Exclusive, Unpublished, Uncommitted
<1> QED BY <1>1, <1>2, <1>3

(* The old object is renamed aside, where the intent names it.              *)
LEMMA renameBackIndInv == ASSUME IndInv, NEW p \in Process, renameBack(p) PROVE IndInv'
<1> USE DEF renameBack, At
<1>0. /\ Replacing(p) /\ OldStands /\ ~Missing("temp") /\ pending = {} /\ pending' = pending
      /\ intent' = intent /\ job' = job
  BY DEF IndInv, CallInv
<1>1. CASE Move("dest", "backup") /\ Goto(p, "commit")
  <2>1. /\ leaf' \in [Leaf -> Object \cup {None}] /\ leaf'["temp"] = leaf["temp"]
        /\ leaf'["dest"] = None /\ leaf'["backup"] = leaf["dest"]
    BY <1>1 DEF IndInv, TypeOK, Leaf, Move
  <2>2. Frame(p) /\ pc'[p] = "commit"
    BY <1>0, <1>1 DEF IndInv, TypeOK, Frame, JobType, Goto, Location, Exclusive
  <2>3. NamesInv' /\ OldIsAside'
    BY <1>0, <2>1 DEF IndInv, NamesInv, Replacing, OldStands, OldIsAside, Missing
  <2>4. CallInv(p)'
    BY <1>0, <2>2, <2>3 DEF CallInv, Replacing, Uncommitted
  <2>5. Hidden(intent.new)
    BY <1>0 DEF IndInv, HiddenInv, Replacing
  <2> QED BY <1>0, <2>1, <2>2, <2>3, <2>4, <2>5, ExclusiveStep
             DEF IndInv, TypeOK, Elsewhere, Exclusive
<1>2. CASE Goto(p, "undoTemp") /\ UNCHANGED leaf
  <2>1. Frame(p) /\ pc'[p] = "undoTemp"
    BY <1>0, <1>2 DEF IndInv, TypeOK, Frame, JobType, Goto, Location, Exclusive
  <2>2. NamesInv'
    BY <1>0, <1>2 DEF IndInv, NamesInv, Replacing, OldStands, OldIsAside, NewStands, Missing
  <2>3. CallInv(p)'
    BY <1>0, <1>2, <2>1 DEF CallInv, Replacing, Uncommitted, OldStands, Missing
  <2>4. Hidden(intent.new)
    BY <1>0 DEF IndInv, HiddenInv, Replacing
  <2> QED BY <1>0, <1>2, <2>1, <2>2, <2>3, <2>4, ExclusiveStep
             DEF IndInv, TypeOK, Elsewhere, Exclusive
<1> QED BY <1>1, <1>2

(* The rename of temp to the file name is the commit.                       *)
LEMMA renameCommitIndInv == ASSUME IndInv, NEW p \in Process, renameCommit(p) PROVE IndInv'
<1> USE DEF renameCommit, At
<1>0. /\ Replacing(p) /\ OldIsAside /\ pending = {} /\ pending' = pending /\ intent' = intent
      /\ intent.old # intent.new /\ leaf["backup"] # None /\ leaf["temp"] # None
  BY ParameterAssumption DEF IndInv, CallInv, NamesInv, OldIsAside, Replacing, TypeOK, Object, None
<1>1. CASE Move("temp", "dest") /\ Commits(p) /\ Goto(p, "dropBackup")
  <2>1. /\ leaf' \in [Leaf -> Object \cup {None}] /\ leaf'["temp"] = None
        /\ leaf'["dest"] = leaf["temp"] /\ leaf'["backup"] = leaf["backup"]
    BY <1>1 DEF IndInv, TypeOK, Leaf, Move
  <2>2. Frame(p) /\ pc'[p] = "dropBackup" /\ job'[p].effect /\ job'[p].said
    BY <1>1, CommitsKeepsCall DEF IndInv, TypeOK, Frame, Goto, Location, Exclusive
  <2>3. NamesInv' /\ NewStands'
    BY <1>0, <2>1 DEF IndInv, NamesInv, Replacing, NewStands, OldIsAside, Missing
  <2>4. CallInv(p)'
    BY <1>0, <2>1, <2>2, <2>3 DEF CallInv, Replacing, Frame, Missing
  <2>5. ~(OldStands \/ OldIsAside)'
    BY <1>0, <2>1 DEF OldStands, OldIsAside, Missing
  <2> QED BY <1>0, <2>1, <2>2, <2>3, <2>4, <2>5, ExclusiveStep
             DEF IndInv, TypeOK, Elsewhere, Exclusive
<1>2. CASE Goto(p, "rollback") /\ UNCHANGED <<leaf, job>>
  <2>1. Frame(p) /\ pc'[p] = "rollback"
    BY <1>2 DEF IndInv, TypeOK, Frame, JobType, Goto, Location, Exclusive
  <2>2. NamesInv'
    BY <1>0, <1>2 DEF IndInv, NamesInv, Replacing, OldStands, OldIsAside, NewStands, Missing
  <2>3. CallInv(p)'
    BY <1>0, <1>2, <2>1 DEF CallInv, Replacing, Uncommitted, OldIsAside, Missing
  <2>4. Hidden(intent.new)
    BY <1>0 DEF IndInv, HiddenInv, Replacing
  <2> QED BY <1>0, <1>2, <2>1, <2>2, <2>3, <2>4, ExclusiveStep
             DEF IndInv, TypeOK, Elsewhere, Exclusive
<1> QED BY <1>1, <1>2

(* A failed commit puts the old object back, or leaves it to the recovery.  *)
LEMMA rollbackStateIndInv == ASSUME IndInv, NEW p \in Process, rollbackState(p) PROVE IndInv'
<1> USE DEF rollbackState, At
<1>0. /\ Replacing(p) /\ OldIsAside /\ pending = {} /\ pending' = pending /\ intent' = intent
      /\ leaf["temp"] # None
  BY ParameterAssumption DEF IndInv, CallInv, NamesInv, OldIsAside, Replacing, TypeOK, Object, None
<1>1. CASE Move("backup", "dest") /\ Goto(p, "undoTemp") /\ UNCHANGED job
  <2>1. /\ leaf' \in [Leaf -> Object \cup {None}] /\ leaf'["temp"] = leaf["temp"]
        /\ leaf'["dest"] = leaf["backup"] /\ leaf'["backup"] = None
    BY <1>1 DEF IndInv, TypeOK, Leaf, Move
  <2>2. Frame(p) /\ pc'[p] = "undoTemp"
    BY <1>1 DEF IndInv, TypeOK, Frame, JobType, Goto, Location, Exclusive
  <2>3. NamesInv' /\ OldStands'
    BY <1>0, <2>1 DEF IndInv, NamesInv, Replacing, OldStands, OldIsAside, Missing
  <2>4. CallInv(p)'
    BY <1>0, <1>1, <2>1, <2>2, <2>3 DEF CallInv, Replacing, Uncommitted, Missing
  <2>5. Hidden(intent.new)
    BY <1>0 DEF IndInv, HiddenInv, Replacing
  <2> QED BY <1>0, <2>1, <2>2, <2>3, <2>4, <2>5, ExclusiveStep
             DEF IndInv, TypeOK, Elsewhere, Exclusive
<1>2. CASE Fail(p, TRUE) /\ UNCHANGED leaf
  BY <1>0, <1>2, FailStep DEF files, Exclusive
<1> QED BY <1>1, <1>2

(* What an unlink may have done, whether it says so or not.                *)
LEMMA UnlinkOutcome ==
  ASSUME TypeOK, NEW n \in Leaf, Unlinked(n) \/ UnlinkFails(n)
  PROVE  \/ leaf' = leaf /\ pending' = pending
         \/ /\ n \notin pending /\ pending' = pending
            /\ leaf' \in [Leaf -> Object \cup {None}] /\ leaf'[n] = None
            /\ \A m \in Leaf \ {n} : leaf'[m] = leaf[m]
         \/ Held(leaf[n]) /\ leaf' = leaf /\ pending' = pending \cup {n}
BY DEF TypeOK, Unlinked, UnlinkFails, UnlinkRefused, UnlinkUnverified, UnlinkPending, Openable, Drop

(* The new object is not open anywhere before the commit: temp goes or     *)
(* stays, and is not left pending.                                         *)
LEMMA TempUnlinked ==
  ASSUME IndInv, NEW p \in Process, pc[p] \in Exclusive, pc'[p] \in Exclusive,
         intent # NoIntent, OldStands, ~Missing("temp"), intent' = intent,
         Unlinked("temp") \/ UnlinkFails("temp"), Frame(p), CallInv(p)'
  PROVE  IndInv'
<1>1. /\ TypeOK /\ Hidden(leaf["temp"]) /\ Hidden(intent.new)
      /\ leaf["dest"] = intent.old /\ leaf["backup"] = None /\ leaf["temp"] = intent.new
  BY DEF IndInv, HiddenInv, OldStands, Missing
<1>2. ~Held(leaf["temp"])
  <2>1. \A q \in Process : CallInv(q)
    BY DEF IndInv
  <2> QED BY <1>1, <2>1 DEF Held, Hidden, CallInv
<1>3. /\ leaf' \in [Leaf -> Object \cup {None}] /\ leaf'["temp"] \in {leaf["temp"], None}
      /\ leaf'["dest"] = leaf["dest"] /\ leaf'["backup"] = None /\ pending' = pending
  BY <1>1, <1>2, UnlinkOutcome DEF Leaf, TypeOK
<1>4. NamesInv' /\ pending' \subseteq {n \in Leaf : leaf'[n] # None}
  BY <1>1, <1>3 DEF IndInv, NamesInv, OldStands, OldIsAside, NewStands, Missing, TypeOK, Leaf
<1> QED BY <1>1, <1>3, <1>4, ExclusiveStep DEF TypeOK, Elsewhere

(* After the commit a reader may still have the old object open.           *)
LEMMA BackupUnlinked ==
  ASSUME IndInv, NEW p \in Process, pc[p] \in Exclusive, pc'[p] \in Exclusive,
         intent # NoIntent, NewStands, ~Missing("backup"), intent' = intent,
         Unlinked("backup") \/ UnlinkFails("backup"), Frame(p), CallInv(p)'
  PROVE  IndInv'
<1>1. /\ TypeOK /\ leaf["dest"] = intent.new /\ leaf["temp"] = None /\ leaf["backup"] = intent.old
      /\ intent.new # None
  BY ParameterAssumption DEF IndInv, TypeOK, NewStands, Missing, Object, None, NoIntent
<1>2. /\ leaf' \in [Leaf -> Object \cup {None}] /\ leaf'["backup"] \in {leaf["backup"], None}
      /\ leaf'["dest"] = leaf["dest"] /\ leaf'["temp"] = None
      /\ pending' \subseteq pending \cup {"backup"}
      /\ pending' \subseteq {n \in Leaf : leaf'[n] # None}
  BY <1>1, UnlinkOutcome DEF Leaf, TypeOK, Missing
<1>3. NamesInv'
  BY <1>1, <1>2 DEF IndInv, NamesInv, OldStands, OldIsAside, NewStands, Missing
<1>4. ~(OldStands \/ OldIsAside)'
  BY <1>1, <1>2 DEF IndInv, NamesInv, OldStands, OldIsAside, Missing
<1> QED BY <1>1, <1>2, <1>3, <1>4, ExclusiveStep DEF TypeOK, Elsewhere

(* The intent goes last: without backup, and with temp or after it.        *)
LEMMA IntentUnlinked ==
  ASSUME IndInv, NEW p \in Process, pc[p] \in Exclusive, pc'[p] \in Exclusive,
         intent # NoIntent, leaf["backup"] = None, intent' = NoIntent,
         leaf' \in [Leaf -> Object \cup {None}], leaf'["dest"] = leaf["dest"],
         leaf'["backup"] = None, leaf'["temp"] = None,
         pending' = pending, Frame(p), CallInv(p)'
  PROVE  IndInv'
<1>1. pending = {}
  BY DEF IndInv, NamesInv, TypeOK, Leaf
<1>2. NamesInv' /\ intent'.old = None /\ intent'.new = None
  BY <1>1 DEF NamesInv, Missing, NoIntent
<1> QED BY <1>1, <1>2, ExclusiveStep DEF Elsewhere

(* After a rollback temp is unlinked before the intent.                     *)
LEMMA undoTempIndInv == ASSUME IndInv, NEW p \in Process, undoTemp(p) PROVE IndInv'
<1>1. /\ TypeOK /\ CallInv(p) /\ Replacing(p) /\ OldStands /\ ~Missing("temp") /\ pc[p] = "undoTemp"
  BY DEF IndInv, CallInv, undoTemp, At
<1>2. /\ Frame(p) /\ pc'[p] = "undoIntent" /\ job'[p].effect = job[p].effect
      /\ job'[p].said = job[p].said
  <2>1. job \in [Process -> JobType] /\ pc \in [Process -> Location]
    BY <1>1 DEF TypeOK, JobType
  <2>2. job' \in [Process -> JobType]
    BY ZenonT(40), <2>1 DEF undoTemp, JobType
  <2> QED BY <2>1, <2>2 DEF Frame, undoTemp, Goto, Location, Exclusive, JobType
<1>3. intent' = intent /\ (Unlinked("temp") \/ UnlinkFails("temp"))
  BY DEF undoTemp
<1>4. CallInv(p)'
  <2>1. OldStands'
    BY <1>1, <1>3, UnlinkOutcome DEF OldStands, Missing, Leaf
  <2> QED BY <1>1, <1>2, <1>3, <2>1 DEF CallInv, Replacing, Uncommitted, Frame
<1> QED BY <1>1, <1>2, <1>3, <1>4, TempUnlinked DEF Replacing, Exclusive

(* The intent of a rolled back write is unlinked last.                      *)
LEMMA undoIntentIndInv == ASSUME IndInv, NEW p \in Process, undoIntent(p) PROVE IndInv'
<1>1. /\ TypeOK /\ CallInv(p) /\ Replacing(p) /\ OldStands /\ pc[p] = "undoIntent"
  BY DEF IndInv, CallInv, undoIntent, At
<1>2. CASE intent' = NoIntent
  <2>1. /\ leaf' \in [Leaf -> Object \cup {None}] /\ leaf'["temp"] = None
        /\ leaf'["dest"] = leaf["dest"] /\ leaf'["backup"] = None /\ leaf["backup"] = None
        /\ pending' = pending
    BY <1>1, <1>2 DEF undoIntent, TypeOK, Leaf, OldStands, Missing
  <2>2. Frame(p) /\ pc'[p] = "leave" /\ ~job'[p].effect /\ ~job'[p].said
    BY ZenonT(40), <1>1, FailKeepsCall
       DEF undoIntent, UnlinkIntent, Frame, Goto, TypeOK, JobType, Location, Exclusive,
           Replacing, Uncommitted
  <2>3. CallInv(p)'
    BY <1>1, <2>2 DEF CallInv, Frame, Replacing
  <2> QED BY <1>1, <1>2, <2>1, <2>2, <2>3, IntentUnlinked DEF Exclusive, Replacing
<1>3. CASE intent' # NoIntent
  <2>1. leaf' = leaf /\ intent' = intent /\ Fail(p, TRUE)
    BY <1>1, <1>3 DEF undoIntent, UnlinkIntent, TypeOK, Leaf
  <2> QED BY <1>1, <2>1, FailStep DEF undoIntent, files, Exclusive
<1> QED BY <1>2, <1>3

(* After the commit the old object is unlinked before the intent.           *)
LEMMA dropBackupIndInv == ASSUME IndInv, NEW p \in Process, dropBackup(p) PROVE IndInv'
<1>1. /\ TypeOK /\ CallInv(p) /\ NewStands /\ ~Missing("backup") /\ intent # NoIntent /\ pc[p] = "dropBackup"
      /\ job[p].op = "write" /\ job[p].effect /\ job[p].said /\ intent' = intent
  BY DEF IndInv, CallInv, dropBackup, At
<1>2. CASE Unlinked("backup") /\ Goto(p, "dropIntent") /\ UNCHANGED job
  <2>1. Frame(p) /\ pc'[p] = "dropIntent"
    BY <1>1, <1>2 DEF dropBackup, TypeOK, Frame, JobType, Goto, Location, Exclusive
  <2>2. CallInv(p)'
    BY <1>1, <1>2, <2>1 DEF CallInv, Unlinked, Drop, NewStands, Missing, TypeOK, Leaf
  <2> QED BY <1>1, <1>2, <2>1, <2>2, BackupUnlinked DEF Exclusive
<1>3. CASE UnlinkFails("backup") /\ Fail(p, TRUE)
  <2>1. Frame(p) /\ pc'[p] = "leave" /\ job'[p].effect /\ job'[p].said
    BY <1>1, <1>3, FailKeepsCall DEF dropBackup, Frame
  <2>2. CallInv(p)'
    BY <1>1, <2>1 DEF CallInv, Frame
  <2> QED BY <1>1, <1>3, <2>1, <2>2, BackupUnlinked DEF Exclusive
<1> QED BY <1>2, <1>3 DEF dropBackup, UnlinkPayload

(* The intent of a committed write is unlinked last.                        *)
LEMMA dropIntentIndInv == ASSUME IndInv, NEW p \in Process, dropIntent(p) PROVE IndInv'
<1>1. /\ TypeOK /\ CallInv(p) /\ NewStands /\ Missing("backup") /\ intent # NoIntent /\ pc[p] = "dropIntent"
      /\ job[p].op = "write" /\ job[p].effect /\ job[p].said /\ leaf' = leaf /\ pending' = pending
  BY DEF IndInv, CallInv, dropIntent, At
<1>2. CASE intent' = NoIntent
  <2>1. Frame(p) /\ pc'[p] = "leave" /\ job'[p].effect /\ job'[p].said
    <3>1. CASE Goto(p, "leave") /\ UNCHANGED job
      BY <1>1, <3>1 DEF dropIntent, Frame, Goto, TypeOK, JobType, Location, Exclusive
    <3>2. CASE Fail(p, TRUE)
      BY <1>1, <3>2, FailKeepsCall DEF dropIntent, Frame
    <3> QED BY <3>1, <3>2 DEF dropIntent, UnlinkIntent
  <2>2. CallInv(p)'
    BY <1>1, <2>1 DEF CallInv, Frame
  <2> QED BY <1>1, <1>2, <2>1, <2>2, IntentUnlinked DEF Exclusive, NewStands, Missing, TypeOK
<1>3. CASE intent' # NoIntent
  <2>1. intent' = intent /\ Fail(p, TRUE)
    BY <1>1, <1>3 DEF dropIntent, UnlinkIntent
  <2> QED BY <1>1, <2>1, FailStep DEF dropIntent, files, Exclusive
<1> QED BY <1>2, <1>3

(* A remove unlinks the object of its snapshot, or marks it for deletion.   *)
LEMMA removeStateLockedIndInv == ASSUME IndInv, NEW p \in Process, removeStateLocked(p) PROVE IndInv'
<1>1. /\ TypeOK /\ CallInv(p) /\ pc[p] = "unlink" /\ job[p].op = "remove" /\ Uncommitted(p)
      /\ intent = NoIntent /\ intent' = intent /\ Missing("backup") /\ Missing("temp")
      /\ pc' = [pc EXCEPT ![p] = "leave"]
  BY DEF IndInv, CallInv, NamesInv, GuardInv, Exclusive, removeStateLocked, At, Goto
<1>2. pc' \in [Process -> Location] /\ pc'[p] = "leave" /\ \A q \in Process \ {p} : pc'[q] = pc[q]
  BY <1>1 DEF TypeOK, Location, Exclusive
<1>3. CASE ~Unchanged(p) /\ Openable("dest") /\ UNCHANGED <<leaf, pending, job>>
  <2>1. Frame(p)
    BY <1>1, <1>2, <1>3 DEF removeStateLocked, Frame, TypeOK, JobType
  <2>2. NamesInv'
    BY <1>1, <1>3 DEF IndInv, NamesInv, Missing
  <2>3. CallInv(p)'
    BY <1>1, <1>2, <1>3 DEF CallInv, Uncommitted
  <2> QED BY <1>1, <1>2, <1>3, <2>1, <2>2, <2>3, ExclusiveStep DEF Exclusive, TypeOK, Elsewhere
<1>4. ASSUME NEW d \in BOOLEAN, Fail(p, d), UNCHANGED <<leaf, pending>> PROVE IndInv'
  BY <1>1, <1>4, FailStep DEF removeStateLocked, files, Exclusive
<1>5. CASE /\ Unchanged(p)
           /\ Unlinked("dest") \/ UnlinkFails("dest")
           /\ \/ Commits(p)
              \/ job' = [job EXCEPT ![p].effect = TRUE, ![p].dirty = TRUE]
  <2>1. Frame(p) /\ job'[p].effect /\ (job'[p].said \/ job'[p].dirty)
    <3>1. CASE Commits(p)
      BY <1>1, <1>2, <3>1, CommitsKeepsCall DEF removeStateLocked, Frame
    <3>2. CASE job' = [job EXCEPT ![p].effect = TRUE, ![p].dirty = TRUE]
      <4>1. job \in [Process -> JobType]
        BY <1>1 DEF TypeOK, JobType
      <4>2. job' \in [Process -> JobType]
        BY <4>1, <3>2 DEF JobType
      <4> QED BY <1>1, <1>2, <3>2, <4>1, <4>2 DEF removeStateLocked, Frame, JobType
    <3> QED BY <1>5, <3>1, <3>2
  <2>2. /\ leaf' \in [Leaf -> Object \cup {None}] /\ leaf'["dest"] \in {leaf["dest"], None}
        /\ leaf'["backup"] = None /\ leaf'["temp"] = None
        /\ pending' \subseteq pending \cup {"dest"} /\ pending' \subseteq {n \in Leaf : leaf'[n] # None}
    <3>1. leaf["dest"] # None
      BY <1>1, <1>5 DEF Unchanged, CallInv
    <3> QED BY <1>1, <1>5, <3>1, UnlinkOutcome DEF Leaf, TypeOK, Missing
  <2>3. NamesInv'
    BY <1>1, <2>2 DEF IndInv, NamesInv, Missing
  <2>4. CallInv(p)'
    BY <1>1, <1>2, <2>1 DEF CallInv, Frame
  <2> QED BY <1>1, <1>2, <2>1, <2>2, <2>3, <2>4, ExclusiveStep
             DEF Exclusive, TypeOK, Elsewhere, Missing
<1> QED BY <1>3, <1>4, <1>5 DEF removeStateLocked, UnlinkFails

(* Every step of the recovery leaves names that it, or another recovery     *)
(* after a crash, can classify again.                                       *)
LEMMA recoverIndInv == ASSUME IndInv, NEW p \in Process, recoverStateNamespace(p) PROVE IndInv'
<1>1. /\ TypeOK /\ CallInv(p) /\ pc[p] = "recover" /\ job[p].op \in {"write", "remove"} /\ Uncommitted(p)
      /\ job[p].op = "write" => Elsewhere(job[p].object)
      /\ UNCHANGED Caller
  BY DEF IndInv, CallInv, recoverStateNamespace, At
<1>2. CASE Fail(p, TRUE) /\ UNCHANGED files
  BY <1>1, <1>2, FailStep DEF Exclusive
<1>3. CASE intent = NoIntent /\ Goto(p, IF job[p].op = "write" THEN "create" ELSE "unlink") /\ UNCHANGED <<files, job>>
  <2>1. Frame(p) /\ pc'[p] = IF job[p].op = "write" THEN "create" ELSE "unlink"
    BY <1>1, <1>3 DEF Frame, Goto, TypeOK, JobType, Location, Exclusive
  <2>2. NamesInv'
    BY <1>1, <1>3, <2>1 DEF IndInv, NamesInv, Missing, files, GuardInv, Exclusive
  <2>3. CallInv(p)'
    BY <1>1, <1>3, <2>1 DEF CallInv, Uncommitted, Elsewhere, files
  <2> QED BY <1>1, <1>3, <2>1, <2>2, <2>3, ExclusiveStep DEF Exclusive, TypeOK, Elsewhere, files
<1>4. ASSUME pc' = pc \/ pc' = [pc EXCEPT ![p] = "recover"], job' = job,
             \A o \in Nat \ {None} : Elsewhere(o) => Elsewhere(o)'
      PROVE  Frame(p) /\ CallInv(p)' /\ pc'[p] = "recover"
  <2>1. Frame(p) /\ pc'[p] = "recover"
    BY <1>1, <1>4 DEF Frame, TypeOK, JobType, Location, Exclusive
  <2>2. job[p].op = "write" => job[p].object \in Nat \ {None}
    BY <1>1, ParameterAssumption
       DEF IndInv, HiddenInv, Unpublished, Uncommitted, TypeOK, Object, None
  <2>3. CallInv(p)'
    BY <1>1, <1>4, <2>1, <2>2 DEF CallInv, Uncommitted
  <2> QED BY <2>1, <2>3
<1>5. ASSUME Fail(p, TRUE) PROVE Frame(p) /\ CallInv(p)' /\ pc'[p] = "leave"
  <2>1. Frame(p) /\ pc'[p] = "leave" /\ ~job'[p].effect /\ ~job'[p].said
    BY <1>1, <1>5, FailKeepsCall DEF Frame, Uncommitted
  <2> QED BY <1>1, <2>1 DEF CallInv, Frame
<1>6. ASSUME intent # NoIntent, OldStands, ~Missing("temp"), UnlinkPayload(p, "temp", "recover"), UNCHANGED intent
      PROVE  IndInv'
  <2>1. \A o \in Nat \ {None} : Elsewhere(o) => Elsewhere(o)'
    <3>1. /\ leaf'["temp"] \in {leaf["temp"], None} /\ leaf'["dest"] = leaf["dest"]
          /\ leaf'["backup"] = leaf["backup"]
      BY <1>1, <1>6, UnlinkOutcome DEF UnlinkPayload, Leaf
    <3> QED BY <1>6, <3>1 DEF Elsewhere
  <2>2. Frame(p) /\ CallInv(p)' /\ pc'[p] \in Exclusive
    BY <1>4, <1>5, <1>6, <2>1 DEF UnlinkPayload, Goto, Exclusive
  <2> QED BY <1>1, <1>6, <2>2, TempUnlinked DEF UnlinkPayload, Exclusive
<1>7. ASSUME intent # NoIntent, NewStands, ~Missing("backup"), UnlinkPayload(p, "backup", "recover"), UNCHANGED intent
      PROVE  IndInv'
  <2>1. \A o \in Nat \ {None} : Elsewhere(o) => Elsewhere(o)'
    <3>1. /\ leaf'["backup"] \in {leaf["backup"], None} /\ leaf'["dest"] = leaf["dest"]
          /\ leaf'["temp"] = leaf["temp"]
      BY <1>1, <1>7, UnlinkOutcome DEF UnlinkPayload, Leaf
    <3> QED BY <1>7, <3>1 DEF Elsewhere
  <2>2. Frame(p) /\ CallInv(p)' /\ pc'[p] \in Exclusive
    BY <1>4, <1>5, <1>7, <2>1 DEF UnlinkPayload, Goto, Exclusive
  <2> QED BY <1>1, <1>7, <2>2, BackupUnlinked DEF UnlinkPayload, Exclusive
<1>8. ASSUME intent # NoIntent, Missing("backup"), Missing("temp"),
             UnlinkIntent(p, "recover"), UNCHANGED <<leaf, pending>>
      PROVE  IndInv'
  <2>1. CASE intent' = NoIntent
    <3>1. \A o \in Nat \ {None} : Elsewhere(o) => Elsewhere(o)'
      BY <1>8, <2>1 DEF Elsewhere, NoIntent
    <3>2. Frame(p) /\ CallInv(p)' /\ pc'[p] \in Exclusive
      BY <1>4, <1>5, <1>8, <3>1 DEF UnlinkIntent, Goto, Exclusive
    <3> QED BY <1>1, <1>8, <2>1, <3>2, IntentUnlinked DEF Exclusive, TypeOK, Missing
  <2>2. CASE intent' # NoIntent
    BY <1>1, <1>8, <2>2, FailStep DEF UnlinkIntent, files, Exclusive
  <2> QED BY <2>1, <2>2
<1>9. ASSUME pending = {}, recoverAside(p) PROVE IndInv'
  <2>1. /\ leaf' \in [Leaf -> Object \cup {None}] /\ leaf'["temp"] = leaf["temp"]
        /\ leaf'["dest"] = leaf["backup"] /\ leaf'["backup"] = None /\ intent' = intent /\ pending' = pending
        /\ intent # NoIntent /\ OldIsAside /\ pending = {}
    BY <1>1, <1>9 DEF recoverAside, TypeOK, Leaf, Move
  <2>2. \A o \in Nat \ {None} : Elsewhere(o) => Elsewhere(o)'
    BY <2>1 DEF Elsewhere
  <2>3. Frame(p) /\ CallInv(p)' /\ pc'[p] \in Exclusive
    BY <1>4, <1>9, <2>2 DEF recoverAside, Exclusive
  <2>4. NamesInv'
    BY <1>1, <2>1 DEF IndInv, NamesInv, OldStands, OldIsAside, NewStands, Missing
  <2>5. Hidden(intent.new)
    BY <2>1 DEF IndInv, HiddenInv
  <2>6. pending' \subseteq {n \in Leaf : leaf'[n] # None}
    BY <1>1, <2>1 DEF IndInv, NamesInv, TypeOK, Leaf, Missing, OldIsAside, NewStands
  <2> QED BY <1>1, <2>1, <2>2, <2>3, <2>4, <2>5, <2>6, ExclusiveStep DEF Exclusive, TypeOK
<1> QED BY <1>1, <1>2, <1>3, <1>6, <1>7, <1>8, <1>9
        DEF recoverStateNamespace, recoverOld, recoverNew, OldStands, NewStands, Missing

(* A read has not seen anything yet.                                        *)
LEMMA BeginReadIndInv == ASSUME IndInv, NEW p \in Process, BeginRead(p) PROVE IndInv'
<1> USE ParameterAssumption
       DEF IndInv, Object, None, NoIntent, BeginRead, At, Goto, Job, NoJob, files, Caller
<1>1. TypeOK'
  BY DEF TypeOK, Location, Exclusive
<1>2. GuardInv'
  BY DEF GuardInv, TypeOK, Exclusive
<1>3. WrittenInv'
  BY DEF WrittenInv, TypeOK, Leaf
<1>4. NamesInv'
  BY DEF NamesInv, OldStands, OldIsAside, NewStands, Missing, TypeOK
<1>5. ASSUME NEW q \in Process PROVE CallInv(q)'
  BY
     DEF CallInv, WrittenInv, TypeOK, Leaf, Uncommitted, Elsewhere, Replacing, OldStands,
         OldIsAside, NewStands, Missing
<1>6. HiddenInv'
  BY
     DEF HiddenInv, Hidden, Unpublished, TypeOK, WrittenInv, CallInv, Uncommitted, OldStands,
         OldIsAside, NewStands, Missing
<1> QED BY <1>1, <1>2, <1>3, <1>4, <1>5, <1>6

(* The object of a write is new.                                            *)
LEMMA BeginWriteIndInv == ASSUME IndInv, NEW p \in Process, BeginWrite(p) PROVE IndInv'
<1> USE ParameterAssumption
       DEF IndInv, Object, None, NoIntent, BeginWrite, At, Goto, Job, NoJob, files
<1>1. TypeOK'
  BY DEF TypeOK, Location, Exclusive
<1>2. GuardInv'
  BY DEF GuardInv, TypeOK, Exclusive
<1>3. WrittenInv'
  BY DEF WrittenInv, TypeOK, Leaf
<1>4. NamesInv'
  BY DEF NamesInv, OldStands, OldIsAside, NewStands, Missing, TypeOK
<1>5. ASSUME NEW q \in Process PROVE CallInv(q)'
  BY
     DEF CallInv, WrittenInv, TypeOK, Leaf, Uncommitted, Elsewhere, Replacing, OldStands,
         OldIsAside, NewStands, Missing
<1>6. HiddenInv'
  BY
     DEF HiddenInv, Hidden, Unpublished, TypeOK, WrittenInv, CallInv, Uncommitted, OldStands,
         OldIsAside, NewStands, Missing
<1> QED BY <1>1, <1>2, <1>3, <1>4, <1>5, <1>6

(* The object of a remove is one its process has read.                      *)
LEMMA BeginRemoveIndInv == ASSUME IndInv, NEW p \in Process, BeginRemove(p) PROVE IndInv'
<1> USE ParameterAssumption
       DEF IndInv, Object, None, NoIntent, BeginRemove, At, Goto, Job, NoJob, files, Caller
<1>1. TypeOK'
  BY DEF TypeOK, Location, Exclusive
<1>2. GuardInv'
  BY DEF GuardInv, TypeOK, Exclusive
<1>3. WrittenInv'
  BY DEF WrittenInv, TypeOK, Leaf
<1>4. NamesInv'
  BY DEF NamesInv, OldStands, OldIsAside, NewStands, Missing, TypeOK
<1>5. ASSUME NEW q \in Process PROVE CallInv(q)'
  BY
     DEF CallInv, WrittenInv, TypeOK, Leaf, Uncommitted, Elsewhere, Replacing, OldStands,
         OldIsAside, NewStands, Missing
<1>6. HiddenInv'
  BY
     DEF HiddenInv, Hidden, Unpublished, TypeOK, WrittenInv, CallInv, Uncommitted, OldStands,
         OldIsAside, NewStands, Missing
<1> QED BY <1>1, <1>2, <1>3, <1>4, <1>5, <1>6

(* A call that does not get the guard has changed nothing.                  *)
LEMMA GuardFailsIndInv == ASSUME IndInv, NEW p \in Process, GuardFails(p) PROVE IndInv'
<1> USE ParameterAssumption DEF IndInv, Object, None, NoIntent, GuardFails, Goto, Job, NoJob, Ended
<1>1. TypeOK'
  BY DEF TypeOK, Location, Exclusive
<1>2. GuardInv'
  BY DEF GuardInv, TypeOK, Exclusive
<1>3. WrittenInv'
  BY DEF WrittenInv, TypeOK, Leaf
<1>4. NamesInv'
  BY DEF NamesInv, OldStands, OldIsAside, NewStands, Missing, TypeOK
<1>5. ASSUME NEW q \in Process PROVE CallInv(q)'
  BY
     DEF CallInv, WrittenInv, TypeOK, Leaf, Uncommitted, Elsewhere, Replacing, OldStands,
         OldIsAside, NewStands, Missing
<1>6. HiddenInv'
  BY
     DEF HiddenInv, Hidden, Unpublished, TypeOK, WrittenInv, CallInv, Uncommitted, OldStands,
         OldIsAside, NewStands, Missing
<1> QED BY <1>1, <1>2, <1>3, <1>4, <1>5, <1>6

(* Reads share the guard with reads only.                                   *)
LEMMA GrantSharedIndInv == ASSUME IndInv, NEW p \in Process, GrantShared(p) PROVE IndInv'
<1> USE ParameterAssumption DEF IndInv, Object, None, NoIntent, GrantShared, At, Goto, files, Caller
<1>1. TypeOK'
  BY DEF TypeOK, Location, Exclusive
<1>2. GuardInv'
  BY DEF GuardInv, TypeOK, Exclusive
<1>3. WrittenInv'
  BY DEF WrittenInv, TypeOK, Leaf
<1>4. NamesInv'
  BY DEF NamesInv, OldStands, OldIsAside, NewStands, Missing, TypeOK
<1>5. ASSUME NEW q \in Process PROVE CallInv(q)'
  BY
     DEF CallInv, WrittenInv, TypeOK, Leaf, Uncommitted, Elsewhere, Replacing, OldStands,
         OldIsAside, NewStands, Missing
<1>6. HiddenInv'
  BY
     DEF HiddenInv, Hidden, Unpublished, TypeOK, WrittenInv, CallInv, Uncommitted, OldStands,
         OldIsAside, NewStands, Missing
<1> QED BY <1>1, <1>2, <1>3, <1>4, <1>5, <1>6

(* A write or remove has the guard alone.                                   *)
LEMMA GrantExclusiveIndInv == ASSUME IndInv, NEW p \in Process, GrantExclusive(p) PROVE IndInv'
<1> USE ParameterAssumption
       DEF IndInv, Object, None, NoIntent, GrantExclusive, At, Goto, files, Caller
<1>1. TypeOK'
  BY DEF TypeOK, Location, Exclusive
<1>2. GuardInv'
  BY DEF GuardInv, TypeOK, Exclusive
<1>3. WrittenInv'
  BY DEF WrittenInv, TypeOK, Leaf
<1>4. NamesInv'
  BY DEF NamesInv, OldStands, OldIsAside, NewStands, Missing, TypeOK
<1>5. ASSUME NEW q \in Process PROVE CallInv(q)'
  BY
     DEF CallInv, WrittenInv, TypeOK, Leaf, Uncommitted, Elsewhere, Replacing, OldStands,
         OldIsAside, NewStands, Missing
<1>6. HiddenInv'
  BY
     DEF HiddenInv, Hidden, Unpublished, TypeOK, WrittenInv, CallInv, Uncommitted, OldStands,
         OldIsAside, NewStands, Missing
<1> QED BY <1>1, <1>2, <1>3, <1>4, <1>5, <1>6

(* Nothing changes but who is calling: the call of p ends.                 *)
EndFrame(p, v) ==
  /\ pc' = [pc EXCEPT ![p] = "idle"] /\ job' = [job EXCEPT ![p] = NoJob]
  /\ report' \in [Process -> {"none", "applied", "unapplied", "unsure", "value"}]
  /\ seen' = [seen EXCEPT ![p] = v]
  /\ intent' = intent /\ written' = written

(* The end of a call, in order or by the death of its process, preserves the*)
(* invariant: it may take away names whose deletion is pending, and temp    *)
(* before an intent names it.                                               *)
LEMMA EndStep ==
  ASSUME IndInv, NEW p \in Process, NEW v, EndFrame(p, v),
         v \in {None, seen[p]} \/ (job[p].op = "read" /\ v = job[p].object),
         leaf' \in [Leaf -> Object \cup {None}],
         pending' \subseteq {n \in Leaf : leaf'[n] # None},
         pending' \subseteq pending,
         \A n \in Leaf : leaf'[n] = leaf[n] \/ (leaf'[n] = None /\ (n \in pending \/ pc[p] = "publish")),
         NamesInv'
  PROVE  IndInv'
<1> USE DEF IndInv
<1>1. TypeOK'
  BY ParameterAssumption DEF TypeOK, EndFrame, NoJob, Job, Location, Object, None
<1>2. GuardInv'
  BY DEF GuardInv, EndFrame, TypeOK, Exclusive
<1>3. WrittenInv'
  BY ParameterAssumption DEF WrittenInv, EndFrame, TypeOK, NoJob, Job, Object, None
<1>4. ASSUME NEW q \in Process PROVE CallInv(q)'
  <2>1. CASE q = p
    BY <2>1 DEF CallInv, EndFrame, TypeOK, NoJob, Job
  <2>2. CASE q # p
    <3>1. pc'[q] = pc[q] /\ job'[q] = job[q] /\ CallInv(q)
      BY <2>2 DEF EndFrame, TypeOK
    <3>2. CASE pc[q] \in Exclusive
      <4>1. \A n \in Leaf : leaf'[n] = leaf[n] \/ (leaf'[n] = None /\ n \in pending)
        BY <2>2, <3>2, GuardInv DEF GuardInv, Exclusive
      <4>2. intent # NoIntent /\ (~NewStands \/ Missing("backup")) => leaf' = leaf
        BY <4>1 DEF NamesInv, TypeOK, Leaf, Missing
      <4>3. CASE pc[q] \in {"recover", "create", "publish", "unlink", "leave"}
        <5>1. leaf'["temp"] = leaf["temp"] /\ leaf'["dest"] \in {leaf["dest"], None}
              /\ leaf'["backup"] \in {leaf["backup"], None}
          BY <4>1 DEF NamesInv, Leaf
        <5>2. job[q].op = "write" /\ ~job[q].effect => job[q].object \in Nat \ {None}
          BY ParameterAssumption DEF HiddenInv, Unpublished, TypeOK, Object, None
        <5> QED BY <3>1, <4>3, <5>1, <5>2 DEF CallInv, EndFrame, Uncommitted, Elsewhere
      <4>4. CASE pc[q] \in {"back", "commit", "rollback", "undoTemp", "undoIntent"}
        <5>1. leaf' = leaf /\ (pending = {} => pending' = {})
          BY <3>1, <4>2, <4>4, ParameterAssumption
             DEF CallInv, Replacing, NamesInv, OldStands, OldIsAside, NewStands, Missing,
                 TypeOK, Object, None
        <5> QED BY <3>1, <4>4, <5>1
                   DEF CallInv, EndFrame, Uncommitted, Replacing, OldStands, OldIsAside, Missing
      <4>5. CASE pc[q] \in {"dropBackup", "dropIntent"}
        <5>1. leaf' = leaf /\ (pending = {} => pending' = {})
          BY <3>1, <4>1, <4>2, <4>5 DEF CallInv, TypeOK, Leaf
        <5> QED BY <3>1, <4>5, <5>1 DEF CallInv, EndFrame, NewStands, Missing
      <4> QED BY <3>2, <4>3, <4>4, <4>5 DEF Exclusive
    <3>3. CASE pc[q] \in {"idle", "share", "guard", "value", "open"}
      <4>1. \A o \in Nat \ {None} : Elsewhere(o) => Elsewhere(o)'
        BY DEF Elsewhere, Leaf, EndFrame
      <4>2. job[q].op = "write" /\ pc[q] = "guard" => job[q].object \in Nat \ {None}
        BY <3>1, ParameterAssumption
           DEF CallInv, HiddenInv, Unpublished, Uncommitted, TypeOK, Object, None
      <4> QED BY <3>1, <3>3, <4>1, <4>2 DEF CallInv, Uncommitted
    <3> QED BY <3>2, <3>3 DEF TypeOK, Location
  <2> QED BY <2>1, <2>2
<1>5. HiddenInv'
  <2>1. \A q \in Process : /\ job'[q] \in {job[q], NoJob}
                           /\ seen'[q] \in {None, seen[q]} \/ (job[q].op = "read" /\ seen'[q] = job[q].object)
    <3>1. \A q \in Process : job'[q] \in {job[q], NoJob}
      BY DEF EndFrame, TypeOK
    <3>2. seen'[p] = v /\ \A q \in Process \ {p} : seen'[q] = seen[q]
      BY DEF EndFrame, TypeOK
    <3>3. seen'[p] \in {None, seen[p]} \/ (job[p].op = "read" /\ seen'[p] = job[p].object)
      BY <3>2
    <3>4. \A q \in Process : seen'[q] \in {None, seen[q]} \/ (job[q].op = "read" /\ seen'[q] = job[q].object)
      BY <3>2, <3>3
    <3> QED BY <3>1, <3>4
  <2>2. \A o \in Object : Hidden(o) => Hidden(o)'
    BY <2>1, ParameterAssumption DEF Hidden, NoJob, Job, Object, None
  <2>3. \A q \in Process : Unpublished(q)' => job'[q] = job[q] /\ Unpublished(q)
    BY <2>1 DEF Unpublished, NoJob, Job
  <2>4. (intent # NoIntent /\ (OldStands \/ OldIsAside))' => intent.new \in Object /\ Hidden(intent.new)
    BY ParameterAssumption
       DEF NamesInv, HiddenInv, OldStands, OldIsAside, NewStands, Missing, EndFrame, TypeOK,
           Leaf, Object, None
  <2>5. \A q \in Process : Unpublished(q) => job[q].object \in Object /\ Hidden(job[q].object)
    BY DEF HiddenInv, Unpublished, TypeOK
  <2> QED BY <2>2, <2>3, <2>4, <2>5 DEF HiddenInv, EndFrame
<1> QED BY <1>1, <1>2, <1>3, <1>4, <1>5

(* Closing the last handle takes only a name whose deletion is pending.    *)
LEMMA ClosedHandle ==
  ASSUME IndInv, NEW p \in Process, CloseHandle(p), intent' = intent
  PROVE  /\ leaf' \in [Leaf -> Object \cup {None}]
         /\ pending' \subseteq {n \in Leaf : leaf'[n] # None}
         /\ pending' \subseteq pending
         /\ \A n \in Leaf : leaf'[n] = leaf[n] \/ (leaf'[n] = None /\ n \in pending)
         /\ pc[p] # "value" => leaf' = leaf /\ pending' = pending
<1>1. TypeOK
  BY DEF IndInv
<1>2. pending' \subseteq pending /\ leaf' \in [Leaf -> Object \cup {None}]
  BY <1>1 DEF TypeOK, CloseHandle
<1>3. \A n \in Leaf : leaf'[n] = leaf[n] \/ (leaf'[n] = None /\ n \in pending)
  <2> SUFFICES ASSUME NEW n \in Leaf PROVE leaf'[n] = leaf[n] \/ (leaf'[n] = None /\ n \in pending)
    OBVIOUS
  <2> DEFINE last == \A q \in Process \ {p} : ~(pc[q] = "value" /\ job[q].object = job[p].object)
             gone == {m \in pending : At(p, "value") /\ last /\ leaf[m] = job[p].object}
  <2>1. leaf' = [m \in Leaf |-> IF m \in gone THEN None ELSE leaf[m]]
    BY DEF CloseHandle
  <2>2. n \in gone => n \in pending
    OBVIOUS
  <2>3. leaf'[n] = IF n \in gone THEN None ELSE leaf[n]
    BY <2>1
  <2> QED BY <2>2, <2>3
<1>4. pending' \subseteq {n \in Leaf : leaf'[n] # None}
  BY <1>1 DEF TypeOK, CloseHandle
<1>5. pc[p] # "value" => leaf' = leaf /\ pending' = pending
  BY <1>1 DEF TypeOK, CloseHandle, At
<1> QED BY <1>2, <1>3, <1>4, <1>5

(* What closing a handle takes away does not change what the names say.     *)
LEMMA ClosedHandleNames ==
  ASSUME IndInv, NEW p \in Process, CloseHandle(p), intent' = intent,
         \A q \in Process \ {p} : pc'[q] = pc[q], pc[p] # "publish"
  PROVE  NamesInv'
<1>1. \A n \in Leaf : leaf'[n] = leaf[n] \/ (leaf'[n] = None /\ n \in pending)
  BY ClosedHandle
<1> QED BY <1>1, ClosedHandle DEF IndInv, NamesInv, OldStands, OldIsAside, NewStands, Missing, Leaf

(* A reader never opens the object of a write that has not committed.      *)
LEMMA OpenedIndInv ==
  ASSUME IndInv, NEW p \in Process, pc[p] = "open", job[p].op = "read",
         NEW o \in Object \cup {None}, selectStateAuthority(o),
         job' = [job EXCEPT ![p].object = o, ![p].effect = TRUE],
         Goto(p, "value"), UNCHANGED <<files, Caller>>
  PROVE  IndInv'
<1>1. /\ TypeOK /\ job \in [Process -> JobType] /\ leaf' = leaf /\ pending' = pending /\ intent' = intent
      /\ seen' = seen /\ report' = report /\ written' = written
  BY DEF IndInv, TypeOK, JobType, files, Caller
<1>2. job' \in [Process -> JobType]
  BY <1>1 DEF JobType
<1>3. /\ job'[p].op = "read" /\ job'[p].object = o /\ job'[p].effect
      /\ pc'[p] = "value" /\ \A q \in Process \ {p} : job'[q] = job[q] /\ pc'[q] = pc[q]
  BY <1>1 DEF JobType, Goto, TypeOK
<1>4. o \in {leaf["dest"], intent.old, intent.new} /\ o <= written
  BY <1>1 DEF selectStateAuthority, IndInv, WrittenInv, Leaf
<1>5. \A q \in Process : pc[q] \notin Exclusive
  BY DEF IndInv, GuardInv, Exclusive
<1>6. \A q \in Process : Unpublished(q) => job[q].object # o
  <2>1. ASSUME NEW q \in Process, Unpublished(q) PROVE Elsewhere(job[q].object)
    <3>1. CallInv(q)
      BY DEF IndInv
    <3> QED BY <1>1, <1>5, <2>1, <3>1 DEF CallInv, Unpublished, TypeOK, Location, NoJob, Job
  <2> QED BY <1>4, <2>1 DEF Elsewhere
<1>7. intent # NoIntent /\ (OldStands \/ OldIsAside) => o # intent.new
  BY <1>1, ParameterAssumption
     DEF IndInv, NamesInv, selectStateAuthority, OldStands, OldIsAside, NewStands, Missing,
         TypeOK, Object, None
<1>8. TypeOK'
  BY <1>1, <1>2 DEF TypeOK, JobType, Goto, Location
<1>9. GuardInv' /\ WrittenInv' /\ NamesInv'
  BY <1>1, <1>3, <1>4, <1>5
     DEF IndInv, GuardInv, WrittenInv, NamesInv, OldStands, OldIsAside, NewStands, Missing,
         Exclusive
<1>10. ASSUME NEW q \in Process PROVE CallInv(q)'
  <2>1. CASE q = p
    BY <1>1, <1>3, <2>1 DEF CallInv, Exclusive
  <2>2. CASE q # p
    BY <1>1, <1>3, <2>2
       DEF IndInv, CallInv, Uncommitted, Replacing, Elsewhere, OldStands, OldIsAside, NewStands,
           Missing
  <2> QED BY <2>1, <2>2
<1>11. HiddenInv'
  BY <1>1, <1>3, <1>6, <1>7
     DEF IndInv, HiddenInv, Hidden, Unpublished, OldStands, OldIsAside, Missing
<1> QED BY <1>8, <1>9, <1>10, <1>11 DEF IndInv

(* A read that opens or closes its payload, and the ends of calls.          *)
LEMMA EndsIndInv ==
  ASSUME IndInv, NEW p \in Process, OpenPayload(p) \/ ReadPayload(p) \/ Leave(p) \/ Die(p)
  PROVE  IndInv'
<1>0. TypeOK /\ CallInv(p) /\ NamesInv /\ seen = [seen EXCEPT ![p] = seen[p]]
  BY DEF IndInv, TypeOK
<1>1. ASSUME NEW r \in {"none", "applied", "unapplied", "unsure", "value"}, Ended(p, r),
             leaf' = leaf, pending' = pending, seen' = seen, pc[p] # "publish"
      PROVE  IndInv'
  <2>1. EndFrame(p, seen[p])
    BY <1>0, <1>1 DEF Ended, Goto, EndFrame, TypeOK
  <2>2. NamesInv'
    BY <1>0, <1>1, <2>1 DEF EndFrame, TypeOK, NamesInv, OldStands, OldIsAside, NewStands, Missing
  <2> QED BY <1>0, <1>1, <2>1, <2>2, EndStep DEF TypeOK
<1>2. ASSUME NEW r \in {"none", "unapplied", "value"}, Ended(p, r), CloseHandle(p), pc[p] # "publish",
             NEW v, seen' = [seen EXCEPT ![p] = v],
             v \in {None, seen[p]} \/ (job[p].op = "read" /\ v = job[p].object)
      PROVE  IndInv'
  <2>1. EndFrame(p, v) /\ \A q \in Process \ {p} : pc'[q] = pc[q]
    BY <1>0, <1>2 DEF Ended, Goto, EndFrame, TypeOK
  <2>2. NamesInv'
    BY <1>2, <2>1, ClosedHandleNames DEF EndFrame
  <2> QED BY <1>2, <2>1, <2>2, ClosedHandle, EndStep DEF EndFrame
<1>3. CASE ReadPayload(p)
  <2>1. CallInv(p) /\ pc[p] = "value" /\ job[p].op = "read"
    BY <1>0, <1>3 DEF ReadPayload, At, CallInv
  <2>2. CASE Ended(p, "value") /\ seen' = [seen EXCEPT ![p] = job[p].object]
    BY <1>2, <1>3, <2>1, <2>2 DEF ReadPayload
  <2>3. CASE Ended(p, "unapplied") /\ UNCHANGED seen
    BY <1>0, <1>2, <1>3, <2>1, <2>3 DEF ReadPayload
  <2> QED BY <1>3, <2>2, <2>3 DEF ReadPayload
<1>4. CASE Leave(p)
  BY <1>1, <1>4 DEF Leave, At
<1>5. CASE Die(p)
  <2>1. CASE pc[p] # "publish"
    BY <1>2, <1>5, <2>1 DEF Die, At
  <2>2. CASE pc[p] = "publish"
    <3>1. EndFrame(p, None)
      BY <1>0, <1>5, <2>2 DEF Die, At, Ended, Goto, EndFrame, TypeOK
    <3>2. /\ leaf' \in [Leaf -> Object \cup {None}] /\ leaf'["temp"] = None /\ pending' = pending
          /\ leaf'["dest"] = leaf["dest"] /\ leaf'["backup"] = leaf["backup"]
      BY <1>0, <1>5, <2>2 DEF Die, At, Drop, TypeOK, Leaf
    <3>3. NamesInv' /\ pending' \subseteq {n \in Leaf : leaf'[n] # None}
      BY <1>0, <2>2, <3>1, <3>2 DEF NamesInv, CallInv, EndFrame, Missing, TypeOK, Leaf
    <3> QED BY <2>2, <3>1, <3>2, <3>3, EndStep DEF Leaf
  <2> QED BY <2>1, <2>2
<1>6. CASE OpenPayload(p)
  <2>1. pc[p] = "open" /\ job[p].op = "read"
    BY <1>0, <1>6 DEF OpenPayload, At, CallInv
  <2>2. CASE Ended(p, "unapplied") /\ UNCHANGED <<leaf, pending, seen>>
    BY <1>1, <2>1, <2>2
  <2>3. ASSUME NEW o \in Object \cup {None}, selectStateAuthority(o),
               job' = [job EXCEPT ![p].object = o, ![p].effect = TRUE],
               Goto(p, "value"), UNCHANGED <<files, Caller>>
        PROVE  IndInv'
    BY <2>1, <2>3, OpenedIndInv
  <2> QED BY <1>6, <2>2, <2>3 DEF OpenPayload
<1> QED BY <1>3, <1>4, <1>5, <1>6

(* Nothing changes when nothing is done.                                    *)
LEMMA StutterIndInv == IndInv /\ UNCHANGED vars => IndInv'
BY
   DEF vars, IndInv, TypeOK, GuardInv, WrittenInv, NamesInv, CallInv, HiddenInv, Hidden,
       Unpublished,
       Uncommitted, Replacing, Elsewhere, OldStands, OldIsAside, NewStands, Missing

(* IndInv holds in every reachable state: StateFiles serialises writers by  *)
(* the guard, and a writer leaves at every step of publishStateLocked, of   *)
(* its rollback and of its clean-up names that recoverStateNamespace knows. *)
THEOREM StateFilesInvariant == Spec => []IndInv
<1>1. ASSUME IndInv, [Next]_vars PROVE IndInv'
  <2>1. CASE UNCHANGED vars
    BY <1>1, <2>1, StutterIndInv
  <2>2. ASSUME NEW p \in Process, Step(p) PROVE IndInv'
    BY <1>1, <2>2, GuardFailsIndInv, GrantSharedIndInv, GrantExclusiveIndInv, EndsIndInv,
       recoverIndInv,
       createTempIndInv, publishIndInv, renameBackIndInv, renameCommitIndInv, rollbackStateIndInv,
       undoTempIndInv, undoIntentIndInv, dropBackupIndInv, dropIntentIndInv, removeStateLockedIndInv
       DEF Step
  <2>3. ASSUME NEW p \in Process, BeginRead(p) \/ BeginWrite(p) \/ BeginRemove(p) \/ Die(p) PROVE IndInv'
    BY <1>1, <2>3, BeginReadIndInv, BeginWriteIndInv, BeginRemoveIndInv, EndsIndInv
  <2> QED BY <1>1, <2>1, <2>2, <2>3 DEF Next
<1> QED BY InitIndInv, <1>1, PTL DEF Spec

(* Whatever call fails or process dies at whatever step, the names it leaves*)
(* are in one of the three states that recoverStateNamespace can finish or  *)
(* undo: its default, which refuses the file for good, is never reached.    *)
THEOREM EveryRestIsClassified == Spec => []EveryRestIsRecoverable
<1>1. IndInv => EveryRestIsRecoverable
  BY DEF IndInv, NamesInv, EveryRestIsRecoverable
<1> QED BY <1>1, StateFilesInvariant, PTL

-----------------------------------------------------------------------------
(* The object the file is, read off the names and the intent.              *)
ContentValue ==
  IF intent = NoIntent
  THEN IF "dest" \in pending THEN None ELSE leaf["dest"]
  ELSE IF NewStands THEN intent.new ELSE intent.old

(* Under the invariant selectStateAuthority finds exactly one object.       *)
LEMMA ContentIs == IndInv => Content = ContentValue
<1> SUFFICES ASSUME IndInv PROVE Content = ContentValue
  OBVIOUS
<1> DEFINE Says(o) == IF "dest" \in pending /\ intent = NoIntent THEN o = None ELSE selectStateAuthority(o)
<1>1. ContentValue \in Object \cup {None} /\ Says(ContentValue)
  BY DEF IndInv, NamesInv, TypeOK, ContentValue, selectStateAuthority, Leaf
<1>2. \A o \in Object \cup {None} : Says(o) => o = ContentValue
  BY ParameterAssumption
     DEF IndInv, NamesInv, TypeOK, ContentValue, selectStateAuthority, OldStands, OldIsAside,
         NewStands, Missing, Object, None
<1> QED BY <1>1, <1>2 DEF Content

(* The same of the next state.                                              *)
LEMMA NextContentIs == IndInv' => Content' = ContentValue'
<1>1. (IndInv => Content = ContentValue)'
  BY ContentIs, PTL
<1> QED BY <1>1

(* The call that module Register sees.                                     *)
CallOf(p) == [op |-> job[p].op, object |-> job[p].object, effect |-> job[p].effect]
Calls == [p \in Process |-> CallOf(p)]

(* The file starts as an empty register.                                    *)
LEMMA RegisterInit == Init => Abstract!Init
<1> SUFFICES ASSUME Init PROVE Abstract!Init
  OBVIOUS
<1>1. Content = None
  BY InitIndInv, ContentIs DEF Init, ContentValue, Leaf
<1>2. Calls = [p \in Process |-> Abstract!Idle]
  BY DEF Init, Calls, CallOf, NoJob, Job, Abstract!Idle
<1> QED BY <1>1, <1>2 DEF Init, Abstract!Init, Calls, CallOf

RVars == <<Content, Calls, report>>

(* A step that keeps the content and the calls is none of the register's.  *)
LEMMA RegisterStutter ==
  ASSUME IndInv, IndInv', ContentValue' = ContentValue,
         \A q \in Process : CallOf(q)' = CallOf(q), report' = report
  PROVE  UNCHANGED Abstract!vars
<1>1. Content' = Content
  BY ContentIs, NextContentIs
<1>2. Calls' = Calls
  BY DEF Calls
<1> QED BY <1>1, <1>2 DEF Abstract!vars, Calls, CallOf

CallType == [op : {"idle", "read", "write", "remove"}, object : Object \cup {None}, effect : BOOLEAN]

(* The calls of module Register are typed.                                  *)
LEMMA CallsType == TypeOK => Calls \in [Process -> CallType]
BY DEF TypeOK, Calls, CallOf, CallType

(* A change to one job is a change to one call of the register.             *)
LEMMA CallsUpdate ==
  ASSUME TypeOK, NEW p \in Process, \A q \in Process \ {p} : job'[q] = job[q]
  PROVE  Calls' = [Calls EXCEPT ![p] = CallOf(p)']
BY DEF TypeOK, Calls, CallOf

(* A call that ends tells the truth and leaves the content alone.           *)
LEMMA RegisterReturn ==
  ASSUME IndInv, IndInv', NEW p \in Process, NEW r \in {"applied", "unapplied", "unsure", "value"},
         job[p].op # "idle", Ended(p, r), ContentValue' = ContentValue,
         r = "applied" => job[p].op \in {"write", "remove"} /\ job[p].effect,
         r = "unapplied" => job[p].op = "read" \/ ~job[p].effect,
         r = "unsure" => (job[p].op = "write" => ~job[p].effect),
         r = "value" => job[p].op = "read" /\ job[p].effect
  PROVE  Abstract!Next
<1>1. Content' = Content
  BY ContentIs, NextContentIs
<1>2. TypeOK /\ CallOf(p)' = Abstract!Idle
  BY DEF IndInv, TypeOK, Ended, NoJob, Job, CallOf, Abstract!Idle
<1>3. Calls' = [Calls EXCEPT ![p] = Abstract!Idle]
  BY <1>2, CallsUpdate DEF Ended, TypeOK
<1>4. Calls[p] = CallOf(p)
  BY DEF Calls
<1>5. Calls[p].op # "idle" /\ report' = [report EXCEPT ![p] = r]
  BY <1>4 DEF CallOf, Ended
<1>6. CASE r = "applied"
  BY <1>1, <1>3, <1>4, <1>5, <1>6 DEF Abstract!Next, Abstract!Return, Abstract!True, Calls, CallOf
<1>7. CASE r = "unapplied"
  BY <1>1, <1>3, <1>4, <1>5, <1>7 DEF Abstract!Next, Abstract!Return, Abstract!True, Calls, CallOf
<1>8. CASE r = "unsure"
  BY <1>1, <1>3, <1>4, <1>5, <1>8 DEF Abstract!Next, Abstract!Return, Abstract!True, Calls, CallOf
<1>9. CASE r = "value"
  BY <1>1, <1>3, <1>4, <1>5, <1>9 DEF Abstract!Next, Abstract!Return, Abstract!True, Calls, CallOf
<1> QED BY <1>6, <1>7, <1>8, <1>9

(* A call begins without an effect.                                         *)
LEMMA RegisterCall ==
  ASSUME IndInv, IndInv', NEW p \in Process, BeginRead(p) \/ BeginWrite(p) \/ BeginRemove(p)
  PROVE  Abstract!Next
<1>1. ContentValue' = ContentValue /\ report' = report
  BY DEF BeginRead, BeginWrite, BeginRemove, files, Caller, ContentValue, NewStands, Missing
<1>2. Content' = Content
  BY <1>1, ContentIs, NextContentIs
<1>3. TypeOK /\ job[p] = NoJob
  BY DEF IndInv, CallInv, BeginRead, BeginWrite, BeginRemove, At
<1>4. PICK op \in {"read", "write", "remove"}, o \in Object \cup {None} : job' = [job EXCEPT ![p] = Job(op, o)]
  <2>1. CASE BeginRead(p)
    BY <2>1 DEF BeginRead
  <2>2. CASE BeginWrite(p)
    <3>1. written + 1 \in Object
      BY <1>3, <2>2, ParameterAssumption DEF BeginWrite, TypeOK, Object
    <3> QED BY <2>2, <3>1 DEF BeginWrite
  <2>3. CASE BeginRemove(p)
    BY <1>3, <2>3 DEF BeginRemove, TypeOK
  <2> QED BY <2>1, <2>2, <2>3
<1>5. Calls[p] = Abstract!Idle
  <2>1. job[p].op = "idle" /\ job[p].object = None /\ job[p].effect = FALSE
    BY <1>3 DEF NoJob, Job
  <2> QED BY <2>1 DEF Calls, CallOf, Abstract!Idle
<1>6. Calls' = [Calls EXCEPT ![p] = [op |-> op, object |-> o, effect |-> FALSE]]
  <2>1. CallOf(p)' = [op |-> op, object |-> o, effect |-> FALSE]
    BY <1>3, <1>4 DEF CallOf, Job, TypeOK
  <2> QED BY <1>3, <1>4, <2>1, CallsUpdate DEF TypeOK
<1> QED BY <1>1, <1>2, <1>5, <1>6 DEF Abstract!Next, Abstract!Call, Calls, CallOf

(* A name that goes with its last handle was no longer the content.         *)
LEMMA ClosedHandleContent ==
  ASSUME IndInv, NEW p \in Process, CloseHandle(p), intent' = intent
  PROVE  ContentValue' = ContentValue
<1>1. \A n \in Leaf : leaf'[n] = leaf[n] \/ (leaf'[n] = None /\ n \in pending)
  BY ClosedHandle
<1>2. "dest" \in pending /\ "dest" \notin pending' => leaf'["dest"] = None
  BY DEF IndInv, TypeOK, CloseHandle, Leaf
<1>3. CASE intent = NoIntent
  BY <1>1, <1>2, <1>3, ClosedHandle DEF ContentValue, Leaf
<1>4. CASE intent # NoIntent
  BY <1>1, <1>4 DEF IndInv, NamesInv, ContentValue, NewStands, Missing, Leaf
<1> QED BY <1>3, <1>4

(* A call that ends in order is a Return of the register.                   *)
LEMMA RegisterEnds ==
  ASSUME IndInv, IndInv', NEW p \in Process, GuardFails(p) \/ ReadPayload(p) \/ Leave(p)
  PROVE  Abstract!Next
<1>1. TypeOK /\ CallInv(p)
  BY DEF IndInv
<1>2. CASE GuardFails(p)
  <2>1. ContentValue' = ContentValue
    BY <1>2 DEF GuardFails, Ended, ContentValue, NewStands, Missing
  <2>2. job[p].op # "idle" /\ ~job[p].effect
    BY <1>1, <1>2 DEF GuardFails, CallInv, Uncommitted
  <2> QED BY <1>2, <2>1, <2>2, RegisterReturn DEF GuardFails
<1>3. CASE ReadPayload(p)
  <2>1. ContentValue' = ContentValue
    BY <1>3, ClosedHandleContent DEF ReadPayload, Ended
  <2>2. job[p].op = "read" /\ job[p].effect
    BY <1>1, <1>3 DEF ReadPayload, At, CallInv
  <2> QED BY <1>3, <2>1, <2>2, RegisterReturn DEF ReadPayload
<1>4. CASE Leave(p)
  <2>1. ContentValue' = ContentValue
    BY <1>4 DEF Leave, Ended, ContentValue, NewStands, Missing
  <2>2. /\ job[p].op \in {"write", "remove"}
        /\ job[p].said => job[p].effect
        /\ job[p].effect /\ ~job[p].said => job[p].op = "remove" /\ job[p].dirty
    BY <1>1, <1>4 DEF Leave, At, CallInv
  <2>3. PICK d \in {job[p].dirty, TRUE} :
          Ended(p, IF job[p].said THEN "applied" ELSE IF d THEN "unsure" ELSE "unapplied")
    BY <1>4 DEF Leave
  <2>4. CASE job[p].said
    BY <2>1, <2>2, <2>3, <2>4, RegisterReturn
  <2>5. CASE ~job[p].said /\ d
    BY <2>1, <2>2, <2>3, <2>5, RegisterReturn
  <2>6. CASE ~job[p].said /\ ~d
    BY <2>1, <2>2, <2>3, <2>6, RegisterReturn
  <2> QED BY <2>4, <2>5, <2>6
<1> QED BY <1>2, <1>3, <1>4

(* The death of a process is a Die of the register.                         *)
LEMMA RegisterDie ==
  ASSUME IndInv, IndInv', NEW p \in Process, Die(p)
  PROVE  Abstract!Next
<1>1. TypeOK /\ CallInv(p)
  BY DEF IndInv
<1>2. ContentValue' = ContentValue
  <2>1. CASE pc[p] # "publish"
    BY <2>1, ClosedHandleContent DEF Die, At, Ended
  <2>2. CASE pc[p] = "publish"
    BY <1>1, <2>2 DEF Die, At, Drop, Ended, CallInv, ContentValue, TypeOK, Leaf
  <2> QED BY <2>1, <2>2
<1>3. Content' = Content
  BY <1>2, ContentIs, NextContentIs
<1>4. Calls' = [Calls EXCEPT ![p] = Abstract!Idle]
  <2>1. CallOf(p)' = Abstract!Idle
    BY <1>1 DEF TypeOK, Die, Ended, NoJob, Job, CallOf, Abstract!Idle
  <2> QED BY <1>1, <2>1, CallsUpdate DEF Die, Ended, TypeOK
<1>5. report' = [report EXCEPT ![p] = "none"]
  BY DEF Die, Ended
<1> QED BY <1>3, <1>4, <1>5 DEF Abstract!Next, Abstract!Die, Calls, CallOf

(* The moment of a read.                                                   *)
LEMMA RegisterObserve ==
  ASSUME IndInv, IndInv', NEW p \in Process, OpenPayload(p)
  PROVE  Abstract!Next
<1>1. TypeOK /\ CallInv(p) /\ pc[p] = "open" /\ job[p].op = "read" /\ ~job[p].effect
  BY DEF IndInv, OpenPayload, At, CallInv, Uncommitted
<1>2. CASE Ended(p, "unapplied") /\ UNCHANGED <<leaf, pending, seen>>
  <2>1. ContentValue' = ContentValue
    BY <1>2 DEF Ended, ContentValue, NewStands, Missing
  <2> QED BY <1>1, <1>2, <2>1, RegisterReturn
<1>3. ASSUME NEW o \in Object \cup {None}, selectStateAuthority(o),
             \A n \in (IF intent = NoIntent THEN {"dest"} ELSE Leaf) : Openable(n),
             job' = [job EXCEPT ![p].object = o, ![p].effect = TRUE],
             UNCHANGED <<files, Caller>>
      PROVE  Abstract!Next
  <2>1. ContentValue' = ContentValue /\ report' = report
    BY <1>3 DEF files, Caller, ContentValue, NewStands, Missing
  <2>2. Content' = Content /\ Content = ContentValue
    BY <2>1, ContentIs, NextContentIs
  <2>3. o = ContentValue
    BY <1>1, <1>3, ParameterAssumption
       DEF IndInv, NamesInv, TypeOK, ContentValue, selectStateAuthority, Openable, OldStands, OldIsAside,
           NewStands, Missing, Object, None
  <2>4. CallOf(p)' = [op |-> job[p].op, object |-> o, effect |-> TRUE]
    <3>1. job \in [Process -> JobType]
      BY <1>1 DEF TypeOK, JobType
    <3>2. job'[p].op = job[p].op /\ job'[p].object = o /\ job'[p].effect = TRUE
      BY <1>3, <3>1 DEF JobType
    <3> QED BY <3>2 DEF CallOf
  <2>5. Calls' = [Calls EXCEPT ![p] = CallOf(p)']
    BY <1>1, <1>3, CallsUpdate DEF TypeOK
  <2>6. Calls' = [Calls EXCEPT ![p].object = Content, ![p].effect = TRUE]
    <3>1. Calls \in [Process -> CallType] /\ Calls[p].op = job[p].op
      BY <1>1, CallsType DEF Calls, CallOf
    <3> QED BY <2>2, <2>3, <2>4, <2>5, <3>1 DEF CallType
  <2>7. Calls[p].op = "read" /\ ~Calls[p].effect
    BY <1>1 DEF Calls, CallOf
  <2> QED BY <2>1, <2>2, <2>6, <2>7
             DEF Abstract!Next, Abstract!Observe, Abstract!Effect, Calls, CallOf
<1> QED BY <1>2, <1>3 DEF OpenPayload

(* The moment of a write or of a remove.                                   *)
LEMMA RegisterEffect ==
  ASSUME IndInv, IndInv', NEW p \in Process, NEW v, report' = report,
         ~job[p].effect, job'[p].effect, job'[p].op = job[p].op, job'[p].object = job[p].object,
         \A q \in Process \ {p} : job'[q] = job[q],
         ContentValue' = v,
         \/ job[p].op = "write" /\ v = job[p].object
         \/ job[p].op = "remove" /\ v = None /\ ContentValue = job[p].object
  PROVE  Abstract!Next
<1>1. Content' = v /\ Content = ContentValue /\ TypeOK
  BY ContentIs, NextContentIs DEF IndInv
<1>2. CallOf(p)' = [op |-> job[p].op, object |-> job[p].object, effect |-> TRUE]
  <2>1. job'[p].effect = TRUE
    BY DEF IndInv, TypeOK
  <2> QED BY <2>1 DEF CallOf
<1>3. Calls' = [Calls EXCEPT ![p] = CallOf(p)']
  BY <1>1, CallsUpdate
<1>4. Calls' = [Calls EXCEPT ![p].effect = TRUE]
  <2>1. Calls \in [Process -> CallType] /\ Calls[p].op = job[p].op /\ Calls[p].object = job[p].object
    BY <1>1, CallsType DEF Calls, CallOf
  <2> QED BY <1>2, <1>3, <2>1 DEF CallType
<1>5. Calls[p].op = job[p].op /\ Calls[p].object = job[p].object /\ ~Calls[p].effect
  BY DEF Calls, CallOf
<1>6. CASE job[p].op = "write" /\ v = job[p].object
  BY <1>1, <1>4, <1>5, <1>6 DEF Abstract!Next, Abstract!Replace, Abstract!Effect, Calls, CallOf
<1>7. CASE job[p].op = "remove" /\ v = None /\ ContentValue = job[p].object
  BY <1>1, <1>4, <1>5, <1>7 DEF Abstract!Next, Abstract!Erase, Abstract!Effect, Calls, CallOf
<1> QED BY <1>6, <1>7

(* A step that keeps the content, and of the job all but its flags, is a    *)
(* stuttering step of the register.                                         *)
LEMMA RegisterKept ==
  ASSUME IndInv, IndInv', NEW p \in Process, report' = report, ContentValue' = ContentValue,
         UNCHANGED job \/ (\E d \in BOOLEAN : Fail(p, d)) \/ job' = [job EXCEPT ![p].dirty = TRUE]
  PROVE  [Abstract!Next]_(Abstract!vars)
<1>1. TypeOK /\ job \in [Process -> JobType]
  BY DEF IndInv, TypeOK, JobType
<1>2. \A q \in Process : CallOf(q)' = CallOf(q)
  <2>1. CASE UNCHANGED job
    BY <2>1 DEF CallOf
  <2>2. ASSUME NEW d \in BOOLEAN, Fail(p, d) PROVE \A q \in Process : CallOf(q)' = CallOf(q)
    BY <1>1, <2>2, FailKeepsCall DEF CallOf
  <2>3. CASE job' = [job EXCEPT ![p].dirty = TRUE]
    BY <1>1, <2>3 DEF CallOf, JobType
  <2> QED BY <2>1, <2>2, <2>3
<1> QED BY <1>2, RegisterStutter

(* Of the steps of a write only the rename that commits is seen.            *)
LEMMA RegisterWrites ==
  ASSUME IndInv, IndInv', NEW p \in Process,
         createTemp(p) \/ publish(p) \/ renameBack(p) \/ renameCommit(p) \/ rollbackState(p)
  PROVE  [Abstract!Next]_(Abstract!vars)
<1>1. TypeOK /\ CallInv(p) /\ NamesInv
  BY DEF IndInv
<1>2. CASE createTemp(p)
  <2>1. ContentValue' = ContentValue
    BY <1>1, <1>2 DEF createTemp, At, CallInv, ContentValue, TypeOK, Leaf
  <2> QED BY <1>2, <2>1, RegisterKept DEF createTemp, Caller
<1>3. CASE publish(p)
  <2>1. pc[p] = "publish" /\ intent = NoIntent /\ leaf["temp"] = job[p].object /\ job[p].op = "write"
        /\ ~job[p].effect /\ report' = report /\ pending' = pending
    BY <1>1, <1>3 DEF publish, At, CallInv, Caller, Uncommitted
  <2>2. CASE Openable("dest") /\ Move("temp", "dest") /\ Commits(p) /\ UNCHANGED intent
    <3>1. ContentValue' = job[p].object
      BY <1>1, <2>1, <2>2 DEF ContentValue, Openable, Move, TypeOK, Leaf
    <3> QED BY <1>1, <2>1, <2>2, <3>1, CommitsKeepsCall, RegisterEffect
  <2>3. CASE /\ Openable("dest") /\ ~Missing("dest")
             /\ intent' = [old |-> leaf["dest"], new |-> leaf["temp"]] /\ UNCHANGED <<leaf, job>>
    <3>1. ContentValue' = ContentValue
      <4>1. intent' # NoIntent /\ intent'.old = leaf["dest"] /\ leaf["dest"] # leaf["temp"]
        BY <1>1, <1>3, <2>1, <2>3 DEF CallInv, Missing, NoIntent
      <4> QED BY <2>1, <2>3, <4>1 DEF ContentValue, NewStands, Openable, Missing
    <3> QED BY <2>1, <2>3, <3>1, RegisterKept
  <2>4. ASSUME NEW d \in BOOLEAN, Fail(p, d), Drop("temp"), UNCHANGED intent
        PROVE  [Abstract!Next]_(Abstract!vars)
    <3>1. ContentValue' = ContentValue
      BY <1>1, <2>1, <2>4 DEF ContentValue, Drop, TypeOK, Leaf
    <3> QED BY <2>1, <2>4, <3>1, RegisterKept
  <2> QED BY <1>3, <2>2, <2>3, <2>4 DEF publish
<1>4. CASE renameBack(p)
  <2>1. ContentValue' = ContentValue
    BY <1>1, <1>4
       DEF renameBack, Move, At, CallInv, Replacing, OldStands, Missing, NamesInv, ContentValue,
           NewStands, TypeOK, Leaf
  <2> QED BY <1>4, <2>1, RegisterKept DEF renameBack, Caller
<1>5. CASE renameCommit(p)
  <2>1. pc[p] = "commit" /\ Replacing(p) /\ OldIsAside /\ job[p].op = "write" /\ ~job[p].effect
        /\ intent # NoIntent /\ leaf["temp"] = job[p].object /\ intent' = intent /\ report' = report
        /\ pending' = pending
    BY <1>1, <1>5 DEF renameCommit, At, CallInv, Replacing, Uncommitted, OldIsAside, Caller
  <2>2. CASE Move("temp", "dest") /\ Commits(p)
    <3>1. ContentValue' = job[p].object
      BY <1>1, <2>1, <2>2
         DEF ContentValue, Move, NewStands, OldIsAside, Missing, Replacing, TypeOK, Leaf
    <3> QED BY <1>1, <2>1, <2>2, <3>1, CommitsKeepsCall, RegisterEffect
  <2>3. CASE UNCHANGED <<leaf, job>>
    <3>1. ContentValue' = ContentValue
      BY <2>1, <2>3 DEF ContentValue, NewStands, Missing
    <3> QED BY <2>1, <2>3, <3>1, RegisterKept
  <2> QED BY <1>5, <2>2, <2>3 DEF renameCommit
<1>6. CASE rollbackState(p)
  <2>1. ContentValue' = ContentValue
    <3>1. /\ Replacing(p) /\ OldIsAside /\ intent' = intent /\ pending' = pending
          /\ intent.old # intent.new /\ intent.new # None
      BY <1>1, <1>6, ParameterAssumption
         DEF rollbackState, At, CallInv, NamesInv, Replacing, TypeOK, Object, None
    <3>2. leaf' = leaf \/ leaf'["dest"] = intent.old
      BY <1>1, <1>6, <3>1 DEF rollbackState, Move, OldIsAside, TypeOK, Leaf
    <3> QED BY <3>1, <3>2 DEF ContentValue, NewStands, OldIsAside, Missing, Replacing
  <2> QED BY <1>6, <2>1, RegisterKept DEF rollbackState, Caller
<1> QED BY <1>2, <1>3, <1>4, <1>5, <1>6

(* Undoing and tidying up, by the writer itself or by the next recovery.   *)
LEMMA TempContent ==
  ASSUME IndInv, intent # NoIntent, OldStands, intent' = intent,
         Unlinked("temp") \/ UnlinkFails("temp")
  PROVE  ContentValue' = ContentValue
<1>1. TypeOK /\ leaf'["dest"] = leaf["dest"]
  BY UnlinkOutcome DEF IndInv, Leaf
<1> QED BY <1>1 DEF IndInv, NamesInv, ContentValue, NewStands, OldStands

(* Unlinking the old object after the commit changes nothing.               *)
LEMMA BackupContent ==
  ASSUME IndInv, intent # NoIntent, NewStands, intent' = intent,
         Unlinked("backup") \/ UnlinkFails("backup")
  PROVE  ContentValue' = ContentValue
<1>1. TypeOK /\ leaf'["dest"] = leaf["dest"] /\ leaf'["temp"] = leaf["temp"]
      /\ leaf'["backup"] \in {leaf["backup"], None}
  BY UnlinkOutcome DEF IndInv, Leaf
<1> QED BY <1>1 DEF ContentValue, NewStands, Missing

(* Unlinking the intent changes nothing once the old object is in its place,*)
(* or the new one is and the old one gone.                                  *)
LEMMA IntentContent ==
  ASSUME IndInv, intent # NoIntent, OldStands \/ NewStands, Missing("backup"), pending' = pending,
         leaf'["dest"] = leaf["dest"], intent' \in {intent, NoIntent},
         intent' = intent => leaf' = leaf
  PROVE  ContentValue' = ContentValue
<1>1. pending = {}
  BY DEF IndInv, NamesInv, TypeOK, Leaf, Missing
<1>2. CASE intent' = intent
  BY <1>2 DEF ContentValue, NewStands, Missing
<1>3. CASE intent' = NoIntent
  BY <1>1, <1>3 DEF IndInv, NamesInv, ContentValue, OldStands, NewStands, Missing
<1> QED BY <1>2, <1>3

(* Undoing, tidying up and recovering are not seen.                         *)
LEMMA RegisterTidies ==
  ASSUME IndInv, IndInv', NEW p \in Process,
         \/ undoTemp(p) \/ undoIntent(p) \/ dropBackup(p) \/ dropIntent(p)
         \/ recoverStateNamespace(p)
  PROVE  [Abstract!Next]_(Abstract!vars)
<1>1. TypeOK /\ CallInv(p) /\ NamesInv
  BY DEF IndInv
<1>2. CASE undoTemp(p)
  <2>1. Replacing(p) /\ OldStands
    BY <1>1, <1>2 DEF undoTemp, At, CallInv
  <2> QED BY <1>2, <2>1, TempContent, RegisterKept DEF undoTemp, Caller, Replacing
<1>3. CASE undoIntent(p)
  <2>1. Replacing(p) /\ OldStands /\ leaf["backup"] = None
    BY <1>1, <1>3 DEF undoIntent, At, CallInv, OldStands, Missing
  <2>2. leaf'["dest"] = leaf["dest"] /\ intent' \in {intent, NoIntent} /\ (intent' = intent => leaf' = leaf)
    BY <1>1, <1>3, <2>1 DEF undoIntent, UnlinkIntent, TypeOK, Leaf, Replacing
  <2>3. ContentValue' = ContentValue
    BY <1>3, <2>1, <2>2, IntentContent DEF undoIntent, Replacing, Missing
  <2> QED BY <1>3, <2>3, RegisterKept DEF undoIntent, UnlinkIntent, Caller
<1>4. CASE dropBackup(p)
  <2>1. intent # NoIntent /\ NewStands
    BY <1>1, <1>4 DEF dropBackup, At, CallInv
  <2> QED BY <1>4, <2>1, BackupContent, RegisterKept DEF dropBackup, UnlinkPayload, Caller
<1>5. CASE dropIntent(p)
  <2>1. intent # NoIntent /\ NewStands /\ Missing("backup")
    BY <1>1, <1>5 DEF dropIntent, At, CallInv
  <2>2. ContentValue' = ContentValue
    BY <1>5, <2>1, IntentContent DEF dropIntent, UnlinkIntent
  <2> QED BY <1>5, <2>2, RegisterKept DEF dropIntent, UnlinkIntent, Caller
<1>6. CASE recoverStateNamespace(p)
  <2>0. report' = report
    BY <1>6 DEF recoverStateNamespace, Caller
  <2>1. CASE recoverOld(p)
    <3>1. CASE Missing("temp") /\ UnlinkIntent(p, "recover") /\ UNCHANGED <<leaf, pending>>
      <4>1. ContentValue' = ContentValue
        BY <2>1, <3>1, IntentContent DEF recoverOld, UnlinkIntent, OldStands
      <4> QED BY <2>0, <3>1, <4>1, RegisterKept DEF UnlinkIntent
    <3>2. CASE UnlinkPayload(p, "temp", "recover") /\ UNCHANGED intent
      BY <2>0, <2>1, <3>2, TempContent, RegisterKept DEF recoverOld, UnlinkPayload
    <3> QED BY <2>1, <3>1, <3>2 DEF recoverOld
  <2>2. CASE recoverNew(p)
    <3>1. CASE Missing("backup") /\ UnlinkIntent(p, "recover") /\ UNCHANGED <<leaf, pending>>
      <4>1. ContentValue' = ContentValue
        BY <2>2, <3>1, IntentContent DEF recoverNew, UnlinkIntent
      <4> QED BY <2>0, <3>1, <4>1, RegisterKept DEF UnlinkIntent
    <3>2. CASE UnlinkPayload(p, "backup", "recover") /\ UNCHANGED intent
      BY <2>0, <2>2, <3>2, BackupContent, RegisterKept DEF recoverNew, UnlinkPayload
    <3> QED BY <2>2, <3>1, <3>2 DEF recoverNew
  <2>3. CASE recoverAside(p)
    <3>1. ContentValue' = ContentValue
      BY <1>1, <2>3, ParameterAssumption
         DEF recoverAside, Move, OldIsAside, Missing, NamesInv, ContentValue, NewStands, TypeOK, Leaf, Object, None, NoIntent
    <3> QED BY <2>0, <2>3, <3>1, RegisterKept DEF recoverAside
  <2>4. CASE UNCHANGED files /\ (UNCHANGED job \/ Fail(p, TRUE))
    <3>1. ContentValue' = ContentValue
      BY <2>4 DEF files, ContentValue, NewStands, Missing
    <3> QED BY <2>0, <2>4, <3>1, RegisterKept
  <2> QED BY <1>6, <2>1, <2>2, <2>3, <2>4 DEF recoverStateNamespace
<1> QED BY <1>2, <1>3, <1>4, <1>5, <1>6

(* A remove is seen at its unlink, and only of the object of its snapshot.  *)
LEMMA RegisterRemoves ==
  ASSUME IndInv, IndInv', NEW p \in Process, removeStateLocked(p)
  PROVE  [Abstract!Next]_(Abstract!vars)
<1>1. /\ TypeOK /\ CallInv(p) /\ intent = NoIntent /\ intent' = intent /\ report' = report
      /\ job[p].op = "remove" /\ ~job[p].effect /\ job[p].object # None
  BY DEF IndInv, CallInv, Uncommitted, removeStateLocked, At, Caller
<1>2. CASE UNCHANGED <<leaf, pending>> /\ (UNCHANGED job \/ \E d \in BOOLEAN : Fail(p, d))
  <2>1. ContentValue' = ContentValue
    BY <1>1, <1>2 DEF ContentValue, NewStands, Missing
  <2> QED BY <1>1, <1>2, <2>1, RegisterKept
<1>3. CASE /\ Unchanged(p)
           /\ Unlinked("dest") \/ UnlinkPending("dest")
           /\ Commits(p) \/ job' = [job EXCEPT ![p].effect = TRUE, ![p].dirty = TRUE]
  <2>1. ContentValue = job[p].object
    BY <1>1, <1>3 DEF ContentValue, Unchanged, Openable
  <2>2. ContentValue' = None
    BY <1>1, <1>3 DEF ContentValue, Unlinked, UnlinkPending, Openable, Drop, TypeOK, Leaf
  <2>3. /\ job'[p].effect /\ job'[p].op = job[p].op /\ job'[p].object = job[p].object
        /\ \A q \in Process \ {p} : job'[q] = job[q]
    <3>1. CASE Commits(p)
      BY <1>1, <3>1, CommitsKeepsCall
    <3>2. CASE job' = [job EXCEPT ![p].effect = TRUE, ![p].dirty = TRUE]
      <4>1. job \in [Process -> JobType]
        BY <1>1 DEF TypeOK, JobType
      <4> QED BY <3>2, <4>1 DEF JobType
    <3> QED BY <1>3, <3>1, <3>2
  <2> QED BY <1>1, <2>1, <2>2, <2>3, RegisterEffect
<1> QED BY <1>2, <1>3 DEF removeStateLocked, UnlinkUnverified

(* StateFiles implements Register: every read, write and remove of any      *)
(* process happens at one moment within the call, recovery and rollback     *)
(* change nothing a reader could see, only the object of the snapshot is    *)
(* removed, and what a call reports of its mutation (MutationApplied,       *)
(* RecoveryRequired) is true.                                               *)
THEOREM StateFilesImplementsRegister == Spec => ImplementsRegister
<1>1. ASSUME IndInv, IndInv', [Next]_vars PROVE [Abstract!Next]_(Abstract!vars)
  <2>1. CASE UNCHANGED vars
    <3>1. ContentValue' = ContentValue /\ report' = report
      BY <2>1 DEF vars, ContentValue, NewStands, Missing
    <3> QED BY <1>1, <2>1, <3>1, RegisterStutter DEF vars, CallOf
  <2>2. ASSUME NEW p \in Process, GrantShared(p) \/ GrantExclusive(p) PROVE [Abstract!Next]_(Abstract!vars)
    <3>1. ContentValue' = ContentValue /\ report' = report /\ UNCHANGED job
      BY <2>2 DEF GrantShared, GrantExclusive, files, Caller, ContentValue, NewStands, Missing
    <3> QED BY <1>1, <3>1, RegisterKept
  <2>3. ASSUME NEW p \in Process, Step(p) PROVE [Abstract!Next]_(Abstract!vars)
    BY <1>1, <2>2, <2>3, RegisterEnds, RegisterObserve, RegisterWrites, RegisterTidies,
       RegisterRemoves
       DEF Step
  <2>4. ASSUME NEW p \in Process, BeginRead(p) \/ BeginWrite(p) \/ BeginRemove(p) \/ Die(p)
        PROVE  [Abstract!Next]_(Abstract!vars)
    BY <1>1, <2>4, RegisterCall, RegisterDie
  <2> QED BY <1>1, <2>1, <2>3, <2>4 DEF Next
<1> QED BY <1>1, RegisterInit, StateFilesInvariant, PTL DEF Spec, ImplementsRegister, Abstract!Spec
=============================================================================
